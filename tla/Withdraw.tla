------------------------------ MODULE Withdraw ------------------------------
(***************************************************************************)
(* The withdrawal manager (staticaddr/withdraw/manager.go): a request is   *)
(* signed with the server, published while its deposits are held, watched  *)
(* by a goroutine, attached to the deposits and stored.  A request for     *)
(* deposits that are being withdrawn replaces their transaction by one     *)
(* with a higher fee.  Requests are served one at a time.                  *)
(***************************************************************************)
EXTENDS DepositPool

VARIABLES
    wpc,       \* where the request is
    wset,      \* its deposits
    wtx,       \* finalizedTx
    bump,      \* the request is a fee bump
    unstored,  \* deposits that UpdateDeposit has yet to store
    republish, \* finalizedWithdrawalTxns
    monitors,  \* goroutines of handleWithdrawal
    rows       \* the stored withdrawal of each deposit

wvars == <<wpc, wset, wtx, bump, unstored, republish, monitors, rows>>

WithdrawInit ==
    /\ wpc = "idle" /\ wset = {} /\ wtx = NoTx /\ bump = FALSE
    /\ unstored = {} /\ republish = {} /\ monitors = {}
    /\ rows = [d \in Deposits |-> "none"]

\* Mutant: an error of UpdateDeposit leaves deposits to store.
WithdrawIdleKeeps ==
    /\ wpc' = "idle" /\ wset' = {} /\ wtx' = NoTx /\ bump' = FALSE
    /\ UNCHANGED unstored

WithdrawIdle ==
    /\ wpc' = "idle" /\ wset' = {} /\ wtx' = NoTx /\ bump' = FALSE
    /\ unstored' = {}

Release == held' = {}

\* The return of WithdrawDeposits, which releases the hold.
WithdrawReturns == WithdrawIdle /\ Release

Goto(p) == wpc' = p /\ UNCHANGED <<wset, wtx, bump, unstored>>

\* Mutant: part of a withdrawal may be bumped.
SameClusterPart(D) ==
    /\ \A d, e \in D : ftx[d] = ftx[e]
    /\ \A d \in D : ftx[d] # NoTx

\* The transaction that all deposits of a fee bump reference, and exactly they.
SameCluster(D) ==
    /\ \A d, e \in D : ftx[d] = ftx[e]
    /\ \A d \in D : ftx[d] # NoTx /\ ftx[d].ins = D

\* Mutant: a fee bump pays to a new address.
WithdrawalAddressNew(D) == made + 1

\* A fee bump pays to the address of the transaction it replaces; other
\* withdrawals pay to an address of their own, named by their transaction.
WithdrawalAddress(D) ==
    IF dep[First(D)] = "Deposited" THEN made + 1 ELSE ftx[First(D)].addr

WithdrawRequest(D) ==
    /\ up
    /\ wpc = "idle"
    /\ made < MaxTx
    /\ active' = Fresh
    /\ \/ AllActive(D, "Deposited") /\ bump' = FALSE
       \/ AllActive(D, "Withdrawing") /\ SameCluster(D) /\ bump' = TRUE
    /\ made' = made + 1
    /\ wtx' = [kind |-> "withdraw", ins |-> D,
               addr |-> WithdrawalAddress(D), n |-> made + 1]
    /\ wset' = D
    /\ wpc' = "sign"
    /\ UNCHANGED <<statevars, ftx, held, chainvars, up, lapsed, faults,
                   unstored, republish, monitors, rows>>

\* CreateFinalizedWithdrawalTx may fail; then HoldActiveDeposits, which only
\* asks that the deposits are active.
HoldActiveDeposits ==
    /\ wpc = "sign"
    /\ \/ wset \subseteq active /\ held' = wset /\ Goto("publish")
       \/ WithdrawIdle /\ UNCHANGED held
    /\ UNCHANGED <<statevars, ftx, active, made, chainvars, up, lapsed, faults,
                   republish, monitors, rows>>

\* A transaction that was not accepted ends the request without an error.
PublishFinalizedWithdrawalTx ==
    /\ wpc = "publish"
    /\ \/ /\ Publishes(wtx)
          /\ Goto(IF bump THEN "attach" ELSE "watch")
          /\ UNCHANGED held
       \/ (PublishRefused(wtx) \/ PublishFails(wtx)) /\ WithdrawReturns
    /\ UNCHANGED <<statevars, ftx, active, made, up, lapsed, republish,
                   monitors, rows>>

Monitor(D, t) == [ds |-> D, tx |-> t, spender |-> NoTx, at |-> "spend"]

CreateWithdrawal ==
    rows' = [d \in Deposits |-> IF d \in wset THEN "open" ELSE rows[d]]

Watch ==
    /\ monitors' = monitors \cup {Monitor(wset, wtx)}
    /\ Goto("attach")
    /\ UNCHANGED held

\* CreateWithdrawal, whose failure is logged, and handleWithdrawal, whose
\* failure is returned.
HandleWithdrawal ==
    /\ wpc = "watch"
    /\ \/ CreateWithdrawal /\ Watch /\ UNCHANGED faults
       \/ Fault /\ UNCHANGED rows /\ Watch
       \/ Fault /\ CreateWithdrawal /\ WithdrawReturns /\ UNCHANGED monitors
    /\ UNCHANGED <<statevars, ftx, active, made, chainvars, up, lapsed,
                   republish>>

\* Mutant: the deposits are moved before they reference the transaction.
AttachWithdrawalLate ==
    /\ wpc = "attach"
    /\ ftx' = ftx
    /\ republish' = (republish \ {ftx[First(wset)]}) \cup {wtx}
    /\ TransitionDeposits(wset, "OnWithdrawInitiated", "Withdrawing")
    /\ wpc' = "store" /\ unstored' = wset
    /\ UNCHANGED <<wset, wtx, bump, held>>
    /\ UNCHANGED <<made, chainvars, up, lapsed, monitors, rows>>

\* The replaced transaction is not republished any more, the new one is, and
\* the deposits reference it.
AttachWithdrawal ==
    /\ wpc = "attach"
    /\ ftx' = [d \in Deposits |-> IF d \in wset THEN wtx ELSE ftx[d]]
    /\ republish' = (republish \ {ftx[First(wset)]}) \cup {wtx}
    /\ \/ /\ TransitionDeposits(wset, "OnWithdrawInitiated", "Withdrawing")
          /\ wpc' = "store" /\ unstored' = wset
          /\ UNCHANGED <<wset, wtx, bump, held>>
       \/ /\ TransitionDepositsFails(wset, "OnWithdrawInitiated", "Withdrawing")
          /\ WithdrawReturns
    /\ UNCHANGED <<made, chainvars, up, lapsed, monitors, rows>>

\* UpdateDeposit, deposit by deposit.
StoreDeposit ==
    /\ wpc = "store"
    /\ LET d == First(unstored) IN
       \/ /\ dbDep' = [dbDep EXCEPT ![d] = dep[d]]
          /\ dbTx' = [dbTx EXCEPT ![d] = ftx[d]]
          /\ IF unstored = {d} THEN WithdrawReturns
             ELSE /\ unstored' = unstored \ {d}
                  /\ UNCHANGED <<wpc, wset, wtx, bump, held>>
          /\ UNCHANGED faults
       \/ Fault /\ WithdrawReturns /\ UNCHANGED <<dbDep, dbTx>>
    /\ UNCHANGED <<dep, ftx, active, made, chainvars, up, lapsed, republish,
                   monitors, rows>>

WithdrawStep ==
    \/ HoldActiveDeposits \/ PublishFinalizedWithdrawalTx \/ HandleWithdrawal
    \/ AttachWithdrawal \/ StoreDeposit
-----------------------------------------------------------------------------
(***************************************************************************)
(* The goroutine of handleWithdrawal.                                      *)
(***************************************************************************)
Becomes(m, n) == monitors' = (monitors \ {m}) \cup {n}

\* An error of a subscription ends it.
GivesUp(m) == Fault /\ monitors' = monitors \ {m} /\ lapsed' = TRUE

\* The first deposit is spent, by whatever transaction.
SpendSeen(m) ==
    /\ m.at = "spend"
    /\ \/ \E t \in mined :
            /\ First(m.ds) \in t.ins
            /\ Becomes(m, [m EXCEPT !.spender = t, !.at = "conf"])
            /\ UNCHANGED <<lapsed, faults>>
       \/ GivesUp(m)
    /\ UNCHANGED <<depvars, made, chainvars, up, wpc, wset, wtx, bump, unstored,
                   republish, rows>>

\* Mutant: every spend of the deposits completes the withdrawal.
PaysAny(t, m) == TRUE

\* The confirmation is registered for the spender and the script of the
\* withdrawal.
PaysWithdrawal(t, m) == t.kind = "withdraw" /\ t.addr = m.tx.addr

ConfirmationSeen(m) ==
    /\ m.at = "conf"
    /\ \/ /\ m.spender \in deep /\ PaysWithdrawal(m.spender, m)
          /\ Becomes(m, [m EXCEPT !.at = "record"])
          /\ UNCHANGED ftx
          /\ \/ /\ TransitionDeposits(m.ds, "OnWithdrawn", "Withdrawn")
                /\ UNCHANGED lapsed
             \/ /\ TransitionDepositsFails(m.ds, "OnWithdrawn", "Withdrawn")
                /\ lapsed' = TRUE
       \/ GivesUp(m) /\ UNCHANGED <<statevars, ftx, active>>
    /\ UNCHANGED <<held, made, chainvars, up, wpc, wset, wtx, bump,
                   unstored, republish, rows>>

\* The withdrawal is not republished any more, and its row is completed.
RecordWithdrawal(m) ==
    /\ m.at = "record"
    /\ republish' = republish \ {m.tx}
    /\ \/ /\ rows' = [d \in Deposits |-> IF d \in m.ds /\ rows[d] = "open"
                                         THEN "done" ELSE rows[d]]
          /\ UNCHANGED faults
       \/ Fault /\ UNCHANGED rows
    /\ monitors' = monitors \ {m}
    /\ UNCHANGED <<depvars, made, chainvars, up, lapsed, wpc, wset, wtx, bump,
                   unstored>>

MonitorStep ==
    \E m \in monitors : SpendSeen(m) \/ ConfirmationSeen(m) \/ RecordWithdrawal(m)
-----------------------------------------------------------------------------
\* republishWithdrawals, on a block: the first error ends it.
RepublishWithdrawals ==
    /\ up
    /\ wpc = "idle"
    /\ \E R \in SUBSET republish :
         /\ pool' = pool \cup {t \in R : ~ Conflict(t, mined)}
         /\ \/ R = republish /\ UNCHANGED faults
            \/ R # republish /\ Fault
    /\ UNCHANGED <<depvars, made, bcast, mined, deep, up, lapsed, wvars>>

\* recoverWithdrawals: the Withdrawing deposits, grouped by transaction.
Groups == {ftx[d] : d \in {e \in active : dep[e] = "Withdrawing"}} \ {NoTx}
GroupOf(t) == {d \in active : dep[d] = "Withdrawing" /\ ftx[d] = t}

RecoverWithdrawals ==
    /\ up
    /\ wpc = "recover"
    /\ pool' = pool \cup {t \in Groups : ~ Conflict(t, mined)}
    /\ monitors' = {Monitor(GroupOf(t), t) : t \in Groups}
    /\ republish' = Groups
    /\ wpc' = "idle"
    /\ UNCHANGED <<depvars, made, bcast, mined, deep, up, lapsed, faults, wset,
                   wtx, bump, unstored, rows>>

WithdrawStops ==
    /\ wpc' = "recover" /\ wset' = {} /\ wtx' = NoTx /\ bump' = FALSE
    /\ unstored' = {} /\ republish' = {} /\ monitors' = {}
    /\ UNCHANGED rows

WithdrawNext ==
    \/ \E D \in SUBSET Deposits : WithdrawRequest(D)
    \/ WithdrawStep \/ MonitorStep \/ RepublishWithdrawals \/ RecoverWithdrawals
=============================================================================
