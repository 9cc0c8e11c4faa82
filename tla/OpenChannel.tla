----------------------------- MODULE OpenChannel -----------------------------
(***************************************************************************)
(* The opening of a channel from deposits (staticaddr/openchannel): the    *)
(* deposits are locked, lnd and the client fund the channel by a PSBT that *)
(* the server co-signs, and lnd publishes the funding transaction once it  *)
(* has it.  Requests are served one at a time.                             *)
(***************************************************************************)
EXTENDS DepositPool

VARIABLES
    opc,    \* where the request is
    oset,   \* its deposits
    otx,    \* its funding transaction
    lndTxs  \* external: the finalized transactions that lnd may publish

ovars == <<opc, oset, otx, lndTxs>>

OpenInit == opc = "idle" /\ oset = {} /\ otx = NoTx /\ lndTxs = {}

OpenReturns == opc' = "idle" /\ oset' = {} /\ otx' = NoTx

\* The checks and the selection of OpenChannel.
OpenRequest(D) ==
    /\ up
    /\ opc = "idle"
    /\ made < MaxTx
    /\ active' = Fresh
    /\ AllActive(D, "Deposited")
    /\ made' = made + 1
    /\ otx' = [kind |-> "channel", ins |-> D, addr |-> 0, n |-> made + 1]
    /\ oset' = D
    /\ opc' = "lock"
    /\ UNCHANGED <<statevars, ftx, held, chainvars, up, lapsed, faults, lndTxs>>

\* Deposits that were moved before the first failure stay in OpeningChannel.
LockOpening ==
    /\ opc = "lock"
    /\ UNCHANGED ftx
    /\ \/ /\ TransitionDeposits(oset, "OnOpeningChannel", "OpeningChannel")
          /\ opc' = "psbt"
          /\ UNCHANGED <<oset, otx, lapsed>>
       \/ /\ TransitionDepositsFails(oset, "OnOpeningChannel", "OpeningChannel")
          /\ lapsed' = TRUE
          /\ OpenReturns
    /\ UNCHANGED <<held, made, chainvars, up, lndTxs>>

\* Mutant: a failed opening leaves its deposits locked.
RollBackNot ==
    /\ OpenReturns
    /\ UNCHANGED <<statevars, ftx, active, lapsed, faults>>

\* The deposits of a failed opening return to Deposited; a failure is logged.
RollBack ==
    /\ OpenReturns
    /\ UNCHANGED ftx
    /\ \/ /\ TransitionDeposits(oset, "OnError", "Deposited")
          /\ UNCHANGED lapsed
       \/ /\ TransitionDepositsFails(oset, "OnError", "Deposited")
          /\ lapsed' = TRUE

\* lnd asks for the funding transaction: the client creates it with the server
\* and has lnd verify and finalize it.  The last call may fail after lnd has
\* handled it.
PsbtFund ==
    /\ opc = "psbt"
    /\ \/ /\ lndTxs' = lndTxs \cup {otx}
          /\ opc' = "finalized"
          /\ UNCHANGED <<statevars, ftx, active, oset, otx, lapsed, faults>>
       \/ /\ lndTxs' \in {lndTxs, lndTxs \cup {otx}}
          /\ RollBack
    /\ UNCHANGED <<held, made, chainvars, up>>

\* recoverOpeningChannelDeposits: an input that the wallet still lists was not
\* spent, and the deposit is returned; the others are published.
Opening == {d \in active : dep[d] = "OpeningChannel"}

Resolved ==
    [d \in Deposits |-> IF Unspent(d) THEN "Deposited" ELSE "ChannelPublished"]

RecoverOpeningChannelDeposits ==
    UNCHANGED ftx /\ Moved(Opening, Resolved)

\* The unspent ones are moved first.
RecoverOpeningFails ==
    /\ \E K \in {{}, {d \in Opening : Unspent(d)}} :
         /\ K # Opening
         /\ dep' = [d \in Deposits |-> IF d \in K THEN "Deposited" ELSE dep[d]]
         /\ dbDep' = [d \in Deposits |->
                        IF d \in K THEN "Deposited" ELSE dbDep[d]]
         /\ dbTx' = [d \in Deposits |-> IF d \in K THEN ftx[d] ELSE dbTx[d]]
    /\ Fault
    /\ lapsed' = TRUE
    /\ UNCHANGED <<ftx, active>>

\* The stream ends: before the PSBT was finalized the deposits are rolled back,
\* afterwards the wallet decides.
StreamFails ==
    /\ \/ opc = "psbt" /\ RollBack
       \/ /\ opc = "finalized"
          /\ OpenReturns
          /\ \/ RecoverOpeningChannelDeposits /\ UNCHANGED lapsed
             \/ RecoverOpeningFails
    /\ UNCHANGED <<held, made, chainvars, up, lndTxs>>

\* lnd reports the channel as pending; a failed transition is logged.
ChanPending ==
    /\ opc = "finalized"
    /\ otx \in bcast
    /\ OpenReturns
    /\ UNCHANGED ftx
    /\ \/ /\ TransitionDeposits(oset, "OnChannelPublished", "ChannelPublished")
          /\ UNCHANGED lapsed
       \/ /\ TransitionDepositsFails(oset, "OnChannelPublished",
                                     "ChannelPublished")
          /\ lapsed' = TRUE
    /\ UNCHANGED <<held, made, chainvars, up, lndTxs>>

\* External: lnd publishes a finalized transaction, or abandons it.
LndPublishes(t) ==
    /\ t \in lndTxs
    /\ lndTxs' = lndTxs \ {t}
    /\ \/ Publishes(t)
       \/ UNCHANGED <<chainvars, faults>>
    /\ UNCHANGED <<depvars, made, up, lapsed, opc, oset, otx>>

\* Run starts with the recovery, whose failure ends the daemon.
RecoverOpening ==
    /\ up
    /\ opc = "recover"
    /\ RecoverOpeningChannelDeposits
    /\ OpenReturns
    /\ UNCHANGED <<held, made, chainvars, up, lapsed, lndTxs>>

OpenStops ==
    /\ opc' = "recover" /\ oset' = {} /\ otx' = NoTx
    /\ UNCHANGED lndTxs

OpenStep == LockOpening \/ PsbtFund \/ StreamFails \/ ChanPending

OpenNext ==
    \/ \E D \in SUBSET Deposits : OpenRequest(D)
    \/ OpenStep \/ RecoverOpening
    \/ \E t \in lndTxs : LndPublishes(t)
=============================================================================
