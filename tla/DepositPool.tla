----------------------------- MODULE DepositPool -----------------------------
(***************************************************************************)
(* The deposits as their spenders see them (staticaddr/deposit/manager.go) *)
(* and the chain: states in memory and in the store, the active and the    *)
(* held deposits, and the transactions that spend them.  TransitionDeposits*)
(* is one step here, since it holds the locks of all its deposits; the     *)
(* state machine of a deposit is in Deposit.                               *)
(***************************************************************************)
EXTENDS Integers, FiniteSets, DepositStates

CONSTANTS
    NumDeposits,
    Shared,     \* the deposits that other users may take
    MaxTx,      \* bound on the transactions created
    MaxFaults   \* bound on failing calls, stops, evictions, reorganisations

ASSUME PoolAssumption ==
    NumDeposits \in Nat \ {0} /\ Shared \subseteq 1 .. NumDeposits /\ MaxTx \in Nat \ {0} /\ MaxFaults \in Nat

Deposits == 1 .. NumDeposits

VARIABLES
    dep,     \* the state of each deposit
    dbDep,   \* its stored state
    ftx,     \* Deposit.FinalizedWithdrawalTx
    dbTx,    \* the stored one
    active,  \* activeDeposits
    held,    \* activeDepositHolds
    made,    \* transactions created so far
    bcast,   \* the ones that the wallet has broadcast
    pool,    \* the ones in the mempool of a miner
    mined,   \* the ones in a block
    deep,    \* the ones with MinConfs confirmations
    up,      \* the daemon runs
    lapsed,  \* bookkeeping: a spender gave up a deposit until the next start
    faults

statevars == <<dep, dbDep, dbTx>>
depvars == <<statevars, ftx, active, held>>
chainvars == <<bcast, pool, mined, deep>>

NoTx == [kind |-> "none", ins |-> {}, addr |-> 0, n |-> 0]
Txs == [kind : {"withdraw", "channel"}, ins : (SUBSET Deposits) \ {{}},
        addr : 0 .. MaxTx, n : 1 .. MaxTx]

PoolInit ==
    /\ dep = [d \in Deposits |-> "Deposited"] /\ dbDep = dep
    /\ ftx = [d \in Deposits |-> NoTx] /\ dbTx = ftx
    /\ active = Deposits /\ held = {}
    /\ made = 0 /\ bcast = {} /\ pool = {} /\ mined = {} /\ deep = {}
    /\ up = TRUE /\ lapsed = FALSE /\ faults = 0

Fault ==
    /\ faults < MaxFaults
    /\ faults' = faults + 1

First(D) == CHOOSE d \in D : \A e \in D : d <= e
-----------------------------------------------------------------------------
(***************************************************************************)
(* The wallet and the chain.                                               *)
(***************************************************************************)
Unspent(d) == \A t \in bcast : d \notin t.ins
Conflict(t, T) == \E u \in T : u # t /\ u.ins \cap t.ins # {}

\* PublishTransaction accepts the transaction.
Publishes(t) ==
    /\ ~ Conflict(t, mined)
    /\ bcast' = bcast \cup {t} /\ pool' = pool \cup {t}
    /\ UNCHANGED <<mined, deep, faults>>

\* The errors that publishFinalizedWithdrawalTx does not return.
PublishRefused(t) ==
    /\ t \in pool \cup mined \/ Conflict(t, pool \cup mined)
    /\ UNCHANGED <<chainvars, faults>>

\* Any other error; the transaction may be on its way all the same.
PublishFails(t) ==
    /\ Fault
    /\ \/ UNCHANGED chainvars
       \/ /\ ~ Conflict(t, mined)
          /\ bcast' = bcast \cup {t} /\ pool' = pool \cup {t}
          /\ UNCHANGED <<mined, deep>>

Mine(t) ==
    /\ t \in pool \ mined
    /\ ~ Conflict(t, mined)
    /\ mined' = mined \cup {t}
    /\ UNCHANGED <<depvars, made, bcast, pool, deep, up, lapsed, faults>>

Deepen(t) ==
    /\ t \in mined \ deep
    /\ deep' = deep \cup {t}
    /\ UNCHANGED <<depvars, made, bcast, pool, mined, up, lapsed, faults>>

Reorg(t) ==
    /\ t \in mined \ deep
    /\ Fault
    /\ mined' = mined \ {t}
    /\ UNCHANGED <<depvars, made, bcast, pool, deep, up, lapsed>>

Evict(t) ==
    /\ t \in pool \ mined
    /\ Fault
    /\ pool' = pool \ {t}
    /\ UNCHANGED <<depvars, made, bcast, mined, deep, up, lapsed>>

Chain == \E t \in pool : Mine(t) \/ Deepen(t) \/ Reorg(t) \/ Evict(t)
-----------------------------------------------------------------------------
(***************************************************************************)
(* The deposit manager.                                                    *)
(***************************************************************************)

\* syncActiveDeposits: what the wallet shows again becomes active, what it does
\* not show any more is dropped, unless a withdrawal holds it.
Fresh ==
    {d \in active : dep[d] # "Deposited" \/ d \in held \/ Unspent(d)}
    \cup {d \in Deposits : dep[d] = "Deposited" /\ Unspent(d)}

ReconcileDeposits ==
    /\ up
    /\ active' = Fresh
    /\ UNCHANGED <<statevars, ftx, held, made, chainvars, up, lapsed, faults>>

\* AllOutpointsActiveDeposits, on a fresh set of active deposits.
AllActive(D, s) ==
    /\ D # {}
    /\ \A d \in D : /\ d \in Fresh /\ dep[d] = s
                    /\ s = "Deposited" => d \notin held

\* The deposits of K have moved to their targets; updateDeposit stores state and
\* withdrawal transaction, and only logs a failure.  A deposit in a final state
\* is refused by every user, and leaves the active ones.
Moved(K, target) ==
    /\ active' = active \ {d \in K : target[d] \in Final}
    /\ dep' = [d \in Deposits |-> IF d \in K THEN target[d] ELSE dep[d]]
    /\ \E W \in SUBSET K :
         /\ dbDep' = [d \in Deposits |-> IF d \in W THEN target[d] ELSE dbDep[d]]
         /\ dbTx' = [d \in Deposits |-> IF d \in W THEN ftx'[d] ELSE dbTx[d]]
         /\ \/ W = K /\ UNCHANGED faults
            \/ Cardinality(K \ W) = 1 /\ Fault

To(t) == [d \in Deposits |-> t]
Moves(d, e, t) ==
    dep[d] = t \/ (Accepts(dep[d], e) /\ NextState(dep[d], e) = t)
Movable(D) == \A d \in D : d \in active /\ dep[d] \notin Final

\* The deposits are moved one after the other.
TransitionDeposits(D, e, t) ==
    /\ Movable(D)
    /\ \A d \in D : Moves(d, e, t)
    /\ Moved({d \in D : dep[d] # t}, To(t))

\* The first failure leaves the earlier deposits moved.
TransitionDepositsFails(D, e, t) ==
    \/ ~ Movable(D) /\ UNCHANGED <<statevars, active, faults>>
    \/ /\ Movable(D)
       /\ \E k \in D :
            /\ ~ Moves(k, e, t)
            /\ \A d \in D : d < k => Moves(d, e, t)
            /\ Moved({d \in D : d < k /\ dep[d] # t}, To(t))
    \/ /\ Movable(D)
       /\ Fault
       /\ UNCHANGED <<statevars, active>>

\* Another user of deposits, such as a loop-in that selected this one before,
\* takes it or returns it.
OtherTakes(d) ==
    /\ up
    /\ UNCHANGED ftx
    /\ TransitionDeposits({d}, "OnLoopInInitiated", "LoopingIn")
    /\ UNCHANGED <<held, made, chainvars, up, lapsed>>

OtherReturns(d) ==
    /\ up
    /\ dep[d] = "LoopingIn"
    /\ UNCHANGED ftx
    /\ TransitionDeposits({d}, "OnError", "Deposited")
    /\ UNCHANGED <<held, made, chainvars, up, lapsed>>

PoolStep ==
    \/ Chain \/ ReconcileDeposits
    \/ \E d \in Shared : OtherTakes(d) \/ OtherReturns(d)

\* recoverDeposits
RecoverDeposits ==
    /\ dep' = dbDep /\ ftx' = dbTx
    /\ active' = {d \in Deposits : dbDep[d] \notin Final}
    /\ held' = {} /\ lapsed' = FALSE
=============================================================================
