------------------------------- MODULE Deposit -------------------------------
(***************************************************************************)
(* A deposit to a static address (staticaddr/deposit, fsm/fsm.go): its     *)
(* state machines, the goroutines that send them events, the callers of    *)
(* TransitionDeposits (withdrawal, loop-in, channel opening), and the      *)
(* manager that activates and deactivates the deposit as the wallet sees   *)
(* it.  Two locks are involved: the lock of the deposit and, for each      *)
(* state machine, the mutex that SendEvent holds while events are handled. *)
(* A deposit that vanished from the wallet and came back has a new state   *)
(* machine, while goroutines of the old one may still run.                 *)
(***************************************************************************)
EXTENDS Integers, Functions, DepositStates

CONSTANTS
    Senders,    \* goroutines that send OnStart, OnRecover and OnExpiry
    Callers,    \* callers of TransitionDeposits
    NoProc,
    MaxFsms,    \* bound on the state machines created
    MaxFaults   \* bound on restarts, failing calls and lost sights

ASSUME ProcsAssumption == NoProc \notin Senders \cup Callers
ASSUME DisjointAssumption == Senders \cap Callers = {}
ASSUME MaxFsmsAssumption == MaxFsms \in Nat \ {0}
ASSUME MaxFaultsAssumption == MaxFaults \in Nat

Procs == Senders \cup Callers
Fsms == 1 .. MaxFsms

VARIABLES
    dstate,   \* Deposit.state
    db,       \* the stored state
    lock,     \* who holds Deposit.Mutex
    mutex,    \* who holds StateMachine.mutex, for each machine
    current,  \* StateMachine.current
    previous, \* StateMachine.previous
    gens,     \* the machines created so far
    active,   \* the machine in activeDeposits, or 0
    starting, \* the machine startDepositFsm waits for, or 0
    finalized, \* the deposit is in finalizedDepositChan
    vanished, \* has the wallet ever lost sight of the deposit
    held,     \* activeDepositHolds has the deposit
    pc, on, ev,     \* each goroutine's step, machine and event
    up,       \* does the daemon run
    signed,   \* has a transaction of a manager been signed to spend it
    late,     \* has the deposit's expiry height passed
    sweepTx,  \* has the expiry sweep been broadcast
    spent,    \* what spent the deposit on chain
    faults

dvars == <<dstate, db, lock>>
smvars == <<mutex, current, previous, gens>>
mgrvars == <<active, starting, finalized, vanished, held>>
procvars == <<pc, on, ev>>
chainvars == <<signed, late, sweepTx, spent>>
vars == <<dvars, smvars, mgrvars, procvars, up, chainvars, faults>>


-----------------------------------------------------------------------------
\* A new deposit has been stored, and startDepositFsm has spawned its OnStart.
Init ==
    /\ dstate = "Deposited" /\ db = "Deposited" /\ lock = NoProc
    /\ mutex = [g \in Fsms |-> NoProc]
    /\ current = [g \in Fsms |-> "Empty"]
    /\ previous = [g \in Fsms |-> "Empty"]
    /\ gens = 1 /\ active = 0 /\ starting = 1
    /\ finalized = FALSE /\ vanished = FALSE /\ held = FALSE
    /\ \E s \in Senders :
         pc = [p \in Procs |-> IF p = s THEN "mutex" ELSE "idle"]
    /\ on = [p \in Procs |-> 1]
    /\ ev = [p \in Procs |-> "OnStart"]
    /\ up = TRUE
    /\ signed = FALSE /\ late = FALSE /\ sweepTx = FALSE /\ spent = "no"
    /\ faults = 0

Fault ==
    /\ faults < MaxFaults
    /\ faults' = faults + 1

-----------------------------------------------------------------------------
(***************************************************************************)
(* StateMachine.SendEvent, in the goroutine p.                             *)
(***************************************************************************)
Spawn(s, g, e) ==
    /\ pc[s] = "idle"
    /\ pc' = [pc EXCEPT ![s] = "mutex"]
    /\ on' = [on EXCEPT ![s] = g]
    /\ ev' = [ev EXCEPT ![s] = e]

\* SendEvent returns: a caller goes on to unlock the deposit.
Return(p) ==
    /\ mutex' = [mutex EXCEPT ![on[p]] = NoProc]
    /\ pc' = [pc EXCEPT ![p] = IF p \in Callers THEN "unlock" ELSE "idle"]

AcquireMutex(p) ==
    /\ pc[p] = "mutex"
    /\ mutex[on[p]] = NoProc
    /\ mutex' = [mutex EXCEPT ![on[p]] = p]
    /\ pc' = [pc EXCEPT ![p] = "next"]
    /\ UNCHANGED <<dvars, current, previous, gens, mgrvars, on, ev, up,
                   chainvars, faults>>

\* getNextState, and the notification of the observers.
GetNextState(p) ==
    /\ pc[p] = "next"
    /\ IF Accepts(current[on[p]], ev[p])
       THEN /\ previous' = [previous EXCEPT ![on[p]] = current[on[p]]]
            /\ current' = [current EXCEPT
                             ![on[p]] = NextState(current[on[p]], ev[p])]
            /\ pc' = [pc EXCEPT ![p] = "entry"]
            /\ UNCHANGED mutex
       ELSE Return(p) /\ UNCHANGED <<current, previous>>
    /\ UNCHANGED <<dvars, gens, mgrvars, on, ev, up, chainvars, faults>>

UpdateSkipped(prev, next) ==
    \/ prev = "Empty" /\ next = "Deposited"
    \/ prev = next

\* updateDeposit: a failed write is only logged.
UpdateDeposit(p) ==
    /\ pc[p] = "entry"
    /\ ev[p] \in lockedEvents \/ lock = NoProc
    /\ dstate' = current[on[p]]
    /\ IF UpdateSkipped(previous[on[p]], dstate')
       THEN UNCHANGED <<db, faults>>
       ELSE \/ db' = dstate' /\ UNCHANGED faults
            \/ Fault /\ UNCHANGED db
    /\ pc' = [pc EXCEPT ![p] = "action"]
    /\ UNCHANGED <<lock, smvars, mgrvars, on, ev, up, chainvars>>

\* The action of the state returns the next event.
Continue(p, e) ==
    /\ ev' = [ev EXCEPT ![p] = e]
    /\ pc' = [pc EXCEPT ![p] = "next"]
    /\ UNCHANGED <<dvars, smvars, mgrvars, on, up, signed, late, spent>>

\* PublishDepositExpirySweepAction: an output that is already spent counts as
\* published.
PublishExpirySweep(p) ==
    /\ pc[p] = "action"
    /\ current[on[p]] = "PublishExpirySweep"
    /\ \/ /\ sweepTx' = (sweepTx \/ spent = "no")
          /\ Continue(p, "OnExpiryPublished")
          /\ UNCHANGED faults
       \/ Fault /\ UNCHANGED sweepTx /\ Continue(p, "OnError")

\* Mutant: every spend of the deposit counts as its expiry sweep.
ExpirySweepConfirmedAny == spent # "no"

ExpirySweepConfirmed == spent = "expiry"

\* WaitForExpirySweepAction reads the confirmation height, under the lock of
\* the deposit, and registers for the confirmation.
RegisterConfirmation(p) ==
    /\ pc[p] = "action"
    /\ current[on[p]] = "WaitForExpirySweep"
    /\ lock = NoProc
    /\ pc' = [pc EXCEPT ![p] = "wait"]
    /\ UNCHANGED <<dvars, smvars, mgrvars, on, ev, up, chainvars, faults>>

\* It waits with the mutex held.  Registering and waiting may fail.
WaitForExpirySweep(p) ==
    /\ pc[p] = "wait"
    /\ \/ /\ ExpirySweepConfirmed
          /\ Continue(p, "OnExpirySwept")
          /\ UNCHANGED faults
       \/ Fault /\ Continue(p, "OnError")
    /\ UNCHANGED sweepTx

\* NoOpAction and FinalizeDepositAction end the event.
EndEvent(p) ==
    /\ pc[p] = "action"
    /\ current[on[p]] \notin {"PublishExpirySweep", "WaitForExpirySweep"}
    /\ finalized' = (finalized \/ current[on[p]] \in Final)
    /\ Return(p)
    /\ UNCHANGED <<dvars, current, previous, gens, active, starting, vanished,
                   held, on, ev, up, chainvars, faults>>

-----------------------------------------------------------------------------
(***************************************************************************)
(* TransitionDeposits.                                                     *)
(***************************************************************************)

\* A manager calls it for an active deposit in a state it selected before.  A
\* withdrawal holds the deposit, which hides it from other selections, and has
\* confirmed when OnWithdrawn is sent.
Transition(c, e) ==
    /\ up
    /\ pc[c] = "idle"
    /\ active # 0
    /\ lock = NoProc
    /\ Accepts(dstate, e)
    /\ e = "OnError" => dstate \notin {"PublishExpirySweep",
                                       "WaitForExpirySweep"}
    /\ e = "OnWithdrawn" => spent = "other"
    /\ e = "OnWithdrawInitiated" => held \/ dstate = "Withdrawing"
    /\ held /\ dstate = "Deposited" => e \notin {"OnLoopInInitiated",
                                               "OnOpeningChannel"}
    /\ pc' = [pc EXCEPT ![c] = "lock"]
    /\ on' = [on EXCEPT ![c] = active]
    /\ ev' = [ev EXCEPT ![c] = e]
    /\ signed' = TRUE
    /\ UNCHANGED <<dvars, smvars, mgrvars, up, late, sweepTx, spent, faults>>

\* lockDeposits, and the checks under the lock.
LockDeposit(c) ==
    /\ pc[c] = "lock"
    /\ lock = NoProc
    /\ lock' = c
    /\ pc' = [pc EXCEPT ![c] = IF dstate \in Final \cup {Target(ev[c])}
                               THEN "unlock" ELSE "mutex"]
    /\ UNCHANGED <<dstate, db, smvars, mgrvars, on, ev, up, chainvars, faults>>

UnlockDeposit(c) ==
    /\ pc[c] = "unlock"
    /\ lock' = NoProc
    /\ pc' = [pc EXCEPT ![c] = "idle"]
    /\ UNCHANGED <<dstate, db, smvars, mgrvars, on, ev, up, chainvars, faults>>

\* WithdrawDeposits holds the deposit from before the publication of the
\* withdrawal until it is transitioned, or the publication fails.  It checked the
\* state earlier, before the withdrawal was signed.
HoldActiveDeposit(c) ==
    /\ up
    /\ pc[c] = "idle"
    /\ ~ held
    /\ active # 0
    /\ held' = TRUE
    /\ signed' = TRUE
    /\ UNCHANGED <<dvars, smvars, active, starting, finalized, vanished,
                   procvars, up, late, sweepTx, spent, faults>>

Release ==
    /\ held
    /\ \A c \in Callers : pc[c] = "idle" \/ ev[c] # "OnWithdrawInitiated"
    /\ held' = FALSE
    /\ UNCHANGED <<dvars, smvars, active, starting, finalized, vanished,
                   procvars, up, chainvars, faults>>

-----------------------------------------------------------------------------
(***************************************************************************)
(* The manager: block notifications, and the reconciliation of the active  *)
(* deposit with what the wallet sees.                                      *)
(***************************************************************************)

IsExpired == late

\* notifyActiveDeposits passes over a held deposit.
Notified == active # 0 /\ ~ (held /\ dstate = "Deposited")

\* The loop of the FSM handles a block.
HandleBlockNotification(s) ==
    /\ up
    /\ Notified
    /\ lock = NoProc
    /\ dstate \notin Final
    /\ IsExpired
    /\ IF dstate = "WaitForExpirySweep"
       THEN /\ sweepTx' = (sweepTx \/ spent = "no")
            /\ UNCHANGED procvars
       ELSE Spawn(s, active, "OnExpiry") /\ UNCHANGED sweepTx
    /\ UNCHANGED <<dvars, smvars, mgrvars, up, signed, late, spent, faults>>

\* syncActiveDeposits: the wallet does not see the deposit any more.
Deactivate ==
    /\ up
    /\ active # 0
    /\ ~ held
    /\ lock = NoProc
    /\ dstate = "Deposited"
    /\ Fault
    /\ active' = 0
    /\ vanished' = TRUE
    /\ UNCHANGED <<dvars, smvars, starting, finalized, held, procvars, up,
                   chainvars>>

\* syncActiveDeposits: the wallet sees the deposit again (startDepositFsm).
Reactivate(s) ==
    /\ up
    /\ active = 0 /\ starting = 0
    /\ lock = NoProc
    /\ dstate = "Deposited"
    /\ gens < MaxFsms
    /\ gens' = gens + 1
    /\ starting' = gens'
    /\ Spawn(s, gens', "OnStart")
    /\ UNCHANGED <<dvars, mutex, current, previous, active, finalized,
                   vanished, held, up, chainvars, faults>>

\* startDepositFsm saw the notification of the Deposited state.
Started ==
    /\ up
    /\ starting # 0
    /\ current[starting] = "Deposited"
    /\ active' = starting
    /\ starting' = 0
    /\ UNCHANGED <<dvars, smvars, finalized, vanished, held, procvars, up,
                   chainvars, faults>>

\* A finalized deposit is removed from the active ones.
RemoveActiveDeposit ==
    /\ up
    /\ finalized
    /\ finalized' = FALSE
    /\ active' = 0
    /\ UNCHANGED <<dvars, smvars, starting, vanished, held, procvars, up,
                   chainvars, faults>>

-----------------------------------------------------------------------------
Stop ==
    /\ up
    /\ Fault
    /\ up' = FALSE
    /\ lock' = NoProc
    /\ mutex' = [g \in Fsms |-> NoProc]
    /\ active' = 0 /\ starting' = 0 /\ finalized' = FALSE /\ held' = FALSE
    /\ pc' = [p \in Procs |-> "idle"]
    /\ UNCHANGED <<dstate, db, current, previous, gens, on, ev, chainvars,
                   vanished>>

\* Mutant: the machine of a recovered deposit starts from the beginning.
RecoveredStateEmpty == "Empty"

RecoveredState == db

\* recoverDeposits: a deposit that is not final gets a new state machine in
\* its stored state.
Recover(s) ==
    /\ ~ up
    /\ up' = TRUE
    /\ dstate' = db
    /\ IF db \in Final
       THEN UNCHANGED <<current, gens, active, procvars>>
       ELSE /\ gens < MaxFsms
            /\ gens' = gens + 1
            /\ current' = [current EXCEPT ![gens'] = RecoveredState]
            /\ active' = gens'
            /\ Spawn(s, gens', "OnRecover")
    /\ UNCHANGED <<db, lock, mutex, previous, starting, finalized, vanished,
                   held, chainvars, faults>>

\* The chain.
ExpiryPasses ==
    /\ ~ late
    /\ late' = TRUE
    /\ UNCHANGED <<dvars, smvars, mgrvars, procvars, up, signed, sweepTx,
                   spent, faults>>

SweepConfirms ==
    /\ sweepTx
    /\ spent = "no"
    /\ spent' = "expiry"
    /\ UNCHANGED <<dvars, smvars, mgrvars, procvars, up, signed, late, sweepTx,
                   faults>>

SpentElsewhere ==
    /\ signed
    /\ spent = "no"
    /\ spent' = "other"
    /\ UNCHANGED <<dvars, smvars, mgrvars, procvars, up, signed, late, sweepTx,
                   faults>>

-----------------------------------------------------------------------------
SendEventStep(p) ==
    \/ AcquireMutex(p) \/ GetNextState(p) \/ UpdateDeposit(p)
    \/ PublishExpirySweep(p) \/ RegisterConfirmation(p) \/ WaitForExpirySweep(p)
    \/ EndEvent(p)

CallerStep(c) == LockDeposit(c) \/ UnlockDeposit(c) \/ SendEventStep(c)

ManagerStep ==
    \/ Deactivate \/ Started \/ RemoveActiveDeposit
    \/ Release
    \/ \E s \in Senders : HandleBlockNotification(s) \/ Reactivate(s)

Next ==
    \/ \E s \in Senders : SendEventStep(s) \/ Recover(s)
    \/ \E c \in Callers :
         \/ CallerStep(c) \/ HoldActiveDeposit(c)
         \/ \E e \in CallerEvents : Transition(c, e)
    \/ ManagerStep
    \/ ExpiryPasses \/ SweepConfirms \/ SpentElsewhere \/ Stop

Spec == Init /\ [][Next]_vars

(***************************************************************************)
(* The goroutines are scheduled, and Go's mutexes starve none of them;     *)
(* blocks arrive, the wallet sees the deposit again, a broadcast sweep     *)
(* confirms, the daemon is restarted.                                      *)
(***************************************************************************)
FairSpec ==
    /\ Spec
    /\ \A s \in Senders : WF_vars(SendEventStep(s)) /\ SF_vars(AcquireMutex(s))
    /\ \A c \in Callers : WF_vars(CallerStep(c))
    /\ WF_vars(\E s \in Senders : Recover(s) \/ Reactivate(s))
    /\ SF_vars(\E s \in Senders : HandleBlockNotification(s))
    /\ WF_vars(Started) /\ WF_vars(Release)
    /\ WF_vars(ExpiryPasses) /\ WF_vars(SweepConfirms)

-----------------------------------------------------------------------------
(***************************************************************************)
(* Properties.                                                             *)
(***************************************************************************)

\* Every variable has its type.
TypeOK ==
    /\ dstate \in States /\ db \in States
    /\ lock \in Callers \cup {NoProc}
    /\ mutex \in [Fsms -> Procs \cup {NoProc}]
    /\ current \in [Fsms -> States] /\ previous \in [Fsms -> States]
    /\ gens \in Fsms /\ active \in 0 .. gens /\ starting \in 0 .. gens
    /\ pc \in [Procs -> {"idle", "lock", "mutex", "next", "entry", "action",
                         "wait", "unlock"}]
    /\ on \in [Procs -> Fsms] /\ ev \in [Procs -> Events]
    /\ finalized \in BOOLEAN /\ vanished \in BOOLEAN /\ held \in BOOLEAN
    /\ up \in BOOLEAN /\ signed \in BOOLEAN
    /\ late \in BOOLEAN /\ sweepTx \in BOOLEAN
    /\ spent \in {"no", "expiry", "other"}
    /\ faults \in 0 .. MaxFaults

\* A deposit is Expired, in memory or in the store, only when the expiry sweep
\* itself confirmed: a spend by a withdrawal, a loop-in or a channel never ends
\* it as Expired, whatever the goroutines of its state machines do
\* (WaitForExpirySweepAction).
ExpiredIsSwept == "Expired" \in {dstate, db} => spent = "expiry"

\* The expiry sweep is broadcast only after the deposit's expiry height: no
\* recovery, repeated event or stale goroutine publishes it before
\* (handleBlockNotification is the only source of OnExpiry).
SweptAfterExpiry == sweepTx => late

Quiet == up /\ \A p \in Procs : pc[p] = "idle"

\* When no event is being handled and the wallet always saw the deposit, its
\* active machine is in the state the deposit has, across failed writes,
\* rejected events and restarts (updateDeposit, recoverDeposits).
ActiveAgrees == Quiet /\ active # 0 /\ ~ vanished => current[active] = dstate

\* While the wallet sees the deposit, a final state in the store is never left:
\* no late expiry, retried transition or recovery writes another one
\* (DepositStatesV0, TransitionDeposits).
FinalIsKept == [][(db \in Final /\ ~ vanished) => db' = db]_vars

\* An expired deposit that nothing else spends is swept, despite failing calls,
\* restarts and a wallet that loses sight of it for a while; and it ends as
\* Expired if the wallet always saw it (handleBlockNotification,
\* recoverDeposits).
ExpiredIsFinal ==
    late ~> (spent = "expiry" /\ (vanished \/ "Expired" \in {dstate, db}))

\* "this function blocks until the expectedFinalState is reached. The default
\* timeout for the transition is set to DefaultTransitionTimeout": a call of
\* TransitionDeposits returns (TransitionDeposits).
TransitionReturns == \A c \in Callers : pc[c] # "idle" ~> pc[c] = "idle"
=============================================================================
