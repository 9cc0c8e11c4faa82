----------------------------- MODULE Reservation -----------------------------
(***************************************************************************)
(* Reservations (instantout/reservation): outputs that the server funds    *)
(* for the client.  Each has a state machine; the manager keeps the active *)
(* ones, and an instant out locks and unlocks them.                        *)
(*                                                                         *)
(* Heights are abstracted to the intervals that the checks tell apart:     *)
(*   0  an instant out can be started and recovered                        *)
(*   1  less than htlcRecoverySafetyDelta before the expiry of its htlc    *)
(*   2  its htlc has expired                                               *)
(*   3  the reservations have expired                                      *)
(***************************************************************************)
EXTENDS Integers, FiniteSets

CONSTANTS
    Reservations,
    Known,       \* the ones that are confirmed in the beginning
    MaxActive,   \* maxActiveReservations
    MaxFaults    \* bound on failing calls and stops

ASSUME ReservationAssumption ==
    /\ Known \subseteq Reservations /\ IsFiniteSet(Reservations)
    /\ MaxActive \in Nat /\ Cardinality(Known) <= MaxActive
    /\ MaxFaults \in Nat

VARIABLES
    rstate,   \* the state of each machine, "none" before its request
    rdb,      \* the stored state, "none" when there is no row
    ractive,  \* activeReservations
    rwait,    \* machines that wait in SubscribeToConfirmationAction
    jammed,   \* machines whose mutex is held for ever
    spent,    \* the outputs that are spent on chain
    phase,    \* the interval of the height
    up,       \* the daemon runs
    faults

rvars == <<rstate, rdb, ractive, rwait, jammed>>
rchain == <<spent, phase>>

RStates == {"Init", "WaitForConfirmation", "Confirmed", "Locked", "TimedOut",
            "Spent", "Failed"}
RFinal == {"Failed", "TimedOut", "Spent"}

ReservationInit ==
    /\ rstate = [r \in Reservations |-> IF r \in Known THEN "Confirmed" ELSE "none"]
    /\ rdb = rstate /\ ractive = Known /\ rwait = {} /\ jammed = {}
    /\ spent = {} /\ phase = 0 /\ up = TRUE /\ faults = 0

Faults(n) ==
    /\ faults + n <= MaxFaults
    /\ faults' = faults + n

\* Mutant: a final reservation stays active.
UpdateReservationsKeep(R, t, k) ==
    /\ rstate' = [r \in Reservations |-> IF r \in R THEN t ELSE rstate[r]]
    /\ k = 0
    /\ rdb' = [r \in Reservations |-> IF r \in R THEN t ELSE rdb[r]]
    /\ UNCHANGED ractive

\* The machines of R enter state t.  updateReservation stores it and only logs a
\* failure, so that k of the writes are lost; a final state leaves the active ones.
UpdateReservations(R, t, k) ==
    /\ rstate' = [r \in Reservations |-> IF r \in R THEN t ELSE rstate[r]]
    /\ ractive' = IF t \in RFinal THEN ractive \ R ELSE ractive
    /\ \E W \in SUBSET R :
         /\ Cardinality(R \ W) = k
         /\ rdb' = [r \in Reservations |-> IF r \in W THEN t ELSE rdb[r]]

UpdateReservation(r, t) ==
    \E k \in 0 .. 1 : UpdateReservations({r}, t, k) /\ Faults(k)

\* newReservation: the server offers a reservation.
NewReservation(r) ==
    /\ up
    /\ rdb[r] = "none"
    /\ r \notin ractive
    /\ Cardinality(ractive) < MaxActive
    /\ ractive' = ractive \cup {r}
    /\ rstate' = [rstate EXCEPT ![r] = "Init"]
    /\ UNCHANGED <<rdb, rwait, jammed, rchain, up, faults>>

\* InitAction: the request to the server and the row.  A failure ends in Failed,
\* which is not stored.
InitAction(r) ==
    /\ up
    /\ rstate[r] = "Init" /\ rdb[r] = "none"
    /\ \/ /\ rdb' = [rdb EXCEPT ![r] = "Init"]
          /\ UNCHANGED <<rstate, ractive, faults>>
       \/ /\ Faults(1)
          /\ rstate' = [rstate EXCEPT ![r] = "none"]
          /\ ractive' = ractive \ {r}
          /\ UNCHANGED rdb
    /\ UNCHANGED <<rwait, jammed, rchain, up>>

OnBroadcast(r) ==
    /\ up
    /\ rstate[r] = "Init" /\ rdb[r] = "Init"
    /\ UpdateReservation(r, "WaitForConfirmation")
    /\ rwait' = rwait \cup {r}
    /\ UNCHANGED <<jammed, rchain, up>>

\* SubscribeToConfirmationAction holds the mutex of the machine.  The event of a
\* failed subscription is rejected, and nothing waits any more.
SubscribeToConfirmationAction(r) ==
    /\ up
    /\ r \in rwait
    /\ rwait' = rwait \ {r}
    /\ \/ UpdateReservation(r, "Confirmed")
       \/ phase = 3 /\ UpdateReservation(r, "TimedOut")
       \/ Faults(1) /\ UNCHANGED <<rstate, rdb, ractive>>
    /\ UNCHANGED <<jammed, rchain, up>>

\* Mutant: a locked reservation is not watched.
WatchedConfirmed == {"Confirmed"}

\* The states whose action starts a watcher, AsyncWaitForExpiredOrSweptAction.
Watched == {"Confirmed", "Locked"}

\* The watchers of a machine report the spend or the expiry, whichever they see
\* first; the event of a later one is rejected.
HandleSubscriptions(r) ==
    /\ up
    /\ rstate[r] \in Watched /\ r \notin jammed
    /\ \/ r \in spent /\ UpdateReservation(r, "Spent")
       \/ phase = 3 /\ UpdateReservation(r, "TimedOut")
    /\ UNCHANGED <<rwait, jammed, rchain, up>>

\* A call waits for the mutex of the machine.
Busy(r) == r \in rwait \cup jammed \/ rstate[r] = "Init"

LockReservation(r) ==
    /\ r \in ractive /\ ~ Busy(r) /\ rstate[r] = "Confirmed"
    /\ UpdateReservation(r, "Locked")
    /\ UNCHANGED <<rwait, jammed>>

LockRefused(r) ==
    \/ r \notin ractive
    \/ ~ Busy(r) /\ rstate[r] # "Confirmed"

\* UnlockReservation for each of R: an event that is rejected is passed over.
UnlockReservations(R, k) ==
    /\ \A r \in R \cap ractive : ~ Busy(r)
    /\ UpdateReservations({r \in R \cap ractive : rstate[r] = "Locked"},
                          "Confirmed", k)
    /\ UNCHANGED <<rwait, jammed>>

\* The watcher is started with the context of the caller.  If lnd fails until
\* this context times out, Confirmed is entered again and again.
UnlockJams(R, k) ==
    /\ \A r \in R \cap ractive : ~ Busy(r)
    /\ \E K \in SUBSET {r \in R \cap ractive : rstate[r] = "Locked"} :
         /\ UpdateReservations(K, "Confirmed", k)
         /\ \E r \in K : jammed' = jammed \cup {r}
    /\ UNCHANGED rwait

\* External: the server takes a reservation back when it has expired.
ServerSweeps(r) ==
    /\ phase = 3 /\ r \notin spent
    /\ rdb[r] \notin {"none", "Init"}
    /\ spent' = spent \cup {r}
    /\ UNCHANGED <<rvars, phase, up, faults>>

NewBlocks ==
    /\ phase < 3
    /\ phase' = phase + 1
    /\ UNCHANGED <<rvars, spent, up, faults>>

\* RecoverReservations, with the event OnRecover.
RecoverReservations ==
    /\ rstate' = [r \in Reservations |->
                    IF rdb[r] = "Init" THEN "Failed" ELSE rdb[r]]
    /\ ractive' = {r \in Reservations : rdb[r] \notin RFinal \cup {"none", "Init"}}
    /\ rwait' = {r \in Reservations : rdb[r] = "WaitForConfirmation"}
    /\ jammed' = {}
    /\ UNCHANGED rdb

ReservationStep(r) ==
    \/ InitAction(r) \/ OnBroadcast(r) \/ SubscribeToConfirmationAction(r)
    \/ HandleSubscriptions(r)

ReservationNext ==
    \/ \E r \in Reservations :
         NewReservation(r) \/ ReservationStep(r) \/ ServerSweeps(r)
    \/ NewBlocks
=============================================================================
