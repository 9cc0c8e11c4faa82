-------------------------- MODULE InstantOutProofs --------------------------
(***************************************************************************)
(* Proofs about InstantOut, for any number of instant outs, reservations,  *)
(* versions and failures.  The inductive invariant says of every machine,  *)
(* on its own, what it has stored, revealed and published (Local), and of  *)
(* the reservations that their locks have owners.  An action of the table  *)
(* enters a state (Goes) that its guard makes Legal, or stays.             *)
(***************************************************************************)
EXTENDS InstantOut, TLAPS

Pcs == {"off", "start", "poll", "recover", "recovered", "pushed", "conf"}

\* The active reservations are the ones whose machine is not final, a machine that
\* waits for its confirmation is in that state, a jammed one in Confirmed.
Machines ==
    /\ \A r \in Reservations : r \in ractive <=> rstate[r] \notin RFinal \cup {"none"}
    /\ \A r \in rwait : rstate[r] = "WaitForConfirmation"
    /\ \A r \in jammed : rstate[r] = "Confirmed"

\* Only a machine that can go on has a goroutine, and what it does is stored unless
\* a write was lost.
Running(s) ==
    step[s] # "off" =>
        /\ istate[s] \in DOMAIN Transitions
        /\ s \in unsaved \/ idb[s] = istate[s] \/ istate[s] = "Init"

\* A swap whose preimage is revealed is past the early states, or it was recovered
\* from one and is about to be given up.
Pursued(s) ==
    s \in revealed =>
        /\ istate[s] # "none"
        /\ istate[s] \in Early => step[s] \in {"off", "recover"}
        /\ idb[s] \in Early => s \in unsaved

\* Who has reservations was started, and a machine that recovers was restarted.
Started(s) ==
    /\ istate[s] = "none" <=> rs[s] = {}
    /\ istate[s] = "none" => out[s] = {} /\ idb[s] = "none"
    /\ todo[s] \subseteq rs[s]
    /\ step[s] \in {"recover", "recovered"} => s \in again

\* A machine waits for a transaction of the right kind, now and after a restart.
Waits(state, hash) ==
    /\ state = "WaitForSweeplessSweepConfirmed" => hash.kind = "sweepless"
    /\ state = "WaitForHtlcSweepConfirmed" => hash.kind = "sweep"

\* A transaction that was mined keeps its inputs spent, and a swap is finished only
\* when it has its coins.
Mined(s) ==
    /\ spend[s] = NoTx \/ (spend[s] \in out[s] /\ rs[s] \subseteq spent)
    /\ "FinishedSweeplessSweep" \in {istate[s], idb[s]} => spend[s].kind = "sweepless"
    /\ "FinishedHtlcPreimageSweep" \in {istate[s], idb[s]} => hspend[s].kind = "sweep"

Local(s) ==
    /\ Running(s) /\ Pursued(s) /\ Started(s) /\ Mined(s)
    /\ Waits(istate[s], watch[s]) /\ Waits(idb[s], dbWatch[s])

\* A lock that is stored belongs to a swap.
Owners == \A r \in Reservations : rdb[r] = "Locked" => \E s \in Swaps : r \in rs[s]

IInv ==
    /\ TypeOK /\ Machines /\ Owners /\ LockedHasOwner
    /\ \A s \in Swaps : Local(s)

\* The states that a machine can leave.
LEMMA Table ==
    DOMAIN Transitions =
        {"EmptyState", "Init", "SendPaymentAndPollAccepted", "BuildHtlc", "PushPreimage",
         "WaitForSweeplessSweepConfirmed", "PublishHtlc", "PublishHtlcSweep",
         "WaitForHtlcSweepConfirmed", "FailedHtlcSweep"}
  BY Zenon DEF Transitions

\* Where the events lead.
LEMMA Targets ==
    ASSUME NEW a \in DOMAIN Transitions, NEW e \in DOMAIN Transitions[a]
    PROVE  /\ Transitions[a][e] \in IStates
           /\ a \notin Early => Transitions[a][e] \notin Early
  BY DEF Transitions, IStates, Early

\* What a machine writes, in memory and in the store, has its type, and the other
\* machines keep theirs.
CtlOK ==
    /\ istate \in [Swaps -> IStates \cup {"none"}]
    /\ idb \in [Swaps -> IStates \cup {"none"}]
    /\ step \in [Swaps -> Pcs] /\ unsaved \subseteq Swaps
    /\ watch \in [Swaps -> Txs] /\ dbWatch \in [Swaps -> Txs]

LEMMA SendTypes ==
    ASSUME TypeOK, NEW s \in Swaps, istate[s] \in DOMAIN Transitions, NEW e,
           NEW next \in Pcs, NEW hash \in Txs, NEW lost,
           SendEvent(s, e, next, hash, lost)
    PROVE  CtlOK'
  <1>1. CASE e \in DOMAIN Transitions[istate[s]]
    <2>1. Transitions[istate[s]][e] \in IStates
      BY <1>1, Targets, Zenon
    <2>2. QED
      BY <1>1, <2>1 DEF SendEvent, Set, TypeOK, CtlOK, Pcs
  <1>2. CASE e \notin DOMAIN Transitions[istate[s]]
    BY <1>2, Zenon DEF SendEvent, Set, TypeOK, CtlOK, Pcs
  <1>3. QED
    BY <1>1, <1>2, Zenon

\* Counting faults keeps their bound.
LEMMA FaultTypes ==
    ASSUME TypeOK, NEW n \in Nat, Faults(n)
    PROVE  faults' \in 0 .. MaxFaults
  BY ReservationAssumption DEF TypeOK, Faults

LEMMA ReturnTypes ==
    ASSUME TypeOK, NEW s \in Swaps, istate[s] \in DOMAIN Transitions, NEW e,
           NEW hash \in Txs, NEW n \in Nat, ReturnSweep(s, e, hash, n)
    PROVE  CtlOK' /\ faults' \in 0 .. MaxFaults
  <1>1. PICK lost \in 0 .. 1 : SendEvent(s, e, "start", hash, lost) /\ Faults(n + lost)
    BY Zenon DEF ReturnSweep
  <1>2. QED
    BY <1>1, SendTypes, FaultTypes DEF Pcs

\* What happens to the machines of the reservations.
RTypes ==
    /\ rstate \in [Reservations -> RStates \cup {"none"}]
    /\ rdb \in [Reservations -> RStates \cup {"none"}]
    /\ ractive \subseteq Reservations /\ rwait \subseteq Reservations
    /\ jammed \subseteq Reservations

LEMMA UpdateTypes ==
    ASSUME TypeOK, NEW R \in SUBSET Reservations, NEW t \in RStates, NEW k,
           UpdateReservations(R, t, k)
    PROVE  /\ rstate' \in [Reservations -> RStates \cup {"none"}]
           /\ rdb' \in [Reservations -> RStates \cup {"none"}]
           /\ ractive' \subseteq Reservations
  BY Zenon DEF TypeOK, UpdateReservations

LEMMA FailsTypes ==
    ASSUME TypeOK, NEW s \in Swaps, istate[s] \in DOMAIN Transitions, NEW n \in Nat,
           HandleErrorAndUnlockReservations(s, n)
    PROVE  CtlOK' /\ RTypes' /\ faults' \in 0 .. MaxFaults
  <1>1. PICK k \in 0 .. 1, lost \in 0 .. 1 :
        \/ /\ UnlockReservations(rs[s], k)
           /\ SendEvent(s, "OnError", "start", watch[s], lost)
           /\ Faults(n + k + lost)
        \/ /\ UnlockJams(rs[s], k)
           /\ Faults(n + k + 1)
           /\ step' = Set(step, s, "off")
           /\ lost = 0 /\ UNCHANGED <<istate, idb, unsaved, watch, dbWatch>>
    BY Zenon DEF HandleErrorAndUnlockReservations
  <1>2. faults' \in 0 .. MaxFaults
    BY <1>1, FaultTypes
  <1>3. CtlOK'
    <2>1. watch[s] \in Txs
      BY Zenon DEF TypeOK
    <2>2. QED
      BY <1>1, <2>1, SendTypes, Zenon DEF TypeOK, CtlOK, Pcs, Set
  <1>4. RTypes'
    <2>1. CASE UnlockReservations(rs[s], k)
      BY <2>1, UpdateTypes, Zenon DEF UnlockReservations, RTypes, TypeOK, RStates
    <2>2. CASE UnlockJams(rs[s], k)
      BY <2>2, UpdateTypes, ZenonT(30) DEF UnlockJams, RTypes, TypeOK, RStates
    <2>3. QED
      BY <1>1, <2>1, <2>2, Zenon
  <1>5. QED
    BY <1>2, <1>3, <1>4, Zenon

\* A write of one reservation's machine.
LEMMA OneUpdateTypes ==
    ASSUME TypeOK, NEW r \in Reservations, NEW t \in RStates, UpdateReservation(r, t)
    PROVE  /\ rstate' \in [Reservations -> RStates \cup {"none"}]
           /\ rdb' \in [Reservations -> RStates \cup {"none"}]
           /\ ractive' \subseteq Reservations /\ faults' \in 0 .. MaxFaults
  <1>1. PICK k \in 0 .. 1 : UpdateReservations({r}, t, k) /\ Faults(k)
    BY Zenon DEF UpdateReservation
  <1>2. QED
    BY <1>1, UpdateTypes, FaultTypes

\* Every step keeps the types of the variables.
LEMMA TypeStep ==
    ASSUME TypeOK, \A s \in Swaps : Running(s), [Next]_vars
    PROVE  TypeOK'
  <1> USE DEF vars, rvars, rchain, ivars, ctl, data, mined
  <1>1. CASE UNCHANGED vars
    BY <1>1, Zenon DEF TypeOK
  <1>2. ASSUME ReservationNext, UNCHANGED ivars PROVE TypeOK'
    <2>1. ASSUME NEW r \in Reservations, NewReservation(r) PROVE TypeOK'
      BY <1>2, <2>1, Zenon DEF NewReservation, TypeOK, RStates
    <2>2. ASSUME NEW r \in Reservations, InitAction(r) PROVE TypeOK'
      <3>1. faults' \in 0 .. MaxFaults
        BY <2>2, FaultTypes, Zenon DEF InitAction, TypeOK
      <3>2. QED
        BY <1>2, <2>2, <3>1 DEF InitAction, TypeOK, RStates
    <2>3. ASSUME NEW r \in Reservations, OnBroadcast(r) PROVE TypeOK'
      BY <1>2, <2>3, OneUpdateTypes, Zenon DEF OnBroadcast, TypeOK, RStates
    <2>4. ASSUME NEW r \in Reservations, SubscribeToConfirmationAction(r) PROVE TypeOK'
      <3>1. CASE Faults(1) /\ UNCHANGED <<rstate, rdb, ractive>>
        BY <1>2, <2>4, <3>1, FaultTypes, Zenon DEF SubscribeToConfirmationAction, TypeOK
      <3>2. ASSUME NEW t \in RStates, UpdateReservation(r, t) PROVE TypeOK'
        BY <1>2, <2>4, <3>2, OneUpdateTypes, Zenon
        DEF SubscribeToConfirmationAction, TypeOK
      <3>3. QED
        BY <2>4, <3>1, <3>2, Zenon DEF SubscribeToConfirmationAction, RStates
    <2>5. ASSUME NEW r \in Reservations, HandleSubscriptions(r) PROVE TypeOK'
      <3>1. PICK t \in RStates : UpdateReservation(r, t)
        BY <2>5, Zenon DEF HandleSubscriptions, RStates
      <3>2. QED
        BY <1>2, <2>5, <3>1, OneUpdateTypes, Zenon DEF HandleSubscriptions, TypeOK
    <2>6. ASSUME NEW r \in Reservations, ServerSweeps(r) PROVE TypeOK'
      BY <1>2, <2>6, Zenon DEF ServerSweeps, TypeOK
    <2>7. CASE NewBlocks
      BY <1>2, <2>7 DEF NewBlocks, TypeOK
    <2>8. QED
      BY <1>2, <2>1, <2>2, <2>3, <2>4, <2>5, <2>6, <2>7, Zenon
      DEF ReservationNext, ReservationStep
  <1>3. ASSUME NEW s \in Swaps, NEW R \in Requests, NewInstantOut(s, R) PROVE TypeOK'
    BY <1>3, InstantOutAssumption, Table, Zenon DEF NewInstantOut, TypeOK, Set, IStates
  <1>4. ASSUME NEW s \in Swaps, InstantOutStep(s) PROVE TypeOK'
    <2>1. step[s] # "off" => istate[s] \in DOMAIN Transitions /\ watch[s] \in Txs
      BY Zenon DEF Running, TypeOK
    <2>2. CASE InitInstantOutAction(s)
      <3>1. faults' \in 0 .. MaxFaults
        BY <2>2, FaultTypes, Zenon DEF InitInstantOutAction
      <3>2. istate' \in [Swaps -> IStates \cup {"none"}]
        BY <2>2, Table DEF InitInstantOutAction, TypeOK, Set, IStates
      <3>3. idb' \in [Swaps -> IStates \cup {"none"}] /\ unsaved' \subseteq Swaps
        BY <2>2, Table DEF InitInstantOutAction, TypeOK, Set, IStates
      <3>4. /\ step' \in [Swaps -> Pcs] /\ todo' \in [Swaps -> SUBSET Reservations]
            /\ srv' \in [Swaps -> {"none", "held", "accepted"}]
        BY <2>2 DEF InitInstantOutAction, TypeOK, Set, Pcs
      <3>5. UNCHANGED <<rstate, rdb, ractive, rwait, jammed, spent, phase, up, rs, out,
                        revealed, again, watch, dbWatch, spend, hspend>>
        BY <2>2 DEF InitInstantOutAction
      <3>6. QED
        BY <3>1, <3>2, <3>3, <3>4, <3>5 DEF TypeOK, Pcs
    <2>3. CASE LockReservations(s)
      <3>1. PICK r \in todo[s] :
               \/ /\ LockReservation(r)
                  /\ todo' = Set(todo, s, todo[s] \ {r})
                  /\ step' = Set(step, s, IF todo[s] = {r} THEN "poll" ELSE "start")
                  /\ UNCHANGED <<istate, idb, unsaved, watch, dbWatch, rs>>
               \/ LockRefused(r) /\ Fails(s, 0)
        BY <2>3, Zenon DEF LockReservations
      <3>2. CASE LockReservation(r)
                  /\ todo' = Set(todo, s, todo[s] \ {r})
                  /\ step' = Set(step, s, IF todo[s] = {r} THEN "poll" ELSE "start")
                  /\ UNCHANGED <<istate, idb, unsaved, watch, dbWatch, rs>>
        BY <2>3, <3>2, OneUpdateTypes, Zenon
        DEF LockReservation, LockReservations, TypeOK, Set, RStates
      <3>3. CASE Fails(s, 0)
        BY <2>1, <2>3, <3>3, FailsTypes, Zenon
        DEF LockReservations, At, Fails, TypeOK, CtlOK, RTypes, Pcs
      <3>4. QED
        BY <3>1, <3>2, <3>3, Zenon
    <2>4. CASE PollPaymentAccepted(s)
      <3>1. CASE Fails(s, 0) /\ UNCHANGED srv
        BY <2>1, <2>4, <3>1, FailsTypes, Zenon
        DEF PollPaymentAccepted, At, Fails, TypeOK, CtlOK, RTypes, Pcs
      <3>2. CASE ~ (Fails(s, 0) /\ UNCHANGED srv)
        BY <2>1, <2>4, <3>2, ReturnTypes, Zenon
        DEF PollPaymentAccepted, At, Return, TypeOK, CtlOK, RTypes, Pcs, Set
      <3>3. QED
        BY <3>1, <3>2, Zenon
    <2>5. CASE BuildHTLCAction(s)
      BY <2>1, <2>5, FailsTypes, ReturnTypes, Zenon
      DEF BuildHTLCAction, At, Return, Fails, TypeOK, CtlOK, RTypes, Pcs
    <2>6. CASE RecoveredLate(s)
      BY <2>1, <2>6, ReturnTypes, Zenon DEF RecoveredLate, At, Return, TypeOK, CtlOK, Pcs
    <2>7. CASE PushPreimageFails(s)
      BY <2>1, <2>7, FailsTypes, Zenon
      DEF PushPreimageFails, At, Fails, TypeOK, CtlOK, RTypes, Pcs
    <2>8. CASE PushPreimageAction(s)
      BY <2>1, <2>8, ReturnTypes, Zenon
      DEF PushPreimageAction, PushError, At, Return, TypeOK, CtlOK, Pcs, Set
    <2>9. CASE PublishSweeplessSweep(s)
      <3>1. out' \in [Swaps -> SUBSET Txs]
        BY <2>9 DEF PublishSweeplessSweep, Publish, TypeOK, Set
      <3>2. CtlOK' /\ faults' \in 0 .. MaxFaults
        BY <2>1, <2>9, ReturnTypes, Zenon DEF PublishSweeplessSweep, At, Return
      <3>3. QED
        BY <2>9, <3>1, <3>2, Zenon DEF PublishSweeplessSweep, TypeOK, CtlOK, Pcs
    <2>10. CASE WaitForSweeplessSweepConfirmedAction(s)
      BY <2>1, <2>10, ReturnTypes, Zenon
      DEF WaitForSweeplessSweepConfirmedAction, At, Return, TypeOK, CtlOK, Pcs
    <2>11. CASE PublishHtlcAction(s)
      <3>1. out' \in [Swaps -> SUBSET Txs]
        BY <2>11 DEF PublishHtlcAction, Publish, TypeOK, Set, Txs
      <3>2. CtlOK' /\ faults' \in 0 .. MaxFaults
        <4>1. CASE step' = Set(step, s, "conf")
                   /\ UNCHANGED <<istate, idb, unsaved, watch, dbWatch, faults>>
          BY <4>1, Zenon DEF TypeOK, CtlOK, Pcs, Set
        <4>2. CASE \E n \in {0, 1} : Return(s, "OnError", n)
          BY <2>1, <2>11, <4>2, ReturnTypes, Zenon DEF PublishHtlcAction, At, Return
        <4>3. QED
          BY <2>11, <4>1, <4>2, Zenon DEF PublishHtlcAction
      <3>3. QED
        BY <2>11, <3>1, <3>2, Zenon DEF PublishHtlcAction, TypeOK, CtlOK, Pcs
    <2>12. CASE HtlcConfirmed(s)
      BY <2>1, <2>12, ReturnTypes, Zenon DEF HtlcConfirmed, At, Return, TypeOK, CtlOK, Pcs
    <2>13. CASE PublishHtlcSweepAction(s)
      <3>1. out' \in [Swaps -> SUBSET Txs]
        BY <2>13 DEF PublishHtlcSweepAction, Publish, TypeOK, Set
      <3>2. CtlOK' /\ faults' \in 0 .. MaxFaults
        BY <2>1, <2>13, ReturnTypes, Zenon DEF PublishHtlcSweepAction, At, Return
      <3>3. QED
        BY <2>13, <3>1, <3>2, Zenon DEF PublishHtlcSweepAction, TypeOK, CtlOK, Pcs
    <2>14. CASE WaitForHtlcSweepConfirmedAction(s)
      BY <2>1, <2>14, ReturnTypes, Zenon
      DEF WaitForHtlcSweepConfirmedAction, At, Return, TypeOK, CtlOK, Pcs
    <2>15. CASE RecoverInstantOut(s)
      <3> DEFINE next == IF istate[s] = "PushPreimage" THEN "recovered" ELSE "start"
      <3>1. PICK lost \in 0 .. 1 :
               SendEvent(s, "OnRecover", next, watch[s], lost) /\ Faults(lost)
        BY <2>15, Zenon DEF RecoverInstantOut
      <3>2. next \in Pcs
        BY Zenon DEF Pcs
      <3>3. CtlOK' /\ faults' \in 0 .. MaxFaults
        BY <2>1, <2>15, <3>1, <3>2, SendTypes, FaultTypes DEF RecoverInstantOut
      <3>4. QED
        BY <2>15, <3>3, Zenon DEF RecoverInstantOut, TypeOK, CtlOK, Pcs
    <2>16. QED
      BY <1>4, <2>2, <2>3, <2>4, <2>5, <2>6, <2>7, <2>8, <2>9, <2>10, <2>11, <2>12, <2>13,
         <2>14, <2>15, Zenon
      DEF InstantOutStep
  <1>5. ASSUME NEW s \in Swaps, ServerReleases(s) PROVE TypeOK'
    BY <1>5, Zenon DEF ServerReleases, TypeOK, Set
  <1>6. ASSUME NEW s \in Swaps, MineSpend(s) PROVE TypeOK'
    BY <1>6 DEF MineSpend, TypeOK, Set
  <1>7. ASSUME NEW s \in Swaps, MineHtlcSpend(s) PROVE TypeOK'
    BY <1>7 DEF MineHtlcSpend, TypeOK, Set, Txs
  <1>8. CASE Stop
    BY <1>8, FaultTypes, Zenon DEF Stop, TypeOK
  <1>9. CASE Restart
    BY <1>9, Zenon DEF Restart, RecoverReservations, TypeOK, IStates, RStates
  <1>10. QED
    BY <1>1, <1>2, <1>3, <1>4, <1>5, <1>6, <1>7, <1>8, <1>9, Zenon DEF Next

\* What a step of a swap does to the machines of reservations.
LEMMA SwapMoves ==
    ASSUME NEW s \in Swaps, InstantOutStep(s)
    PROVE  \/ UNCHANGED rvars
           \/ \E r \in todo[s] : /\ LockReservation(r) /\ UNCHANGED istate
                                 /\ istate[s] = "SendPaymentAndPollAccepted"
           \/ \E n \in {0, 1} : HandleErrorAndUnlockReservations(s, n)
  <1>1. CASE LockReservations(s)
    BY <1>1, Zenon DEF LockReservations, Fails, At
  <1>2. CASE PollPaymentAccepted(s) \/ BuildHTLCAction(s) \/ PushPreimageFails(s)
    BY <1>2, Zenon
    DEF PollPaymentAccepted, BuildHTLCAction, PushPreimageFails, Fails, rvars
  <1>3. CASE \/ InitInstantOutAction(s) \/ RecoveredLate(s) \/ PushPreimageAction(s)
             \/ PublishSweeplessSweep(s) \/ WaitForSweeplessSweepConfirmedAction(s)
             \/ PublishHtlcAction(s) \/ HtlcConfirmed(s) \/ PublishHtlcSweepAction(s)
             \/ WaitForHtlcSweepConfirmedAction(s) \/ RecoverInstantOut(s)
    BY <1>3, Zenon
    DEF InitInstantOutAction, RecoveredLate, PushPreimageAction, PublishSweeplessSweep,
        WaitForSweeplessSweepConfirmedAction, PublishHtlcAction, HtlcConfirmed,
        PublishHtlcSweepAction, WaitForHtlcSweepConfirmedAction, RecoverInstantOut
  <1>4. QED
    BY <1>1, <1>2, <1>3, Zenon DEF InstantOutStep

\* The steps that change the machines of reservations.
LEMMA ReservationMoves ==
    ASSUME [Next]_vars
    PROVE  \/ UNCHANGED rvars
           \/ \E r \in Reservations : NewReservation(r) \/ ReservationStep(r)
           \/ \E s \in Swaps : \E r \in todo[s] : LockReservation(r)
           \/ \E s \in Swaps, n \in {0, 1} : HandleErrorAndUnlockReservations(s, n)
           \/ RecoverReservations
  <1>1. CASE UNCHANGED vars
    BY <1>1, Zenon DEF vars, rvars
  <1>2. CASE ReservationNext
    BY <1>2, Zenon DEF ReservationNext, ServerSweeps, NewBlocks
  <1>3. CASE \E s \in Swaps, R \in Requests : NewInstantOut(s, R)
    BY <1>3, Zenon DEF NewInstantOut
  <1>4. CASE \E s \in Swaps : InstantOutStep(s)
    BY <1>4, SwapMoves, Zenon
  <1>5. CASE \E s \in Swaps : ServerReleases(s) \/ MineSpend(s) \/ MineHtlcSpend(s)
    BY <1>5, Zenon DEF ServerReleases, MineSpend, MineHtlcSpend
  <1>6. CASE Stop
    BY <1>6, Zenon DEF Stop
  <1>7. CASE Restart
    BY <1>7, Zenon DEF Restart
  <1>8. QED
    BY <1>1, <1>2, <1>3, <1>4, <1>5, <1>6, <1>7, Zenon DEF Next

\* The machines of R enter a state t that is neither waiting nor jammed.
LEMMA MachinesUpdate ==
    ASSUME TypeOK, Machines, NEW R \in SUBSET Reservations, NEW t \in RStates, NEW k,
           UpdateReservations(R, t, k), R \subseteq ractive, R \cap jammed = {}
    PROVE  /\ \A r \in Reservations :
                r \in ractive' <=> rstate'[r] \notin RFinal \cup {"none"}
           /\ \A r \in jammed : rstate'[r] = "Confirmed"
           /\ \A r \in rwait \ R : rstate'[r] = "WaitForConfirmation"
  BY Zenon DEF TypeOK, Machines, UpdateReservations, RStates, RFinal

LEMMA MachineUpdate ==
    ASSUME TypeOK, Machines, NEW r \in ractive, r \notin jammed, NEW t \in RStates,
           NEW k, UpdateReservations({r}, t, k)
    PROVE  /\ \A q \in Reservations :
                q \in ractive' <=> rstate'[q] \notin RFinal \cup {"none"}
           /\ \A q \in jammed : rstate'[q] = "Confirmed"
           /\ \A q \in rwait \ {r} : rstate'[q] = "WaitForConfirmation"
  <1>1. {r} \in SUBSET Reservations /\ {r} \subseteq ractive /\ {r} \cap jammed = {}
    BY Zenon DEF TypeOK
  <1>2. QED
    BY <1>1, MachinesUpdate, Zenon

\* Every step keeps the machines and the set of active ones together.
LEMMA MachinesStep ==
    ASSUME TypeOK, Machines, \A s \in Swaps : Started(s), [Next]_vars
    PROVE  Machines'
  <1> USE DEF rvars
  <1>1. CASE UNCHANGED rvars
    BY <1>1, Zenon DEF Machines
  <1>2. ASSUME NEW r \in Reservations, NewReservation(r) PROVE Machines'
    BY <1>2 DEF NewReservation, TypeOK, Machines, RFinal
  <1>3. ASSUME NEW r \in Reservations, InitAction(r) PROVE Machines'
    BY <1>3 DEF InitAction, TypeOK, Machines, RFinal
  <1>4. ASSUME NEW r \in Reservations, OnBroadcast(r) PROVE Machines'
    <2>1. PICK k \in 0 .. 1 : UpdateReservations({r}, "WaitForConfirmation", k)
      BY <1>4, Zenon DEF OnBroadcast, UpdateReservation
    <2>2. r \in ractive /\ r \notin jammed
      BY <1>4, Zenon DEF OnBroadcast, Machines, RFinal
    <2>3. rstate'[r] = "WaitForConfirmation"
      BY <2>1, Zenon DEF UpdateReservations
    <2>4. QED
      BY <1>4, <2>1, <2>2, <2>3, MachineUpdate, Zenon DEF OnBroadcast, Machines, RStates
  <1>5. ASSUME NEW r \in Reservations, SubscribeToConfirmationAction(r) PROVE Machines'
    <2>1. r \in ractive /\ r \notin jammed
      BY <1>5, Zenon DEF SubscribeToConfirmationAction, Machines, RFinal
    <2>2. CASE UNCHANGED <<rstate, rdb, ractive>>
      BY <1>5, <2>2, Zenon DEF SubscribeToConfirmationAction, Machines
    <2>3. ASSUME NEW t \in {"Confirmed", "TimedOut"}, UpdateReservation(r, t)
          PROVE  Machines'
      <3>1. PICK k \in 0 .. 1 : UpdateReservations({r}, t, k)
        BY <2>3, Zenon DEF UpdateReservation
      <3>2. QED
        BY <1>5, <2>1, <3>1, MachineUpdate, Zenon
        DEF SubscribeToConfirmationAction, Machines, RStates
    <2>4. QED
      BY <1>5, <2>2, <2>3, Zenon DEF SubscribeToConfirmationAction
  <1>6. ASSUME NEW r \in Reservations, HandleSubscriptions(r) PROVE Machines'
    <2>1. r \in ractive /\ r \notin jammed /\ r \notin rwait
      BY <1>6, Zenon DEF HandleSubscriptions, Watched, Machines, RFinal
    <2>2. PICK t \in {"Spent", "TimedOut"}, k \in 0 .. 1 : UpdateReservations({r}, t, k)
      BY <1>6, Zenon DEF HandleSubscriptions, UpdateReservation
    <2>3. QED
      BY <1>6, <2>1, <2>2, MachineUpdate, ZenonT(30)
      DEF HandleSubscriptions, Machines, RStates
  <1>7. ASSUME NEW s \in Swaps, NEW r \in todo[s], LockReservation(r) PROVE Machines'
    <2>1. r \in Reservations
      BY Zenon DEF TypeOK
    <2>2. PICK k \in 0 .. 1 : UpdateReservations({r}, "Locked", k)
      BY <1>7, Zenon DEF LockReservation, UpdateReservation
    <2>3. QED
      BY <1>7, <2>1, <2>2, MachineUpdate, Zenon
      DEF LockReservation, Busy, Machines, RStates
  <1>8. ASSUME NEW s \in Swaps, NEW n, HandleErrorAndUnlockReservations(s, n)
        PROVE  Machines'
    <2> DEFINE L == {r \in rs[s] \cap ractive : rstate[r] = "Locked"}
    <2>1. L \in SUBSET Reservations /\ L \subseteq ractive /\ L \cap jammed = {}
          /\ L \cap rwait = {}
      BY Zenon DEF TypeOK, Machines
    <2>2. PICK k \in 0 .. 1 : UnlockReservations(rs[s], k) \/ UnlockJams(rs[s], k)
      BY <1>8, Zenon DEF HandleErrorAndUnlockReservations
    <2>3. CASE UnlockReservations(rs[s], k)
      BY <2>1, <2>3, MachinesUpdate, Zenon DEF UnlockReservations, Machines, RStates
    <2>4. CASE UnlockJams(rs[s], k)
      <3>1. PICK K \in SUBSET L : /\ UpdateReservations(K, "Confirmed", k)
                                  /\ \E r \in K : jammed' = jammed \cup {r}
        BY <2>4, Zenon DEF UnlockJams
      <3>2. \A r \in K : rstate'[r] = "Confirmed"
        BY <2>1, <3>1, Zenon DEF UpdateReservations
      <3>3. K \in SUBSET Reservations /\ K \subseteq ractive /\ K \cap jammed = {}
        BY <2>1, Zenon
      <3>4. /\ \A r \in Reservations :
                 r \in ractive' <=> rstate'[r] \notin RFinal \cup {"none"}
            /\ \A r \in jammed : rstate'[r] = "Confirmed"
            /\ \A r \in rwait \ K : rstate'[r] = "WaitForConfirmation"
        BY <3>1, <3>3, MachinesUpdate, Zenon DEF RStates
      <3>5. QED
        BY <2>1, <2>4, <3>1, <3>2, <3>4, Zenon DEF UnlockJams, Machines
    <2>5. QED
      BY <2>2, <2>3, <2>4, Zenon
  <1>9. CASE RecoverReservations
    BY <1>9, Zenon DEF RecoverReservations, TypeOK, Machines, RFinal
  <1>10. QED
    BY <1>1, <1>2, <1>3, <1>4, <1>5, <1>6, <1>7, <1>8, <1>9, ReservationMoves, Zenon
    DEF ReservationStep

\* Event e leads from state a to state t.
Edge(a, e, t) ==
    /\ a \in DOMAIN Transitions /\ e \in DOMAIN Transitions[a]
    /\ Transitions[a][e] = t

\* The edges of the table that the actions use.
LEMMA Edges ==
    /\ Edge("SendPaymentAndPollAccepted", "OnPaymentAccepted", "BuildHtlc")
    /\ Edge("SendPaymentAndPollAccepted", "OnError", "Failed")
    /\ Edge("BuildHtlc", "OnError", "Failed")
    /\ Edge("PushPreimage", "OnError", "Failed")
    /\ Edge("BuildHtlc", "OnHtlcSigReceived", "PushPreimage")
    /\ Edge("PushPreimage", "OnErrorPublishHtlc", "PublishHtlc")
    /\ Edge("PushPreimage", "OnSweeplessSweepPublished", "WaitForSweeplessSweepConfirmed")
    /\ Edge("WaitForSweeplessSweepConfirmed", "OnSweeplessSweepConfirmed", "FinishedSweeplessSweep")
    /\ Edge("WaitForSweeplessSweepConfirmed", "OnError", "PublishHtlc")
    /\ Edge("PublishHtlc", "OnError", "FailedHtlcSweep")
    /\ Edge("PublishHtlcSweep", "OnError", "FailedHtlcSweep")
    /\ Edge("WaitForHtlcSweepConfirmed", "OnError", "FailedHtlcSweep")
    /\ Edge("PublishHtlc", "OnHtlcPublished", "PublishHtlcSweep")
    /\ Edge("PublishHtlcSweep", "OnHtlcSweepPublished", "WaitForHtlcSweepConfirmed")
    /\ Edge("WaitForHtlcSweepConfirmed", "OnHtlcSwept", "FinishedHtlcPreimageSweep")
  <1>1. Edge("SendPaymentAndPollAccepted", "OnPaymentAccepted", "BuildHtlc")
    BY Zenon DEF Edge, Transitions
  <1>2. Edge("SendPaymentAndPollAccepted", "OnError", "Failed")
    BY Zenon DEF Edge, Transitions
  <1>3. Edge("BuildHtlc", "OnError", "Failed")
    BY Zenon DEF Edge, Transitions
  <1>4. Edge("PushPreimage", "OnError", "Failed")
    BY Zenon DEF Edge, Transitions
  <1>5. Edge("BuildHtlc", "OnHtlcSigReceived", "PushPreimage")
    BY Zenon DEF Edge, Transitions
  <1>6. Edge("PushPreimage", "OnErrorPublishHtlc", "PublishHtlc")
    BY Zenon DEF Edge, Transitions
  <1>7. Edge("PushPreimage", "OnSweeplessSweepPublished", "WaitForSweeplessSweepConfirmed")
    BY Zenon DEF Edge, Transitions
  <1>8. Edge("WaitForSweeplessSweepConfirmed", "OnSweeplessSweepConfirmed", "FinishedSweeplessSweep")
    BY Zenon DEF Edge, Transitions
  <1>9. Edge("WaitForSweeplessSweepConfirmed", "OnError", "PublishHtlc")
    BY Zenon DEF Edge, Transitions
  <1>10. Edge("PublishHtlc", "OnError", "FailedHtlcSweep")
    BY Zenon DEF Edge, Transitions
  <1>11. Edge("PublishHtlcSweep", "OnError", "FailedHtlcSweep")
    BY Zenon DEF Edge, Transitions
  <1>12. Edge("WaitForHtlcSweepConfirmed", "OnError", "FailedHtlcSweep")
    BY Zenon DEF Edge, Transitions
  <1>13. Edge("PublishHtlc", "OnHtlcPublished", "PublishHtlcSweep")
    BY Zenon DEF Edge, Transitions
  <1>14. Edge("PublishHtlcSweep", "OnHtlcSweepPublished", "WaitForHtlcSweepConfirmed")
    BY Zenon DEF Edge, Transitions
  <1>15. Edge("WaitForHtlcSweepConfirmed", "OnHtlcSwept", "FinishedHtlcPreimageSweep")
    BY Zenon DEF Edge, Transitions
  <1>16. QED
    BY <1>1, <1>2, <1>3, <1>4, <1>5, <1>6, <1>7, <1>8, <1>9, <1>10, <1>11, <1>12, <1>13,
       <1>14, <1>15, Zenon

\* WaitForSweeplessSweepConfirmed does not accept OnErrorPublishHtlc.
LEMMA Unaccepted ==
    "OnErrorPublishHtlc" \notin DOMAIN Transitions["WaitForSweeplessSweepConfirmed"]
  BY Zenon DEF Transitions

\* Recovery repeats a state, goes to the sweep of the htlc, or gives up.
LEMMA RecoveryEdges ==
    ASSUME NEW a \in DOMAIN Transitions, "OnRecover" \in DOMAIN Transitions[a]
    PROVE  Transitions[a]["OnRecover"] \in
             (IF a \in Early THEN {"Failed"} ELSE {a, "PublishHtlcSweep"})
  <1> DEFINE P(q) == "OnRecover" \in DOMAIN Transitions[q] =>
               Transitions[q]["OnRecover"] \in
                 (IF q \in Early THEN {"Failed"} ELSE {q, "PublishHtlcSweep"})
  <1>1. P("EmptyState")
    BY Zenon DEF Transitions, Early
  <1>2. P("Init")
    BY Zenon DEF Transitions, Early
  <1>3. P("SendPaymentAndPollAccepted")
    BY Zenon DEF Transitions, Early
  <1>4. P("BuildHtlc")
    BY Zenon DEF Transitions, Early
  <1>5. P("PushPreimage")
    BY Zenon DEF Transitions, Early
  <1>6. P("WaitForSweeplessSweepConfirmed")
    BY Zenon DEF Transitions, Early
  <1>7. P("PublishHtlc")
    BY Zenon DEF Transitions, Early
  <1>8. P("PublishHtlcSweep")
    BY Zenon DEF Transitions, Early
  <1>9. P("WaitForHtlcSweepConfirmed")
    BY Zenon DEF Transitions, Early
  <1>10. P("FailedHtlcSweep")
    BY Zenon DEF Transitions, Early
  <1> HIDE DEF P
  <1>11. P(a)
    BY <1>1, <1>2, <1>3, <1>4, <1>5, <1>6, <1>7, <1>8, <1>9, <1>10, Table, Zenon
  <1>12. QED
    BY <1>11, Zenon DEF P

\* Machine s enters t, at p and with SweepTxHash h; the write may be lost.
Goes(s, t, p, h) ==
    /\ istate' = Set(istate, s, t) /\ step' = Set(step, s, p) /\ watch' = Set(watch, s, h)
    /\ \/ /\ idb' = Set(idb, s, t) /\ dbWatch' = Set(dbWatch, s, h)
          /\ unsaved' = unsaved \ {s}
       \/ UNCHANGED <<idb, dbWatch>> /\ unsaved' = unsaved \cup {s}

LEMMA Sent ==
    ASSUME NEW s, NEW e \in DOMAIN Transitions[istate[s]], NEW next, NEW h, NEW lost,
           SendEvent(s, e, next, h, lost)
    PROVE  Goes(s, Transitions[istate[s]][e],
                IF Transitions[istate[s]][e] \in DOMAIN Transitions THEN next ELSE "off", h)
  BY Zenon DEF SendEvent, Goes

\* A machine goes along an edge, to a state that has an action or to a final one.
LEMMA SentAlong ==
    ASSUME NEW s, NEW e, NEW t, Edge(istate[s], e, t), NEW next, NEW h, NEW lost,
           SendEvent(s, e, next, h, lost)
    PROVE  /\ t \in DOMAIN Transitions => Goes(s, t, next, h)
           /\ t \notin DOMAIN Transitions => Goes(s, t, "off", h)
  <1>1. e \in DOMAIN Transitions[istate[s]] /\ Transitions[istate[s]][e] = t
    BY Zenon DEF Edge
  <1>2. Goes(s, t, IF t \in DOMAIN Transitions THEN next ELSE "off", h)
    BY <1>1, Sent, Zenon
  <1>3. QED
    BY <1>2, Zenon

LEMMA Returned ==
    ASSUME NEW s, NEW e, NEW t, Edge(istate[s], e, t), NEW h, NEW n, ReturnSweep(s, e, h, n)
    PROVE  /\ t \in DOMAIN Transitions => Goes(s, t, "start", h)
           /\ t \notin DOMAIN Transitions => Goes(s, t, "off", h)
  BY SentAlong, Zenon DEF ReturnSweep

\* What a step of machine s leaves alone.
Others(s) ==
    /\ \A u \in Swaps \ {s} :
         todo'[u] = todo[u] /\ out'[u] = out[u] /\ (u \in revealed' <=> u \in revealed)
    /\ out[s] \subseteq out'[s] /\ todo'[s] \subseteq rs[s]
    /\ UNCHANGED <<rs, spend, hspend, again, spent>>

\* What the state that a machine enters requires.
Legal(s, t, p, h) ==
    /\ t \in IStates
    /\ p \in {"off", "start"} \/ (p = "recovered" /\ s \in again)
    /\ p # "off" => t \in DOMAIN Transitions
    /\ t \in Early => s \notin revealed'
    /\ Waits(t, h)
    /\ t = "FinishedSweeplessSweep" => spend[s].kind = "sweepless"
    /\ t = "FinishedHtlcPreimageSweep" => hspend[s].kind = "sweep"

\* A machine that nothing happens to.
LEMMA SameLocal ==
    ASSUME NEW u, Local(u),
           istate'[u] = istate[u], idb'[u] = idb[u], step'[u] = step[u],
           watch'[u] = watch[u], dbWatch'[u] = dbWatch[u], rs'[u] = rs[u],
           todo'[u] = todo[u], out'[u] = out[u], spend'[u] = spend[u],
           hspend'[u] = hspend[u], u \in unsaved => u \in unsaved',
           u \in revealed' => u \in revealed, u \in again => u \in again', spent \subseteq spent'
    PROVE  Local(u)'
  BY DEF Local, Running, Pursued, Started, Mined, Waits

LEMMA GoesLocal ==
    ASSUME TypeOK, \A u \in Swaps : Local(u), NEW s \in Swaps, step[s] # "off",
           NEW t, NEW p, NEW h, Goes(s, t, p, h), Legal(s, t, p, h), Others(s)
    PROVE  \A u \in Swaps : Local(u)'
  <1>1. ASSUME NEW u \in Swaps \ {s} PROVE Local(u)'
    BY <1>1, SameLocal DEF Goes, Set, Others, TypeOK
  <1>2. istate'[s] = t /\ step'[s] = p /\ watch'[s] = h
    BY Zenon DEF Goes, Set, TypeOK
  <1>3. \/ idb'[s] = t /\ dbWatch'[s] = h
        \/ idb'[s] = idb[s] /\ dbWatch'[s] = dbWatch[s] /\ s \in unsaved'
    BY DEF Goes, Set, TypeOK
  <1>4. Running(s)'
    BY <1>2, <1>3, Zenon DEF Running, Legal
  <1>5. t # "none" /\ istate[s] # "none"
    BY Table, Zenon DEF Legal, IStates, Local, Running
  <1>6. Pursued(s)'
    BY <1>2, <1>3, <1>5, Zenon DEF Pursued, Legal
  <1>7. Started(s)'
    BY <1>2, <1>5, Zenon DEF Started, Legal, Others, Local
  <1>8. Mined(s)'
    BY <1>2, <1>3, Zenon DEF Mined, Legal, Others, Local
  <1>9. QED
    BY <1>1, <1>2, <1>3, <1>4, <1>6, <1>7, <1>8 DEF Local, Legal, Waits

\* Machine s stays where it is, at another step of its action.
LEMMA StaysLocal ==
    ASSUME TypeOK, \A u \in Swaps : Local(u), NEW s \in Swaps, step[s] # "off", NEW p,
           UNCHANGED <<istate, idb, unsaved, watch, dbWatch>>,
           step' = Set(step, s, p), p \notin {"recover", "recovered"}, Others(s),
           s \in revealed' =>
               \/ p = "off" /\ s \in revealed
               \/ istate[s] \notin Early /\ (idb[s] \in Early => s \in unsaved)
    PROVE  \A u \in Swaps : Local(u)'
  <1>1. ASSUME NEW u \in Swaps \ {s} PROVE Local(u)'
    BY <1>1, SameLocal, Zenon DEF Set, Others, TypeOK
  <1>2. step'[s] = p
    BY Zenon DEF Set, TypeOK
  <1>3. istate[s] # "none"
    BY Table, Zenon DEF Local, Running
  <1>4. Local(s)'
    BY <1>2, <1>3, Zenon DEF Local, Running, Pursued, Started, Mined, Waits, Others
  <1>5. QED
    BY <1>1, <1>4, Zenon

\* An error unlocks the reservations and fails the machine, or jams on the way.
LEMMA FailsLocal ==
    ASSUME TypeOK, \A u \in Swaps : Local(u), NEW s \in Swaps, step[s] # "off",
           istate[s] \in {"SendPaymentAndPollAccepted", "BuildHtlc", "PushPreimage"},
           NEW n, HandleErrorAndUnlockReservations(s, n), Others(s), UNCHANGED revealed
    PROVE  \A u \in Swaps : Local(u)'
  <1>1. CASE \E lost \in 0 .. 1 : SendEvent(s, "OnError", "start", watch[s], lost)
    <2>1. Goes(s, "Failed", "off", watch[s])
      BY <1>1, SentAlong, Edges, Table, Zenon
    <2>2. Legal(s, "Failed", "off", watch[s])
      BY Zenon DEF Legal, Early, Waits, IStates
    <2>3. QED
      BY <2>1, <2>2, GoesLocal, Zenon
  <1>2. CASE step' = Set(step, s, "off")
             /\ UNCHANGED <<istate, idb, unsaved, watch, dbWatch>>
    BY <1>2, StaysLocal
  <1>3. QED
    BY <1>1, <1>2, Zenon DEF HandleErrorAndUnlockReservations

\* Every action of a machine keeps what is said of the machines.
LEMMA LocalInstantOutStep ==
    ASSUME TypeOK, \A u \in Swaps : Local(u), NEW s \in Swaps, InstantOutStep(s)
    PROVE  \A u \in Swaps : Local(u)'
  <1> USE DEF rchain, data, mined
  <1>1. CASE InitInstantOutAction(s)
    <2>1. Others(s) /\ UNCHANGED revealed
      BY <1>1 DEF InitInstantOutAction, Others, Set, TypeOK, Local, Started
    <2>2. istate[s] = "Init" /\ step[s] = "start" /\ s \notin revealed
      BY <1>1, Zenon DEF InitInstantOutAction, At, Local, Pursued, Early
    <2>3. ASSUME NEW u \in Swaps \ {s} PROVE Local(u)'
      BY <1>1, <2>1, <2>3, SameLocal DEF InitInstantOutAction, Set, Others, TypeOK
    <2>4. /\ istate'[s] \in {"SendPaymentAndPollAccepted", "Failed"}
          /\ idb'[s] \in {"SendPaymentAndPollAccepted", "EmptyState", idb[s]}
          /\ step'[s] \in {"start", "off"}
          /\ step'[s] # "off" =>
               /\ istate'[s] = "SendPaymentAndPollAccepted"
               /\ s \in unsaved' \/ idb'[s] = istate'[s]
          /\ UNCHANGED <<watch, dbWatch>>
      BY <1>1 DEF InitInstantOutAction, Set, TypeOK
    <2>5. Running(s)' /\ Pursued(s)'
      BY <2>1, <2>2, <2>4, Table, Zenon DEF Running, Pursued
    <2>6. Started(s)' /\ Mined(s)'
      BY <2>1, <2>2, <2>4 DEF Others, Local, Started, Mined
    <2>7. Waits(istate[s], watch[s])' /\ Waits(idb[s], dbWatch[s])'
      BY <2>4, Zenon DEF Local, Waits
    <2>8. QED
      BY <2>3, <2>5, <2>6, <2>7, Zenon DEF Local
  <1>2. CASE LockReservations(s)
    <2>1. step[s] # "off" /\ istate[s] = "SendPaymentAndPollAccepted"
          /\ s \notin revealed /\ UNCHANGED revealed
      BY <1>2, Zenon DEF LockReservations, At, Local, Pursued, Early
    <2>2. Others(s)
      BY <1>2 DEF LockReservations, Fails, Others, Set, TypeOK, Local, Started
    <2>3. CASE Fails(s, 0)
      BY <2>1, <2>2, <2>3, FailsLocal, Zenon DEF Fails
    <2>4. CASE \E r \in todo[s] :
                 /\ step' = Set(step, s, IF todo[s] = {r} THEN "poll" ELSE "start")
                 /\ UNCHANGED <<istate, idb, unsaved, watch, dbWatch, rs>>
      <3>1. PICK p \in {"poll", "start"} : step' = Set(step, s, p)
        BY <2>4, Zenon
      <3>2. QED
        BY <2>1, <2>2, <2>4, <3>1, StaysLocal, Zenon
    <2>5. QED
      BY <1>2, <2>3, <2>4, Zenon DEF LockReservations
  <1>3. CASE PollPaymentAccepted(s)
    <2>1. step[s] # "off" /\ istate[s] = "SendPaymentAndPollAccepted"
          /\ s \notin revealed /\ UNCHANGED revealed
      BY <1>3, Zenon DEF PollPaymentAccepted, At, Local, Pursued, Early
    <2>2. Others(s)
      BY <1>3, Zenon DEF PollPaymentAccepted, Fails, Others, Set, TypeOK, Local, Started
    <2>3. CASE Fails(s, 0)
      BY <2>1, <2>2, <2>3, FailsLocal, Zenon DEF Fails
    <2>4. CASE Return(s, "OnPaymentAccepted", 0)
      <3>1. Goes(s, "BuildHtlc", "start", watch[s])
        BY <2>1, <2>4, Returned, Edges, Table, Zenon DEF Return
      <3>2. Legal(s, "BuildHtlc", "start", watch[s])
        BY <2>1, Table, Zenon DEF Legal, Waits, IStates
      <3>3. QED
        BY <2>1, <2>2, <3>1, <3>2, GoesLocal, Zenon
    <2>5. QED
      BY <1>3, <2>3, <2>4, Zenon DEF PollPaymentAccepted
  <1>4. CASE BuildHTLCAction(s)
    <2>1. step[s] # "off" /\ istate[s] = "BuildHtlc" /\ UNCHANGED revealed
      BY <1>4, Zenon DEF BuildHTLCAction, At
    <2>2. Others(s)
      BY <1>4, Zenon DEF BuildHTLCAction, Fails, Others, Set, TypeOK, Local, Started
    <2>3. CASE Fails(s, 1)
      BY <2>1, <2>2, <2>3, FailsLocal, Zenon DEF Fails
    <2>4. CASE Return(s, "OnHtlcSigReceived", 0)
      <3>1. Goes(s, "PushPreimage", "start", watch[s])
        BY <2>1, <2>4, Returned, Edges, Table, Zenon DEF Return
      <3>2. Legal(s, "PushPreimage", "start", watch[s])
        BY Table, Zenon DEF Legal, Waits, IStates, Early
      <3>3. QED
        BY <2>1, <2>2, <3>1, <3>2, GoesLocal, Zenon
    <2>5. QED
      BY <1>4, <2>3, <2>4, Zenon DEF BuildHTLCAction
  <1>5. ASSUME At(s, "PushPreimage", step[s]), step[s] # "off", Others(s),
               NEW n, Return(s, "OnErrorPublishHtlc", n)
        PROVE  \A u \in Swaps : Local(u)'
    <2>1. Goes(s, "PublishHtlc", "start", watch[s])
      BY <1>5, Returned, Edges, Table, Zenon DEF Return, At
    <2>2. Legal(s, "PublishHtlc", "start", watch[s])
      BY Table, Zenon DEF Legal, Waits, IStates, Early
    <2>3. QED
      BY <1>5, <2>1, <2>2, GoesLocal, Zenon
  <1>6. CASE RecoveredLate(s)
    <2>1. Others(s)
      BY <1>6, Zenon DEF RecoveredLate, Others, Set, TypeOK, Local, Started
    <2>2. QED
      BY <1>5, <1>6, <2>1, Zenon DEF RecoveredLate, At
  <1>7. CASE PushPreimageFails(s)
    <2>1. step[s] # "off" /\ istate[s] = "PushPreimage" /\ UNCHANGED revealed
      BY <1>7, Zenon DEF PushPreimageFails, At
    <2>2. Others(s)
      BY <1>7, Zenon DEF PushPreimageFails, Fails, Others, Set, TypeOK, Local, Started
    <2>3. QED
      BY <1>7, <2>1, <2>2, FailsLocal, Zenon DEF PushPreimageFails, Fails
  <1>8. CASE PushPreimageAction(s)
    <2>1. step[s] # "off" /\ istate[s] = "PushPreimage" /\ At(s, "PushPreimage", step[s])
      BY <1>8, Zenon DEF PushPreimageAction, At
    <2>2. Others(s)
      BY <1>8, Zenon DEF PushPreimageAction, Others, Set, TypeOK, Local, Started
    <2>3. CASE step' = Set(step, s, "pushed")
               /\ UNCHANGED <<istate, idb, unsaved, watch, dbWatch>>
      <3>1. istate[s] \notin Early /\ (idb[s] \in Early => s \in unsaved)
        BY <2>1, Zenon DEF Local, Running, Early
      <3>2. QED
        BY <2>1, <2>2, <2>3, <3>1, StaysLocal
    <2>4. QED
      BY <1>5, <1>8, <2>1, <2>2, <2>3, Zenon DEF PushPreimageAction, PushError
  <1>9. CASE PublishSweeplessSweep(s)
    <2>1. step[s] # "off" /\ istate[s] = "PushPreimage" /\ At(s, "PushPreimage", step[s])
      BY <1>9, Zenon DEF PublishSweeplessSweep, At
    <2>2. Others(s)
      BY <1>9 DEF PublishSweeplessSweep, Publish, Others, Set, TypeOK, Local, Started
    <2> DEFINE t == Version(s, "sweepless")
    <2>3. CASE ReturnSweep(s, "OnSweeplessSweepPublished", t, 0)
      <3>1. Goes(s, "WaitForSweeplessSweepConfirmed", "start", t)
        BY <2>1, <2>3, Returned, Edges, Table, Zenon
      <3>2. Legal(s, "WaitForSweeplessSweepConfirmed", "start", t)
        BY Table, Zenon DEF Legal, Waits, IStates, Early, Version
      <3>3. QED
        BY <2>1, <2>2, <3>1, <3>2, GoesLocal, Zenon
    <2>4. QED
      BY <1>5, <1>9, <2>1, <2>2, <2>3, Zenon DEF PublishSweeplessSweep
  <1>10. CASE WaitForSweeplessSweepConfirmedAction(s)
    <2>1. step[s] # "off" /\ istate[s] = "WaitForSweeplessSweepConfirmed"
          /\ UNCHANGED revealed
      BY <1>10, Zenon DEF WaitForSweeplessSweepConfirmedAction, At
    <2>2. Others(s)
      BY <1>10, Zenon
      DEF WaitForSweeplessSweepConfirmedAction, Others, Set, TypeOK, Local, Started
    <2>3. CASE SweeplessConfirmed(s) /\ Return(s, "OnSweeplessSweepConfirmed", 0)
      <3>1. Goes(s, "FinishedSweeplessSweep", "off", watch[s])
        BY <2>1, <2>3, Returned, Edges, Table, Zenon DEF Return
      <3>2. Legal(s, "FinishedSweeplessSweep", "off", watch[s])
        BY <2>1, <2>3, Zenon DEF Legal, Waits, IStates, Early, SweeplessConfirmed, Local
      <3>3. QED
        BY <2>1, <2>2, <3>1, <3>2, GoesLocal, Zenon
    <2>4. CASE Return(s, "OnError", 1)
      <3>1. Goes(s, "PublishHtlc", "start", watch[s])
        BY <2>1, <2>4, Returned, Edges, Table, Zenon DEF Return
      <3>2. Legal(s, "PublishHtlc", "start", watch[s])
        BY Table, Zenon DEF Legal, Waits, IStates, Early
      <3>3. QED
        BY <2>1, <2>2, <3>1, <3>2, GoesLocal, Zenon
    <2>5. CASE Return(s, "OnErrorPublishHtlc", 1)
      <3>1. step' = Set(step, s, "off")
            /\ UNCHANGED <<istate, idb, unsaved, watch, dbWatch>>
        BY <2>1, <2>5, Unaccepted, Zenon DEF Return, ReturnSweep, SendEvent
      <3>2. QED
        BY <2>1, <2>2, <3>1, StaysLocal
    <2>6. QED
      BY <1>10, <2>3, <2>4, <2>5, Zenon DEF WaitForSweeplessSweepConfirmedAction
  <1>11. ASSUME istate[s] \in {"PublishHtlc", "PublishHtlcSweep", "WaitForHtlcSweepConfirmed"},
                step[s] # "off", Others(s), NEW n, Return(s, "OnError", n)
         PROVE  \A u \in Swaps : Local(u)'
    <2>1. Goes(s, "FailedHtlcSweep", "start", watch[s])
      BY <1>11, Returned, Edges, Table, Zenon DEF Return
    <2>2. Legal(s, "FailedHtlcSweep", "start", watch[s])
      BY Table, Zenon DEF Legal, Waits, IStates, Early
    <2>3. QED
      BY <1>11, <2>1, <2>2, GoesLocal, Zenon
  <1>12. CASE PublishHtlcAction(s)
    <2>1. step[s] # "off" /\ istate[s] = "PublishHtlc" /\ UNCHANGED revealed
      BY <1>12, Zenon DEF PublishHtlcAction, At
    <2>2. Others(s)
      BY <1>12 DEF PublishHtlcAction, Publish, Others, Set, TypeOK, Local, Started
    <2>3. CASE step' = Set(step, s, "conf")
               /\ UNCHANGED <<istate, idb, unsaved, watch, dbWatch>>
      <3>1. s \in revealed => istate[s] \notin Early /\ (idb[s] \in Early => s \in unsaved)
        BY <2>1, Zenon DEF Local, Pursued, Early
      <3>2. QED
        BY <2>1, <2>2, <2>3, <3>1, StaysLocal
    <2>4. QED
      BY <1>11, <1>12, <2>1, <2>2, <2>3, Zenon DEF PublishHtlcAction
  <1>13. CASE HtlcConfirmed(s)
    <2>1. step[s] # "off" /\ istate[s] = "PublishHtlc"
      BY <1>13, Zenon DEF HtlcConfirmed, At
    <2>2. Others(s)
      BY <1>13, Zenon DEF HtlcConfirmed, Others, Set, TypeOK, Local, Started
    <2>3. CASE Return(s, "OnHtlcPublished", 0)
      <3>1. Goes(s, "PublishHtlcSweep", "start", watch[s])
        BY <2>1, <2>3, Returned, Edges, Table, Zenon DEF Return
      <3>2. Legal(s, "PublishHtlcSweep", "start", watch[s])
        BY Table, Zenon DEF Legal, Waits, IStates, Early
      <3>3. QED
        BY <2>1, <2>2, <3>1, <3>2, GoesLocal, Zenon
    <2>4. QED
      BY <1>11, <1>13, <2>1, <2>2, <2>3, Zenon DEF HtlcConfirmed
  <1>14. CASE PublishHtlcSweepAction(s)
    <2>1. step[s] # "off" /\ istate[s] = "PublishHtlcSweep"
      BY <1>14, Zenon DEF PublishHtlcSweepAction, At
    <2>2. Others(s)
      BY <1>14 DEF PublishHtlcSweepAction, Publish, Others, Set, TypeOK, Local, Started
    <2> DEFINE t == Version(s, "sweep")
    <2>3. CASE ReturnSweep(s, "OnHtlcSweepPublished", t, 0)
      <3>1. Goes(s, "WaitForHtlcSweepConfirmed", "start", t)
        BY <2>1, <2>3, Returned, Edges, Table, Zenon
      <3>2. Legal(s, "WaitForHtlcSweepConfirmed", "start", t)
        BY Table, Zenon DEF Legal, Waits, IStates, Early, Version
      <3>3. QED
        BY <2>1, <2>2, <3>1, <3>2, GoesLocal, Zenon
    <2>4. QED
      BY <1>11, <1>14, <2>1, <2>2, <2>3, Zenon DEF PublishHtlcSweepAction
  <1>15. CASE WaitForHtlcSweepConfirmedAction(s)
    <2>1. step[s] # "off" /\ istate[s] = "WaitForHtlcSweepConfirmed"
      BY <1>15, Zenon DEF WaitForHtlcSweepConfirmedAction, At
    <2>2. Others(s)
      BY <1>15, Zenon
      DEF WaitForHtlcSweepConfirmedAction, Others, Set, TypeOK, Local, Started
    <2>3. CASE hspend[s] = watch[s] /\ Return(s, "OnHtlcSwept", 0)
      <3>1. Goes(s, "FinishedHtlcPreimageSweep", "off", watch[s])
        BY <2>1, <2>3, Returned, Edges, Table, Zenon DEF Return
      <3>2. Legal(s, "FinishedHtlcPreimageSweep", "off", watch[s])
        BY <2>1, <2>3, Zenon DEF Legal, Waits, IStates, Early, Local
      <3>3. QED
        BY <2>1, <2>2, <3>1, <3>2, GoesLocal, Zenon
    <2>4. QED
      BY <1>11, <1>15, <2>1, <2>2, <2>3, Zenon DEF WaitForHtlcSweepConfirmedAction
  <1>16. CASE RecoverInstantOut(s)
    <2>1. step[s] = "recover" /\ istate[s] \in DOMAIN Transitions /\ s \in again
          /\ UNCHANGED revealed
      BY <1>16, Zenon DEF RecoverInstantOut, Local, Running, Started
    <2>2. Others(s)
      BY <1>16, Zenon DEF RecoverInstantOut, Others, Set, TypeOK, Local, Started
    <2> DEFINE next == IF istate[s] = "PushPreimage" THEN "recovered" ELSE "start"
               t == Transitions[istate[s]]["OnRecover"]
               p == IF t \in DOMAIN Transitions THEN next ELSE "off"
    <2>3. PICK lost \in 0 .. 1 : SendEvent(s, "OnRecover", next, watch[s], lost)
      BY <1>16, Zenon DEF RecoverInstantOut
    <2>4. CASE "OnRecover" \in DOMAIN Transitions[istate[s]]
      <3>1. Goes(s, t, p, watch[s])
        BY <2>3, <2>4, Sent, Zenon
      <3>2. t \in (IF istate[s] \in Early THEN {"Failed"}
                   ELSE {istate[s], "PublishHtlcSweep"})
        BY <2>1, <2>4, RecoveryEdges, Zenon
      <3>3. Waits(t, watch[s])
        BY <3>2, Zenon DEF Local, Waits
      <3>4. Legal(s, t, p, watch[s])
        BY <2>1, <3>2, <3>3, Table, Zenon DEF Legal, IStates, Early
      <3>5. QED
        BY <2>1, <2>2, <3>1, <3>4, GoesLocal, Zenon
    <2>5. CASE "OnRecover" \notin DOMAIN Transitions[istate[s]]
      <3>1. step' = Set(step, s, "off")
            /\ UNCHANGED <<istate, idb, unsaved, watch, dbWatch>>
        BY <2>3, <2>5, Zenon DEF SendEvent
      <3>2. QED
        BY <2>1, <2>2, <3>1, StaysLocal
    <2>6. QED
      BY <2>4, <2>5, Zenon
  <1>17. QED
    BY <1>1, <1>2, <1>3, <1>4, <1>6, <1>7, <1>8, <1>9, <1>10, <1>12, <1>13, <1>14, <1>15,
       <1>16, Zenon
    DEF InstantOutStep

\* Every step keeps what is said of the machines.
LEMMA LocalStep ==
    ASSUME TypeOK, \A u \in Swaps : Local(u), [Next]_vars
    PROVE  \A u \in Swaps : Local(u)'
  <1> USE DEF vars, rvars, rchain, ivars, ctl, data, mined
  <1>1. CASE UNCHANGED ivars /\ spent \subseteq spent'
    BY <1>1, SameLocal, Zenon
  <1>2. CASE ReservationNext /\ UNCHANGED ivars
    <2>1. spent \subseteq spent'
      BY <1>2, Zenon
      DEF ReservationNext, NewReservation, ReservationStep, InitAction, OnBroadcast,
          SubscribeToConfirmationAction, HandleSubscriptions, ServerSweeps, NewBlocks
    <2>2. QED
      BY <1>1, <1>2, <2>1, Zenon
  <1>3. ASSUME NEW s \in Swaps, NEW R \in Requests, NewInstantOut(s, R)
        PROVE  \A u \in Swaps : Local(u)'
    <2>1. ASSUME NEW u \in Swaps \ {s} PROVE Local(u)'
      BY <1>3, <2>1, SameLocal, Zenon DEF NewInstantOut, Set, TypeOK
    <2>2. istate'[s] = "Init" /\ step'[s] = "start" /\ rs'[s] = R /\ R # {}
      BY <1>3, InstantOutAssumption, Zenon DEF NewInstantOut, Set, TypeOK
    <2>3. s \notin revealed /\ spend[s] = NoTx /\ todo[s] = {} /\ out[s] = {}
      BY <1>3, Zenon DEF NewInstantOut, Local, Pursued, Mined, Started
    <2>4. Running(s)' /\ Pursued(s)' /\ Started(s)' /\ Waits(istate[s], watch[s])'
      BY <1>3, <2>2, <2>3, Table, Zenon
      DEF NewInstantOut, Running, Pursued, Started, Waits
    <2>5. Mined(s)' /\ Waits(idb[s], dbWatch[s])'
      BY <1>3, <2>2, <2>3, Zenon DEF NewInstantOut, Local, Mined, Waits
    <2>6. QED
      BY <2>1, <2>4, <2>5, Zenon DEF Local
  <1>4. CASE \E s \in Swaps : InstantOutStep(s)
    BY <1>4, LocalInstantOutStep, Zenon
  <1>5. ASSUME NEW s \in Swaps, ServerReleases(s) PROVE \A u \in Swaps : Local(u)'
    BY <1>5, SameLocal, Zenon DEF ServerReleases
  <1>6. ASSUME NEW s \in Swaps, MineSpend(s) PROVE \A u \in Swaps : Local(u)'
    <2>1. ASSUME NEW u \in Swaps \ {s} PROVE Local(u)'
      BY <1>6, <2>1, SameLocal, Zenon DEF MineSpend, Set, TypeOK
    <2>2. PICK t \in out[s] : spend' = Set(spend, s, t)
      BY <1>6, Zenon DEF MineSpend
    <2>3. istate[s] # "none" /\ rs[s] # {}
      BY <2>2, Zenon DEF Local, Started
    <2>4. spend[s] = NoTx
      BY <1>6, <2>3, Zenon DEF MineSpend, Publishable, Local, Mined
    <2>5. Mined(s)'
      BY <1>6, <2>2, <2>4 DEF MineSpend, Local, Mined, Set, TypeOK, NoTx
    <2>6. Running(s)' /\ Pursued(s)' /\ Started(s)'
          /\ Waits(istate[s], watch[s])' /\ Waits(idb[s], dbWatch[s])'
      BY <1>6, Zenon DEF MineSpend, Local, Running, Pursued, Started, Waits
    <2>7. QED
      BY <2>1, <2>5, <2>6, Zenon DEF Local
  <1>7. ASSUME NEW s \in Swaps, MineHtlcSpend(s) PROVE \A u \in Swaps : Local(u)'
    <2>1. ASSUME NEW u \in Swaps \ {s} PROVE Local(u)'
      BY <1>7, <2>1, SameLocal, Zenon DEF MineHtlcSpend, Set, TypeOK
    <2>2. Mined(s)'
      BY <1>7 DEF MineHtlcSpend, Local, Mined, NoTx
    <2>3. Running(s)' /\ Pursued(s)' /\ Started(s)'
          /\ Waits(istate[s], watch[s])' /\ Waits(idb[s], dbWatch[s])'
      BY <1>7, Zenon DEF MineHtlcSpend, Local, Running, Pursued, Started, Waits
    <2>4. QED
      BY <2>1, <2>2, <2>3, Zenon DEF Local
  <1>8. CASE Stop
    BY <1>8, Zenon DEF Stop, Local, Running, Pursued, Started, Mined, Waits
  <1>9. CASE Restart
    <2> SUFFICES ASSUME NEW u \in Swaps PROVE Local(u)'
      OBVIOUS
    <2>1. /\ istate'[u] = IF idb[u] = "none" /\ istate[u] # "none" THEN "Failed" ELSE idb[u]
          /\ step'[u] = IF idb[u] \in DOMAIN Transitions THEN "recover" ELSE "off"
          /\ watch'[u] = dbWatch[u] /\ (u \in again' <=> istate[u] # "none")
      BY <1>9, Zenon DEF Restart
    <2>2. Running(u)' /\ Pursued(u)'
      BY <1>9, <2>1, Table, Zenon DEF Restart, Local, Running, Pursued, Early
    <2>3. istate[u] = "none" => idb[u] = "none"
      BY Zenon DEF Local, Started
    <2>4. Started(u)' /\ Mined(u)'
      BY <1>9, <2>1, <2>3, Table, Zenon DEF Restart, Local, Started, Mined
    <2>5. Waits(istate[u], watch[u])' /\ Waits(idb[u], dbWatch[u])'
      BY <1>9, <2>1, Zenon DEF Restart, Local, Waits
    <2>6. QED
      BY <2>2, <2>4, <2>5, Zenon DEF Local
  <1>10. QED
    BY <1>1, <1>2, <1>3, <1>4, <1>5, <1>6, <1>7, <1>8, <1>9, Zenon DEF Next

\* A step of machine s leaves the states of the others and all reservations with
\* their swaps.
LEMMA StepFrame ==
    ASSUME TypeOK, NEW s \in Swaps, InstantOutStep(s)
    PROVE  UNCHANGED <<rs, again>> /\ \A u \in Swaps \ {s} : istate'[u] = istate[u]
  <1> USE DEF data, mined
  <1>1. ASSUME NEW e, NEW next, NEW h, NEW lost, SendEvent(s, e, next, h, lost)
        PROVE  \A u \in Swaps \ {s} : istate'[u] = istate[u]
    BY <1>1, Zenon DEF SendEvent, Set, TypeOK
  <1>2. ASSUME NEW e, NEW h, NEW n, ReturnSweep(s, e, h, n)
        PROVE  \A u \in Swaps \ {s} : istate'[u] = istate[u]
    BY <1>1, <1>2, Zenon DEF ReturnSweep
  <1>3. ASSUME NEW n, HandleErrorAndUnlockReservations(s, n)
        PROVE  \A u \in Swaps \ {s} : istate'[u] = istate[u]
    BY <1>1, <1>3, Zenon DEF HandleErrorAndUnlockReservations
  <1>4. CASE InitInstantOutAction(s)
    BY <1>4, Zenon DEF InitInstantOutAction, Set, TypeOK
  <1>5. CASE LockReservations(s)
    BY <1>3, <1>5, Zenon DEF LockReservations, Fails
  <1>6. CASE PollPaymentAccepted(s) \/ BuildHTLCAction(s) \/ PushPreimageFails(s)
    BY <1>2, <1>3, <1>6, Zenon
    DEF PollPaymentAccepted, BuildHTLCAction, PushPreimageFails, Fails, Return
  <1>7. CASE RecoveredLate(s) \/ PushPreimageAction(s) \/ PublishSweeplessSweep(s)
             \/ WaitForSweeplessSweepConfirmedAction(s)
    BY <1>2, <1>7, Zenon
    DEF RecoveredLate, PushPreimageAction, PublishSweeplessSweep,
        WaitForSweeplessSweepConfirmedAction, Return, PushError
  <1>8. CASE PublishHtlcAction(s) \/ HtlcConfirmed(s) \/ PublishHtlcSweepAction(s)
             \/ WaitForHtlcSweepConfirmedAction(s)
    BY <1>2, <1>8, Zenon
    DEF PublishHtlcAction, HtlcConfirmed, PublishHtlcSweepAction,
        WaitForHtlcSweepConfirmedAction, Return
  <1>9. CASE RecoverInstantOut(s)
    BY <1>1, <1>9, Zenon DEF RecoverInstantOut
  <1>10. QED
    BY <1>4, <1>5, <1>6, <1>7, <1>8, <1>9, Zenon DEF InstantOutStep

\* A machine fails without unlocking its reservations only when it never had any
\* locked, or after a restart.
LEMMA GivesUp ==
    ASSUME TypeOK, \A u \in Swaps : Local(u), NEW s \in Swaps, InstantOutStep(s),
           istate'[s] \in {"Init", "Failed"}, s \notin again
    PROVE  \/ istate[s] = "Init"
           \/ \E n \in {0, 1} : HandleErrorAndUnlockReservations(s, n)
  <1> USE DEF data, mined
  <1>1. ASSUME NEW h, NEW n, NEW e, NEW t, ReturnSweep(s, e, h, n), Edge(istate[s], e, t),
               t \notin {"Init", "Failed"}
        PROVE  FALSE
    <2>1. istate' = Set(istate, s, t)
      BY <1>1, Returned, Zenon DEF Goes
    <2>2. QED
      BY <1>1, <2>1, Zenon DEF Set, TypeOK
  <1>2. CASE InitInstantOutAction(s)
    BY <1>2, Zenon DEF InitInstantOutAction, At
  <1>3. CASE LockReservations(s)
    BY <1>3, Zenon DEF LockReservations, Fails, At
  <1>4. CASE PollPaymentAccepted(s)
    BY <1>1, <1>4, Edges DEF PollPaymentAccepted, Fails, Return, At
  <1>5. CASE BuildHTLCAction(s)
    BY <1>1, <1>5, Edges DEF BuildHTLCAction, Fails, Return, At
  <1>6. CASE PushPreimageFails(s)
    BY <1>6, Zenon DEF PushPreimageFails, Fails
  <1>7. CASE RecoveredLate(s)
    BY <1>1, <1>7, Edges DEF RecoveredLate, Return, At
  <1>8. CASE PushPreimageAction(s)
    BY <1>1, <1>8, Edges DEF PushPreimageAction, PushError, Return, At
  <1>9. CASE PublishSweeplessSweep(s)
    BY <1>1, <1>9, Edges DEF PublishSweeplessSweep, Return, At
  <1>10. CASE WaitForSweeplessSweepConfirmedAction(s)
    <2>1. ASSUME Return(s, "OnErrorPublishHtlc", 1) PROVE FALSE
      BY <1>10, <2>1, Unaccepted, Zenon
      DEF WaitForSweeplessSweepConfirmedAction, At, Return, ReturnSweep, SendEvent
    <2>2. QED
      BY <1>1, <1>10, <2>1, Edges DEF WaitForSweeplessSweepConfirmedAction, Return, At
  <1>11. CASE PublishHtlcAction(s)
    BY <1>1, <1>11, Edges DEF PublishHtlcAction, Return, At
  <1>12. CASE HtlcConfirmed(s)
    BY <1>1, <1>12, Edges DEF HtlcConfirmed, Return, At
  <1>13. CASE PublishHtlcSweepAction(s)
    BY <1>1, <1>13, Edges DEF PublishHtlcSweepAction, Return, At
  <1>14. CASE WaitForHtlcSweepConfirmedAction(s)
    BY <1>1, <1>14, Edges DEF WaitForHtlcSweepConfirmedAction, Return, At
  <1>15. CASE RecoverInstantOut(s)
    BY <1>15, Zenon DEF RecoverInstantOut, Local, Started
  <1>16. QED
    BY <1>2, <1>3, <1>4, <1>5, <1>6, <1>7, <1>8, <1>9, <1>10, <1>11, <1>12, <1>13, <1>14,
       <1>15, Zenon
    DEF InstantOutStep

\* Only a swap locks a reservation, and an unlock leaves no lock of its swap.
LEMMA NoNewLock ==
    ASSUME TypeOK, NEW R \in SUBSET Reservations, NEW t, t # "Locked", NEW k,
           UpdateReservations(R, t, k)
    PROVE  /\ \A r \in Reservations : rstate'[r] = "Locked" => rstate[r] = "Locked" /\ r \notin R
           /\ \A r \in Reservations : rdb'[r] = "Locked" => rdb[r] = "Locked"
  BY Zenon DEF TypeOK, UpdateReservations

LEMMA ErrorUnlocks ==
    ASSUME TypeOK, Machines, NEW s \in Swaps, NEW n,
           HandleErrorAndUnlockReservations(s, n)
    PROVE  /\ \A r \in Reservations : rstate'[r] = "Locked" => rstate[r] = "Locked"
           /\ \A r \in Reservations : rdb'[r] = "Locked" => rdb[r] = "Locked"
           /\ \/ \A r \in Reservations : rstate'[r] = "Locked" => r \notin rs[s]
              \/ UNCHANGED istate
  <1> DEFINE L == {r \in rs[s] \cap ractive : rstate[r] = "Locked"}
  <1>1. L \in SUBSET Reservations
    BY Zenon DEF TypeOK
  <1>2. PICK k \in 0 .. 1 : \/ UnlockReservations(rs[s], k)
                            \/ UnlockJams(rs[s], k) /\ UNCHANGED istate
    BY Zenon DEF HandleErrorAndUnlockReservations
  <1>3. CASE UnlockReservations(rs[s], k)
    <2>1. \A r \in Reservations : rstate'[r] = "Locked" => rstate[r] = "Locked" /\ r \notin L
      BY <1>1, <1>3, NoNewLock, Zenon DEF UnlockReservations
    <2>2. \A r \in Reservations : rdb'[r] = "Locked" => rdb[r] = "Locked"
      BY <1>1, <1>3, NoNewLock, Zenon DEF UnlockReservations
    <2>3. \A r \in Reservations : rstate[r] = "Locked" => r \in ractive
      BY Zenon DEF Machines, RFinal
    <2>4. QED
      BY <2>1, <2>2, <2>3, Zenon
  <1>4. CASE UnlockJams(rs[s], k) /\ UNCHANGED istate
    <2>1. PICK K \in SUBSET L : UpdateReservations(K, "Confirmed", k)
      BY <1>4, Zenon DEF UnlockJams
    <2>2. K \in SUBSET Reservations
      BY <1>1, Zenon
    <2>3. QED
      BY <1>4, <2>1, <2>2, NoNewLock, Zenon
  <1>5. QED
    BY <1>2, <1>3, <1>4, Zenon

\* Every step keeps locks, in memory and stored, with swaps that have them.
LEMMA LockStep ==
    ASSUME IInv, [Next]_vars
    PROVE  LockedHasOwner' /\ Owners'
  <1> USE DEF vars, rvars, rchain, ivars, ctl, data, mined
  <1>0. TypeOK /\ Machines /\ Owners /\ LockedHasOwner /\ \A s \in Swaps : Local(s)
    BY Zenon DEF IInv
  <1> DEFINE NoNew == /\ \A r \in Reservations : rstate'[r] = "Locked" => rstate[r] = "Locked"
                      /\ \A r \in Reservations : rdb'[r] = "Locked" => rdb[r] = "Locked"
  <1>1. CASE NoNew /\ UNCHANGED <<rs, istate, again>>
    BY <1>0, <1>1, Zenon DEF LockedHasOwner, Owners
  <1>2. CASE UNCHANGED vars
    BY <1>1, <1>2, Zenon
  <1>3. ASSUME ReservationNext, UNCHANGED ivars PROVE LockedHasOwner' /\ Owners'
    <2>1. ASSUME NEW r \in Reservations, NEW t, t # "Locked", UpdateReservation(r, t)
          PROVE  NoNew
      <3>1. PICK k \in 0 .. 1 : UpdateReservations({r}, t, k)
        BY <2>1, Zenon DEF UpdateReservation
      <3>2. QED
        BY <1>0, <2>1, <3>1, NoNewLock, Zenon
    <2>2. CASE UNCHANGED <<rstate, rdb>>
      BY <1>1, <1>3, <2>2, Zenon
    <2>3. ASSUME NEW r \in Reservations, NewReservation(r) \/ InitAction(r) PROVE NoNew
      BY <1>0, <2>3 DEF NewReservation, InitAction, TypeOK
    <2>4. ASSUME NEW r \in Reservations,
                 OnBroadcast(r) \/ SubscribeToConfirmationAction(r) \/ HandleSubscriptions(r)
          PROVE  NoNew
      BY <2>1, <2>4, Zenon
      DEF OnBroadcast, SubscribeToConfirmationAction, HandleSubscriptions
    <2>5. QED
      BY <1>1, <1>3, <2>2, <2>3, <2>4, Zenon
      DEF ReservationNext, ReservationStep, ServerSweeps, NewBlocks
  <1>4. ASSUME NEW s \in Swaps, NEW R \in Requests, NewInstantOut(s, R)
        PROVE  LockedHasOwner' /\ Owners'
    <2>1. rs[s] = {} /\ UNCHANGED <<rstate, rdb, again>>
      BY <1>0, <1>4, Zenon DEF NewInstantOut, Local, Started
    <2>2. \A u \in Swaps \ {s} : rs'[u] = rs[u] /\ istate'[u] = istate[u]
      BY <1>0, <1>4, Zenon DEF NewInstantOut, Set, TypeOK
    <2>3. QED
      BY <1>0, <2>1, <2>2, Zenon DEF LockedHasOwner, Owners
  <1>5. ASSUME NEW s \in Swaps, InstantOutStep(s) PROVE LockedHasOwner' /\ Owners'
    <2>1. UNCHANGED <<rs, again>> /\ \A u \in Swaps \ {s} : istate'[u] = istate[u]
      BY <1>0, <1>5, StepFrame, Zenon
    <2>2. istate'[s] \in {"Init", "Failed"} /\ s \notin again =>
             \/ istate[s] = "Init"
             \/ \E n \in {0, 1} : HandleErrorAndUnlockReservations(s, n)
      BY <1>0, <1>5, GivesUp, Zenon
    <2>3. ASSUME NEW n, HandleErrorAndUnlockReservations(s, n)
          PROVE  LockedHasOwner' /\ Owners'
      <3>1. /\ NoNew
            /\ \/ \A r \in Reservations : rstate'[r] = "Locked" => r \notin rs[s]
               \/ UNCHANGED istate
        BY <1>0, <2>3, ErrorUnlocks, Zenon
      <3>2. QED
        BY <1>0, <2>1, <3>1, Zenon DEF LockedHasOwner, Owners
    <2>4. ASSUME NoNew, ~ \E n \in {0, 1} : HandleErrorAndUnlockReservations(s, n)
          PROVE  LockedHasOwner' /\ Owners'
      <3>1. istate'[s] \in {"Init", "Failed"} /\ s \notin again => istate[s] = "Init"
        BY <2>2, <2>4, Zenon
      <3>2. QED
        BY <1>0, <2>1, <2>4, <3>1, Zenon DEF LockedHasOwner, Owners
    <2>5. ASSUME NEW r \in todo[s], LockReservation(r), UNCHANGED istate,
                 istate[s] = "SendPaymentAndPollAccepted"
          PROVE  LockedHasOwner' /\ Owners'
      <3>1. r \in rs[s] /\ r \in Reservations
        BY <1>0, Zenon DEF Local, Started, TypeOK
      <3>2. PICK k \in 0 .. 1 : UpdateReservations({r}, "Locked", k)
        BY <2>5, Zenon DEF LockReservation, UpdateReservation
      <3>3. \A q \in Reservations \ {r} : rstate'[q] = rstate[q] /\ rdb'[q] = rdb[q]
        BY <1>0, <3>2, Zenon DEF UpdateReservations, TypeOK
      <3>4. QED
        BY <1>0, <2>1, <2>5, <3>1, <3>3, Zenon DEF LockedHasOwner, Owners
    <2>6. QED
      BY <1>5, <2>3, <2>4, <2>5, SwapMoves, Zenon
  <1>6. CASE \E s \in Swaps : ServerReleases(s) \/ MineSpend(s) \/ MineHtlcSpend(s)
    BY <1>1, <1>6, Zenon DEF ServerReleases, MineSpend, MineHtlcSpend
  <1>7. CASE Stop
    BY <1>1, <1>7, Zenon DEF Stop
  <1>8. CASE Restart
    <2>1. \A s \in Swaps : \A r \in rs[s] : s \in again'
      BY <1>0, <1>8, Zenon DEF Restart, Local, Started
    <2>2. \A r \in Reservations : rstate'[r] = "Locked" => rdb[r] = "Locked"
      BY <1>8, Zenon DEF Restart, RecoverReservations
    <2>3. QED
      BY <1>0, <1>8, <2>1, <2>2, Zenon
      DEF Restart, RecoverReservations, LockedHasOwner, Owners
  <1>9. QED
    BY <1>2, <1>3, <1>4, <1>5, <1>6, <1>7, <1>8, Zenon DEF Next

\* The initial states satisfy the invariant.
LEMMA InitIInv ==
    ASSUME Init
    PROVE  IInv
  <1> USE DEF Init, ReservationInit
  <1>1. TypeOK
    BY ReservationAssumption DEF TypeOK, RStates, Txs
  <1>2. Machines
    BY ReservationAssumption, Zenon DEF Machines, RFinal
  <1>3. Owners /\ LockedHasOwner
    BY Zenon DEF Owners, LockedHasOwner
  <1>4. \A s \in Swaps : Local(s)
    BY Zenon DEF Local, Running, Pursued, Started, Mined, Waits
  <1>5. QED
    BY <1>1, <1>2, <1>3, <1>4, Zenon DEF IInv

\* Every step keeps the invariant.
LEMMA NextIInv ==
    ASSUME IInv, [Next]_vars
    PROVE  IInv'
  <1>1. TypeOK'
    BY TypeStep, Zenon DEF IInv, Local
  <1>2. Machines'
    BY MachinesStep, Zenon DEF IInv, Local
  <1>3. \A s \in Swaps : Local(s)'
    BY LocalStep, Zenon DEF IInv
  <1>4. QED
    BY <1>1, <1>2, <1>3, LockStep, Zenon DEF IInv

\* Machines, locks, stored states and chain agree in every reachable state.
THEOREM Invariance == Spec => []IInv
  <1>1. Init => IInv
    BY InitIInv, Zenon
  <1>2. IInv /\ [Next]_vars => IInv'
    BY NextIInv, Zenon
  <1>3. QED
    BY <1>1, <1>2, PTL DEF Spec

\* Every variable of reservations and instant outs has its type.
THEOREM TypeCorrect == Spec => []TypeOK
  <1>1. IInv => TypeOK
    BY Zenon DEF IInv
  <1>2. QED
    BY <1>1, Invariance, PTL

\* For any number of instant outs and reservations, PushPreimageAction reveals a
\* preimage only when the stored state leads recovery back to it, unless a write of
\* updateInstantOut was lost.
THEOREM RevealStored == Spec => []RevealedIsStored
  <1>1. IInv => RevealedIsStored
    BY Zenon DEF IInv, TypeOK, Local, Pursued, RevealedIsStored
  <1>2. QED
    BY <1>1, Invariance, PTL

\* However many instant outs compete for a reservation, a locked one belongs to a
\* swap that still needs it or that a restart gave up
\* (handleErrorAndUnlockReservations).
THEOREM LocksOwned == Spec => []LockedHasOwner
  <1>1. IInv => LockedHasOwner
    BY Zenon DEF IInv
  <1>2. QED
    BY <1>1, Invariance, PTL

\* A swap is finished, in memory or stored, only when its coins are on chain, for
\* any number of published versions of its sweeps.
THEOREM FinishedPaid == Spec => []FinishedHasCoins
  <1>1. IInv => FinishedHasCoins
    BY Zenon DEF IInv, Local, Mined, FinishedHasCoins
  <1>2. QED
    BY <1>1, Invariance, PTL
=============================================================================
