----------------------------- MODULE InstantOut -----------------------------
(***************************************************************************)
(* Instant outs (instantout): the client pays the server off chain and     *)
(* gets reservations for it.  An htlc that spends the reservations is      *)
(* signed first; then the preimage is revealed, and the server signs a     *)
(* transaction that pays the client directly, the sweepless sweep.  The    *)
(* htlc is published when that fails.  Several instant outs run at the     *)
(* same time over the same reservations.                                   *)
(***************************************************************************)
EXTENDS Reservation

CONSTANTS
    Swaps,
    Requests,    \* the sets of reservations that are asked for
    MaxVersions  \* bound on the sweeps that an instant out publishes

ASSUME InstantOutAssumption ==
    MaxVersions \in Nat \ {0} /\ Requests \subseteq (SUBSET Reservations) \ {{}}

VARIABLES
    istate,    \* the state of each machine, "none" before its request
    idb,       \* the stored state, "none" when there is no row
    unsaved,   \* bookkeeping: swaps whose last write was lost
    step,      \* where the action of the state is; "off" when nobody runs it
    rs,        \* the reservations of the swap
    todo,      \* the ones that are to be locked
    srv,       \* external: the server has no, a held or an accepted swap
    revealed,  \* the server has the preimage
    out,       \* the transactions of the swap that were broadcast
    watch,     \* SweepTxHash
    dbWatch,   \* the stored one
    spend,     \* the mined transaction of the swap that spends its reservations
    hspend,    \* the mined transaction that spends its htlc
    again      \* bookkeeping: the daemon was restarted since the swap began

ctl == <<istate, idb, unsaved, step, watch, dbWatch>>
ivars == <<ctl, rs, todo, srv, revealed, out, spend, hspend, again>>
vars == <<rvars, rchain, up, faults, ivars>>

NoTx == [kind |-> "none", n |-> 0]
Htlc == [kind |-> "htlc", n |-> 0]
Taken == [kind |-> "taken", n |-> 0]
Txs == {NoTx, Htlc, Taken}
       \cup [kind : {"sweepless", "sweep"}, n : 1 .. MaxVersions]

\* GetV1ReservationStates
Transitions == [
    EmptyState |-> [OnStart |-> "Init"],
    Init |->
        [OnInit |-> "SendPaymentAndPollAccepted", OnError |-> "Failed",
         OnRecover |-> "Failed"],
    SendPaymentAndPollAccepted |->
        [OnPaymentAccepted |-> "BuildHtlc", OnError |-> "Failed",
         OnRecover |-> "Failed"],
    BuildHtlc |->
        [OnHtlcSigReceived |-> "PushPreimage", OnError |-> "Failed",
         OnRecover |-> "Failed"],
    PushPreimage |->
        [OnSweeplessSweepPublished |-> "WaitForSweeplessSweepConfirmed",
         OnError |-> "Failed", OnErrorPublishHtlc |-> "PublishHtlc",
         OnRecover |-> "PushPreimage"],
    WaitForSweeplessSweepConfirmed |->
        [OnSweeplessSweepConfirmed |-> "FinishedSweeplessSweep",
         OnRecover |-> "WaitForSweeplessSweepConfirmed",
         OnError |-> "PublishHtlc"],
    PublishHtlc |->
        [OnError |-> "FailedHtlcSweep", OnRecover |-> "PublishHtlc",
         OnHtlcPublished |-> "PublishHtlcSweep"],
    PublishHtlcSweep |->
        [OnHtlcSweepPublished |-> "WaitForHtlcSweepConfirmed",
         OnRecover |-> "PublishHtlcSweep", OnError |-> "FailedHtlcSweep"],
    WaitForHtlcSweepConfirmed |->
        [OnHtlcSwept |-> "FinishedHtlcPreimageSweep",
         OnRecover |-> "WaitForHtlcSweepConfirmed",
         OnError |-> "FailedHtlcSweep"],
    FailedHtlcSweep |-> [OnRecover |-> "PublishHtlcSweep"]]

IStates == DOMAIN Transitions \cup
    {"Failed", "FinishedSweeplessSweep", "FinishedHtlcPreimageSweep"}
IFinal == {"Failed", "FinishedSweeplessSweep", "FinishedHtlcPreimageSweep"}
\* Recovery gives these up.
Early == {"none", "EmptyState", "Init", "SendPaymentAndPollAccepted", "BuildHtlc"}

Init ==
    /\ ReservationInit
    /\ istate = [s \in Swaps |-> "none"] /\ idb = istate
    /\ unsaved = {} /\ step = [s \in Swaps |-> "off"]
    /\ rs = [s \in Swaps |-> {}] /\ todo = rs
    /\ srv = [s \in Swaps |-> "none"]
    /\ revealed = {}
    /\ out = [s \in Swaps |-> {}]
    /\ watch = [s \in Swaps |-> NoTx] /\ dbWatch = watch /\ spend = watch /\ hspend = watch
    /\ again = {}

Set(f, s, v) == [f EXCEPT ![s] = v]

\* Mutant: the state before the event is stored.
SendEventPrevious(s, e, next, hash, lost) ==
    /\ lost = 0
    /\ e \in DOMAIN Transitions[istate[s]]
    /\ istate' = Set(istate, s, Transitions[istate[s]][e])
    /\ step' = Set(step, s, next)
    /\ idb' = Set(idb, s, istate[s])
    /\ watch' = Set(watch, s, hash) /\ dbWatch' = watch'
    /\ UNCHANGED unsaved

\* SendEvent with updateInstantOut, which stores the new state before its action
\* runs, with SweepTxHash (hash), and only logs a failure (lost).  A rejected event
\* ends the goroutine.
SendEvent(s, e, next, hash, lost) ==
    IF e \in DOMAIN Transitions[istate[s]]
    THEN LET t == Transitions[istate[s]][e] IN
         /\ istate' = Set(istate, s, t)
         /\ step' = Set(step, s, IF t \in DOMAIN Transitions THEN next ELSE "off")
         /\ watch' = Set(watch, s, hash)
         /\ idb' = IF lost = 0 THEN Set(idb, s, t) ELSE idb
         /\ dbWatch' = IF lost = 0 THEN Set(dbWatch, s, hash) ELSE dbWatch
         /\ unsaved' = IF lost = 0 THEN unsaved \ {s} ELSE unsaved \cup {s}
    ELSE /\ lost = 0
         /\ step' = Set(step, s, "off")
         /\ UNCHANGED <<istate, idb, unsaved, watch, dbWatch>>

\* An action that met n faults returns event e, after it set SweepTxHash.
ReturnSweep(s, e, hash, n) ==
    \E lost \in 0 .. 1 : SendEvent(s, e, "start", hash, lost) /\ Faults(n + lost)

Return(s, e, n) == ReturnSweep(s, e, watch[s], n)

\* Mutant: an error does not unlock the reservations.
HandleErrorOnly(s, n) == Return(s, "OnError", n) /\ UNCHANGED rvars

\* handleErrorAndUnlockReservations; the server is told later (ServerReleases).
HandleErrorAndUnlockReservations(s, n) ==
    \E k, lost \in 0 .. 1 :
        \/ /\ UnlockReservations(rs[s], k)
           /\ SendEvent(s, "OnError", "start", watch[s], lost)
           /\ Faults(n + k + lost)
        \/ /\ UnlockJams(rs[s], k)
           /\ Faults(n + k + 1)
           /\ step' = Set(step, s, "off")
           /\ lost = 0 /\ UNCHANGED <<istate, idb, unsaved, watch, dbWatch>>

At(s, t, p) == up /\ istate[s] = t /\ step[s] = p
Fails(s, n) == HandleErrorAndUnlockReservations(s, n) /\ UNCHANGED <<rs, todo>>
data == <<rs, todo, srv, revealed, out>>
mined == <<spend, hspend, again>>
-----------------------------------------------------------------------------
(***************************************************************************)
(* The actions of the states.                                              *)
(***************************************************************************)

\* NewInstantOut and the checks of InitInstantOutAction, which read the store.
NewInstantOut(s, R) ==
    /\ up
    /\ istate[s] = "none"
    /\ phase = 0
    /\ \A r \in R : rdb[r] \notin {"none", "Locked"}
    /\ istate' = Set(istate, s, "Init") /\ step' = Set(step, s, "start")
    /\ rs' = Set(rs, s, R)
    /\ UNCHANGED <<rvars, rchain, up, faults, idb, unsaved, watch, dbWatch, todo, srv, revealed,
                   out, mined>>

\* External: the server holds a reservation for one swap at a time.
ServerIsFree(s) ==
    \A t \in Swaps \ {s} : srv[t] # "none" => rs[t] \cap rs[s] = {}

\* The request to the server and the row of the swap.  After an error the swap is
\* Failed and not stored; the server may have accepted all the same.
InitInstantOutAction(s) ==
    /\ At(s, "Init", "start")
    /\ \/ /\ ServerIsFree(s)
          /\ srv' = Set(srv, s, "held")
          /\ todo' = Set(todo, s, rs[s])
          /\ istate' = Set(istate, s, "SendPaymentAndPollAccepted")
          /\ step' = Set(step, s, "start")
          /\ \/ /\ idb' = Set(idb, s, "SendPaymentAndPollAccepted")
                /\ UNCHANGED unsaved /\ Faults(0)
             \/ /\ idb' = Set(idb, s, "EmptyState")
                /\ unsaved' = unsaved \cup {s} /\ Faults(1)
       \/ /\ istate' = Set(istate, s, "Failed") /\ step' = Set(step, s, "off")
          /\ \/ ~ ServerIsFree(s) /\ Faults(0) /\ UNCHANGED srv
             \/ /\ Faults(1)
                /\ ServerIsFree(s) /\ srv' = Set(srv, s, "held")
             \/ Faults(1) /\ UNCHANGED srv
          /\ UNCHANGED <<idb, unsaved, todo>>
    /\ UNCHANGED <<rvars, rchain, up, rs, revealed, out, watch, dbWatch, mined>>

\* PollPaymentAcceptedAction locks the reservations one after the other.
LockReservations(s) ==
    /\ At(s, "SendPaymentAndPollAccepted", "start")
    /\ \E r \in todo[s] :
         \/ /\ LockReservation(r)
            /\ todo' = Set(todo, s, todo[s] \ {r})
            /\ step' = Set(step, s, IF todo[s] = {r} THEN "poll" ELSE "start")
            /\ UNCHANGED <<istate, idb, unsaved, watch, dbWatch, rs>>
         \/ LockRefused(r) /\ Fails(s, 0)
    /\ UNCHANGED <<rchain, up, srv, revealed, out, mined>>

\* The payment fails, its stream ends, the server answers with errors or the
\* daemon is shut down; or the server has the payment.
PollPaymentAccepted(s) ==
    /\ At(s, "SendPaymentAndPollAccepted", "poll")
    /\ \/ Fails(s, 0) /\ UNCHANGED srv
       \/ /\ srv[s] = "held"
          /\ srv' = Set(srv, s, "accepted")
          /\ Return(s, "OnPaymentAccepted", 0)
          /\ UNCHANGED <<rvars, rs, todo>>
    /\ UNCHANGED <<rchain, up, revealed, out, mined>>

BuildHTLCAction(s) ==
    /\ At(s, "BuildHtlc", "start")
    /\ \/ Return(s, "OnHtlcSigReceived", 0) /\ UNCHANGED <<rvars, rs, todo>>
       \/ Fails(s, 1)
    /\ UNCHANGED <<rchain, up, srv, revealed, out, mined>>

\* A recovered swap goes to the htlc when the height is unknown or too close to
\* its expiry.
RecoveredLate(s) ==
    /\ At(s, "PushPreimage", "recovered")
    /\ \/ phase > 0 /\ Return(s, "OnErrorPublishHtlc", 0)
       \/ Return(s, "OnErrorPublishHtlc", 1)
    /\ UNCHANGED <<rvars, rchain, up, data, mined>>

\* The calls before the preimage is revealed.
PushPreimageFails(s) ==
    /\ At(s, "PushPreimage", "start") \/ (At(s, "PushPreimage", "recovered") /\ phase = 0)
    /\ Fails(s, 1)
    /\ UNCHANGED <<rchain, up, srv, revealed, out, mined>>

\* Mutant: every error of the push ends the swap.
PushErrorFails(s, n) == Return(s, "OnError", n)

PushError(s, n) == Return(s, "OnErrorPublishHtlc", n)

\* The server gets the preimage.  An error leaves open whether it did, and it may
\* refuse to be told again.
PushPreimageAction(s) ==
    /\ At(s, "PushPreimage", "start") \/ (At(s, "PushPreimage", "recovered") /\ phase = 0)
    /\ \/ /\ revealed' = revealed \cup {s}
          /\ step' = Set(step, s, "pushed")
          /\ UNCHANGED <<istate, idb, unsaved, watch, dbWatch, faults>>
       \/ /\ revealed' \in {revealed, revealed \cup {s}}
          /\ PushError(s, IF s \in revealed THEN 0 ELSE 1)
    /\ UNCHANGED <<rvars, rchain, up, rs, todo, srv, out, mined>>

Version(s, kind) ==
    [kind |-> kind, n |-> Cardinality({t \in out[s] : t.kind = kind}) + 1]

Publish(s, t) == out' = Set(out, s, out[s] \cup {t})

\* The reservations of s are unspent; another transaction of s may be in the
\* mempool, and then the wallet may refuse the new one.
Publishable(s) == rs[s] \cap spent = {}
Conflicts(s, t) == out[s] \ {t} # {}

PublishSweeplessSweep(s) ==
    /\ At(s, "PushPreimage", "pushed")
    /\ LET t == Version(s, "sweepless") IN
       \/ /\ Publishable(s) /\ t \in Txs
          /\ Publish(s, t)
          /\ ReturnSweep(s, "OnSweeplessSweepPublished", t, 0)
       \/ /\ \/ Publishable(s) /\ t \in Txs /\ Publish(s, t)
             \/ UNCHANGED out
          /\ Return(s, "OnErrorPublishHtlc", 1)
       \/ /\ ~ Publishable(s) \/ Conflicts(s, t)
          /\ UNCHANGED out
          /\ Return(s, "OnErrorPublishHtlc", 0)
    /\ UNCHANGED <<rvars, rchain, up, rs, todo, srv, revealed, mined>>

\* Mutant: any spend of the reservations counts.
SweeplessConfirmedSpent(s) == rs[s] \subseteq spent

SweeplessConfirmed(s) == spend[s] = watch[s]

\* An error of the registration is OnError, an error of the subscription is
\* OnErrorPublishHtlc, which this state does not accept.
WaitForSweeplessSweepConfirmedAction(s) ==
    /\ At(s, "WaitForSweeplessSweepConfirmed", "start")
    /\ \/ SweeplessConfirmed(s) /\ Return(s, "OnSweeplessSweepConfirmed", 0)
       \/ Return(s, "OnError", 1)
       \/ Return(s, "OnErrorPublishHtlc", 1)
    /\ UNCHANGED <<rvars, rchain, up, data, mined>>

PublishHtlcAction(s) ==
    /\ At(s, "PublishHtlc", "start")
    /\ \/ /\ Publishable(s) \/ spend[s] = Htlc
          /\ Publish(s, Htlc)
          /\ step' = Set(step, s, "conf")
          /\ UNCHANGED <<istate, idb, unsaved, watch, dbWatch, faults>>
       \/ /\ \/ Publishable(s) /\ Publish(s, Htlc)
             \/ UNCHANGED out
          /\ Return(s, "OnError", 1)
       \/ /\ ~ Publishable(s) \/ Conflicts(s, Htlc)
          /\ UNCHANGED out
          /\ Return(s, "OnError", 0)
    /\ UNCHANGED <<rvars, rchain, up, rs, todo, srv, revealed, mined>>

HtlcConfirmed(s) ==
    /\ At(s, "PublishHtlc", "conf")
    /\ \/ spend[s] = Htlc /\ Return(s, "OnHtlcPublished", 0)
       \/ Return(s, "OnError", 1)
    /\ UNCHANGED <<rvars, rchain, up, data, mined>>

\* The htlc is there to be swept.
Sweepable(s) == hspend[s] = NoTx /\ (spend[s] = Htlc \/ (Htlc \in out[s] /\ Publishable(s)))

PublishHtlcSweepAction(s) ==
    /\ At(s, "PublishHtlcSweep", "start")
    /\ LET t == Version(s, "sweep") IN
       \/ /\ Sweepable(s) /\ t \in Txs
          /\ Publish(s, t)
          /\ ReturnSweep(s, "OnHtlcSweepPublished", t, 0)
       \/ /\ \/ Sweepable(s) /\ t \in Txs /\ Publish(s, t)
             \/ UNCHANGED out
          /\ Return(s, "OnError", 1)
       \/ /\ ~ Sweepable(s) \/ t.n > 1
          /\ UNCHANGED out
          /\ Return(s, "OnError", 0)
    /\ UNCHANGED <<rvars, rchain, up, rs, todo, srv, revealed, mined>>

WaitForHtlcSweepConfirmedAction(s) ==
    /\ At(s, "WaitForHtlcSweepConfirmed", "start")
    /\ \/ hspend[s] = watch[s] /\ Return(s, "OnHtlcSwept", 0)
       \/ Return(s, "OnError", 1)
    /\ UNCHANGED <<rvars, rchain, up, data, mined>>

\* recoverInstantOuts sends OnRecover to every machine that is not final.
RecoverInstantOut(s) ==
    /\ up
    /\ step[s] = "recover"
    /\ \E lost \in 0 .. 1 :
         /\ SendEvent(s, "OnRecover", IF istate[s] = "PushPreimage"
                                      THEN "recovered" ELSE "start", watch[s], lost)
         /\ Faults(lost)
    /\ UNCHANGED <<rvars, rchain, up, data, mined>>

InstantOutStep(s) ==
    \/ InitInstantOutAction(s) \/ LockReservations(s) \/ PollPaymentAccepted(s)
    \/ BuildHTLCAction(s) \/ RecoveredLate(s) \/ PushPreimageFails(s)
    \/ PushPreimageAction(s) \/ PublishSweeplessSweep(s)
    \/ WaitForSweeplessSweepConfirmedAction(s) \/ PublishHtlcAction(s)
    \/ HtlcConfirmed(s) \/ PublishHtlcSweepAction(s)
    \/ WaitForHtlcSweepConfirmedAction(s) \/ RecoverInstantOut(s)
-----------------------------------------------------------------------------
(***************************************************************************)
(* External: the server and the chain.                                     *)
(***************************************************************************)

\* The server gives up a swap, told by the client or after a timeout.
ServerReleases(s) ==
    /\ s \notin revealed
    /\ srv[s] = "held" \/ (srv[s] = "accepted" /\ istate[s] = "Failed")
    /\ srv' = Set(srv, s, "none")
    /\ UNCHANGED <<rvars, rchain, up, faults, ctl, rs, todo, revealed,
                   out, mined>>

MineSpend(s) ==
    /\ Publishable(s)
    /\ \E t \in out[s] :
         t.kind \in {"sweepless", "htlc"} /\ spend' = Set(spend, s, t)
    /\ spent' = spent \cup rs[s]
    /\ UNCHANGED <<rvars, phase, up, faults, ctl, data, hspend,
                   again>>

\* The server can spend the htlc when it has expired.
MineHtlcSpend(s) ==
    /\ spend[s] = Htlc /\ hspend[s] = NoTx
    /\ \/ \E t \in out[s] : t.kind = "sweep" /\ hspend' = Set(hspend, s, t)
       \/ phase > 1 /\ hspend' = Set(hspend, s, Taken)
    /\ UNCHANGED <<rvars, rchain, up, faults, ctl, data, spend, again>>

Stop ==
    /\ up
    /\ Faults(1)
    /\ up' = FALSE
    /\ step' = [s \in Swaps |-> "off"]
    /\ UNCHANGED <<rvars, rchain, istate, idb, unsaved, watch, dbWatch, data, mined>>

\* A swap that has no row is gone.
Restart ==
    /\ ~ up
    /\ up' = TRUE
    /\ RecoverReservations
    /\ istate' = [s \in Swaps |->
                    IF idb[s] = "none" /\ istate[s] # "none" THEN "Failed" ELSE idb[s]]
    /\ step' = [s \in Swaps |->
                  IF idb[s] \in DOMAIN Transitions THEN "recover" ELSE "off"]
    /\ watch' = dbWatch
    /\ again' = {s \in Swaps : istate[s] # "none"}
    /\ UNCHANGED <<rchain, faults, idb, unsaved, dbWatch, data, spend, hspend>>

Next ==
    \/ ReservationNext /\ UNCHANGED ivars
    \/ \E s \in Swaps :
         \/ \E R \in Requests : NewInstantOut(s, R)
         \/ InstantOutStep(s)
         \/ ServerReleases(s) \/ MineSpend(s) \/ MineHtlcSpend(s)
    \/ Stop \/ Restart

Spec == Init /\ [][Next]_vars

(***************************************************************************)
(* The goroutines are scheduled, a transaction that was broadcast is mined *)
(* when nothing else spends its inputs, the daemon is restarted.  Nothing  *)
(* is assumed of the server.                                               *)
(***************************************************************************)
FairSpec ==
    /\ Spec
    /\ \A s \in Swaps :
         /\ WF_vars(InstantOutStep(s))
         /\ WF_vars(MineSpend(s))
         /\ WF_vars(MineHtlcSpend(s))
    /\ \A r \in Reservations : WF_vars(ReservationStep(r) /\ UNCHANGED ivars)
    /\ WF_vars(Restart)
-----------------------------------------------------------------------------
\* Every variable has its type.
TypeOK ==
    /\ rstate \in [Reservations -> RStates \cup {"none"}]
    /\ rdb \in [Reservations -> RStates \cup {"none"}]
    /\ ractive \subseteq Reservations
    /\ rwait \subseteq Reservations /\ jammed \subseteq Reservations
    /\ spent \subseteq Reservations
    /\ phase \in 0 .. 3 /\ up \in BOOLEAN /\ faults \in 0 .. MaxFaults
    /\ istate \in [Swaps -> IStates \cup {"none"}]
    /\ idb \in [Swaps -> IStates \cup {"none"}]
    /\ step \in [Swaps -> {"off", "start", "poll", "recover", "recovered", "pushed",
                           "conf"}]
    /\ rs \in [Swaps -> SUBSET Reservations]
    /\ todo \in [Swaps -> SUBSET Reservations]
    /\ out \in [Swaps -> SUBSET Txs]
    /\ srv \in [Swaps -> {"none", "held", "accepted"}]
    /\ unsaved \subseteq Swaps /\ revealed \subseteq Swaps /\ again \subseteq Swaps
    /\ watch \in [Swaps -> Txs] /\ dbWatch \in [Swaps -> Txs]
    /\ spend \in [Swaps -> Txs] /\ hspend \in [Swaps -> Txs]

\* The preimage is revealed only when a restart would continue with it: the
\* stored state is one that recovery does not give up, unless a write of the
\* state was lost (updateInstantOut runs before PushPreimageAction).
RevealedIsStored ==
    \A s \in revealed : idb[s] \in Early => s \in unsaved

\* A locked reservation has a swap that still needs it, so that it can be unlocked
\* or spent; only a restart may break this (handleErrorAndUnlockReservations).
LockedHasOwner ==
    \A r \in Reservations :
        rstate[r] = "Locked" =>
            \E s \in Swaps : r \in rs[s]
                /\ (istate[s] \notin {"Init", "Failed"} \/ s \in again)

\* A swap is finished only when its coins are on chain.
FinishedHasCoins ==
    \A s \in Swaps :
        /\ "FinishedSweeplessSweep" \in {istate[s], idb[s]}
            => spend[s].kind = "sweepless"
        /\ "FinishedHtlcPreimageSweep" \in {istate[s], idb[s]}
            => hspend[s].kind = "sweep"

Coins(s) == spend[s].kind = "sweepless" \/ hspend[s].kind = "sweep"

\* A client that revealed the preimage gets its coins before the htlc expires, by
\* one way or the other, unless its sweep of the htlc failed or the swap was given
\* up after a restart repeated the push (PushPreimageAction).
RevealedGetsCoins ==
    \A s \in Swaps :
        s \in revealed ~> Coins(s) \/ phase > 1
                          \/ istate[s] = "FailedHtlcSweep"
                          \/ (istate[s] = "Failed" /\ s \in again)

\* An expired reservation does not stay active, locked or not, unless the wait for
\* its confirmation broke or its machine is jammed.
ReservationEnds ==
    \A r \in Reservations :
        phase = 3 /\ r \in ractive ~>
            r \notin ractive \/ r \in jammed
            \/ (rstate[r] = "WaitForConfirmation" /\ r \notin rwait)
=============================================================================
