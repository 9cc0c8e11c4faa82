---------------------------- MODULE DepositProofs ----------------------------
(***************************************************************************)
(* For any number of goroutines, callers and state machines of a deposit,  *)
(* wallet views, failures and restarts: a deposit is Expired only by its   *)
(* sweep, and swept only after its expiry; and while the wallet sees it,   *)
(* its machine agrees with it and its final state is kept.                 *)
(*                                                                         *)
(* None is inductive.  What reaches the record of the deposit comes from   *)
(* the machines, and what they do from the events under way.  For the      *)
(* expiry, Swept and Early say of every machine and every goroutine what   *)
(* the property says of the record.  For the agreement, Single says that   *)
(* there is one machine and that its mutex lets one goroutine at a time    *)
(* be between a transition and updateDeposit.                              *)
(***************************************************************************)
EXTENDS Deposit, TLAPS

Expiring == {"PublishExpirySweep", "WaitForExpirySweep", "Expired"}

Swept ==
    \/ spent = "expiry"
    \/ /\ dstate # "Expired" /\ db # "Expired"
       /\ \A g \in Fsms : current[g] # "Expired"
       /\ \A p \in Procs : ev[p] # "OnExpirySwept"

Early ==
    \/ late
    \/ /\ ~ sweepTx
       /\ dstate \notin Expiring /\ db \notin Expiring
       /\ \A g \in Fsms : current[g] \notin Expiring
       /\ \A p \in Procs : ev[p] # "OnExpiry"

\* A machine or a goroutine of the deposit is at work.
Running == active # 0 \/ starting # 0 \/ \E p \in Procs : pc[p] # "idle"

\* The steps of SendEvent that hold the mutex of the machine.
Sending == {"next", "entry", "action", "wait"}

\* While the wallet saw the deposit there is one machine, the last one created: every
\* goroutine works on it, one at a time, it agrees with the deposit except between a
\* transition and updateDeposit, and once final it stays where it is.
Single ==
    /\ active \in {0, gens} /\ starting \in {0, gens}
    /\ ~ up => ~ Running /\ ~ finalized
    /\ \A p \in Procs : pc[p] # "idle" => on[p] = gens
    /\ \A p \in Procs : pc[p] \in Sending => mutex[gens] = p
    /\ Running /\ current[gens] # "Empty" /\ (\A p \in Procs : pc[p] # "entry")
         => current[gens] = dstate
    /\ active # 0 \/ (\E p \in Procs : pc[p] = "entry") => current[gens] # "Empty"
    /\ db # "Empty"
    /\ finalized => current[gens] \in Final /\ dstate \in Final
    /\ up /\ active = 0 /\ starting = 0
         => dstate \in Final /\ (Running => current[gens] \in Final)
    /\ db \in Final /\ Running => current[gens] = db

Agreement == vanished \/ Single

Inv == TypeOK /\ Swept /\ Early /\ Agreement

-----------------------------------------------------------------------------
\* What the table of DepositStatesV0 says of the expiry.
LEMMA TableFacts ==
    \A t \in Transitions :
        /\ t[1] \in States /\ t[2] \in Events /\ t[3] \in States
        /\ t[3] # "Empty"
        /\ t[1] \in Final => t[3] = t[1]
        /\ t[3] = "Expired" => t[1] = "Expired" \/ t[2] = "OnExpirySwept"
        /\ t[3] \in Expiring => t[1] \in Expiring \/ t[2] = "OnExpiry"
<1>1. \A t \in Transitions : t[1] \in States /\ t[2] \in Events /\ t[3] \in States
  BY Zenon DEF States, Events
<1>2. \A t \in Transitions :
        /\ t[3] # "Empty"
        /\ t[1] \in Final => t[3] = t[1]
        /\ t[3] = "Expired" => t[1] = "Expired" \/ t[2] = "OnExpirySwept"
        /\ t[3] \in Expiring => t[1] \in Expiring \/ t[2] = "OnExpiry"
  BY SMTT(60) DEF Transitions, FinalExpiry, Final, SelfRecovers, Expiring
<1>q. QED BY <1>1, <1>2

\* What one transition of a machine does to its state.
LEMMA NextFacts ==
    ASSUME NEW s, NEW e, Accepts(s, e)
    PROVE  /\ NextState(s, e) \in States /\ e \in Events
           /\ NextState(s, e) # "Empty"
           /\ s \in Final => NextState(s, e) = s
           /\ NextState(s, e) = "Expired" => s = "Expired" \/ e = "OnExpirySwept"
           /\ NextState(s, e) \in Expiring => s \in Expiring \/ e = "OnExpiry"
<1>1. PICK u \in Transitions : u[1] = s /\ u[2] = e
  BY DEF Accepts
<1>2. (CHOOSE t \in Transitions : t[1] = s /\ t[2] = e) \in
        {t \in Transitions : t[1] = s /\ t[2] = e}
  BY <1>1, Zenon
<1>q. QED BY <1>1, <1>2, TableFacts DEF NextState

\* The states and events the actions name are those of the table.
LEMMA Names ==
    /\ {"Empty", "Deposited"} \subseteq States
    /\ {"OnStart", "OnRecover", "OnExpiry", "OnExpiryPublished", "OnExpirySwept",
        "OnError"} \subseteq Events
    /\ CallerEvents \subseteq Events
<1>1. /\ <<"Empty", "OnStart", "Deposited">> \in Transitions
      /\ <<"Deposited", "OnExpiry", "PublishExpirySweep">> \in Transitions
      /\ <<"WaitForExpirySweep", "OnRecover", "PublishExpirySweep">> \in Transitions
      /\ <<"PublishExpirySweep", "OnExpiryPublished", "WaitForExpirySweep">>
           \in Transitions
      /\ <<"WaitForExpirySweep", "OnExpirySwept", "Expired">> \in Transitions
      /\ <<"Deposited", "OnError", "Deposited">> \in Transitions
      /\ <<"Deposited", "OnWithdrawInitiated", "Withdrawing">> \in Transitions
      /\ <<"Withdrawing", "OnWithdrawn", "Withdrawn">> \in Transitions
      /\ <<"Deposited", "OnLoopInInitiated", "LoopingIn">> \in Transitions
      /\ <<"LoopingIn", "OnLoopedIn", "LoopedIn">> \in Transitions
      /\ <<"Deposited", "OnOpeningChannel", "OpeningChannel">> \in Transitions
      /\ <<"OpeningChannel", "OnChannelPublished", "ChannelPublished">>
           \in Transitions
      /\ <<"Deposited", "OnSweepingHtlcTimeout", "SweepHtlcTimeout">>
           \in Transitions
      /\ <<"SweepHtlcTimeout", "OnHtlcTimeoutSwept", "HtlcTimeoutSwept">>
           \in Transitions
  BY Zenon DEF Transitions
<1>2. \A a, b, c : <<a, b, c>> \in Transitions =>
        a \in States /\ b \in Events /\ c \in States
  <2>. SUFFICES ASSUME NEW a, NEW b, NEW c, <<a, b, c>> \in Transitions
                PROVE  a \in States /\ b \in Events /\ c \in States
    OBVIOUS
  <2>1. <<a, b, c>>[1] = a /\ <<a, b, c>>[2] = b /\ <<a, b, c>>[3] = c
    OBVIOUS
  <2>q. QED BY <2>1, TableFacts
<1>q. QED BY <1>1, <1>2 DEF CallerEvents

\* Every step keeps the types.
LEMMA TypeStep ==
    ASSUME TypeOK, [Next]_vars
    PROVE  TypeOK'
<1>. USE DEF TypeOK
<1>1. CASE \E p \in Procs : AcquireMutex(p)
  <2>. PICK p \in Procs : AcquireMutex(p)
    BY <1>1
  <2>q. QED BY <1>1, Names, MaxFsmsAssumption, MaxFaultsAssumption
      DEF AcquireMutex, dvars, smvars, mgrvars,
      procvars, chainvars, vars, Procs, Fsms
<1>2. CASE \E p \in Procs : GetNextState(p)
  <2>. PICK p \in Procs : GetNextState(p)
    BY <1>2
  <2>1. CASE Accepts(current[on[p]], ev[p])
    <3>1. NextState(current[on[p]], ev[p]) \in States
      BY <2>1, NextFacts
    <3>q. QED BY <2>1, <3>1 DEF GetNextState, Return, dvars, smvars, mgrvars,
      procvars, chainvars, vars, Procs
  <2>2. CASE ~ Accepts(current[on[p]], ev[p])
    BY <2>2 DEF GetNextState, Return, dvars, smvars, mgrvars,
      procvars, chainvars, vars, Procs
  <2>q. QED BY <2>1, <2>2
<1>3. CASE \E p \in Procs : UpdateDeposit(p)
  <2>. PICK p \in Procs : UpdateDeposit(p)
    BY <1>3
  <2>q. QED BY <1>3, Names, MaxFsmsAssumption, MaxFaultsAssumption
      DEF UpdateDeposit, Fault, dvars, smvars, mgrvars,
      procvars, chainvars, vars, Procs, Fsms
<1>4. CASE \E p \in Procs : PublishExpirySweep(p)
  <2>. PICK p \in Procs : PublishExpirySweep(p)
    BY <1>4
  <2>1. sweepTx' \in BOOLEAN
    BY Zenon DEF PublishExpirySweep, Continue, Fault, dvars, smvars, mgrvars,
      procvars, chainvars, vars
  <2>2. faults' \in 0 .. MaxFaults
    BY MaxFaultsAssumption
      DEF PublishExpirySweep, Continue, Fault, dvars, smvars, mgrvars,
      procvars, chainvars, vars
  <2>3. \E e \in Events : Continue(p, e)
    BY Names DEF PublishExpirySweep
  <2>q. QED BY <2>1, <2>2, <2>3
    DEF PublishExpirySweep, Continue, Fault, dvars, smvars, mgrvars,
      procvars, chainvars, vars, Procs
<1>5. CASE \E p \in Procs : RegisterConfirmation(p)
  <2>. PICK p \in Procs : RegisterConfirmation(p)
    BY <1>5
  <2>q. QED BY <1>5, Names, MaxFsmsAssumption, MaxFaultsAssumption
      DEF RegisterConfirmation, dvars, smvars, mgrvars,
      procvars, chainvars, vars, Procs, Fsms
<1>6. CASE \E p \in Procs : WaitForExpirySweep(p)
  <2>. PICK p \in Procs : WaitForExpirySweep(p)
    BY <1>6
  <2>1. sweepTx' = sweepTx
    BY DEF WaitForExpirySweep
  <2>2. faults' \in 0 .. MaxFaults
    BY MaxFaultsAssumption DEF WaitForExpirySweep, Continue, Fault,
           ExpirySweepConfirmed, dvars, smvars, mgrvars,
      procvars, chainvars, vars
  <2>3. \E e \in Events : Continue(p, e)
    BY Names DEF WaitForExpirySweep
  <2>q. QED BY <2>1, <2>2, <2>3 DEF Continue, dvars, smvars, mgrvars,
      procvars, chainvars, Procs
<1>7. CASE \E p \in Procs : EndEvent(p)
  <2>. PICK p \in Procs : EndEvent(p)
    BY <1>7
  <2>q. QED BY <1>7, Names, MaxFsmsAssumption, MaxFaultsAssumption
      DEF EndEvent, Return, dvars, smvars, mgrvars,
      procvars, chainvars, vars, Procs, Fsms
<1>8. CASE \E s \in Senders : Recover(s)
  <2>. PICK s \in Senders : Recover(s)
    BY <1>8
  <2>1. up' \in BOOLEAN
    BY Zenon DEF Recover
  <2>2. CASE db \in Final
    BY <2>1, <2>2 DEF Recover, Spawn, RecoveredState, dvars, smvars, mgrvars,
      procvars, chainvars, vars, Procs
  <2>3. CASE db \notin Final
    <3>1. gens' \in Fsms /\ active' \in 0 .. gens' /\ starting' \in 0 .. gens'
      BY <2>3, MaxFsmsAssumption
        DEF Recover, Spawn, RecoveredState, dvars, smvars, mgrvars,
      procvars, chainvars, vars, Fsms
    <3>q. QED BY <2>1, <2>3, <3>1, Names
      DEF Recover, Spawn, RecoveredState, dvars, smvars, mgrvars,
      procvars, chainvars, vars, Procs
  <2>q. QED BY <2>2, <2>3
<1>9. CASE \E c \in Callers : LockDeposit(c)
  <2>. PICK c \in Callers : LockDeposit(c)
    BY <1>9
  <2>q. QED BY <1>9, Names, MaxFsmsAssumption, MaxFaultsAssumption
      DEF LockDeposit, dvars, smvars, mgrvars,
      procvars, chainvars, vars, Procs, Fsms
<1>10. CASE \E c \in Callers : UnlockDeposit(c)
  <2>. PICK c \in Callers : UnlockDeposit(c)
    BY <1>10
  <2>q. QED BY <1>10, Names, MaxFsmsAssumption, MaxFaultsAssumption
      DEF UnlockDeposit, dvars, smvars, mgrvars,
      procvars, chainvars, vars, Procs, Fsms
<1>11. CASE \E c \in Callers : HoldActiveDeposit(c)
  <2>. PICK c \in Callers : HoldActiveDeposit(c)
    BY <1>11
  <2>q. QED BY <1>11, Names, MaxFsmsAssumption, MaxFaultsAssumption
      DEF HoldActiveDeposit, dvars, smvars, mgrvars,
      procvars, chainvars, vars, Procs, Fsms
<1>12. CASE \E c \in Callers : \E e \in CallerEvents : Transition(c, e)
  <2>. PICK c \in Callers : \E e \in CallerEvents : Transition(c, e)
    BY <1>12
  <2>. PICK e \in CallerEvents : Transition(c, e)
    OBVIOUS
  <2>q. QED BY <1>12, Names, MaxFsmsAssumption, MaxFaultsAssumption
      DEF Transition, dvars, smvars, mgrvars,
      procvars, chainvars, vars, Procs, Fsms
<1>13. CASE \E s \in Senders : HandleBlockNotification(s)
  <2>. PICK s \in Senders : HandleBlockNotification(s)
    BY <1>13
  <2>1. sweepTx' \in BOOLEAN
    BY Zenon DEF HandleBlockNotification, Spawn,
           Notified, IsExpired, dvars, smvars, mgrvars,
      procvars, chainvars, vars
  <2>2. UNCHANGED <<dvars, smvars, mgrvars, up, signed, late, spent, faults>>
    BY DEF HandleBlockNotification
  <2>3. active \in Fsms
    BY MaxFsmsAssumption DEF HandleBlockNotification, Notified, Fsms
  <2>4. UNCHANGED procvars \/ Spawn(s, active, "OnExpiry")
    BY DEF HandleBlockNotification
  <2>q. QED BY <2>1, <2>2, <2>3, <2>4, Names
      DEF Spawn, dvars, smvars, mgrvars, procvars, Procs
<1>14. CASE \E s \in Senders : Reactivate(s)
  <2>. PICK s \in Senders : Reactivate(s)
    BY <1>14
  <2>q. QED BY <1>14, Names, MaxFsmsAssumption, MaxFaultsAssumption
      DEF Reactivate, Spawn, dvars, smvars, mgrvars,
      procvars, chainvars, vars, Procs, Fsms
<1>15. CASE Deactivate
  <2>1. vanished' \in BOOLEAN
    BY <1>15, Zenon DEF Deactivate, Fault, dvars, smvars, mgrvars,
      procvars, chainvars, vars
  <2>q. QED BY <1>15, <2>1, MaxFsmsAssumption, MaxFaultsAssumption
    DEF Deactivate, Fault, dvars, smvars, mgrvars,
      procvars, chainvars, vars, Fsms
<1>16. CASE Started
  <2>q. QED BY <1>16, Names, MaxFsmsAssumption, MaxFaultsAssumption
      DEF Started, dvars, smvars, mgrvars,
      procvars, chainvars, vars, Procs, Fsms
<1>17. CASE RemoveActiveDeposit
  <2>1. finalized' \in BOOLEAN
    BY <1>17, Zenon DEF RemoveActiveDeposit, dvars, smvars, mgrvars,
      procvars, chainvars, vars
  <2>q. QED BY <1>17, <2>1, MaxFsmsAssumption
    DEF RemoveActiveDeposit, dvars, smvars, mgrvars,
      procvars, chainvars, vars, Fsms
<1>18. CASE Release
  <2>q. QED BY <1>18, Names, MaxFsmsAssumption, MaxFaultsAssumption
      DEF Release, dvars, smvars, mgrvars,
      procvars, chainvars, vars, Procs, Fsms
<1>19. CASE ExpiryPasses
  <2>q. QED BY <1>19, Names, MaxFsmsAssumption, MaxFaultsAssumption
      DEF ExpiryPasses, dvars, smvars, mgrvars,
      procvars, chainvars, vars, Procs, Fsms
<1>20. CASE SweepConfirms
  <2>q. QED BY <1>20, Names, MaxFsmsAssumption, MaxFaultsAssumption
      DEF SweepConfirms, dvars, smvars, mgrvars,
      procvars, chainvars, vars, Procs, Fsms
<1>21. CASE SpentElsewhere
  <2>q. QED BY <1>21, Names, MaxFsmsAssumption, MaxFaultsAssumption
      DEF SpentElsewhere, dvars, smvars, mgrvars,
      procvars, chainvars, vars, Procs, Fsms
<1>22. CASE Stop
  <2>1. finalized' \in BOOLEAN /\ held' \in BOOLEAN /\ up' \in BOOLEAN
    BY <1>22, Zenon DEF Stop, Fault, dvars, smvars, mgrvars,
      procvars, chainvars, vars
  <2>2. faults' \in 0 .. MaxFaults
    BY <1>22, MaxFaultsAssumption DEF Stop, Fault, dvars, smvars, mgrvars,
      procvars, chainvars, vars
  <2>3. mutex' \in [Fsms -> Procs \cup {NoProc}]
    BY <1>22 DEF Stop, Fault, dvars, smvars, mgrvars,
      procvars, chainvars, vars
  <2>4. active' \in 0 .. gens' /\ starting' \in 0 .. gens' /\ gens' \in Fsms
    BY <1>22, MaxFsmsAssumption DEF Stop, Fault, dvars, smvars, mgrvars,
      procvars, chainvars, vars, Fsms
  <2>q. QED BY <1>22, <2>1, <2>2, <2>3, <2>4
    DEF Stop, Fault, dvars, smvars, mgrvars,
      procvars, chainvars, vars
<1>23. CASE UNCHANGED vars
  <2>q. QED BY <1>23, Names, MaxFsmsAssumption, MaxFaultsAssumption
      DEF dvars, smvars, mgrvars,
      procvars, chainvars, vars, Procs, Fsms
<1>q. QED
  BY <1>1, <1>2, <1>3, <1>4, <1>5, <1>6, <1>7, <1>8, <1>9,
     <1>10, <1>11, <1>12, <1>13, <1>14, <1>15, <1>16, <1>17, <1>18,
     <1>19, <1>20, <1>21, <1>22, <1>23
  DEF Next, SendEventStep, CallerStep, ManagerStep, Procs

\* Every step keeps what is said of the expiry.
LEMMA SafetyStep ==
    ASSUME TypeOK, Swept, Early, [Next]_vars
    PROVE  Swept' /\ Early'
<1>. USE DEF TypeOK, Swept, Early, Expiring
<1>1. CASE \E p \in Procs : AcquireMutex(p)
  <2>. PICK p \in Procs : AcquireMutex(p)
    BY <1>1
  <2>q. QED BY <1>1 DEF AcquireMutex, dvars, smvars, mgrvars,
      procvars, chainvars, vars, Procs
<1>2. CASE \E p \in Procs : GetNextState(p)
  <2>. PICK p \in Procs : GetNextState(p)
    BY <1>2
  <2>q. QED BY <1>2, NextFacts DEF GetNextState, Return, dvars, smvars, mgrvars,
      procvars, chainvars, vars, Procs
<1>3. CASE \E p \in Procs : UpdateDeposit(p)
  <2>. PICK p \in Procs : UpdateDeposit(p)
    BY <1>3
  <2>q. QED BY <1>3 DEF UpdateDeposit, Fault, dvars, smvars, mgrvars,
      procvars, chainvars, vars, Procs
<1>4. CASE \E p \in Procs : PublishExpirySweep(p)
  <2>. PICK p \in Procs : PublishExpirySweep(p)
    BY <1>4
  <2>q. QED BY <1>4
    DEF PublishExpirySweep, Continue, Fault, dvars, smvars, mgrvars,
      procvars, chainvars, vars, Procs
<1>5. CASE \E p \in Procs : RegisterConfirmation(p)
  <2>. PICK p \in Procs : RegisterConfirmation(p)
    BY <1>5
  <2>q. QED BY <1>5 DEF RegisterConfirmation, dvars, smvars, mgrvars,
      procvars, chainvars, vars, Procs
<1>6. CASE \E p \in Procs : WaitForExpirySweep(p)
  <2>. PICK p \in Procs : WaitForExpirySweep(p)
    BY <1>6
  <2>q. QED BY <1>6 DEF WaitForExpirySweep, Continue, Fault,
           ExpirySweepConfirmed, dvars, smvars, mgrvars,
      procvars, chainvars, vars, Procs
<1>7. CASE \E p \in Procs : EndEvent(p)
  <2>. PICK p \in Procs : EndEvent(p)
    BY <1>7
  <2>q. QED BY <1>7 DEF EndEvent, Return, dvars, smvars, mgrvars,
      procvars, chainvars, vars, Procs
<1>8. CASE \E s \in Senders : Recover(s)
  <2>. PICK s \in Senders : Recover(s)
    BY <1>8
  <2>q. QED BY <1>8 DEF Recover, Spawn, RecoveredState, dvars, smvars, mgrvars,
      procvars, chainvars, vars, Procs
<1>9. CASE \E c \in Callers : LockDeposit(c)
  <2>. PICK c \in Callers : LockDeposit(c)
    BY <1>9
  <2>q. QED BY <1>9 DEF LockDeposit, dvars, smvars, mgrvars,
      procvars, chainvars, vars, Procs
<1>10. CASE \E c \in Callers : UnlockDeposit(c)
  <2>. PICK c \in Callers : UnlockDeposit(c)
    BY <1>10
  <2>q. QED BY <1>10 DEF UnlockDeposit, dvars, smvars, mgrvars,
      procvars, chainvars, vars, Procs
<1>11. CASE \E c \in Callers : HoldActiveDeposit(c)
  <2>. PICK c \in Callers : HoldActiveDeposit(c)
    BY <1>11
  <2>q. QED BY <1>11 DEF HoldActiveDeposit, dvars, smvars, mgrvars,
      procvars, chainvars, vars, Procs
<1>12. CASE \E c \in Callers : \E e \in CallerEvents : Transition(c, e)
  <2>. PICK c \in Callers : \E e \in CallerEvents : Transition(c, e)
    BY <1>12
  <2>. PICK e \in CallerEvents : Transition(c, e)
    OBVIOUS
  <2>1. e # "OnExpiry" /\ e # "OnExpirySwept"
    BY Zenon DEF CallerEvents
  <2>q. QED BY <1>12, <2>1 DEF Transition, dvars, smvars, mgrvars,
      procvars, chainvars, vars, Procs
<1>13. CASE \E s \in Senders : HandleBlockNotification(s)
  <2>. PICK s \in Senders : HandleBlockNotification(s)
    BY <1>13
  <2>q. QED BY <1>13 DEF HandleBlockNotification, Spawn,
           Notified, IsExpired, dvars, smvars, mgrvars,
      procvars, chainvars, vars, Procs
<1>14. CASE \E s \in Senders : Reactivate(s)
  <2>. PICK s \in Senders : Reactivate(s)
    BY <1>14
  <2>q. QED BY <1>14 DEF Reactivate, Spawn, dvars, smvars, mgrvars,
      procvars, chainvars, vars, Procs
<1>15. CASE Deactivate
  <2>q. QED BY <1>15 DEF Deactivate, Fault, dvars, smvars, mgrvars,
      procvars, chainvars, vars, Procs
<1>16. CASE Started
  <2>q. QED BY <1>16 DEF Started, dvars, smvars, mgrvars,
      procvars, chainvars, vars, Procs
<1>17. CASE RemoveActiveDeposit
  <2>q. QED BY <1>17 DEF RemoveActiveDeposit, dvars, smvars, mgrvars,
      procvars, chainvars, vars, Procs
<1>18. CASE Release
  <2>q. QED BY <1>18 DEF Release, dvars, smvars, mgrvars,
      procvars, chainvars, vars, Procs
<1>19. CASE ExpiryPasses
  <2>q. QED BY <1>19 DEF ExpiryPasses, dvars, smvars, mgrvars,
      procvars, chainvars, vars, Procs
<1>20. CASE SweepConfirms
  <2>q. QED BY <1>20 DEF SweepConfirms, dvars, smvars, mgrvars,
      procvars, chainvars, vars, Procs
<1>21. CASE SpentElsewhere
  <2>q. QED BY <1>21 DEF SpentElsewhere, dvars, smvars, mgrvars,
      procvars, chainvars, vars, Procs
<1>22. CASE Stop
  <2>q. QED BY <1>22 DEF Stop, Fault, dvars, smvars, mgrvars,
      procvars, chainvars, vars, Procs
<1>23. CASE UNCHANGED vars
  <2>q. QED BY <1>23 DEF dvars, smvars, mgrvars,
      procvars, chainvars, vars, Procs
<1>q. QED
  BY <1>1, <1>2, <1>3, <1>4, <1>5, <1>6, <1>7, <1>8, <1>9,
     <1>10, <1>11, <1>12, <1>13, <1>14, <1>15, <1>16, <1>17, <1>18,
     <1>19, <1>20, <1>21, <1>22, <1>23
  DEF Next, SendEventStep, CallerStep, ManagerStep, Procs

\* Every step keeps the one machine of a deposit that the wallet always saw, and its
\* agreement with the deposit.
LEMMA AgreementStep ==
    ASSUME TypeOK, Agreement, [Next]_vars
    PROVE  Agreement'
<1>. USE DEF TypeOK, Agreement, Single, Running, Sending, Final
<1>1. CASE \E p \in Procs : AcquireMutex(p)
  <2>. PICK p \in Procs : AcquireMutex(p)
    BY <1>1
  <2>q. QED BY ProcsAssumption, MaxFsmsAssumption DEF AcquireMutex, dvars, smvars, mgrvars,
      procvars, chainvars, vars, Procs, Fsms
<1>2. CASE \E p \in Procs : GetNextState(p)
  <2>. PICK p \in Procs : GetNextState(p)
    BY <1>2
  <2>1. CASE Accepts(current[on[p]], ev[p])
    <3>1. /\ pc' = [pc EXCEPT ![p] = "entry"]
          /\ current' = [current EXCEPT ![on[p]] = NextState(current[on[p]], ev[p])]
          /\ UNCHANGED <<dvars, mutex, gens, mgrvars, on, ev, up>>
      BY <2>1 DEF GetNextState
    <3>2. /\ NextState(current[on[p]], ev[p]) # "Empty"
          /\ current[on[p]] \in Final
               => NextState(current[on[p]], ev[p]) = current[on[p]]
      BY <2>1, NextFacts
    <3>3. CASE ~ vanished
      <4>1. on[p] = gens
        BY <3>3 DEF GetNextState
      <4>2. current'[gens] = NextState(current[gens], ev[p])
        BY <3>1, <4>1
      <4>3. Running /\ Running'
        BY <3>1 DEF GetNextState
      <4>q. QED BY <3>1, <3>2, <3>3, <4>1, <4>2, <4>3 DEF dvars, mgrvars, GetNextState
    <3>q. QED BY <3>1, <3>3 DEF dvars, mgrvars
  <2>2. CASE ~ Accepts(current[on[p]], ev[p])
    BY <2>2, ProcsAssumption DEF GetNextState, Return, dvars, smvars, mgrvars,
      procvars, chainvars, Procs
  <2>q. QED BY <2>1, <2>2
<1>3. CASE \E p \in Procs : UpdateDeposit(p)
  <2>. PICK p \in Procs : UpdateDeposit(p)
    BY <1>3
  <2>1. /\ pc[p] = "entry"
        /\ pc' = [pc EXCEPT ![p] = "action"]
        /\ dstate' = current[on[p]]
        /\ db' \in {db, dstate'}
        /\ UNCHANGED <<smvars, mgrvars, on, up>>
    BY DEF UpdateDeposit
  <2>2. CASE ~ vanished
    <3>1. on[p] = gens /\ Running /\ Running'
      BY <2>1, <2>2 DEF mgrvars
    <3>2. current[gens] # "Empty"
      BY <2>1, <2>2, <3>1
    <3>q. QED BY <2>1, <2>2, <3>1, <3>2 DEF smvars, mgrvars
  <2>3. CASE vanished
    BY <2>1, <2>3 DEF mgrvars
  <2>q. QED BY <2>2, <2>3
<1>4. CASE \E p \in Procs : PublishExpirySweep(p)
  <2>. PICK p \in Procs : PublishExpirySweep(p)
    BY <1>4
  <2>q. QED BY ProcsAssumption, MaxFsmsAssumption DEF PublishExpirySweep, Continue, Fault, dvars, smvars, mgrvars,
      procvars, chainvars, vars, Procs, Fsms
<1>5. CASE \E p \in Procs : RegisterConfirmation(p)
  <2>. PICK p \in Procs : RegisterConfirmation(p)
    BY <1>5
  <2>q. QED BY ProcsAssumption, MaxFsmsAssumption DEF RegisterConfirmation, dvars, smvars, mgrvars,
      procvars, chainvars, vars, Procs, Fsms
<1>6. CASE \E p \in Procs : WaitForExpirySweep(p)
  <2>. PICK p \in Procs : WaitForExpirySweep(p)
    BY <1>6
  <2>q. QED BY ProcsAssumption, MaxFsmsAssumption DEF WaitForExpirySweep, Continue, Fault, dvars, smvars, mgrvars,
      procvars, chainvars, vars, Procs, Fsms
<1>7. CASE \E p \in Procs : EndEvent(p)
  <2>. PICK p \in Procs : EndEvent(p)
    BY <1>7
  <2>q. QED BY ProcsAssumption, MaxFsmsAssumption DEF EndEvent, Return, dvars, smvars, mgrvars,
      procvars, chainvars, vars, Procs, Fsms
<1>8. CASE \E s \in Senders : Recover(s)
  <2>. PICK s \in Senders : Recover(s)
    BY <1>8
  <2>1. CASE db \in Final
    BY <2>1 DEF Recover, dvars, smvars, mgrvars, procvars, chainvars, Procs
  <2>2. CASE db \notin Final
    <3>1. /\ gens' \in Fsms /\ gens' # 0
          /\ current'[gens'] = db
      BY <2>2, MaxFsmsAssumption DEF Recover, RecoveredState, Fsms
    <3>q. QED BY <2>2, <3>1 DEF Recover, Spawn, dvars, smvars, mgrvars, procvars,
      chainvars, Procs
  <2>q. QED BY <2>1, <2>2
<1>9. CASE \E c \in Callers : LockDeposit(c)
  <2>. PICK c \in Callers : LockDeposit(c)
    BY <1>9
  <2>q. QED BY ProcsAssumption, MaxFsmsAssumption DEF LockDeposit, dvars, smvars, mgrvars,
      procvars, chainvars, vars, Procs, Fsms
<1>10. CASE \E c \in Callers : UnlockDeposit(c)
  <2>. PICK c \in Callers : UnlockDeposit(c)
    BY <1>10
  <2>q. QED BY ProcsAssumption, MaxFsmsAssumption DEF UnlockDeposit, dvars, smvars, mgrvars,
      procvars, chainvars, vars, Procs, Fsms
<1>11. CASE \E c \in Callers : HoldActiveDeposit(c)
  <2>. PICK c \in Callers : HoldActiveDeposit(c)
    BY <1>11
  <2>q. QED BY ProcsAssumption, MaxFsmsAssumption DEF HoldActiveDeposit, dvars, smvars, mgrvars,
      procvars, chainvars, vars, Procs, Fsms
<1>12. CASE \E c \in Callers : \E e \in CallerEvents : Transition(c, e)
  <2>. PICK c \in Callers, e \in CallerEvents : Transition(c, e)
    BY <1>12
  <2>q. QED BY ProcsAssumption, MaxFsmsAssumption DEF Transition, dvars, smvars, mgrvars,
      procvars, chainvars, vars, Procs, Fsms
<1>13. CASE \E s \in Senders : HandleBlockNotification(s)
  <2>. PICK s \in Senders : HandleBlockNotification(s)
    BY <1>13
  <2>q. QED BY ProcsAssumption, MaxFsmsAssumption DEF HandleBlockNotification, Spawn, Notified, dvars, smvars, mgrvars,
      procvars, chainvars, vars, Procs, Fsms
<1>14. CASE \E s \in Senders : Reactivate(s)
  <2>. PICK s \in Senders : Reactivate(s)
    BY <1>14
  <2>q. QED BY ProcsAssumption, MaxFsmsAssumption DEF Reactivate, Spawn, dvars, smvars, mgrvars,
      procvars, chainvars, vars, Procs, Fsms
<1>15. CASE Deactivate
  <2>q. QED BY <1>15, ProcsAssumption, MaxFsmsAssumption DEF Deactivate, Fault, dvars, smvars, mgrvars,
      procvars, chainvars, vars, Procs, Fsms
<1>16. CASE Started
  <2>q. QED BY <1>16, ProcsAssumption, MaxFsmsAssumption DEF Started, dvars, smvars, mgrvars,
      procvars, chainvars, vars, Procs, Fsms
<1>17. CASE RemoveActiveDeposit
  <2>q. QED BY <1>17, ProcsAssumption, MaxFsmsAssumption DEF RemoveActiveDeposit, dvars, smvars, mgrvars,
      procvars, chainvars, vars, Procs, Fsms
<1>18. CASE Release
  <2>q. QED BY <1>18, ProcsAssumption, MaxFsmsAssumption DEF Release, dvars, smvars, mgrvars,
      procvars, chainvars, vars, Procs, Fsms
<1>19. CASE ExpiryPasses
  <2>q. QED BY <1>19, ProcsAssumption, MaxFsmsAssumption DEF ExpiryPasses, dvars, smvars, mgrvars,
      procvars, chainvars, vars, Procs, Fsms
<1>20. CASE SweepConfirms
  <2>q. QED BY <1>20, ProcsAssumption, MaxFsmsAssumption DEF SweepConfirms, dvars, smvars, mgrvars,
      procvars, chainvars, vars, Procs, Fsms
<1>21. CASE SpentElsewhere
  <2>q. QED BY <1>21, ProcsAssumption, MaxFsmsAssumption DEF SpentElsewhere, dvars, smvars, mgrvars,
      procvars, chainvars, vars, Procs, Fsms
<1>22. CASE Stop
  <2>q. QED BY <1>22, ProcsAssumption, MaxFsmsAssumption DEF Stop, Fault, dvars, smvars, mgrvars,
      procvars, chainvars, vars, Procs, Fsms
<1>23. CASE UNCHANGED vars
  <2>q. QED BY <1>23 DEF dvars, smvars, mgrvars,
      procvars, chainvars, vars, Procs, Fsms
<1>q. QED
  BY <1>1, <1>2, <1>3, <1>4, <1>5, <1>6, <1>7, <1>8, <1>9,
     <1>10, <1>11, <1>12, <1>13, <1>14, <1>15, <1>16, <1>17, <1>18,
     <1>19, <1>20, <1>21, <1>22, <1>23, Zenon
  DEF Next, SendEventStep, CallerStep, ManagerStep, Procs

-----------------------------------------------------------------------------
\* The inductive invariant holds in every behaviour of a deposit.
THEOREM InvHolds == Spec => []Inv
<1>1. Init => Inv
  <2>. SUFFICES ASSUME Init PROVE Inv
    OBVIOUS
  <2>1. finalized \in BOOLEAN /\ held \in BOOLEAN /\ up \in BOOLEAN
        /\ vanished \in BOOLEAN /\ signed \in BOOLEAN /\ late \in BOOLEAN /\ sweepTx \in BOOLEAN
    BY Zenon DEF Init
  <2>2. TypeOK
    BY <2>1, Names, MaxFsmsAssumption, MaxFaultsAssumption
      DEF Init, TypeOK, Procs, Fsms
  <2>3. Swept /\ Early
    BY DEF Init, Swept, Early, Expiring
  <2>4. Agreement
    <3>1. current[gens] = "Empty"
      BY MaxFsmsAssumption DEF Init, Fsms
    <3>2. \A p \in Procs : pc[p] \in {"idle", "mutex"} /\ on[p] = gens
      BY DEF Init
    <3>q. QED BY <3>1, <3>2
      DEF Init, Agreement, Single, Running, Sending, Final
  <2>q. QED BY <2>2, <2>3, <2>4 DEF Inv
<1>2. Inv /\ [Next]_vars => Inv'
  BY TypeStep, SafetyStep, AgreementStep DEF Inv
<1>q. QED BY <1>1, <1>2, PTL DEF Spec

\* The types hold for every number of goroutines, machines and failures.
THEOREM TypeCorrect == Spec => []TypeOK
<1>1. Inv => TypeOK
  BY DEF Inv
<1>q. QED BY <1>1, InvHolds, PTL

\* A deposit is Expired only when its expiry sweep confirmed
\* (WaitForExpirySweepAction).
THEOREM ExpirySound == Spec => []ExpiredIsSwept
<1>1. Inv => ExpiredIsSwept
  BY DEF Inv, Swept, ExpiredIsSwept
<1>q. QED BY <1>1, InvHolds, PTL

\* The expiry sweep is broadcast only after the expiry height
\* (handleBlockNotification).
THEOREM SweepInTime == Spec => []SweptAfterExpiry
<1>1. Inv => SweptAfterExpiry
  BY DEF Inv, Early, SweptAfterExpiry
<1>q. QED BY <1>1, InvHolds, PTL

\* When no event is being handled, the active machine of a deposit that the wallet
\* always saw is in the state of the deposit (updateDeposit, recoverDeposits).
THEOREM Agrees == Spec => []ActiveAgrees
<1>1. Inv => ActiveAgrees
  BY Zenon DEF Inv, Agreement, Single, Running, ActiveAgrees, Quiet
<1>q. QED BY <1>1, InvHolds, PTL

\* Only updateDeposit writes the stored state.
LEMMA OnlyUpdateWrites ==
    ASSUME [Next]_vars, db' # db
    PROVE  \E p \in Procs : UpdateDeposit(p)
BY Zenon DEF Next, SendEventStep, CallerStep, ManagerStep, AcquireMutex, GetNextState,
   PublishExpirySweep, Continue, RegisterConfirmation, WaitForExpirySweep, EndEvent,
   Recover, LockDeposit, UnlockDeposit, HoldActiveDeposit, Transition,
   HandleBlockNotification, Reactivate, Deactivate, Started, RemoveActiveDeposit,
   Release, ExpiryPasses, SweepConfirms, SpentElsewhere, Stop, dvars, vars, Procs

\* A stored final state is never left while the wallet sees the deposit
\* (DepositStatesV0, TransitionDeposits).
THEOREM FinalKept == Spec => FinalIsKept
<1>1. Inv /\ [Next]_vars => [(db \in Final /\ ~ vanished) => db' = db]_vars
  <2>. SUFFICES ASSUME Inv, [Next]_vars, db \in Final, ~ vanished, db' # db
                PROVE  FALSE
    OBVIOUS
  <2>. PICK p \in Procs : UpdateDeposit(p)
    BY OnlyUpdateWrites
  <2>1. on[p] = gens /\ Running
    BY DEF UpdateDeposit, Inv, Agreement, Single, Running
  <2>2. current[on[p]] = db
    BY <2>1 DEF Inv, Agreement, Single
  <2>q. QED BY <2>2 DEF UpdateDeposit
<1>q. QED BY <1>1, InvHolds, PTL DEF Spec, FinalIsKept
=============================================================================
