---------------------------- MODULE DepositStates ----------------------------
(***************************************************************************)
(* The states of a deposit to a static address and the events that move it *)
(* between them (staticaddr/deposit/fsm.go), shared by the deposit itself  *)
(* and by everything that spends deposits.                                 *)
(***************************************************************************)

(***************************************************************************)
(* The table of DepositStatesV0: from, event, to.                          *)
(***************************************************************************)
Final == {"Expired", "Withdrawn", "LoopedIn", "HtlcTimeoutSwept",
          "ChannelPublished"}

\* Mutant: the recovery of an expiry sweep is not a transition.
SelfRecoversFew == {"Deposited", "Withdrawing", "LoopingIn", "SweepHtlcTimeout",
                    "OpeningChannel"}

\* The states that OnRecover leaves as they are.
SelfRecovers == {"Deposited", "PublishExpirySweep", "Withdrawing", "LoopingIn",
                 "SweepHtlcTimeout", "OpeningChannel"}

\* Mutant: a late OnExpiry starts the sweep of a finalized deposit.
FinalExpirySweeps == { <<s, "OnExpiry", "PublishExpirySweep">> : s \in Final }

FinalExpiry == { <<s, "OnExpiry", s>> : s \in Final }

Transitions ==
    { <<"Empty", "OnStart", "Deposited">>,
      <<"Deposited", "OnExpiry", "PublishExpirySweep">>,
      <<"Deposited", "OnWithdrawInitiated", "Withdrawing">>,
      <<"Deposited", "OnLoopInInitiated", "LoopingIn">>,
      <<"Deposited", "OnOpeningChannel", "OpeningChannel">>,
      <<"Deposited", "OnSweepingHtlcTimeout", "SweepHtlcTimeout">>,
      <<"Deposited", "OnError", "Deposited">>,
      <<"PublishExpirySweep", "OnExpiryPublished", "WaitForExpirySweep">>,
      <<"PublishExpirySweep", "OnError", "Deposited">>,
      <<"WaitForExpirySweep", "OnExpirySwept", "Expired">>,
      <<"WaitForExpirySweep", "OnRecover", "PublishExpirySweep">>,
      <<"WaitForExpirySweep", "OnError", "Deposited">>,
      <<"Withdrawing", "OnWithdrawn", "Withdrawn">>,
      <<"Withdrawing", "OnWithdrawInitiated", "Withdrawing">>,
      <<"Withdrawing", "OnExpiry", "Withdrawing">>,
      <<"Withdrawing", "OnError", "Deposited">>,
      <<"LoopingIn", "OnLoopedIn", "LoopedIn">>,
      <<"LoopingIn", "OnExpiry", "PublishExpirySweep">>,
      <<"LoopingIn", "OnSweepingHtlcTimeout", "SweepHtlcTimeout">>,
      <<"LoopingIn", "OnLoopInInitiated", "LoopingIn">>,
      <<"LoopingIn", "OnError", "Deposited">>,
      <<"SweepHtlcTimeout", "OnHtlcTimeoutSwept", "HtlcTimeoutSwept">>,
      <<"Withdrawn", "OnWithdrawn", "Withdrawn">>,
      <<"OpeningChannel", "OnChannelPublished", "ChannelPublished">>,
      <<"OpeningChannel", "OnExpiry", "OpeningChannel">>,
      <<"OpeningChannel", "OnError", "Deposited">> }
    \cup { <<s, "OnRecover", s>> : s \in SelfRecovers }
    \cup FinalExpiry

States == {t[1] : t \in Transitions} \cup {t[3] : t \in Transitions}
Events == {t[2] : t \in Transitions}
Accepts(s, e) == \E t \in Transitions : t[1] = s /\ t[2] = e

NextState(s, e) == (CHOOSE t \in Transitions : t[1] = s /\ t[2] = e)[3]

\* The events TransitionDeposits is called with, and the state each expects.
CallerEvents ==
    {"OnWithdrawInitiated", "OnWithdrawn", "OnLoopInInitiated", "OnLoopedIn",
     "OnOpeningChannel", "OnChannelPublished", "OnSweepingHtlcTimeout",
     "OnHtlcTimeoutSwept", "OnError"}

\* The events for which updateDeposit expects the deposit to be locked.
lockedEvents == CallerEvents

Target(e) == (CHOOSE t \in Transitions : t[2] = e)[3]
=============================================================================
