------------------------------ MODULE Autoloop ------------------------------
(***************************************************************************)
(* The liquidity manager (liquidity/liquidity.go): the goroutine of Run,   *)
(* which plans swaps on every tick, the goroutines of                      *)
(* dispatchStickyLoopOut, which start the planned loop-outs and repeat     *)
(* them when the payment fails, the RPC that sets the parameters, and the  *)
(* swaps themselves, which are carried out by other parts of the daemon.   *)
(*                                                                         *)
(* Abstractions.  Every channel has a peer of its own, so that a channel   *)
(* also stands for its peer.  Balances and amounts only decide whether a   *)
(* swap is worth its while and in which order candidates are looked at:    *)
(* both are arbitrary here.  Times are reduced to what is compared with    *)
(* them: whether the budget is due for a refresh, whether a swap was last  *)
(* updated after the refresh, and whether its failure backoff has elapsed. *)
(***************************************************************************)
EXTENDS Integers, Sequences, FiniteSets, Functions

CONSTANTS
    Channels,   \* the channels
    Assets,     \* the assets with easy autoloop parameters
    AssetOf,    \* the asset of a custom channel, "none" for a bitcoin channel
    Rule,       \* the swap type of a channel's rule: "out", "in" or "none"
    EasyAutoloopExcludedPeers,
    Fees,       \* the worst-case fees of a swap
    MaxPrepay,  \* what a loop-out can cost when its payment fails
    AutoFeeBudget, MaxAutoInFlight,
    RetryCount, \* attempts of a sticky loop-out
    MaxSwaps,   \* bound on the swaps started
    Requests,   \* the parameters that SetParameters is called with
    MaxLoops,   \* bound on the goroutines of dispatchStickyLoopOut
    MaxEvents   \* requests, ends of budget periods and restarts

ASSUME BoundsAssumption ==
    /\ MaxSwaps \in Nat /\ MaxLoops \in Nat /\ MaxEvents \in Nat
    /\ RetryCount \in Nat \ {0}
\* The limit of miner fees is part of every fee and is not zero (fees.go, Validate).
ASSUME FeesAssumption ==
    /\ AutoFeeBudget \in Nat /\ MaxAutoInFlight \in Nat /\ MaxPrepay \in Nat
    /\ Fees \subseteq Nat \ {0}
    /\ \E f \in Fees : \A g \in Fees : g <= f
ASSUME ChannelsAssumption ==
    /\ IsFiniteSet(Channels)
    /\ AssetOf \in [Channels -> Assets \cup {"none"}]
    /\ Rule \in [Channels -> {"out", "in", "none"}]
    /\ Assets \cap {"none", "rules", "easy"} = {}

VARIABLES
    params,     \* the parameters in memory
    db,         \* the stored parameters
    stage,      \* what Run works on: "none", the "rules", "easy" or an asset
    step,       \* where it is
    todo,       \* the assets this tick has yet to look at
    outSwaps,   \* the suggested loop-outs that are yet to be dispatched
    inSwaps,    \* the suggested loop-ins that are yet to be dispatched
    loop,       \* the goroutines of dispatchStickyLoopOut
    activeStickyLoops,
    swap,       \* the pending swaps
    made,       \* the number of swaps started so far
    spent,      \* the costs of the swaps that finished since the budget's refresh
    failed,     \* the swap types and channels that failed within FailureBackOff
    events      \* requests, ends of budget periods and restarts so far

runVars == <<stage, step, todo, outSwaps, inSwaps>>
loopVars == <<loop, activeStickyLoops>>
swapVars == <<swap, made, spent, failed>>
vars == <<params, db, runVars, loopVars, swapVars, events>>

Swaps == 1..MaxSwaps
Loops == 1..MaxLoops
Bitcoin == {c \in Channels : AssetOf[c] = "none"}
MaxFee == CHOOSE f \in Fees : \A g \in Fees : g <= f

\* The parameters that the model tells apart: Autoloop, EasyAutoloop and whether
\* AutoFeeRefreshPeriod has elapsed since AutoloopBudgetLastRefresh.
Parameters == [auto : BOOLEAN, easy : BOOLEAN, due : BOOLEAN]
ASSUME RequestsAssumption == Requests \subseteq Parameters

\* A suggested swap.  labelled: it carries the label of an automatic swap.  easy and
\* raced are history: which planner made it, and whether a sticky loop-out had yet
\* to store its first swap when it was planned.
Suggestion == [kind : {"out", "in"}, chan : Channels, fee : Fees,
               labelled : BOOLEAN, easy : BOOLEAN, raced : BOOLEAN]

NoLoop == [st |-> "none"]
NoSwap == [st |-> "none"]

\* A pending swap.  "paid" is PreimageRevealed of a loop-out and InvoiceSettled of a
\* loop-in.  retry is history: not the first attempt of a sticky loop-out.
Pending == {i \in Swaps : swap[i] # NoSwap}
SwapType == [st : {"started", "paid"}, kind : {"out", "in"}, chan : Channels, fee : Fees,
             labelled : BOOLEAN, easy : BOOLEAN, raced : BOOLEAN, retry : BOOLEAN]

\* A sticky loop-out; seen is the state in which it finds its swap.
LoopType ==
    [st : {"spawned", "dispatching"}, out : Suggestion, tries : 0..(RetryCount - 1)]
        \cup [st : {"waiting"}, out : Suggestion, tries : 1..RetryCount,
              id : Swaps \cup {0}, seen : {"started", "failedPayment", "other"}]

\* Every variable has its type.
TypeOK ==
    /\ params \in Parameters /\ db \in Parameters
    /\ stage \in {"none", "rules", "easy"} \cup Assets
    /\ step \in {"enter", "plan", "dispatch"}
    /\ todo \subseteq Assets
    /\ outSwaps \in Seq(Suggestion) /\ inSwaps \in Seq(Suggestion)
    /\ loop \in [Loops -> LoopType \cup {NoLoop}]
    /\ swap \in [Swaps -> SwapType \cup {NoSwap}]
    /\ spent \in [all : Nat, planned : Nat, rules : Nat]
    /\ made \in 0..MaxSwaps
    /\ failed \subseteq {"out", "in"} \X Channels
    /\ activeStickyLoops \in Nat
    /\ events \in 0..MaxEvents

Init ==
    /\ params \in [auto : BOOLEAN, easy : BOOLEAN, due : {FALSE}]
    /\ db = params
    /\ stage = "none" /\ step = "enter" /\ todo = {}
    /\ outSwaps = <<>> /\ inSwaps = <<>>
    /\ loop = [l \in Loops |-> NoLoop] /\ activeStickyLoops = 0
    /\ swap = [i \in Swaps |-> NoSwap]
    /\ spent = [all |-> 0, planned |-> 0, rules |-> 0] /\ failed = {} /\ made = 0
    /\ events = 0

Event == events < MaxEvents /\ events' = events + 1

-----------------------------------------------------------------------------
(* Parameters *)

\* AutoFeeRefreshPeriod has elapsed.
PeriodElapses ==
    /\ Event
    /\ ~params.due
    /\ params' = [params EXCEPT !.due = TRUE]
    /\ db' = [db EXCEPT !.due = TRUE]
    /\ UNCHANGED <<runVars, loopVars, swapVars>>

\* The parameters take effect even if storing them fails.  The request carries the
\* refresh time that the caller has read earlier.
SetParameters(p) ==
    /\ Event
    /\ \E due \in {params.due, TRUE} : params' = [p EXCEPT !.due = due]
    /\ db' \in {params', db}
    /\ UNCHANGED <<runVars, loopVars, swapVars>>

-----------------------------------------------------------------------------
(* The existing swaps *)

Automatic == {i \in Pending : swap[i].labelled}
InFlightCount == Cardinality(Automatic)
Total(amounts) ==
    LET sum[n \in 0..Len(amounts)] ==
            IF n = 0 THEN 0 ELSE sum[n - 1] + amounts[n]
    IN  sum[Len(amounts)]
PendingFees(S) == Total([i \in Swaps |-> IF i \in S THEN swap[i].fee ELSE 0])
TotalFees == spent.all + PendingFees(Automatic)

OngoingLoopOut == {swap[i].chan : i \in {j \in Pending : swap[j].kind = "out"}}
OngoingLoopIn ==
    {swap[i].chan : i \in {j \in Pending : swap[j].kind = "in" /\ swap[j].st # "paid"}}
\* Mutant: a failed loop-out does not keep its channel.
FailedLoopOutNone == {}
FailedLoopOut == {c \in Channels : <<"out", c>> \in failed}
FailedLoopIn == {c \in Channels : <<"in", c>> \in failed}

OutInUse(c) == c \in FailedLoopOut \cup OngoingLoopOut \cup OngoingLoopIn
InInUse(c) == c \in OngoingLoopOut \cup OngoingLoopIn \cup FailedLoopIn
InUse(c) == IF Rule[c] = "out" THEN OutInUse(c) ELSE InInUse(c)

Raced ==
    \E l \in Loops : loop[l].st \in {"spawned", "dispatching"} /\ loop[l].tries = 0

-----------------------------------------------------------------------------
(* Run *)

NextStage ==
    IF todo = {} THEN stage' = "none" /\ UNCHANGED todo
                 ELSE \E a \in todo : stage' = a /\ todo' = todo \ {a}

LeaveStage == NextStage /\ step' = "enter" /\ outSwaps' = <<>> /\ inSwaps' = <<>>

\* The ticks are twenty minutes apart: the sticky loop-outs of one tick have stored
\* their first swaps when the next one comes.  (ForceAutoLoop exists in development
\* builds only.)
Tick ==
    /\ stage = "none" /\ ~Raced
    /\ stage' = IF params.easy THEN "easy" ELSE "rules"
    /\ todo' = Assets
    /\ UNCHANGED <<params, db, step, outSwaps, inSwaps, loopVars, swapVars, events>>

\* Easy autoloop is entered only when autoloop is enabled, the planner of the rules
\* also runs dry.
Entered == params.auto \/ stage = "rules"

Skip ==
    /\ stage # "none" /\ step = "enter" /\ ~Entered
    /\ LeaveStage
    /\ UNCHANGED <<params, db, loopVars, swapVars, events>>

\* What was spent before the refresh no longer counts.  The parameters are stored if
\* that succeeds.
RefreshAutoloopBudget ==
    /\ stage # "none" /\ step = "enter" /\ Entered
    /\ IF params.due
       THEN /\ params' = [params EXCEPT !.due = FALSE]
            /\ db' \in {params', db}
            /\ spent' = [all |-> 0, planned |-> 0, rules |-> 0]
       ELSE UNCHANGED <<params, db, spent>>
    /\ step' = "plan"
    /\ UNCHANGED <<stage, todo, outSwaps, inSwaps, loopVars, swap, made, failed, events>>

Candidate(kind, c, fee, easy) ==
    [kind |-> kind, chan |-> c, fee |-> fee, labelled |-> params.auto,
     easy |-> easy, raced |-> Raced]

AddSwap(resp, cand) ==
    IF cand.kind = "out" THEN [resp EXCEPT !.out = Append(@, cand)]
                         ELSE [resp EXCEPT !.in = Append(@, cand)]

Full(resp, allowed) == Len(resp.out) + Len(resp.in) = allowed

\* Mutant: every candidate is compared with the same budget.
ConsiderKeepsBudget(resp, cand, allowed) ==
    IF resp.left = 0 \/ Full(resp, allowed) \/ cand.fee > resp.left
    THEN resp ELSE AddSwap(resp, cand)

\* A candidate that does not fit into what is left of the budget is passed over.
Consider(resp, cand, allowed) ==
    IF resp.left = 0 \/ Full(resp, allowed) \/ cand.fee > resp.left
    THEN resp ELSE AddSwap([resp EXCEPT !.left = @ - cand.fee], cand)

\* The candidates are looked at from the largest to the smallest.
SelectSwaps(candidates, available, allowed) ==
    LET resp[n \in 0..Len(candidates)] ==
            IF n = 0 THEN [left |-> available, out |-> <<>>, in |-> <<>>]
                     ELSE Consider(resp[n - 1], candidates[n], allowed)
    IN  resp[Len(candidates)]

WithinLimits == TotalFees < AutoFeeBudget /\ InFlightCount < MaxAutoInFlight

\* SuggestSwaps; an error of a call, or limits that are used up, suggest nothing.
SuggestSwaps ==
    /\ stage = "rules" /\ step = "plan"
    /\ WithinLimits
    /\ \E Wanted \in SUBSET {c \in Bitcoin : Rule[c] # "none" /\ ~InUse(c)},
          fee \in [Channels -> Fees] :
        \E order \in Injection(1..Cardinality(Wanted), Wanted) :
            LET candidates == [k \in 1..Len(order) |->
                    Candidate(Rule[order[k]], order[k], fee[order[k]], FALSE)]
                suggested == SelectSwaps(candidates, AutoFeeBudget - TotalFees,
                                         MaxAutoInFlight - InFlightCount)
            IN  outSwaps' = suggested.out /\ inSwaps' = suggested.in
    /\ step' = "dispatch"
    /\ UNCHANGED <<params, db, stage, todo, loopVars, swapVars, events>>

\* dispatchBestEasyAutoloopSwap and dispatchBestAssetEasyAutoloopSwap: one channel
\* without a pending or a recently failed loop-out.
EasySuggestion ==
    /\ stage # "rules" /\ step = "plan"
    /\ WithinLimits
    /\ \E c \in Channels \ (OngoingLoopOut \cup FailedLoopOut
                            \cup EasyAutoloopExcludedPeers), fee \in Fees :
        /\ AssetOf[c] = IF stage = "easy" THEN "none" ELSE stage
        /\ outSwaps' = <<Candidate("out", c, fee, TRUE)>> /\ inSwaps' = <<>>
    /\ step' = "dispatch"
    /\ UNCHANGED <<params, db, stage, todo, loopVars, swapVars, events>>

NoSuggestion ==
    /\ step = "plan"
    /\ LeaveStage
    /\ UNCHANGED <<params, db, loopVars, swapVars, events>>

\* The planner of the rules looks once more whether autoloop is enabled.
MayDispatch(s) == params.auto \/ s.easy

FreeLoops == {l \in Loops : loop[l] = NoLoop}
NewLoop == CHOOSE l \in FreeLoops : TRUE

DispatchOut ==
    /\ step = "dispatch" /\ outSwaps # <<>>
    /\ IF MayDispatch(Head(outSwaps))
       THEN /\ FreeLoops # {}
            /\ loop' = [loop EXCEPT ![NewLoop] =
                            [st |-> "spawned", out |-> Head(outSwaps), tries |-> 0]]
       ELSE UNCHANGED loop
    /\ outSwaps' = Tail(outSwaps)
    /\ UNCHANGED <<params, db, stage, step, todo, inSwaps, activeStickyLoops,
                   swapVars, events>>

Start(s, retry) ==
    /\ made < MaxSwaps
    /\ made' = made + 1
    /\ swap' = [swap EXCEPT ![made'] =
            [st |-> "started", kind |-> s.kind, chan |-> s.chan, fee |-> s.fee,
             labelled |-> s.labelled, easy |-> s.easy, raced |-> s.raced,
             retry |-> retry]]

\* The loop-outs are dispatched first.
DispatchIn ==
    /\ step = "dispatch" /\ outSwaps = <<>> /\ inSwaps # <<>>
    /\ IF MayDispatch(Head(inSwaps)) THEN Start(Head(inSwaps), FALSE)
                                     ELSE UNCHANGED <<swap, made>>
    /\ inSwaps' = Tail(inSwaps)
    /\ UNCHANGED <<params, db, stage, step, todo, outSwaps, loopVars, spent, failed,
                   events>>

\* A loop-in that cannot be started ends the tick's dispatches.
DispatchEnds ==
    /\ step = "dispatch" /\ outSwaps = <<>>
    /\ inSwaps # <<>> => MayDispatch(Head(inSwaps))
    /\ LeaveStage
    /\ UNCHANGED <<params, db, loopVars, swapVars, events>>

-----------------------------------------------------------------------------
(* dispatchStickyLoopOut and waitForSwapPayment *)

\* Mutant: the counter is not decremented.
LeaveUncounted(l) ==
    /\ loop' = [loop EXCEPT ![l] = NoLoop]
    /\ UNCHANGED activeStickyLoops

Leave(l) ==
    /\ loop' = [loop EXCEPT ![l] = NoLoop]
    /\ activeStickyLoops' = activeStickyLoops - 1

StickyStarts(l) ==
    /\ loop[l].st = "spawned"
    /\ IF activeStickyLoops >= MaxAutoInFlight
       THEN loop' = [loop EXCEPT ![l] = NoLoop] /\ UNCHANGED activeStickyLoops
       ELSE /\ loop' = [loop EXCEPT ![l].st = "dispatching"]
            /\ activeStickyLoops' = activeStickyLoops + 1
    /\ UNCHANGED <<params, db, runVars, swapVars, events>>

StickyDispatches(l) ==
    /\ loop[l].st = "dispatching"
    /\ \/ /\ Start(loop[l].out, loop[l].tries > 0)
          /\ loop' = [loop EXCEPT ![l] =
                [st |-> "waiting", out |-> loop[l].out, tries |-> loop[l].tries + 1,
                 id |-> made + 1, seen |-> "started"]]
          /\ UNCHANGED activeStickyLoops
       \/ Leave(l) /\ UNCHANGED <<swap, made>>
    /\ UNCHANGED <<params, db, runVars, spent, failed, events>>

\* Only a failed payment is tried again, and only for RetryCount attempts.
StickySeesUpdate(l) ==
    /\ loop[l].st = "waiting" /\ loop[l].seen # "started"
    /\ IF loop[l].seen = "failedPayment" /\ loop[l].tries < RetryCount
       THEN /\ loop' = [loop EXCEPT ![l] = [st |-> "dispatching", out |-> loop[l].out,
                                            tries |-> loop[l].tries]]
            /\ UNCHANGED activeStickyLoops
       ELSE Leave(l)
    /\ UNCHANGED <<params, db, runVars, swapVars, events>>

\* No update within defaultSwapWaitTimeout.
StickyTimesOut(l) ==
    /\ loop[l].st = "waiting" /\ loop[l].seen = "started"
    /\ Leave(l)
    /\ UNCHANGED <<params, db, runVars, swapVars, events>>

-----------------------------------------------------------------------------
(* The swaps *)

\* The sticky loop-out that waits for swap i finds it in state st.
Seen(i, st) ==
    loop' = [l \in Loops |->
                IF loop[l].st = "waiting" /\ loop[l].id = i
                THEN [st |-> "waiting", out |-> loop[l].out, tries |-> loop[l].tries,
                      id |-> 0, seen |-> st]
                ELSE loop[l]]

Progress(i) ==
    /\ i \in Pending /\ swap[i].st = "started"
    /\ swap' = [swap EXCEPT ![i].st = "paid"]
    /\ Seen(i, "other")
    /\ UNCHANGED <<params, db, runVars, activeStickyLoops, made, spent, failed, events>>

\* The swaps that were planned knowing of all others, first attempts only: what the
\* planners answer for.
Planned == {i \in Automatic : ~swap[i].raced /\ ~swap[i].retry}
ByRules == {i \in Planned : ~swap[i].easy}

\* planned and rules are history: what the planned swaps and those of the rules
\* cost, up to the fee each was planned with.
Spend(i, cost) ==
    LET covered == IF cost > swap[i].fee THEN swap[i].fee ELSE cost
        Of(S, amount) == IF i \in S THEN amount ELSE 0
    IN  spent' = [all |-> spent.all + Of(Automatic, cost),
                  planned |-> spent.planned + Of(Planned, covered),
                  rules |-> spent.rules + Of(ByRules, covered)]

\* A success, or a failure that does not come from the payment of a loop-out.
\* Only the timeout of a loop-in makes the planner back off.
Finishes(i) ==
    /\ i \in Pending
    /\ \E cost \in {0, swap[i].fee} : Spend(i, cost)
    /\ failed' \in {failed} \cup
            (IF swap[i].kind = "in" THEN {failed \cup {<<"in", swap[i].chan>>}} ELSE {})
    /\ swap' = [swap EXCEPT ![i] = NoSwap]
    /\ Seen(i, "other")
    /\ UNCHANGED <<params, db, runVars, activeStickyLoops, made, events>>

PaymentFails(i) ==
    /\ i \in Pending /\ swap[i].st = "started" /\ swap[i].kind = "out"
    /\ \E cost \in {0, MaxPrepay} : Spend(i, cost)
    /\ failed' = failed \cup {<<"out", swap[i].chan>>}
    /\ swap' = [swap EXCEPT ![i] = NoSwap]
    /\ Seen(i, "failedPayment")
    /\ UNCHANGED <<params, db, runVars, activeStickyLoops, made, events>>

\* FailureBackOff (a day) is longer than a sticky loop-out takes to see the failed
\* payment (it looks every two seconds) and to try again.
BackoffElapses(f) ==
    /\ f \in failed
    /\ ~\E l \in Loops :
            /\ loop[l] # NoLoop /\ f = <<"out", loop[l].out.chan>>
            /\ IF loop[l].st = "waiting" THEN loop[l].seen = "failedPayment"
                                         ELSE loop[l].tries > 0
    /\ failed' = failed \ {f}
    /\ UNCHANGED <<params, db, runVars, loopVars, swap, made, spent, events>>

-----------------------------------------------------------------------------
\* The daemon stops and starts again: Run reads the stored parameters, sticky
\* loop-outs are not resumed, the swaps are.
Restart ==
    /\ Event
    /\ params' = db
    /\ stage' = "none" /\ step' = "enter" /\ todo' = {}
    /\ outSwaps' = <<>> /\ inSwaps' = <<>>
    /\ loop' = [l \in Loops |-> NoLoop] /\ activeStickyLoops' = 0
    /\ UNCHANGED <<db, swapVars>>

Next ==
    \/ PeriodElapses \/ \E p \in Requests : SetParameters(p)
    \/ Tick \/ Skip \/ RefreshAutoloopBudget
    \/ SuggestSwaps \/ EasySuggestion \/ NoSuggestion
    \/ DispatchOut \/ DispatchIn \/ DispatchEnds
    \/ \E l \in Loops : StickyStarts(l)
    \/ \E l \in Loops : StickyDispatches(l)
    \/ \E l \in Loops : StickySeesUpdate(l)
    \/ \E l \in Loops : StickyTimesOut(l)
    \/ \E i \in Swaps : Progress(i)
    \/ \E i \in Swaps : Finishes(i)
    \/ \E i \in Swaps : PaymentFails(i)
    \/ \E f \in failed : BackoffElapses(f)
    \/ Restart

Spec == Init /\ [][Next]_vars

-----------------------------------------------------------------------------
(* Properties *)

\* Every variable has its type, and activeStickyLoops is the number of sticky
\* loop-outs under way, never more than MaxAutoInFlight, however they end
\* (dispatchStickyLoopOut).
StickyLoopsCounted ==
    /\ TypeOK
    /\ activeStickyLoops =
            Cardinality({l \in Loops : loop[l].st \in {"dispatching", "waiting"}})
    /\ activeStickyLoops <= MaxAutoInFlight

\* Among the automatic swaps planned with every earlier one in sight, no more than
\* MaxAutoInFlight are in flight; those of the rules never spend more than the
\* budget of the period, and easy autoloop overdraws it by less than the fee of one
\* swap, whatever sticky loop-outs, refreshes, requests and restarts come between.
\* A swap counts with at most the fee it was planned with: worstCaseOutFees does not
\* cover a prepayment that is lost (checkExistingAutoLoopsWithStatic,
\* checkSummaryBudget, checkSummaryInflight).
LimitsKept ==
    /\ Cardinality(Planned) <= MaxAutoInFlight
    /\ spent.rules + PendingFees(ByRules) <= AutoFeeBudget
    /\ spent.planned + PendingFees(Planned) < AutoFeeBudget + MaxFee

\* Two automatic loop-outs never use the same channel at the same time, not even
\* when one of them is tried again after a failed payment (inUse,
\* currentSwapTrafficWithStatic, dispatchStickyLoopOut).
ChannelExclusive ==
    \A i, j \in Pending :
        swap[i].kind = "out" /\ swap[j].kind = "out" /\ swap[i].chan = swap[j].chan
            => i = j
=============================================================================
