--------------------------- MODULE LiquidityProofs ---------------------------
(***************************************************************************)
(* Proofs about the liquidity manager: the threshold rule of the planner   *)
(* (ThresholdRule), for all balances, percentages and restrictions, and    *)
(* Autoloop, for any number of channels, assets, fees, swaps, sticky       *)
(* loop-outs and attempts.                                                 *)
(*                                                                         *)
(* AutoloopInv is inductive and implies the properties of Autoloop:        *)
(*   Flow       where Run is, and which swaps and suggestions there are;   *)
(*   Counting   the counter of sticky loop-outs;                           *)
(*   Limits     the swaps that the planners answer for, together with the  *)
(*              sticky loop-outs that are yet to start one and with the    *)
(*              suggestions that are left, keep to budget and limit;       *)
(*   Visited    a stage never plans for channels of an asset whose sticky  *)
(*              loop-outs of the same tick have not stored their swaps;    *)
(*   Waits      a sticky loop-out waits for a pending swap of its channel, *)
(*              and its channel backs off before it tries again;           *)
(*   Exclusive  no channel is in two places: pending loop-outs, sticky     *)
(*              loop-outs without a swap and suggested loop-outs.          *)
(* Sums over swaps and the loop of SuggestSwaps are functions defined by   *)
(* recursion; what they compute is proved by induction over their index.   *)
(***************************************************************************)
EXTENDS Autoloop, ThresholdRule, TLAPS

-----------------------------------------------------------------------------
(* The threshold rule *)

\* Two percentages that add up to less than 100, which validate asks of a rule, leave
\* a goal that is compatible with the reserve.
LEMMA GoalsFit ==
    ASSUME NEW capacity \in Nat, NEW p \in Nat, NEW r \in Nat, p + r < 100
    PROVE  /\ TargetGoal(capacity, p) \in Nat /\ TargetGoal(capacity, r) \in Nat
           /\ TargetGoal(capacity, p) + TargetGoal(capacity, r) <= capacity
  <1> DEFINE a == capacity * p
             b == capacity * r
  <1>1. a \in Nat /\ b \in Nat
    OBVIOUS
  <1>2. capacity * 100 = a + b + capacity * (100 - p - r)
    OBVIOUS
  <1>3. capacity * (100 - p - r) >= 0
    OBVIOUS
  <1>4. a + b <= 100 * capacity
    <2> DEFINE c == capacity * (100 - p - r)
    <2>1. c \in Int
      OBVIOUS
    <2> HIDE DEF a, b, c
    <2>2. QED
      BY <1>1, <1>2, <1>3, <2>1 DEF c
  <1> HIDE DEF a, b
  <1>5. /\ a \div 100 \in Nat /\ b \div 100 \in Nat
        /\ a \div 100 + b \div 100 <= capacity
    BY <1>1, <1>4
  <1>6. QED
    BY <1>5 DEF TargetGoal, a, b

\* What is swapped reaches the goal of the one side without touching the reserve of
\* the other, also when part of the capacity is tied up in htlcs.
LEMMA AmountFits ==
    ASSUME NEW target \in Nat, NEW reserve \in Nat, NEW capacity \in Nat,
           NEW goal \in Nat, NEW reserveMinimum \in Nat,
           goal + reserveMinimum <= capacity,
           NEW amount,
           amount = calculateSwapAmount(target, reserve, capacity, goal, reserveMinimum)
    PROVE  /\ amount \in Nat
           /\ amount > 0 => /\ target + amount >= goal
                            /\ reserve - amount >= reserveMinimum
  BY DEF calculateSwapAmount

\* A swap of a rule keeps to the restrictions and never takes more from the reserve
\* than the rule allows, and a swap that the maximum does not cut short reaches the
\* goal (swapAmount).
THEOREM SwapKeepsThresholds ==
    ASSUME NEW incoming \in Nat, NEW outgoing \in Nat, NEW capacity \in Nat,
           NEW minIn \in Nat, NEW minOut \in Nat, minIn + minOut < 100,
           NEW minimum \in Nat, NEW maximum \in Nat, minimum <= maximum,
           NEW amount, amount = swapAmount("out", incoming, outgoing, capacity,
                                           minIn, minOut, minimum, maximum)
    PROVE  /\ amount \in {0} \cup minimum..maximum
           /\ amount > 0 => outgoing - amount >= TargetGoal(capacity, minOut)
           /\ amount > 0 /\ amount < maximum
                => incoming + amount >= TargetGoal(capacity, minIn)
  <1> DEFINE goal == TargetGoal(capacity, minIn)
             least == TargetGoal(capacity, minOut)
             wanted == calculateSwapAmount(incoming, outgoing, capacity, goal, least)
  <1>1. goal \in Nat /\ least \in Nat /\ goal + least <= capacity
    BY GoalsFit
  <1>2. amount = IF wanted < minimum THEN 0
                 ELSE IF wanted > maximum THEN maximum ELSE wanted
    BY DEF swapAmount
  <1> HIDE DEF goal, least
  <1>3. /\ wanted \in Nat
        /\ wanted > 0 => incoming + wanted >= goal /\ outgoing - wanted >= least
    BY <1>1, AmountFits
  <1> HIDE DEF wanted
  <1>4. /\ amount \in {0} \cup minimum..maximum
        /\ amount > 0 => outgoing - amount >= least
        /\ amount > 0 /\ amount < maximum => incoming + amount >= goal
    BY <1>1, <1>2, <1>3
  <1>5. QED
    BY <1>4 DEF goal, least

\* The planner comes to rest: after a loop-out of a rule, the rule for loop-ins with
\* the same percentages suggests nothing, so that the two directions do not undo
\* each other's work (swapAmount, calculateSwapAmount).
THEOREM NoPingPong ==
    ASSUME NEW incoming \in Nat, NEW outgoing \in Nat, NEW capacity \in Nat,
           NEW minIn \in Nat, NEW minOut \in Nat, minIn + minOut < 100,
           NEW minimum \in Nat, NEW maximum \in Nat, minimum <= maximum,
           NEW amount, amount = swapAmount("out", incoming, outgoing, capacity,
                                           minIn, minOut, minimum, maximum),
           amount > 0
    PROVE  swapAmount("in", incoming + amount, outgoing - amount, capacity,
                      minIn, minOut, minimum, maximum) = 0
  <1>1. /\ amount \in {0} \cup minimum..maximum
        /\ outgoing - amount >= TargetGoal(capacity, minOut)
    BY SwapKeepsThresholds
  <1>2. calculateSwapAmount(outgoing - amount, incoming + amount, capacity,
                            TargetGoal(capacity, minOut), TargetGoal(capacity, minIn)) = 0
    BY <1>1 DEF calculateSwapAmount
  <1>3. QED
    BY <1>2 DEF swapAmount

-----------------------------------------------------------------------------
(* Naturals and finite sets *)

\* Leaves go to Zenon unless they name another prover.
USE Zenon

\* The facts about naturals and finite sets that the proofs about Autoloop need.  They
\* are a hypothesis of the lemmas, and LawsHold proves them: the library that this
\* takes comes into scope only there.
Laws ==
    /\ \A T \in SUBSET Nat : 0 \in T /\ (\A n \in T : n + 1 \in T) => T = Nat
    /\ IsFiniteSet({}) /\ Cardinality({}) = 0
    /\ \A a, b \in Int : IsFiniteSet(a..b)
    /\ \A S, T : IsFiniteSet(S) /\ T \in SUBSET S =>
            IsFiniteSet(T) /\ Cardinality(T) <= Cardinality(S)
    /\ \A S : IsFiniteSet(S) => Cardinality(S) \in Nat
    /\ \A S, x : IsFiniteSet(S) =>
            /\ Cardinality(S \cup {x}) = IF x \in S THEN Cardinality(S) ELSE Cardinality(S) + 1
            /\ Cardinality(S \ {x}) = IF x \in S THEN Cardinality(S) - 1 ELSE Cardinality(S)

\* A set of naturals that holds 0 and with every number the next one holds them all.
LEMMA Induction ==
    ASSUME Laws, NEW T \in SUBSET Nat, 0 \in T, \A n \in T : n + 1 \in T
    PROVE  T = Nat
  BY DEF Laws

\* The size of the empty set.
LEMMA EmptyCount ==
    ASSUME Laws
    PROVE  Cardinality({}) = 0
  BY DEF Laws

\* An interval is finite.
LEMMA FiniteInterval ==
    ASSUME Laws, NEW a \in Int, NEW b \in Int
    PROVE  IsFiniteSet(a..b)
  BY DEF Laws

\* A part of a finite set is finite and no larger.
LEMMA FiniteSubset ==
    ASSUME Laws, NEW S, IsFiniteSet(S), NEW T \in SUBSET S
    PROVE  IsFiniteSet(T) /\ Cardinality(T) <= Cardinality(S)
  BY DEF Laws

\* The size of a finite set is a natural.
LEMMA CountType ==
    ASSUME Laws, NEW S, IsFiniteSet(S)
    PROVE  Cardinality(S) \in Nat
  BY DEF Laws

\* One more element.
LEMMA AddOne ==
    ASSUME Laws, NEW S, NEW x, IsFiniteSet(S)
    PROVE  Cardinality(S \cup {x}) = IF x \in S THEN Cardinality(S) ELSE Cardinality(S) + 1
  BY DEF Laws

\* One element less.
LEMMA RemoveOne ==
    ASSUME Laws, NEW S, NEW x, IsFiniteSet(S)
    PROVE  Cardinality(S \ {x}) = IF x \in S THEN Cardinality(S) - 1 ELSE Cardinality(S)
  BY DEF Laws

-----------------------------------------------------------------------------
(* Sums *)

\* A function on the numbers from 0 to n with values in X that starts with x0 and
\* gets each value from the one before.
Recurs(f, n, X, x0, h) ==
    f \in [0..n -> X] /\ f[0] = x0 /\ \A k \in 1..n : f[k] = h[<<f[k - 1], k>>]

\* A function can be defined by recursion over the numbers from 0 to n.
LEMMA Recursion ==
    ASSUME Laws, NEW X, NEW x0 \in X, NEW h \in [X \X Nat -> X], NEW n \in Nat
    PROVE  \E f : Recurs(f, n, X, x0, h)
  <1> DEFINE P(m, f) == Recurs(f, m, X, x0, h)
             T == {m \in Nat : \E f : P(m, f)}
  <1>1. 0 \in T
    <2> DEFINE g == [k \in 0..0 |-> x0]
    <2>1. P(0, g)
      BY SMT DEF Recurs
    <2>2. QED
      BY <2>1, SMT
  <1>2. ASSUME NEW m \in T PROVE m + 1 \in T
    <2>1. PICK f : P(m, f)
      BY <1>2, SMT
    <2> DEFINE g == [k \in 0..(m + 1) |-> IF k = m + 1 THEN h[<<f[m], m + 1>>] ELSE f[k]]
    <2>2. m \in Nat /\ f[m] \in X /\ h[<<f[m], m + 1>>] \in X
      BY <1>2, <2>1, SMT DEF Recurs
    <2>3. g \in [0..(m + 1) -> X]
      BY <2>1, <2>2, SMT DEF Recurs
    <2>4. g[0] = x0
      BY <2>1, <2>2, SMT DEF Recurs
    <2>5. ASSUME NEW k \in 1..(m + 1) PROVE g[k] = h[<<g[k - 1], k>>]
      <3>1. CASE k = m + 1
        <4>1. m \in 0..(m + 1) /\ m # m + 1 /\ k \in 0..(m + 1) /\ k - 1 = m
          BY <2>2, <3>1, SMT
        <4>2. g[k] = h[<<f[m], m + 1>>] /\ g[m] = f[m]
          BY <3>1, <4>1, SMT
        <4>3. QED
          BY <3>1, <4>1, <4>2, SMT
      <3>2. CASE k # m + 1
        <4>1. k \in 1..m /\ k - 1 \in 0..(m + 1) /\ k \in 0..(m + 1) /\ k - 1 # m + 1
          BY <2>2, <3>2, SMT
        <4>2. g[k] = f[k] /\ g[k - 1] = f[k - 1]
          BY <4>1, <3>2, SMT
        <4>3. QED
          BY <2>1, <4>1, <4>2, SMT DEF Recurs
      <3>3. QED
        BY <3>1, <3>2, SMT
    <2>6. P(m + 1, g)
      BY <2>3, <2>4, <2>5 DEF Recurs
    <2> HIDE DEF g, P
    <2>7. QED
      BY <2>2, <2>6, SMT
  <1>3. T = Nat
    <2> HIDE DEF T
    <2>1. T \in SUBSET Nat
      BY SMT DEF T
    <2>2. QED
      BY <1>1, <1>2, <2>1, Induction, SMT
  <1>4. QED
    BY <1>3, SMT

\* The partial sums of a sequence of integers.
Sums(a, f) == /\ f \in [0..Len(a) -> Int] /\ f[0] = 0
              /\ \A k \in 1..Len(a) : f[k] = f[k - 1] + a[k]

\* A sequence has only one sequence of partial sums.
LEMMA SumsUnique ==
    ASSUME Laws, NEW a \in Seq(Int), NEW f, NEW g, Sums(a, f), Sums(a, g)
    PROVE  f = g
  <1> DEFINE T == {n \in Nat : n <= Len(a) => f[n] = g[n]}
  <1>1. 0 \in T
    BY SMT DEF Sums
  <1>2. ASSUME NEW n \in T PROVE n + 1 \in T
    <2>1. SUFFICES ASSUME n + 1 <= Len(a) PROVE f[n + 1] = g[n + 1]
      BY SMT
    <2>2. n + 1 \in 1..Len(a) /\ (n + 1) - 1 = n /\ f[n] = g[n]
      BY <1>2, <2>1, SMT
    <2>3. QED
      BY <2>2, SMT DEF Sums
  <1>3. T = Nat
    <2> HIDE DEF T
    <2>1. T \in SUBSET Nat
      BY SMT DEF T
    <2>2. QED
      BY <1>1, <1>2, <2>1, Induction
  <1>4. \A n \in 0..Len(a) : f[n] = g[n]
    BY <1>3, SMT
  <1>5. QED
    BY <1>4, SMT DEF Sums

\* Total is the last of the partial sums.
LEMMA TotalIsLastSum ==
    ASSUME Laws, NEW a \in Seq(Int)
    PROVE  /\ \E f : Sums(a, f)
           /\ \A f : Sums(a, f) => Total(a) = f[Len(a)]
  <1> DEFINE n == Len(a)
             h == [z \in Int \X Nat |-> z[1] + (IF z[2] \in 1..n THEN a[z[2]] ELSE 0)]
             Rec(f) == f = [k \in 0..n |-> IF k = 0 THEN 0 ELSE f[k - 1] + a[k]]
             sum == CHOOSE f : Rec(f)
  <1>1. n \in Nat /\ h \in [Int \X Nat -> Int]
    BY SMT
  <1>2. PICK f : Recurs(f, n, Int, 0, h)
    <2> HIDE DEF n, h
    <2>1. 0 \in Int
      BY SMT
    <2>2. QED
      BY <1>1, <2>1, Recursion
  <1>3. ASSUME NEW k \in 1..n PROVE f[k] = f[k - 1] + a[k]
    <2>1. f[k - 1] \in Int /\ k \in Nat
      BY <1>1, <1>2, SMT DEF Recurs
    <2>2. h[<<f[k - 1], k>>] = f[k - 1] + a[k]
      BY <2>1, SMT
    <2>3. QED
      BY <1>2, <2>2 DEF Recurs
  <1>4. Sums(a, f)
    BY <1>2, <1>3, SMT DEF Sums, Recurs
  <1>5. Rec(f)
    BY <1>1, <1>2, <1>3, SMT DEF Recurs
  <1>6. Rec(sum)
    BY <1>5
  <1>7. Total(a) = sum[n]
    BY DEF Total
  <1> HIDE DEF sum
  <1>8. DOMAIN sum = 0..n /\ sum[0] = 0 /\ \A k \in 1..n : sum[k] = sum[k - 1] + a[k]
    <2>1. \A k \in 0..n : sum[k] = IF k = 0 THEN 0 ELSE sum[k - 1] + a[k]
      BY <1>6
    <2>2. DOMAIN sum = 0..n
      BY <1>6
    <2> HIDE DEF Rec
    <2>3. QED
      BY <1>1, <2>1, <2>2, SMT
  <1>9. \A m \in 0..n : sum[m] = f[m]
    <2> DEFINE T == {m \in Nat : m <= n => sum[m] = f[m]}
    <2>1. 0 \in T
      BY <1>2, <1>8, SMT DEF Recurs
    <2>2. ASSUME NEW m \in T PROVE m + 1 \in T
      <3>1. SUFFICES ASSUME m + 1 <= n PROVE sum[m + 1] = f[m + 1]
        BY SMT
      <3>2. m + 1 \in 1..n /\ (m + 1) - 1 = m /\ sum[m] = f[m]
        BY <1>1, <2>2, <3>1, SMT
      <3>3. QED
        BY <1>3, <1>8, <3>2, SMT
    <2>3. T = Nat
      <3> HIDE DEF T
      <3>1. T \in SUBSET Nat
        BY SMT DEF T
      <3>2. QED
        BY <2>1, <2>2, <3>1, Induction
    <2>4. QED
      BY <1>1, <2>3, SMT
  <1>10. Total(a) = f[n]
    BY <1>1, <1>7, <1>9, SMT
  <1>11. QED
    BY <1>4, <1>10, SumsUnique

\* The total of naturals is a natural, that of an empty sequence is zero.
LEMMA TotalNat ==
    ASSUME Laws, NEW a \in Seq(Nat)
    PROVE  Total(a) \in Nat
  <1>1. a \in Seq(Int)
    BY SMT
  <1>2. PICK f : Sums(a, f) /\ Total(a) = f[Len(a)]
    BY <1>1, TotalIsLastSum, SMT
  <1> DEFINE T == {n \in Nat : n <= Len(a) => f[n] \in Nat}
  <1>3. 0 \in T
    BY <1>2, SMT DEF Sums
  <1>4. ASSUME NEW n \in T PROVE n + 1 \in T
    <2>1. SUFFICES ASSUME n + 1 <= Len(a) PROVE f[n + 1] \in Nat
      BY SMT
    <2>2. n + 1 \in 1..Len(a) /\ (n + 1) - 1 = n /\ f[n] \in Nat /\ a[n + 1] \in Nat
      BY <1>4, <2>1, SMT
    <2>3. QED
      BY <1>2, <2>2, SMT DEF Sums
  <1>5. T = Nat
    <2> HIDE DEF T
    <2>1. T \in SUBSET Nat
      BY SMT DEF T
    <2>2. QED
      BY <1>3, <1>4, <2>1, Induction
  <1>6. QED
    BY <1>2, <1>5, SMT

\* Two totals of the same length add up.
LEMMA TotalPlus ==
    ASSUME Laws, NEW a \in Seq(Int), NEW b \in Seq(Int), NEW c \in Seq(Int),
           Len(b) = Len(a), Len(c) = Len(a),
           \A k \in 1..Len(a) : c[k] = a[k] + b[k]
    PROVE  Total(c) = Total(a) + Total(b)
  <1>1. PICK f : Sums(a, f) /\ Total(a) = f[Len(a)]
    BY TotalIsLastSum, SMT
  <1>2. PICK g : Sums(b, g) /\ Total(b) = g[Len(b)]
    BY TotalIsLastSum, SMT
  <1> DEFINE h == [k \in 0..Len(a) |-> f[k] + g[k]]
  <1>3. \A k \in 0..Len(a) : h[k] = f[k] + g[k] /\ f[k] \in Int /\ g[k] \in Int
    BY <1>1, <1>2 DEF Sums
  <1>4. h \in [0..Len(c) -> Int]
    BY <1>3, SMT
  <1> HIDE DEF h
  <1>5. \A k \in 1..Len(c) : h[k] = h[k - 1] + c[k]
    <2>1. TAKE k \in 1..Len(c)
    <2>2. k \in 0..Len(a) /\ k - 1 \in 0..Len(a) /\ a[k] \in Int /\ b[k] \in Int
      BY SMT
    <2>3. f[k] = f[k - 1] + a[k] /\ g[k] = g[k - 1] + b[k]
      BY <1>1, <1>2, SMT DEF Sums
    <2>4. c[k] = a[k] + b[k]
      BY SMT
    <2>5. h[k] = f[k] + g[k] /\ h[k - 1] = f[k - 1] + g[k - 1]
          /\ f[k - 1] \in Int /\ g[k - 1] \in Int
      BY <1>3, <2>2, SMT
    <2>6. PICK u \in Int, v \in Int, w \in Int, z \in Int :
            u = f[k - 1] /\ v = g[k - 1] /\ w = a[k] /\ z = b[k]
      BY <2>2, <2>5
    <2>7. h[k] = (u + w) + (v + z) /\ h[k - 1] + c[k] = (u + v) + (w + z)
      BY <2>3, <2>4, <2>5, <2>6
    <2>8. QED
      BY <2>7, SMT
  <1>6. h[0] = 0
    <2>1. 0 \in 0..Len(a) /\ f[0] = 0 /\ g[0] = 0
      BY <1>1, <1>2, SMT DEF Sums
    <2>2. QED
      BY <1>3, <2>1, SMT
  <1>7. Sums(c, h)
    BY <1>4, <1>5, <1>6, SMT DEF Sums
  <1>8. QED
    BY <1>1, <1>2, <1>3, <1>7, TotalIsLastSum, SMT

\* A single amount is the total of a sequence that is zero elsewhere.
LEMMA TotalSingle ==
    ASSUME Laws, NEW a \in Seq(Int), NEW j \in 1..Len(a), \A k \in 1..Len(a) : k # j => a[k] = 0
    PROVE  Total(a) = a[j]
  <1> DEFINE f == [k \in 0..Len(a) |-> IF k < j THEN 0 ELSE a[j]]
  <1>1. f \in [0..Len(a) -> Int] /\ f[0] = 0 /\ f[Len(a)] = a[j]
    BY SMT
  <1>2. \A k \in 1..Len(a) : f[k] = f[k - 1] + a[k]
    BY SMT
  <1>3. Sums(a, f)
    BY <1>1, <1>2, SMT DEF Sums
  <1>4. QED
    BY <1>1, <1>3, TotalIsLastSum, SMT

\* Amounts that are indexed by a range of numbers form a sequence.
LEMMA RangeIsSequence ==
    ASSUME NEW n \in Nat, NEW a \in [1..n -> Nat]
    PROVE  a \in Seq(Nat) /\ a \in Seq(Int) /\ Len(a) = n
  BY SMT

\* The total changes by what one of its amounts changes.
LEMMA TotalChange ==
    ASSUME Laws, NEW n \in Nat, NEW a \in [1..n -> Nat], NEW b \in [1..n -> Nat], NEW i \in 1..n,
           \A k \in 1..n : k # i => b[k] = a[k]
    PROVE  Total(b) + a[i] = Total(a) + b[i]
  <1> DEFINE d == [k \in 1..n |-> b[k] - a[k]]
  <1>1. \A k \in 1..n : a[k] \in Nat /\ b[k] \in Nat /\ b[k] - a[k] \in Int
                        /\ b[k] = a[k] + (b[k] - a[k]) /\ (k # i => b[k] - a[k] = 0)
    BY SMT
  <1>2. d \in [1..n -> Int] /\ \A k \in 1..n : d[k] = b[k] - a[k]
    BY <1>1, SMT
  <1> HIDE DEF d
  <1>3. d \in Seq(Int) /\ Len(d) = n
    BY <1>2, SMT
  <1>4. a \in Seq(Nat) /\ b \in Seq(Nat) /\ a \in Seq(Int) /\ b \in Seq(Int)
        /\ Len(a) = n /\ Len(b) = n
    BY RangeIsSequence
  <1>5. \A k \in 1..n : b[k] = a[k] + d[k]
    BY <1>1, <1>2
  <1>6. Total(b) = Total(a) + Total(d)
    <2>1. Len(d) = Len(a) /\ Len(b) = Len(a) /\ \A k \in 1..Len(a) : b[k] = a[k] + d[k]
      BY <1>3, <1>4, <1>5
    <2>2. QED
      BY <1>3, <1>4, <2>1, TotalPlus
  <1>7. \A k \in 1..n : k # i => d[k] = 0
    BY <1>1, <1>2
  <1>8. Total(d) = d[i]
    BY <1>3, <1>7, TotalSingle
  <1>9. Total(a) \in Nat /\ Total(b) \in Nat
    BY <1>4, TotalNat
  <1>10. d[i] = b[i] - a[i] /\ a[i] \in Nat /\ b[i] \in Nat
    BY <1>1, <1>2
  <1>11. Total(b) = Total(a) + (b[i] - a[i])
    BY <1>6, <1>8, <1>10
  <1>12. QED
    BY <1>9, <1>10, <1>11, SMT

\* Larger amounts have a larger total.
LEMMA TotalMonotonic ==
    ASSUME Laws, NEW n \in Nat, NEW a \in [1..n -> Nat], NEW b \in [1..n -> Nat],
           \A k \in 1..n : a[k] <= b[k]
    PROVE  Total(a) <= Total(b)
  <1> DEFINE d == [k \in 1..n |-> b[k] - a[k]]
  <1>1. \A k \in 1..n : b[k] - a[k] \in Nat /\ b[k] = a[k] + (b[k] - a[k])
    BY SMT
  <1>2. d \in [1..n -> Nat] /\ \A k \in 1..n : d[k] = b[k] - a[k]
    BY <1>1, SMT
  <1> HIDE DEF d
  <1>3. d \in Seq(Nat) /\ d \in Seq(Int) /\ Len(d) = n
    BY <1>2, RangeIsSequence
  <1>4. a \in Seq(Nat) /\ b \in Seq(Nat) /\ a \in Seq(Int) /\ b \in Seq(Int)
        /\ Len(a) = n /\ Len(b) = n
    BY RangeIsSequence
  <1>5. \A k \in 1..n : b[k] = a[k] + d[k]
    BY <1>1, <1>2
  <1>6. Total(b) = Total(a) + Total(d)
    BY <1>3, <1>4, <1>5, TotalPlus
  <1>7. Total(a) \in Nat /\ Total(d) \in Nat
    BY <1>3, <1>4, TotalNat
  <1>8. QED
    BY <1>6, <1>7, SMT

\* The total of zeros is zero.
LEMMA TotalZero ==
    ASSUME Laws, NEW a \in Seq(Int), \A k \in 1..Len(a) : a[k] = 0
    PROVE  Total(a) = 0
  <1> DEFINE f == [k \in 0..Len(a) |-> 0]
  <1>1. Sums(a, f) /\ f[Len(a)] = 0
    BY SMT DEF Sums
  <1>2. QED
    BY <1>1, TotalIsLastSum, SMT

\* A suggestion, or a swap, that a planner answers for if it is a first attempt: it is
\* labelled as automatic and no sticky loop-out was out of the planner's sight.
Counted(s) == s.labelled /\ ~s.raced
\* A sticky loop-out whose first swap is yet to be stored, and one that may start a
\* swap without another look at the channel.
Fresh(l) == loop[l].st \in {"spawned", "dispatching"} /\ loop[l].tries = 0
Bare(l) == \/ loop[l].st \in {"spawned", "dispatching"}
           \/ loop[l].st = "waiting" /\ loop[l].seen = "failedPayment"
\* The sticky loop-outs that are counted.
Active == {l \in Loops : loop[l].st \in {"dispatching", "waiting"}}
\* The fees of the suggestions q.
PlanFees(q) == Total([k \in 1..Len(q) |-> q[k].fee])

\* The fee of a suggestion is a natural.
LEMMA FeeType ==
    \A s \in Suggestion : s.fee \in Nat
  BY FeesAssumption DEF Suggestion

\* The fees of suggestions are a sequence of naturals.
LEMMA PlanFeesType ==
    ASSUME Laws, NEW q \in Seq(Suggestion)
    PROVE  /\ [k \in 1..Len(q) |-> q[k].fee] \in Seq(Nat)
           /\ Len([k \in 1..Len(q) |-> q[k].fee]) = Len(q)
           /\ PlanFees(q) \in Nat
  <1> DEFINE a == [k \in 1..Len(q) |-> q[k].fee]
  <1>1. Len(q) \in Nat /\ a \in [1..Len(q) -> Nat]
    BY FeeType, SMT
  <1>2. a \in Seq(Nat) /\ Len(a) = Len(q)
    BY <1>1, SMT
  <1>3. PlanFees(q) \in Nat
    BY <1>2, TotalNat, SMT DEF PlanFees
  <1>4. QED
    BY <1>2, <1>3, SMT

\* The fees of no suggestions.
LEMMA PlanFeesEmpty ==
    ASSUME Laws
    PROVE  PlanFees(<<>>) = 0
  <1>1. <<>> \in Seq(Suggestion)
    BY SMT
  <1> DEFINE a == [k \in 1..Len(<<>>) |-> <<>>[k].fee]
  <1>2. a \in Seq(Nat) /\ Len(a) = 0
    BY <1>1, PlanFeesType, SMT
  <1>3. a \in Seq(Int) /\ \A k \in 1..Len(a) : a[k] = 0
    BY <1>2, SMT
  <1> HIDE DEF a
  <1>4. Total(a) = 0
    BY <1>3, TotalZero, SMT
  <1>5. QED
    BY <1>4, SMT DEF a, PlanFees

\* Appending an amount adds it to the total.
LEMMA TotalAppend ==
    ASSUME Laws, NEW a \in Seq(Int), NEW x \in Int
    PROVE  Total(Append(a, x)) = Total(a) + x
  <1> DEFINE b == Append(a, x)
  <1>1. b \in Seq(Int) /\ Len(b) = Len(a) + 1 /\ b[Len(b)] = x /\ Len(a) \in Nat
    BY SMT
  <1>2. \A k \in 1..Len(a) : b[k] = a[k]
    BY SMT
  <1> HIDE DEF b
  <1>3. PICK f : Sums(b, f) /\ Total(b) = f[Len(b)]
    BY <1>1, TotalIsLastSum, SMT
  <1> DEFINE g == [k \in 0..Len(a) |-> f[k]]
  <1>4. Sums(a, g) /\ g[Len(a)] = f[Len(a)]
    BY <1>1, <1>2, <1>3, SMT DEF Sums
  <1>5. f[Len(b)] = f[Len(a)] + x
    <2>1. Len(b) \in 1..Len(b) /\ Len(b) - 1 = Len(a)
      BY <1>1, SMT
    <2>2. f[Len(b)] = f[Len(b) - 1] + b[Len(b)]
      BY <1>3, <2>1, SMT DEF Sums
    <2>3. QED
      BY <1>1, <2>1, <2>2, SMT
  <1>6. QED
    BY <1>3, <1>4, <1>5, TotalIsLastSum, SMT DEF b

\* A suggestion that addSwap appends adds its fee.
LEMMA PlanFeesAppend ==
    ASSUME Laws, NEW q \in Seq(Suggestion), NEW s \in Suggestion
    PROVE  PlanFees(Append(q, s)) = PlanFees(q) + s.fee
  <1> DEFINE a == [k \in 1..Len(q) |-> q[k].fee]
             r == Append(q, s)
             b == [k \in 1..Len(r) |-> r[k].fee]
  <1>1. a \in Seq(Nat) /\ Len(a) = Len(q) /\ s.fee \in Nat /\ Len(q) \in Nat
    BY PlanFeesType, FeeType, SMT
  <1>2. r \in Seq(Suggestion) /\ Len(r) = Len(q) + 1 /\ r[Len(q) + 1] = s
        /\ \A k \in 1..Len(q) : r[k] = q[k]
    BY SMT
  <1> HIDE DEF r
  <1>3. b \in Seq(Nat) /\ Len(b) = Len(r)
    BY <1>2, PlanFeesType, SMT
  <1>4. \A k \in 1..Len(q) : b[k] = a[k]
    BY <1>1, <1>2, SMT
  <1>5. b[Len(q) + 1] = s.fee
    BY <1>1, <1>2, SMT
  <1> HIDE DEF a, b
  <1>6. b = Append(a, s.fee)
    BY <1>1, <1>2, <1>3, <1>4, <1>5, SMT
  <1>7. Total(b) = Total(a) + s.fee
    <2>1. a \in Seq(Int) /\ s.fee \in Int
      BY <1>1, SMT
    <2>2. QED
      BY <1>6, <2>1, TotalAppend, SMT
  <1>8. QED
    BY <1>7, SMT DEF a, b, r, PlanFees

\* The total of a sequence is that of all but its first amount and the first one.
LEMMA TotalTail ==
    ASSUME Laws, NEW a \in Seq(Int), a # <<>>
    PROVE  Total(Tail(a)) = Total(a) - a[1]
  <1>1. PICK f : Sums(a, f) /\ Total(a) = f[Len(a)]
    BY TotalIsLastSum, SMT
  <1> DEFINE b == Tail(a)
             g == [k \in 0..Len(b) |-> f[k + 1] - a[1]]
  <1>2. b \in Seq(Int) /\ Len(b) = Len(a) - 1 /\ \A k \in 1..Len(b) : b[k] = a[k + 1]
    BY SMT
  <1>3. a[1] \in Int /\ Len(a) \in Nat \ {0} /\ \A k \in 0..Len(a) : f[k] \in Int
    <2>1. a[1] \in Int /\ Len(a) \in Nat \ {0}
      BY SMT
    <2>2. QED
      BY <1>1, <2>1, SMT DEF Sums
  <1> HIDE DEF b
  <1>4. \A k \in 0..Len(b) : k + 1 \in 0..Len(a) /\ g[k] = f[k + 1] - a[1]
    BY <1>2, <1>3, SMT
  <1>5. g \in [0..Len(b) -> Int]
    <2>1. \A k \in 0..Len(b) : f[k + 1] - a[1] \in Int
      BY <1>3, <1>4, SMT
    <2>2. QED
      BY <2>1, SMT
  <1> HIDE DEF g
  <1>6. g[0] = 0
    <2>1. f[1] = f[0] + a[1] /\ f[0] = 0
      BY <1>1, <1>3, SMT DEF Sums
    <2>2. QED
      BY <1>2, <1>3, <1>4, <2>1, SMT
  <1>7. \A k \in 1..Len(b) : g[k] = g[k - 1] + b[k]
    <2>1. TAKE k \in 1..Len(b)
    <2>2. k + 1 \in 1..Len(a) /\ (k + 1) - 1 = k /\ (k - 1) + 1 = k /\ k - 1 \in 0..Len(b)
          /\ k \in 0..Len(b)
      BY <1>2, SMT
    <2>3. f[k + 1] = f[k] + a[k + 1]
      BY <1>1, <2>2, SMT DEF Sums
    <2>4. a[k + 1] \in Int /\ f[k] \in Int /\ f[k + 1] \in Int
      BY <1>2, <1>3, <2>2, SMT
    <2>5. g[k] = f[k + 1] - a[1] /\ g[k - 1] = f[k] - a[1] /\ b[k] = a[k + 1]
      BY <1>2, <1>4, <2>2, SMT
    <2>6. QED
      BY <1>3, <2>3, <2>4, <2>5, SMT
  <1>8. Sums(b, g)
    BY <1>5, <1>6, <1>7, SMT DEF Sums
  <1>9. Total(b) = g[Len(b)] /\ g[Len(b)] = f[Len(a)] - a[1]
    BY <1>2, <1>3, <1>4, <1>8, TotalIsLastSum, SMT
  <1>10. QED
    BY <1>1, <1>9, SMT DEF b

\* Sequences with the same elements are equal.
LEMMA SequencesEqual ==
    ASSUME NEW S, NEW s \in Seq(S), NEW t \in Seq(S), Len(s) = Len(t),
           \A k \in 1..Len(s) : s[k] = t[k]
    PROVE  s = t
  <1>1. s \in [1..Len(s) -> S] /\ t \in [1..Len(s) -> S]
    BY SMT
  <1>2. QED
    BY <1>1, SMT

\* A suggestion that is dispatched takes its fee with it.
LEMMA PlanFeesTail ==
    ASSUME Laws, NEW q \in Seq(Suggestion), q # <<>>
    PROVE  PlanFees(q) = PlanFees(Tail(q)) + Head(q).fee
  <1> DEFINE a == [k \in 1..Len(q) |-> q[k].fee]
             r == Tail(q)
             b == [k \in 1..Len(r) |-> r[k].fee]
  <1>1. a \in Seq(Nat) /\ Len(a) = Len(q) /\ Len(q) \in Nat \ {0} /\ Head(q) = q[1]
    BY PlanFeesType, SMT
  <1>2. r \in Seq(Suggestion) /\ Len(r) = Len(q) - 1 /\ \A k \in 1..Len(r) : r[k] = q[k + 1]
    BY SMT
  <1> HIDE DEF r
  <1>3. b \in Seq(Nat) /\ Len(b) = Len(r)
    BY <1>2, PlanFeesType, SMT
  <1>4. \A k \in 1..Len(r) : b[k] = a[k + 1]
    BY <1>1, <1>2, SMT
  <1>5. a[1] = Head(q).fee
    BY <1>1, SMT
  <1> HIDE DEF a, b
  <1>6. b = Tail(a) /\ a # <<>> /\ a \in Seq(Int)
    <2>1. a # <<>> /\ a \in Seq(Int)
      BY <1>1, SMT
    <2>2. Tail(a) \in Seq(Nat) /\ Len(Tail(a)) = Len(a) - 1
          /\ \A k \in 1..Len(Tail(a)) : Tail(a)[k] = a[k + 1]
      BY <1>1, <2>1, SMT
    <2> DEFINE t == Tail(a)
    <2>3. t \in Seq(Nat) /\ Len(t) = Len(b) /\ \A k \in 1..Len(b) : b[k] = t[k]
      BY <1>1, <1>2, <1>3, <1>4, <2>2, SMT
    <2> HIDE DEF t
    <2>4. b = t
      BY <1>3, <2>3, SequencesEqual, SMT
    <2>5. QED
      BY <2>1, <2>4, SMT DEF t
  <1>7. Total(b) = Total(a) - a[1]
    BY <1>6, TotalTail, SMT
  <1>8. Total(a) \in Nat /\ Total(b) \in Nat /\ a[1] \in Nat
    BY <1>1, <1>3, TotalNat, SMT
  <1>9. Total(a) = Total(b) + a[1]
    BY <1>7, <1>8, SMT
  <1>10. QED
    BY <1>5, <1>9 DEF a, b, r, PlanFees

-----------------------------------------------------------------------------
(* The planners *)

\* Suggestions for different channels.
Distinct(q) == \A i, j \in 1..Len(q) : q[i].chan = q[j].chan => i = j

\* What the loop of SuggestSwaps keeps: the budget, the limit, and suggestions that
\* are among the candidates looked at so far, each taken once.
Response == [left : Nat, out : Seq(Suggestion), in : Seq(Suggestion)]
\* What holds of SelectSwaps after n candidates: the accepted ones are among them, and
\* what they cost and how many they are is within what was available and allowed.
Among(q, kind, candidates, n) ==
    \A j \in 1..Len(q) : q[j].kind = kind /\ \E k \in 1..n : q[j] = candidates[k]
Within(left, out, in, candidates, n, available, allowed) ==
    /\ left \in Nat /\ out \in Seq(Suggestion) /\ in \in Seq(Suggestion)
    /\ Len(out) + Len(in) <= allowed
    /\ left + PlanFees(out) + PlanFees(in) = available
    /\ Among(out, "out", candidates, n) /\ Among(in, "in", candidates, n)
    /\ Distinct(out)

\* What the planner of the rules suggests keeps to the budget and to the number of
\* swaps that are left, comes from its candidates and uses every channel once
\* (SuggestSwaps).
LEMMA SelectionWithinLimits ==
    ASSUME Laws, NEW candidates \in Seq(Suggestion), Distinct(candidates),
           NEW available \in Nat, NEW allowed \in Nat
    PROVE  LET r == SelectSwaps(candidates, available, allowed)
           IN  Within(r.left, r.out, r.in, candidates, Len(candidates), available, allowed)
  \* A candidate is passed over, or appended to one of the two lists.
  <1>cases. ASSUME NEW r \in Response, NEW c \in Suggestion, Len(r.out) + Len(r.in) <= allowed
            PROVE  \/ Consider(r, c, allowed) = r
                   \/ /\ Len(r.out) + Len(r.in) < allowed /\ c.fee <= r.left
                      /\ \/ /\ c.kind = "out"
                            /\ Consider(r, c, allowed) =
                                [left |-> r.left - c.fee, out |-> Append(r.out, c), in |-> r.in]
                         \/ /\ c.kind = "in"
                            /\ Consider(r, c, allowed) =
                                [left |-> r.left - c.fee, out |-> r.out, in |-> Append(r.in, c)]
    <2>1. c.kind \in {"out", "in"} /\ c.fee \in Nat
      BY FeeType DEF Suggestion
    <2>2. r.left \in Nat /\ Len(r.out) \in Nat /\ Len(r.in) \in Nat
      BY SMT DEF Response
    <2>3. CASE r.left = 0 \/ Len(r.out) + Len(r.in) = allowed \/ c.fee > r.left
      BY <2>3 DEF Consider, Full
    <2>4. CASE ~(r.left = 0 \/ Len(r.out) + Len(r.in) = allowed \/ c.fee > r.left)
      <3>1. Len(r.out) + Len(r.in) < allowed /\ c.fee <= r.left
        <4>1. PICK m \in Nat, l \in Nat, i \in Nat, f \in Nat :
                  m = Len(r.out) /\ l = Len(r.in) /\ i = r.left /\ f = c.fee
          BY <2>1, <2>2
        <4>2. m + l # allowed /\ ~(f > i) /\ m + l <= allowed
          BY <1>cases, <2>4, <4>1
        <4>3. m + l < allowed /\ f <= i
          BY <4>2, SMT
        <4>4. QED
          BY <4>1, <4>3
      <3>2. Consider(r, c, allowed) = AddSwap([r EXCEPT !.left = @ - c.fee], c)
        BY <2>4 DEF Consider, Full
      <3>3. [r EXCEPT !.left = @ - c.fee] = [left |-> r.left - c.fee, out |-> r.out, in |-> r.in]
        BY SMT DEF Response
      <3>4. CASE c.kind = "out"
        <4>1. AddSwap([left |-> r.left - c.fee, out |-> r.out, in |-> r.in], c) =
                  [left |-> r.left - c.fee, out |-> Append(r.out, c), in |-> r.in]
          BY <3>4 DEF AddSwap
        <4>2. QED
          BY <3>1, <3>2, <3>3, <3>4, <4>1
      <3>5. CASE c.kind = "in"
        <4>1. AddSwap([left |-> r.left - c.fee, out |-> r.out, in |-> r.in], c) =
                  [left |-> r.left - c.fee, out |-> r.out, in |-> Append(r.in, c)]
          BY <3>5 DEF AddSwap
        <4>2. QED
          BY <3>1, <3>2, <3>3, <3>5, <4>1
      <3>6. QED
        BY <2>1, <3>4, <3>5
    <2>5. QED
      BY <2>3, <2>4
  \* One round of the loop of SuggestSwaps, with candidates for different channels.
  <1>round. ASSUME NEW n \in Nat, n + 1 <= Len(candidates), NEW r \in Response,
                   Within(r.left, r.out, r.in, candidates, n, available, allowed)
            PROVE  LET d == Consider(r, candidates[n + 1], allowed)
                   IN  /\ d \in Response
                       /\ Within(d.left, d.out, d.in, candidates, n + 1, available, allowed)
    <2>append. ASSUME NEW q \in Seq(Suggestion), NEW s \in Suggestion,
                      NEW kind, s.kind = kind, s = candidates[n + 1], Among(q, kind, candidates, n)
               PROVE  /\ Append(q, s) \in Seq(Suggestion)
                      /\ Len(Append(q, s)) = Len(q) + 1
                      /\ Among(Append(q, s), kind, candidates, n + 1)
                      /\ Distinct(q) /\ (\A k \in 1..n : candidates[k].chan # s.chan)
                           => Distinct(Append(q, s))
      <3> DEFINE t == Append(q, s)
      <3>1. t \in Seq(Suggestion) /\ Len(t) = Len(q) + 1 /\ t[Len(q) + 1] = s
            /\ (\A k \in 1..Len(q) : t[k] = q[k]) /\ Len(q) \in Nat
        BY SMT
      <3> HIDE DEF t
      <3>2. ASSUME NEW j \in 1..Len(t)
            PROVE  t[j].kind = kind /\ \E k \in 1..(n + 1) : t[j] = candidates[k]
        <4>1. CASE j = Len(q) + 1
          <5>1. t[j] = candidates[n + 1] /\ t[j].kind = kind
            BY <2>append, <3>1, <4>1
          <5>2. n + 1 \in 1..(n + 1)
            BY SMT
          <5>3. QED
            BY <5>1, <5>2
        <4>2. CASE j # Len(q) + 1
          <5>1. j \in 1..Len(q)
            BY <3>1, <4>2, SMT
          <5>2. t[j] = q[j]
            BY <3>1, <5>1
          <5>3. PICK k \in 1..n : q[j] = candidates[k]
            BY <2>append, <5>1 DEF Among
          <5>4. k \in 1..(n + 1)
            BY SMT
          <5>5. q[j].kind = kind
            BY <2>append, <5>1 DEF Among
          <5>6. QED
            BY <5>2, <5>3, <5>4, <5>5
        <4>3. QED
          BY <4>1, <4>2
      <3>3. ASSUME Distinct(q), \A k \in 1..n : candidates[k].chan # s.chan,
                   NEW i \in 1..Len(t), NEW j \in 1..Len(t), t[i].chan = t[j].chan
            PROVE  i = j
        <4>1. \A k \in 1..Len(t) : k \in 1..Len(q) \/ k = Len(q) + 1
          BY <3>1, SMT
        <4>2. ASSUME NEW k \in 1..Len(q) PROVE t[k].chan # s.chan
          <5>1. PICK m \in 1..n : q[k] = candidates[m]
            BY <2>append, <4>2 DEF Among
          <5>2. t[k] = candidates[m]
            BY <3>1, <5>1
          <5>3. QED
            BY <3>3, <5>2
        <4>3. CASE i \in 1..Len(q) /\ j \in 1..Len(q)
          BY <3>1, <3>3, <4>3 DEF Distinct
        <4>4. CASE i = Len(q) + 1
          <5>1. t[i] = s
            BY <3>1, <4>4
          <5>2. j \notin 1..Len(q)
            BY <3>3, <4>2, <5>1
          <5>3. QED
            BY <4>1, <4>4, <5>2
        <4>5. CASE j = Len(q) + 1
          BY <3>1, <3>3, <4>1, <4>2, <4>5
        <4>6. QED
          BY <4>1, <4>3, <4>4, <4>5
      <3>4. QED
        BY <3>1, <3>2, <3>3 DEF t, Among, Distinct
    <2> DEFINE c == candidates[n + 1]
               d == Consider(r, c, allowed)
               InTurn(left, out, in) ==
                  Within(left, out, in, candidates, n + 1, available, allowed)
    <2>1. n + 1 \in 1..Len(candidates) /\ c \in Suggestion
      BY <1>round, SMT
    <2>2. /\ r.left \in Nat /\ r.out \in Seq(Suggestion) /\ r.in \in Seq(Suggestion)
          /\ Len(r.out) + Len(r.in) <= allowed
          /\ r.left + PlanFees(r.out) + PlanFees(r.in) = available
          /\ Among(r.out, "out", candidates, n) /\ Among(r.in, "in", candidates, n)
          /\ Distinct(r.out)
      BY <1>round DEF Within
    <2>3. Len(r.out) \in Nat /\ Len(r.in) \in Nat /\ c.fee \in Nat
          /\ PlanFees(r.out) \in Nat /\ PlanFees(r.in) \in Nat
      <3> HIDE DEF c
      <3>1. Len(r.out) \in Nat /\ Len(r.in) \in Nat
        BY <2>2, SMT
      <3>2. QED
        BY <2>1, <2>2, <3>1, FeeType, PlanFeesType
    <2>4. \A k \in 1..n : candidates[k].chan # c.chan
      BY <2>1, SMT DEF Distinct
    <2>5. Among(r.out, "out", candidates, n + 1) /\ Among(r.in, "in", candidates, n + 1)
      <3>1. \A k \in 1..n : k \in 1..(n + 1)
        BY SMT
      <3>2. QED
        BY <2>2, <3>1 DEF Among
    <2>6. CASE d = r
      <3>1. InTurn(r.left, r.out, r.in)
        BY <2>2, <2>5 DEF Within
      <3> HIDE DEF InTurn, d
      <3>2. QED
        BY <2>6, <3>1 DEF InTurn, d, c
    <2> HIDE DEF c
    <2>7. CASE /\ Len(r.out) + Len(r.in) < allowed /\ c.fee <= r.left /\ c.kind = "out"
               /\ d = [left |-> r.left - c.fee, out |-> Append(r.out, c), in |-> r.in]
      <3> DEFINE q == Append(r.out, c)
      <3>1. q \in Seq(Suggestion) /\ Len(q) = Len(r.out) + 1
            /\ Among(q, "out", candidates, n + 1) /\ Distinct(q)
        BY <2>1, <2>2, <2>4, <2>7, <2>append DEF c
      <3>2. PlanFees(q) = PlanFees(r.out) + c.fee
        BY <2>1, <2>2, PlanFeesAppend
      <3> HIDE DEF q
      <3>3. r.left - c.fee \in Nat /\ (r.left - c.fee) + PlanFees(q) + PlanFees(r.in) = available
            /\ Len(q) + Len(r.in) <= allowed
        <4>1. PICK a \in Nat, x \in Nat, y \in Nat, f \in Nat, l \in Nat, m \in Nat :
                  /\ a = r.left /\ x = PlanFees(r.out) /\ y = PlanFees(r.in) /\ f = c.fee
                  /\ l = Len(r.out) /\ m = Len(r.in)
          BY <2>2, <2>3
        <4>2. a + x + y = available /\ f <= a /\ l + m < allowed
          BY <2>2, <2>7, <4>1
        <4>3. a - f \in Nat /\ (a - f) + (x + f) + y = available /\ (l + 1) + m <= allowed
          BY <4>2, SMT
        <4>4. QED
          BY <3>1, <3>2, <4>1, <4>3
      <3>4. InTurn(r.left - c.fee, q, r.in)
        BY <2>2, <2>5, <3>1, <3>3 DEF Within
      <3>5. [left |-> r.left - c.fee, out |-> q, in |-> r.in] \in Response
        BY <2>2, <3>1, <3>3 DEF Response
      <3> HIDE DEF InTurn, d
      <3>6. d.left = r.left - c.fee /\ d.out = q /\ d.in = r.in /\ d \in Response
        BY <2>7, <3>5, SMT DEF q
      <3>7. QED
        BY <3>4, <3>6 DEF InTurn, d, c
    <2>8. CASE /\ Len(r.out) + Len(r.in) < allowed /\ c.fee <= r.left /\ c.kind = "in"
               /\ d = [left |-> r.left - c.fee, out |-> r.out, in |-> Append(r.in, c)]
      <3> DEFINE q == Append(r.in, c)
      <3>1. q \in Seq(Suggestion) /\ Len(q) = Len(r.in) + 1
            /\ Among(q, "in", candidates, n + 1)
        BY <2>1, <2>2, <2>8, <2>append DEF c
      <3>2. PlanFees(q) = PlanFees(r.in) + c.fee
        BY <2>1, <2>2, PlanFeesAppend
      <3> HIDE DEF q
      <3>3. r.left - c.fee \in Nat /\ (r.left - c.fee) + PlanFees(r.out) + PlanFees(q) = available
            /\ Len(r.out) + Len(q) <= allowed
        <4>1. PICK a \in Nat, x \in Nat, y \in Nat, f \in Nat, l \in Nat, m \in Nat :
                  /\ a = r.left /\ x = PlanFees(r.out) /\ y = PlanFees(r.in) /\ f = c.fee
                  /\ l = Len(r.out) /\ m = Len(r.in)
          BY <2>2, <2>3
        <4>2. a + x + y = available /\ f <= a /\ l + m < allowed
          BY <2>2, <2>8, <4>1
        <4>3. a - f \in Nat /\ (a - f) + x + (y + f) = available /\ l + (m + 1) <= allowed
          BY <4>2, SMT
        <4>4. QED
          BY <3>1, <3>2, <4>1, <4>3
      <3>4. InTurn(r.left - c.fee, r.out, q)
        BY <2>2, <2>5, <3>1, <3>3 DEF Within
      <3>5. [left |-> r.left - c.fee, out |-> r.out, in |-> q] \in Response
        BY <2>2, <3>1, <3>3 DEF Response
      <3> HIDE DEF InTurn, d
      <3>6. d.left = r.left - c.fee /\ d.out = r.out /\ d.in = q /\ d \in Response
        BY <2>8, <3>5, SMT DEF q
      <3>7. QED
        BY <3>4, <3>6 DEF InTurn, d, c
    <2>9. QED
      BY <2>1, <2>2, <2>6, <2>7, <2>8, <1>cases
  <1> DEFINE n == Len(candidates)
             x0 == [left |-> available, out |-> <<>>, in |-> <<>>]
             X == {r \in Response : Len(r.out) + Len(r.in) <= allowed}
             h == [z \in X \X Nat |-> IF z[2] \in 1..n
                                      THEN Consider(z[1], candidates[z[2]], allowed) ELSE z[1]]
             Rec(f) == f = [k \in 0..n |-> IF k = 0 THEN x0
                                           ELSE Consider(f[k - 1], candidates[k], allowed)]
             resp == CHOOSE f : Rec(f)
             P(m) == /\ resp[m] \in Response
                     /\ Within(resp[m].left, resp[m].out, resp[m].in, candidates, m,
                               available, allowed)
  <1>1. n \in Nat /\ \A k \in 1..n : candidates[k] \in Suggestion
    BY SMT
  <1>2. x0 \in Response /\ Within(available, <<>>, <<>>, candidates, 0, available, allowed)
    <2>1. <<>> \in Seq(Suggestion) /\ Len(<<>>) = 0
      BY SMT
    <2>2. available + 0 + 0 = available /\ 0 + 0 <= allowed
      BY SMT
    <2>3. \A i \in 1..0 : FALSE
      BY SMT
    <2>4. Within(available, <<>>, <<>>, candidates, 0, available, allowed)
      BY <2>1, <2>2, <2>3, PlanFeesEmpty DEF Within, Among, Distinct
    <2>5. QED
      BY <2>1, <2>4 DEF Response
  <1>3. ASSUME NEW r \in X, NEW k \in 1..n
        PROVE  Consider(r, candidates[k], allowed) \in X
    <2> DEFINE c == candidates[k]
    <2>1. r \in Response /\ Len(r.out) + Len(r.in) <= allowed /\ c \in Suggestion
      BY <1>1, <1>3
    <2>2. r.left \in Nat /\ r.out \in Seq(Suggestion) /\ r.in \in Seq(Suggestion) /\ c.fee \in Nat
      BY <2>1, FeeType DEF Response
    <2> HIDE DEF c
    <2>3. CASE Consider(r, c, allowed) = r
      BY <2>3 DEF c
    <2> DEFINE o == Append(r.out, c)
               i == Append(r.in, c)
               Rcd(l, p, q) == [left |-> l, out |-> p, in |-> q]
    <2>4. o \in Seq(Suggestion) /\ Len(o) = Len(r.out) + 1 /\ i \in Seq(Suggestion)
          /\ Len(i) = Len(r.in) + 1 /\ Len(r.out) \in Nat /\ Len(r.in) \in Nat
      BY <2>1, <2>2, SMT
    <2>5. ASSUME c.fee <= r.left, Len(r.out) + Len(r.in) < allowed
          PROVE  Rcd(r.left - c.fee, o, r.in) \in X /\ Rcd(r.left - c.fee, r.out, i) \in X
      <3> HIDE DEF o, i
      <3>1. r.left - c.fee \in Nat
        BY <2>2, <2>5, SMT
      <3>2. Len(o) + Len(r.in) <= allowed /\ Len(r.out) + Len(i) <= allowed
        <4>1. PICK l \in Nat, m \in Nat : l = Len(r.out) /\ m = Len(r.in)
          BY <2>4
        <4>2. l + m < allowed
          BY <2>5, <4>1
        <4>3. (l + 1) + m <= allowed /\ l + (m + 1) <= allowed
          BY <4>2, SMT
        <4>4. QED
          BY <2>4, <4>1, <4>3
      <3>3. QED
        BY <2>2, <2>4, <3>1, <3>2 DEF Response
    <2>6. QED
      BY <2>1, <2>3, <2>5, <1>cases DEF c
  <1>4. PICK f : Recurs(f, n, X, x0, h)
    <2>1. x0 \in X
      BY <1>2 DEF Within
    <2>2. h \in [X \X Nat -> X]
      <3> HIDE DEF X, n
      <3>1. \A z \in X \X Nat : z[1] \in X
        BY SMT
      <3>2. QED
        BY <1>3, <3>1
    <2> HIDE DEF n, h, X, x0
    <2>3. QED
      BY <1>1, <2>1, <2>2, Recursion
  <1>5. Rec(f)
    <2> HIDE DEF X, n, x0
    <2>1. \A k \in 1..n : k - 1 \in 0..n /\ k \in Nat /\ k # 0 /\ 0 \in 0..n
      BY <1>1, SMT
    <2>2. \A k \in 0..n : k = 0 \/ k \in 1..n
      BY <1>1, SMT
    <2>3. \A k \in 1..n : f[k] = Consider(f[k - 1], candidates[k], allowed)
      BY <1>4, <2>1 DEF Recurs
    <2>4. \A k \in 0..n : f[k] = IF k = 0 THEN x0
                                 ELSE Consider(f[k - 1], candidates[k], allowed)
      BY <1>4, <2>2, <2>3 DEF Recurs
    <2>5. f = [k \in 0..n |-> f[k]]
      BY <1>4, SMT DEF Recurs
    <2>6. QED
      BY <2>4, <2>5
  <1>6. Rec(resp)
    BY <1>5
  <1>7. SelectSwaps(candidates, available, allowed) = resp[n]
    BY DEF SelectSwaps
  <1> HIDE DEF resp
  <1>8. resp[0] = x0 /\ \A k \in 1..n : resp[k] = Consider(resp[k - 1], candidates[k], allowed)
    <2>1. \A k \in 0..n : resp[k] = IF k = 0 THEN x0
                                    ELSE Consider(resp[k - 1], candidates[k], allowed)
      BY <1>6
    <2> HIDE DEF Rec, n, x0
    <2>2. 0 \in 0..n /\ \A k \in 1..n : k \in 0..n /\ k # 0
      BY <1>1, SMT
    <2>3. QED
      BY <2>1, <2>2
  <1> DEFINE T == {m \in Nat : m <= n => P(m)}
  <1>9. 0 \in T
    <2>1. resp[0].left = available /\ resp[0].out = <<>> /\ resp[0].in = <<>>
      BY <1>8, SMT
    <2>2. QED
      BY <1>2, <1>8, <2>1
  <1>10. ASSUME NEW m \in T PROVE m + 1 \in T
    <2>1. SUFFICES ASSUME m + 1 <= n PROVE P(m + 1)
      BY SMT
    <2>2. m \in Nat /\ m <= n /\ m + 1 \in 1..n /\ (m + 1) - 1 = m
      BY <1>1, <1>10, <2>1, SMT
    <2>3. P(m)
      BY <1>10, <2>2
    <2>4. resp[m + 1] = Consider(resp[m], candidates[m + 1], allowed)
      BY <1>8, <2>2
    <2>5. PICK r \in Response : r = resp[m]
      BY <2>3
    <2>6. Within(r.left, r.out, r.in, candidates, m, available, allowed)
      BY <2>3, <2>5
    <2> DEFINE d == Consider(r, candidates[m + 1], allowed)
    <2>7. /\ d \in Response
          /\ Within(d.left, d.out, d.in, candidates, m + 1, available, allowed)
      BY <2>1, <2>2, <2>6, <1>round
    <2>8. QED
      BY <2>4, <2>5, <2>7
  <1>11. T = Nat
    <2> HIDE DEF T
    <2>1. T \in SUBSET Nat
      BY SMT DEF T
    <2>2. QED
      BY <1>9, <1>10, <2>1, Induction
  <1>12. P(n)
    <2>1. n <= n
      BY <1>1, SMT
    <2>2. QED
      BY <1>1, <1>11, <2>1
  <1>13. QED
    BY <1>7, <1>12

\* The suggestions that are left.
Suggested == {outSwaps[k] : k \in 1..Len(outSwaps)}
             \cup {inSwaps[k] : k \in 1..Len(inSwaps)}

\* The asset whose channels a stage plans for.
ClassOf(s) == IF s \in {"rules", "easy"} THEN "none" ELSE s

\* The largest fee is not zero.
LEMMA MaxFeeType ==
    MaxFee \in Nat /\ MaxFee > 0 /\ \A f \in Fees : f <= MaxFee
  <1>1. MaxFee \in Fees /\ \A f \in Fees : f <= MaxFee
    BY FeesAssumption DEF MaxFee
  <1>2. QED
    BY <1>1, FeesAssumption, SMT

\* A swap is pending or is not.
LEMMA SwapFields ==
    ASSUME NEW x \in SwapType \cup {NoSwap}
    PROVE  /\ x.st \in {"none", "started", "paid"}
           /\ x = NoSwap <=> x.st = "none"
           /\ x # NoSwap =>
                /\ x.kind \in {"out", "in"} /\ x.chan \in Channels /\ x.fee \in Fees
                /\ x.labelled \in BOOLEAN /\ x.easy \in BOOLEAN /\ x.raced \in BOOLEAN
                /\ x.retry \in BOOLEAN
  <1>1. NoSwap.st = "none"
    BY SMT DEF NoSwap
  <1>2. CASE x = NoSwap
    BY <1>1, <1>2, SMT
  <1>3. CASE x \in SwapType
    <2>1. x.st \in {"started", "paid"}
      BY <1>3 DEF SwapType
    <2>2. QED
      BY <1>1, <1>3, <2>1 DEF SwapType
  <1>4. QED
    BY <1>2, <1>3, SMT

\* What the pending swaps of a set may cost.
FeeIn(S) == [i \in Swaps |-> IF i \in S THEN swap[i].fee ELSE 0]

\* The fees of pending swaps add up to a natural (checkExistingAutoLoopsWithStatic).
LEMMA PendingFeesType ==
    ASSUME Laws, TypeOK, NEW S \in SUBSET Pending
    PROVE  FeeIn(S) \in [1..MaxSwaps -> Nat] /\ PendingFees(S) = Total(FeeIn(S))
           /\ PendingFees(S) \in Nat
  <1>1. ASSUME NEW i \in Swaps PROVE (IF i \in S THEN swap[i].fee ELSE 0) \in Nat
    <2>1. CASE i \in S
      <3>1. swap[i] # NoSwap /\ swap[i] \in SwapType \cup {NoSwap}
        BY <2>1 DEF Pending, TypeOK
      <3>2. swap[i].fee \in Fees
        BY <3>1, SwapFields
      <3>3. QED
        BY <2>1, <3>2, FeesAssumption
    <2>2. CASE i \notin S
      BY <2>2, SMT
    <2>3. QED
      BY <2>1, <2>2, SMT
  <1>2. FeeIn(S) \in [1..MaxSwaps -> Nat]
    BY <1>1 DEF FeeIn, Swaps
  <1>3. PendingFees(S) = Total(FeeIn(S))
    BY DEF PendingFees, FeeIn
  <1>4. QED
    <2>1. MaxSwaps \in Nat
      BY BoundsAssumption
    <2>2. FeeIn(S) \in Seq(Nat)
      BY <1>2, <2>1, RangeIsSequence
    <2>3. QED
      BY <1>2, <1>3, <2>2, TotalNat

\* What the planners start from: the swaps in flight and their fees.
LEMMA SummaryType ==
    ASSUME Laws, TypeOK
    PROVE  /\ Automatic \subseteq Pending /\ Planned \subseteq Automatic
           /\ ByRules \subseteq Planned
           /\ IsFiniteSet(Pending) /\ InFlightCount \in Nat /\ TotalFees \in Nat
  <1>1. Automatic \subseteq Pending /\ Planned \subseteq Automatic /\ ByRules \subseteq Planned
    BY DEF Automatic, Planned, ByRules
  <1>2. IsFiniteSet(Swaps)
    BY BoundsAssumption, FiniteInterval, SMT DEF Swaps
  <1>3. IsFiniteSet(Pending)
    BY <1>2, FiniteSubset DEF Pending
  <1>4. InFlightCount \in Nat
    BY <1>1, <1>3, FiniteSubset, CountType DEF InFlightCount
  <1>5. spent.all \in Nat
    BY DEF TypeOK
  <1>6. PendingFees(Automatic) \in Nat
    BY <1>1, PendingFeesType
  <1>7. TotalFees \in Nat
    BY <1>5, <1>6, SMT DEF TotalFees
  <1>8. QED
    BY <1>1, <1>3, <1>4, <1>7, SMT

\* What a planner leaves behind: suggestions for channels of its own that are not in
\* use, made in sight of the same swaps, within the limits.
PlanMade ==
    /\ outSwaps' \in Seq(Suggestion) /\ inSwaps' \in Seq(Suggestion)
    /\ \A k \in 1..Len(outSwaps') :
        /\ outSwaps'[k].kind = "out"
        /\ outSwaps'[k].chan \notin OngoingLoopOut \cup FailedLoopOut
        /\ AssetOf[outSwaps'[k].chan] = ClassOf(stage)
    /\ \A k \in 1..Len(inSwaps') : inSwaps'[k].kind = "in"
    /\ Distinct(outSwaps')
    /\ \A s \in Suggested' : s.raced = Raced
    /\ InFlightCount + Len(outSwaps') + Len(inSwaps') <= MaxAutoInFlight
    /\ TotalFees + PlanFees(outSwaps') + PlanFees(inSwaps') < AutoFeeBudget + MaxFee
    /\ \/ TotalFees + PlanFees(outSwaps') + PlanFees(inSwaps') <= AutoFeeBudget
       \/ \A s \in Suggested' : s.easy

\* The planner of the rules makes such a plan.
LEMMA RulesPlan ==
    ASSUME Laws, TypeOK, SuggestSwaps
    PROVE  PlanMade
  <1>1. /\ stage = "rules" /\ TotalFees < AutoFeeBudget /\ InFlightCount < MaxAutoInFlight
    BY DEF SuggestSwaps, WithinLimits
  <1> DEFINE Idle == {c \in Bitcoin : Rule[c] # "none" /\ ~InUse(c)}
             Cands(order, fee) == [k \in 1..Len(order) |->
                    Candidate(Rule[order[k]], order[k], fee[order[k]], FALSE)]
             available == AutoFeeBudget - TotalFees
             allowed == MaxAutoInFlight - InFlightCount
  <1>2. PICK Wanted \in SUBSET Idle, fee \in [Channels -> Fees] :
            \E order \in Injection(1..Cardinality(Wanted), Wanted) :
                /\ outSwaps' = SelectSwaps(Cands(order, fee), available, allowed).out
                /\ inSwaps' = SelectSwaps(Cands(order, fee), available, allowed).in
    BY DEF SuggestSwaps
  <1>3. PICK order \in Injection(1..Cardinality(Wanted), Wanted) :
                /\ outSwaps' = SelectSwaps(Cands(order, fee), available, allowed).out
                /\ inSwaps' = SelectSwaps(Cands(order, fee), available, allowed).in
    BY <1>2
  <1> DEFINE N == Cardinality(Wanted)
             cands == Cands(order, fee)
             r == SelectSwaps(cands, available, allowed)
  <1>4. N \in Nat
    <2>1. Wanted \in SUBSET Channels
      BY DEF Bitcoin
    <2>2. QED
      BY <2>1, ChannelsAssumption, FiniteSubset, CountType
  <1>5. /\ order \in [1..N -> Wanted]
        /\ \A i, j \in 1..N : order[i] = order[j] => i = j
    <2> HIDE DEF Idle
    <2>1. order \in [1..N -> Wanted] /\ IsInjective(order)
      BY DEF Injection
    <2>2. DOMAIN order = 1..N
      BY <2>1
    <2>3. QED
      BY <2>1, <2>2 DEF IsInjective
  <1>6. Len(order) = N
    <2> HIDE DEF N, Idle
    <2>1. QED
      BY <1>4, <1>5, SMT
  <1>7. ASSUME NEW k \in 1..N
        PROVE  /\ order[k] \in Idle /\ order[k] \in Channels
               /\ cands[k] = Candidate(Rule[order[k]], order[k], fee[order[k]], FALSE)
               /\ cands[k] \in Suggestion
    <2>1. order[k] \in Idle /\ order[k] \in Channels /\ Rule[order[k]] # "none"
      BY <1>5 DEF Bitcoin
    <2>2. fee[order[k]] \in Fees /\ Rule[order[k]] \in {"out", "in"}
      BY <2>1, ChannelsAssumption
    <2>3. params.auto \in BOOLEAN /\ Raced \in BOOLEAN
      BY DEF TypeOK, Parameters, Raced
    <2>4. Candidate(Rule[order[k]], order[k], fee[order[k]], FALSE) \in Suggestion
      BY <2>1, <2>2, <2>3 DEF Candidate, Suggestion
    <2>5. cands[k] = Candidate(Rule[order[k]], order[k], fee[order[k]], FALSE)
      BY <1>6
    <2>6. QED
      BY <2>1, <2>4, <2>5
  <1>8. cands \in Seq(Suggestion) /\ Len(cands) = N
    <2>1. cands \in [1..N -> Suggestion]
      BY <1>6, <1>7
    <2> HIDE DEF cands, N
    <2>2. QED
      BY <1>4, <2>1, SMT
  <1>9. ASSUME NEW k \in 1..N
        PROVE  /\ cands[k].kind = Rule[order[k]] /\ cands[k].chan = order[k]
               /\ cands[k].easy = FALSE /\ cands[k].raced = Raced
    <2> DEFINE x == order[k]
               y == cands[k]
    <2>1. y = [kind |-> Rule[x], chan |-> x, fee |-> fee[x], labelled |-> params.auto,
               easy |-> FALSE, raced |-> Raced]
      BY <1>7 DEF Candidate
    <2> HIDE DEF x, y
    <2>2. y.kind = Rule[x] /\ y.chan = x /\ y.easy = FALSE /\ y.raced = Raced
      BY <2>1, SMT
    <2>3. QED
      BY <2>2 DEF x, y
  <1>10. Distinct(cands)
    <2> HIDE DEF cands, N
    <2>1. ASSUME NEW i \in 1..N, NEW j \in 1..N, cands[i].chan = cands[j].chan PROVE i = j
      <3>1. cands[i].chan = order[i] /\ cands[j].chan = order[j]
        BY <1>9
      <3>2. QED
        BY <1>5, <2>1, <3>1
    <2>2. QED
      BY <1>8, <2>1 DEF Distinct
  <1>11. available \in Nat /\ allowed \in Nat
    BY <1>1, SummaryType, FeesAssumption, SMT
  <1> HIDE DEF cands, available, allowed, N
  <1>12. Within(r.left, r.out, r.in, cands, N, available, allowed)
    BY <1>8, <1>10, <1>11, SelectionWithinLimits
  <1>13. outSwaps' = r.out /\ inSwaps' = r.in
    BY <1>3 DEF cands
  <1> HIDE DEF r
  <1>14. Within(r.left, outSwaps', inSwaps', cands, N, available, allowed)
    BY <1>12, <1>13
  <1>15. ASSUME NEW k \in 1..Len(outSwaps')
         PROVE  /\ outSwaps'[k].kind = "out"
                /\ outSwaps'[k].chan \notin OngoingLoopOut \cup FailedLoopOut
                /\ AssetOf[outSwaps'[k].chan] = ClassOf(stage)
                /\ outSwaps'[k].raced = Raced
    <2>1. outSwaps'[k].kind = "out" /\ \E j \in 1..N : outSwaps'[k] = cands[j]
      BY <1>14 DEF Within, Among
    <2>2. PICK j \in 1..N : outSwaps'[k] = cands[j]
      BY <2>1
    <2>3. outSwaps'[k].chan = order[j] /\ Rule[order[j]] = "out" /\ outSwaps'[k].raced = Raced
      BY <1>9, <2>1, <2>2
    <2>4. order[j] \in Bitcoin /\ ~OutInUse(order[j])
      BY <1>7, <2>3 DEF InUse
    <2>5. ClassOf(stage) = "none"
      BY <1>1 DEF ClassOf
    <2>6. QED
      BY <2>1, <2>3, <2>4, <2>5 DEF OutInUse, Bitcoin
  <1>16. ASSUME NEW k \in 1..Len(inSwaps')
         PROVE  inSwaps'[k].kind = "in" /\ inSwaps'[k].raced = Raced
    <2>1. inSwaps'[k].kind = "in" /\ \E j \in 1..N : inSwaps'[k] = cands[j]
      BY <1>14 DEF Within, Among
    <2>2. PICK j \in 1..N : inSwaps'[k] = cands[j]
      BY <2>1
    <2>3. QED
      BY <1>9, <2>1, <2>2
  <1>17. ASSUME NEW s \in Suggested' PROVE s.raced = Raced
    <2>1. CASE \E k \in 1..Len(outSwaps') : s = outSwaps'[k]
      BY <1>15, <2>1
    <2>2. CASE \E k \in 1..Len(inSwaps') : s = inSwaps'[k]
      BY <1>16, <2>2
    <2>3. QED
      BY <1>17, <2>1, <2>2 DEF Suggested
  <1>18. outSwaps' \in Seq(Suggestion) /\ inSwaps' \in Seq(Suggestion) /\ Distinct(outSwaps')
         /\ Len(outSwaps') + Len(inSwaps') <= allowed /\ r.left \in Nat
         /\ r.left + PlanFees(outSwaps') + PlanFees(inSwaps') = available
    BY <1>14 DEF Within
  <1>19. /\ InFlightCount + Len(outSwaps') + Len(inSwaps') <= MaxAutoInFlight
         /\ TotalFees + PlanFees(outSwaps') + PlanFees(inSwaps') <= AutoFeeBudget
         /\ TotalFees + PlanFees(outSwaps') + PlanFees(inSwaps') < AutoFeeBudget + MaxFee
    <2>1. PICK l \in Nat, m \in Nat, p \in Nat, q \in Nat :
            /\ l = Len(outSwaps') /\ m = Len(inSwaps')
            /\ p = PlanFees(outSwaps') /\ q = PlanFees(inSwaps')
      <3>1. Len(outSwaps') \in Nat /\ Len(inSwaps') \in Nat
        BY <1>18, SMT
      <3>2. QED
        BY <1>18, <3>1, PlanFeesType
    <2>2. l + m <= allowed /\ r.left + p + q = available
      BY <1>18, <2>1
    <2>3. /\ InFlightCount + l + m <= MaxAutoInFlight
          /\ TotalFees + p + q <= AutoFeeBudget
          /\ TotalFees + p + q < AutoFeeBudget + MaxFee
      <3>1. PICK t \in Nat, i \in Nat, x \in Nat : t = TotalFees /\ i = InFlightCount /\ x = r.left
        BY <1>18, SummaryType
      <3>2. l + m <= MaxAutoInFlight - i /\ x + p + q = AutoFeeBudget - t
        BY <2>2, <3>1 DEF available, allowed
      <3>3. MaxFee \in Nat /\ MaxFee > 0 /\ AutoFeeBudget \in Nat /\ MaxAutoInFlight \in Nat
        BY MaxFeeType, FeesAssumption
      <3>4. i + l + m <= MaxAutoInFlight /\ t + p + q <= AutoFeeBudget
            /\ t + p + q < AutoFeeBudget + MaxFee
        BY <3>2, <3>3, SMT
      <3>5. QED
        BY <3>1, <3>4
    <2>4. QED
      BY <2>1, <2>3
  <1>20. QED
    BY <1>15, <1>16, <1>17, <1>18, <1>19 DEF PlanMade

\* Easy autoloop makes such a plan.
LEMMA EasyPlan ==
    ASSUME Laws, TypeOK, step # "enter" => stage # "none", EasySuggestion
    PROVE  PlanMade
  <1>1. /\ stage # "rules" /\ stage # "none"
        /\ TotalFees < AutoFeeBudget /\ InFlightCount < MaxAutoInFlight
    BY SMT DEF EasySuggestion, WithinLimits
  <1>2. PICK c \in Channels \ (OngoingLoopOut \cup FailedLoopOut
                                \cup EasyAutoloopExcludedPeers), fee \in Fees :
            /\ AssetOf[c] = IF stage = "easy" THEN "none" ELSE stage
            /\ outSwaps' = <<Candidate("out", c, fee, TRUE)>> /\ inSwaps' = <<>>
    BY DEF EasySuggestion
  <1> DEFINE s == Candidate("out", c, fee, TRUE)
  <1>3. s = [kind |-> "out", chan |-> c, fee |-> fee, labelled |-> params.auto,
             easy |-> TRUE, raced |-> Raced]
    BY DEF Candidate
  <1>4. params.auto \in BOOLEAN /\ Raced \in BOOLEAN
    BY DEF TypeOK, Parameters, Raced
  <1>5. s \in Suggestion
    BY <1>4 DEF Candidate, Suggestion
  <1>6. outSwaps' = <<s>> /\ inSwaps' = <<>>
    BY <1>2
  <1> HIDE DEF s
  <1>7. s.kind = "out" /\ s.chan = c /\ s.fee = fee /\ s.easy = TRUE /\ s.raced = Raced
    BY <1>3, SMT
  <1>8. /\ outSwaps' \in Seq(Suggestion) /\ inSwaps' \in Seq(Suggestion)
        /\ Len(outSwaps') = 1 /\ Len(inSwaps') = 0 /\ outSwaps'[1] = s
    BY <1>5, <1>6, SMT
  <1>9. PlanFees(outSwaps') = fee /\ PlanFees(inSwaps') = 0 /\ fee \in Nat
    <2>1. <<>> \in Seq(Suggestion) /\ outSwaps' = Append(<<>>, s)
      BY <1>5, <1>6, SMT
    <2>2. PlanFees(outSwaps') = PlanFees(<<>>) + s.fee
      BY <1>5, <2>1, PlanFeesAppend
    <2>3. fee \in Nat
      BY FeesAssumption, SMT
    <2>4. QED
      BY <1>6, <1>7, <2>2, <2>3, PlanFeesEmpty, SMT
  <1>10. (\A k \in 1..Len(outSwaps') : outSwaps'[k] = s) /\ ~\E k \in 1..Len(inSwaps') : TRUE
    BY <1>8, SMT
  <1>11. \A x \in Suggested' : x = s
    BY <1>10 DEF Suggested
  <1>12. AssetOf[c] = ClassOf(stage)
    BY <1>1, <1>2 DEF ClassOf
  <1>13. Distinct(outSwaps')
    BY <1>8, SMT DEF Distinct
  <1>14. /\ InFlightCount + Len(outSwaps') + Len(inSwaps') <= MaxAutoInFlight
         /\ TotalFees + PlanFees(outSwaps') + PlanFees(inSwaps') < AutoFeeBudget + MaxFee
    <2>1. TotalFees \in Nat /\ InFlightCount \in Nat /\ AutoFeeBudget \in Nat
          /\ MaxAutoInFlight \in Nat /\ MaxFee \in Nat /\ fee <= MaxFee
      BY SummaryType, FeesAssumption, MaxFeeType
    <2>2. InFlightCount + 1 + 0 <= MaxAutoInFlight /\ TotalFees + fee + 0 < AutoFeeBudget + MaxFee
      BY <1>1, <1>9, <2>1, SMT
    <2>3. QED
      BY <1>8, <1>9, <2>2
  <1>15. QED
    BY <1>2, <1>7, <1>8, <1>10, <1>11, <1>12, <1>13, <1>14 DEF PlanMade

-----------------------------------------------------------------------------
(* The steps *)

\* A goroutine of dispatchStickyLoopOut has not started, waits or is gone.
LEMMA LoopFields ==
    ASSUME NEW x \in LoopType \cup {NoLoop}
    PROVE  /\ x.st \in {"none", "spawned", "dispatching", "waiting"}
           /\ x = NoLoop <=> x.st = "none"
           /\ x.st \in {"spawned", "dispatching"} =>
                x.out \in Suggestion /\ x.tries \in 0..(RetryCount - 1)
           /\ x.st = "waiting" =>
                /\ x.out \in Suggestion /\ x.tries \in 1..RetryCount
                /\ x.id \in Swaps \cup {0} /\ x.seen \in {"started", "failedPayment", "other"}
  <1>1. NoLoop.st = "none"
    BY SMT DEF NoLoop
  <1>2. CASE x = NoLoop
    BY <1>1, <1>2, SMT
  <1>3. CASE x \in [st : {"spawned", "dispatching"}, out : Suggestion,
                    tries : 0..(RetryCount - 1)]
    BY <1>1, <1>3, SMT
  <1>4. CASE x \in [st : {"waiting"}, out : Suggestion, tries : 1..RetryCount,
                    id : Swaps \cup {0}, seen : {"started", "failedPayment", "other"}]
    BY <1>1, <1>4, SMT
  <1>5. QED
    BY <1>2, <1>3, <1>4 DEF LoopType

\* The fields of a suggestion, of a sticky loop-out and of a swap.
LEMMA SuggestionFields ==
    ASSUME NEW s \in Suggestion
    PROVE  /\ s.kind \in {"out", "in"} /\ s.chan \in Channels /\ s.fee \in Fees
           /\ s.labelled \in BOOLEAN /\ s.easy \in BOOLEAN /\ s.raced \in BOOLEAN
  BY DEF Suggestion

\* A swap that is started has the type of a swap.
LEMMA StartType ==
    ASSUME TypeOK, NEW s \in Suggestion, NEW retry \in BOOLEAN, Start(s, retry)
    PROVE  /\ swap' \in [Swaps -> SwapType \cup {NoSwap}] /\ made' \in 0..MaxSwaps
           /\ made' \in Swaps /\ made' = made + 1
           /\ swap' = [swap EXCEPT ![made'] = swap'[made']]
           /\ swap'[made'] =
                [st |-> "started", kind |-> s.kind, chan |-> s.chan, fee |-> s.fee,
                 labelled |-> s.labelled, easy |-> s.easy, raced |-> s.raced,
                 retry |-> retry]
           /\ swap'[made'] # NoSwap
  <1> DEFINE new == [st |-> "started", kind |-> s.kind, chan |-> s.chan, fee |-> s.fee,
                     labelled |-> s.labelled, easy |-> s.easy, raced |-> s.raced,
                     retry |-> retry]
  <1>1. made < MaxSwaps /\ made' = made + 1 /\ swap' = [swap EXCEPT ![made'] = new]
    BY DEF Start
  <1>2. made \in 0..MaxSwaps /\ swap \in [Swaps -> SwapType \cup {NoSwap}]
    BY DEF TypeOK
  <1>3. made' \in 0..MaxSwaps /\ made' \in Swaps
    BY <1>1, <1>2, BoundsAssumption, SMT DEF Swaps
  <1>4. new \in SwapType
    BY SuggestionFields DEF SwapType
  <1>5. new.st = "started"
    BY SMT
  <1>6. new # NoSwap
    BY <1>5, SMT DEF NoSwap
  <1> HIDE DEF new
  <1>7. swap' \in [Swaps -> SwapType \cup {NoSwap}] /\ swap'[made'] = new
    BY <1>1, <1>2, <1>3, <1>4
  <1>8. QED
    BY <1>1, <1>3, <1>6, <1>7 DEF new

\* What a step of a sticky loop-out makes of it.
Dispatching(x) == [st |-> "dispatching", out |-> x.out, tries |-> x.tries]
Waiting(x, i) == [st |-> "waiting", out |-> x.out, tries |-> x.tries + 1, id |-> i,
                  seen |-> "started"]

\* The steps of a sticky loop-out, in one form.
LEMMA StickySteps ==
    ASSUME TypeOK, NEW l \in Loops,
           \/ StickyStarts(l) \/ StickyDispatches(l)
           \/ StickySeesUpdate(l) \/ StickyTimesOut(l)
    PROVE  \E x \in LoopType \cup {NoLoop} :
             /\ loop' = [loop EXCEPT ![l] = x]
             /\ \/ /\ x = NoLoop /\ loop[l].st # "none" /\ UNCHANGED <<swap, made>>
                   /\ activeStickyLoops' = IF loop[l].st = "spawned" THEN activeStickyLoops
                                           ELSE activeStickyLoops - 1
                \/ /\ loop[l].st = "spawned" /\ x = Dispatching(loop[l])
                   /\ activeStickyLoops < MaxAutoInFlight
                   /\ activeStickyLoops' = activeStickyLoops + 1
                   /\ UNCHANGED <<swap, made>>
                \/ /\ loop[l].st = "waiting" /\ loop[l].seen = "failedPayment"
                   /\ x = Dispatching(loop[l])
                   /\ UNCHANGED <<swap, made, activeStickyLoops>>
                \/ /\ loop[l].st = "dispatching" /\ x = Waiting(loop[l], made')
                   /\ Start(loop[l].out, loop[l].tries > 0)
                   /\ UNCHANGED activeStickyLoops
  <1> DEFINE y == loop[l]
  <1>1. y \in LoopType \cup {NoLoop} /\ y.st \in {"none", "spawned", "dispatching", "waiting"}
        /\ activeStickyLoops \in Nat
    BY LoopFields DEF TypeOK
  <1>2. CASE StickyStarts(l)
    <2>1. y.st = "spawned"
      BY <1>2 DEF StickyStarts
    <2>2. CASE activeStickyLoops >= MaxAutoInFlight
      BY <1>2, <2>1, <2>2 DEF StickyStarts, swapVars
    <2>3. CASE ~(activeStickyLoops >= MaxAutoInFlight)
      <3>1. y.out \in Suggestion /\ y.tries \in 0..(RetryCount - 1)
        BY <1>1, <2>1, LoopFields
      <3>2. Dispatching(y) \in LoopType
        BY <3>1 DEF Dispatching, LoopType
      <3>3. loop' = [loop EXCEPT ![l].st = "dispatching"]
        BY <1>2, <2>3 DEF StickyStarts
      <3>4. [y EXCEPT !.st = "dispatching"] = Dispatching(y)
        <4>1. y \in [st : {"spawned", "dispatching"}, out : Suggestion, tries : 0..(RetryCount - 1)]
          <5>1. NoLoop.st = "none"
            BY SMT DEF NoLoop
          <5>2. QED
            BY <1>1, <2>1, <5>1, SMT DEF LoopType
        <4>2. QED
          BY <4>1, SMT DEF Dispatching
      <3>5. loop' = [loop EXCEPT ![l] = Dispatching(y)]
        BY <3>3, <3>4
      <3>6. activeStickyLoops < MaxAutoInFlight
        BY <1>1, <2>3, FeesAssumption, SMT
      <3>7. QED
        BY <1>2, <2>1, <2>3, <3>2, <3>5, <3>6 DEF StickyStarts, swapVars
    <2>4. QED
      BY <2>2, <2>3
  <1>3. CASE StickyDispatches(l)
    <2>1. y.st = "dispatching"
      BY <1>3 DEF StickyDispatches
    <2>2. CASE Leave(l) /\ UNCHANGED <<swap, made>>
      BY <2>1, <2>2 DEF Leave
    <2>3. CASE /\ Start(y.out, y.tries > 0)
               /\ loop' = [loop EXCEPT ![l] =
                    [st |-> "waiting", out |-> y.out, tries |-> y.tries + 1,
                     id |-> made + 1, seen |-> "started"]]
               /\ UNCHANGED activeStickyLoops
      <3>1. y.out \in Suggestion /\ y.tries \in 0..(RetryCount - 1)
        BY <1>1, <2>1, LoopFields
      <3>2. (y.tries > 0) \in BOOLEAN
        BY SMT
      <3>3. made' \in Swaps /\ made' = made + 1
        BY <2>3, <3>1, <3>2, StartType
      <3>4. y.tries + 1 \in 1..RetryCount
        BY <3>1, BoundsAssumption, SMT
      <3>5. Waiting(y, made') \in LoopType
        BY <3>1, <3>3, <3>4 DEF Waiting, LoopType
      <3>6. loop' = [loop EXCEPT ![l] = Waiting(y, made')]
        BY <2>3, <3>3 DEF Waiting
      <3>7. QED
        BY <2>1, <2>3, <3>5, <3>6
    <2>4. QED
      BY <1>3, <2>2, <2>3 DEF StickyDispatches
  <1>4. CASE StickySeesUpdate(l)
    <2>1. y.st = "waiting"
      BY <1>4 DEF StickySeesUpdate
    <2>2. CASE ~(y.seen = "failedPayment" /\ y.tries < RetryCount)
      BY <1>4, <2>1, <2>2 DEF StickySeesUpdate, Leave, swapVars
    <2>3. CASE y.seen = "failedPayment" /\ y.tries < RetryCount
      <3>1. y.out \in Suggestion /\ y.tries \in 1..RetryCount
        BY <1>1, <2>1, LoopFields
      <3>2. y.tries \in 0..(RetryCount - 1)
        BY <2>3, <3>1, BoundsAssumption, SMT
      <3>3. Dispatching(y) \in LoopType
        BY <3>1, <3>2 DEF Dispatching, LoopType
      <3>4. QED
        BY <1>4, <2>1, <2>3, <3>3 DEF StickySeesUpdate, Dispatching, swapVars
    <2>4. QED
      BY <2>2, <2>3
  <1>5. CASE StickyTimesOut(l)
    BY <1>5 DEF StickyTimesOut, Leave, swapVars
  <1>6. QED
    BY <1>2, <1>3, <1>4, <1>5

\* Where Run is.
Flow ==
    /\ step # "enter" => stage # "none"
    /\ step # "dispatch" => outSwaps = <<>> /\ inSwaps = <<>>
    /\ \A i \in Swaps : i > made => swap[i] = NoSwap
    /\ \A k \in 1..Len(outSwaps) : outSwaps[k].kind = "out"
    /\ \A k \in 1..Len(inSwaps) : inSwaps[k].kind = "in"
    /\ \A l \in Loops : loop[l] # NoLoop => loop[l].out.kind = "out"
    /\ spent.rules <= spent.planned /\ spent.planned <= spent.all

Paid(x) == [st |-> "paid", kind |-> x.kind, chan |-> x.chan, fee |-> x.fee,
            labelled |-> x.labelled, easy |-> x.easy, raced |-> x.raced, retry |-> x.retry]

\* Swap i is done, and the sticky loop-out that waits for it finds it in state st.
Ended(i, st) ==
    /\ \E cost \in Nat : Spend(i, cost)
    /\ failed \subseteq failed' /\ failed' \subseteq {"out", "in"} \X Channels
    /\ st = "failedPayment" => <<"out", swap[i].chan>> \in failed'

\* The steps of a pending swap, in one form.
LEMMA SwapSteps ==
    ASSUME TypeOK, Flow, NEW i \in Swaps, Progress(i) \/ Finishes(i) \/ PaymentFails(i)
    PROVE  /\ i \in Pending
           /\ \E x \in SwapType \cup {NoSwap}, st \in {"failedPayment", "other"} :
                /\ swap' = [swap EXCEPT ![i] = x] /\ Seen(i, st)
                /\ \/ x = Paid(swap[i]) /\ st = "other" /\ UNCHANGED <<spent, failed>>
                   \/ x = NoSwap /\ Ended(i, st)
           /\ UNCHANGED <<made, activeStickyLoops, runVars>>
  <1> DEFINE y == swap[i]
  <1>1. i \in Pending
    BY DEF Progress, Finishes, PaymentFails
  <1>2. y # NoSwap /\ y \in SwapType \cup {NoSwap}
    BY <1>1 DEF Pending, TypeOK
  <1>3. y \in SwapType /\ y.chan \in Channels /\ y.fee \in Fees /\ y.fee \in Nat
    BY <1>2, SwapFields, FeesAssumption
  <1>4. failed \subseteq {"out", "in"} \X Channels
    BY DEF TypeOK
  <1>5. UNCHANGED <<made, activeStickyLoops, runVars>>
    BY DEF Progress, Finishes, PaymentFails
  <1>6. CASE Progress(i)
    <2>1. swap' = [swap EXCEPT ![i].st = "paid"]
      BY <1>6 DEF Progress
    <2> HIDE DEF y
    <2>2. [y EXCEPT !.st = "paid"] = Paid(y)
      BY <1>3, SMT DEF SwapType, Paid
    <2>3. Paid(y) \in SwapType
      BY <1>3 DEF SwapType, Paid
    <2>4. swap' = [swap EXCEPT ![i] = Paid(y)]
      BY <2>1, <2>2 DEF y
    <2>5. QED
      BY <1>1, <1>5, <1>6, <2>3, <2>4 DEF Progress, y
  <1>7. CASE Finishes(i)
    <2>1. swap' = [swap EXCEPT ![i] = NoSwap] /\ Seen(i, "other")
      BY <1>7 DEF Finishes
    <2>2. 0 \in Nat
      BY SMT
    <2>8. \E cost \in {0, y.fee} : Spend(i, cost)
      BY <1>7 DEF Finishes
    <2>3. failed' \in {failed, failed \cup {<<"in", y.chan>>}}
      BY <1>7 DEF Finishes
    <2>4. failed \subseteq failed' /\ failed' \subseteq {"out", "in"} \X Channels
      BY <1>3, <1>4, <2>3, SMT
    <2>5. \E cost \in Nat : Spend(i, cost)
      BY <1>3, <2>2, <2>8
    <2>6. Ended(i, "other")
      BY <2>4, <2>5 DEF Ended
    <2>7. QED
      BY <1>1, <1>5, <2>1, <2>6
  <1>8. CASE PaymentFails(i)
    <2>1. swap' = [swap EXCEPT ![i] = NoSwap] /\ Seen(i, "failedPayment")
      BY <1>8 DEF PaymentFails
    <2>8. 0 \in Nat
      BY SMT
    <2>2. MaxPrepay \in Nat /\ \E cost \in {0, MaxPrepay} : Spend(i, cost)
      BY <1>8, FeesAssumption DEF PaymentFails
    <2>3. failed' = failed \cup {<<"out", y.chan>>}
      BY <1>8 DEF PaymentFails
    <2>4. failed \subseteq failed' /\ failed' \subseteq {"out", "in"} \X Channels
          /\ <<"out", y.chan>> \in failed'
      BY <1>3, <1>4, <2>3, SMT
    <2>5. \E cost \in Nat : Spend(i, cost)
      BY <2>2, <2>8
    <2>6. Ended(i, "failedPayment")
      BY <2>4, <2>5 DEF Ended
    <2>7. QED
      BY <1>1, <1>5, <2>1, <2>6
  <1>9. QED
    BY <1>6, <1>7, <1>8

\* The steps by what they touch.
Quiet == UNCHANGED <<runVars, loopVars, swapVars>>
Leaving == LeaveStage /\ UNCHANGED <<loopVars, swapVars>>
Planning ==
    /\ SuggestSwaps \/ EasySuggestion
    /\ step = "plan" /\ step' = "dispatch" /\ UNCHANGED <<stage, todo, loopVars, swapVars>>
Sticky(l) ==
    \/ StickyStarts(l) \/ StickyDispatches(l) \/ StickySeesUpdate(l) \/ StickyTimesOut(l)
SwapStep(i) == Progress(i) \/ Finishes(i) \/ PaymentFails(i)

\* Every step is one of these.
LEMMA StepCases ==
    ASSUME [Next]_vars
    PROVE  \/ Quiet \/ Tick \/ Leaving \/ RefreshAutoloopBudget \/ Planning
           \/ DispatchOut \/ DispatchIn
           \/ \E l \in Loops : Sticky(l)
           \/ \E i \in Swaps : SwapStep(i)
           \/ \E f \in failed : BackoffElapses(f)
           \/ Restart
  <1>1. CASE UNCHANGED vars
    BY <1>1 DEF vars, Quiet, runVars, loopVars, swapVars
  <1>2. CASE PeriodElapses \/ \E p \in Requests : SetParameters(p)
    BY <1>2 DEF PeriodElapses, SetParameters, Quiet
  <1>3. CASE Skip \/ NoSuggestion \/ DispatchEnds
    BY <1>3 DEF Skip, NoSuggestion, DispatchEnds, Leaving
  <1>4. CASE SuggestSwaps \/ EasySuggestion
    BY <1>4 DEF SuggestSwaps, EasySuggestion, Planning
  <1>5. QED
    BY <1>1, <1>2, <1>3, <1>4 DEF Next, Sticky, SwapStep

\* What the steps leave alone.
LEMMA StepFrame ==
    /\ Tick => UNCHANGED <<step, outSwaps, inSwaps, loopVars, swapVars>>
    /\ RefreshAutoloopBudget =>
            UNCHANGED <<stage, todo, outSwaps, inSwaps, loopVars, swap, made, failed>>
    /\ DispatchOut =>
            UNCHANGED <<stage, step, todo, inSwaps, activeStickyLoops, swapVars>>
    /\ DispatchIn => UNCHANGED <<stage, step, todo, outSwaps, loopVars, spent, failed>>
    /\ \A l \in Loops : Sticky(l) => UNCHANGED <<runVars, spent, failed>>
    /\ \A i \in Swaps : SwapStep(i) => UNCHANGED <<runVars, activeStickyLoops, made>>
    /\ \A f \in failed : BackoffElapses(f) =>
            UNCHANGED <<runVars, loopVars, swap, made, spent>>
    /\ Restart => UNCHANGED swapVars
  <1>1. \A l \in Loops : Sticky(l) => UNCHANGED <<runVars, spent, failed>>
    BY DEF Sticky, StickyStarts, StickyDispatches, StickySeesUpdate, StickyTimesOut,
        swapVars
  <1>2. \A i \in Swaps : SwapStep(i) => UNCHANGED <<runVars, activeStickyLoops, made>>
    BY DEF SwapStep, Progress, Finishes, PaymentFails
  <1>3. QED
    BY <1>1, <1>2 DEF Tick, RefreshAutoloopBudget, DispatchOut, DispatchIn,
        BackoffElapses, Restart

\* A new loop is one that is not in use.
LEMMA NewLoopFree ==
    ASSUME FreeLoops # {}
    PROVE  NewLoop \in Loops /\ loop[NewLoop] = NoLoop
  BY DEF NewLoop, FreeLoops

\* The head and the tail of the suggestions.
LEMMA HeadAndTail ==
    ASSUME NEW q \in Seq(Suggestion), q # <<>>
    PROVE  /\ Head(q) \in Suggestion /\ Tail(q) \in Seq(Suggestion)
           /\ Len(q) \in Nat \ {0} /\ Len(Tail(q)) = Len(q) - 1
           /\ Head(q) = q[1] /\ \A k \in 1..Len(Tail(q)) : Tail(q)[k] = q[k + 1]
           /\ 1 \in 1..Len(q) /\ \A k \in 1..Len(Tail(q)) : k + 1 \in 1..Len(q) /\ k + 1 # 1
  <1>1. Len(q) \in Nat \ {0} /\ Len(Tail(q)) = Len(q) - 1 /\ Tail(q) \in Seq(Suggestion)
        /\ Head(q) = q[1] /\ \A k \in 1..Len(Tail(q)) : Tail(q)[k] = q[k + 1]
    BY SMT
  <1>2. 1 \in 1..Len(q) /\ \A k \in 1..Len(Tail(q)) : k + 1 \in 1..Len(q) /\ k + 1 # 1
    BY <1>1, SMT
  <1>3. q[1] \in Suggestion
    BY <1>2, SMT
  <1>4. QED
    BY <1>1, <1>2, <1>3

\* A loop-out that is dispatched has a sticky loop-out of its own.
LEMMA DispatchOutLoop ==
    ASSUME TypeOK, DispatchOut, MayDispatch(Head(outSwaps))
    PROVE  LET x == [st |-> "spawned", out |-> Head(outSwaps), tries |-> 0]
           IN  /\ NewLoop \in Loops /\ loop[NewLoop] = NoLoop
               /\ x \in LoopType /\ loop' = [loop EXCEPT ![NewLoop] = x]
  <1>1. outSwaps # <<>> /\ outSwaps \in Seq(Suggestion) /\ FreeLoops # {}
        /\ loop' = [loop EXCEPT ![NewLoop] =
                        [st |-> "spawned", out |-> Head(outSwaps), tries |-> 0]]
    BY DEF DispatchOut, TypeOK
  <1>2. Head(outSwaps) \in Suggestion
    BY <1>1, HeadAndTail
  <1>3. 0 \in 0..(RetryCount - 1)
    BY BoundsAssumption, SMT
  <1>4. [st |-> "spawned", out |-> Head(outSwaps), tries |-> 0] \in LoopType
    BY <1>2, <1>3 DEF LoopType
  <1>5. QED
    BY <1>1, <1>4, NewLoopFree

\* What a pending swap may cost the planned swaps and those of the rules.
PlannedFee(i) == IF i \in Planned THEN swap[i].fee ELSE 0
RulesFee(i) == IF i \in ByRules THEN swap[i].fee ELSE 0

\* A swap that is done costs at least nothing, and the planned swaps at most its fee.
LEMMA SpendEffect ==
    ASSUME Laws, TypeOK, Flow, NEW i \in Pending, NEW cost \in Nat, Spend(i, cost)
    PROVE  /\ spent' \in [all : Nat, planned : Nat, rules : Nat]
           /\ spent'.rules <= spent'.planned /\ spent'.planned <= spent'.all
           /\ spent'.planned <= spent.planned + PlannedFee(i)
           /\ spent'.rules <= spent.rules + RulesFee(i)
  <1> DEFINE covered == IF cost > swap[i].fee THEN swap[i].fee ELSE cost
             a == IF i \in Automatic THEN cost ELSE 0
             p == IF i \in Planned THEN covered ELSE 0
             r == IF i \in ByRules THEN covered ELSE 0
  <1>1. swap[i].fee \in Nat
    <2>1. swap[i] # NoSwap /\ swap[i] \in SwapType \cup {NoSwap}
      BY DEF Pending, TypeOK
    <2>2. QED
      BY <2>1, SwapFields, FeesAssumption
  <1>2. Planned \subseteq Automatic /\ ByRules \subseteq Planned
    BY SummaryType
  <1>3. covered \in Nat /\ covered <= cost /\ covered <= swap[i].fee
    BY <1>1, SMT
  <1> HIDE DEF covered
  <1>4. /\ a \in Nat /\ p \in Nat /\ r \in Nat /\ r <= p /\ p <= a
        /\ p <= PlannedFee(i) /\ r <= RulesFee(i)
        /\ PlannedFee(i) \in Nat /\ RulesFee(i) \in Nat
    BY <1>1, <1>2, <1>3, SMT DEF PlannedFee, RulesFee
  <1>5. spent' = [all |-> spent.all + a, planned |-> spent.planned + p, rules |-> spent.rules + r]
    BY DEF Spend, covered
  <1> HIDE DEF a, p, r
  <1>6. spent'.all = spent.all + a /\ spent'.planned = spent.planned + p
        /\ spent'.rules = spent.rules + r
    BY <1>5, SMT
  <1>7. PICK x \in Nat, y \in Nat, z \in Nat :
            x = spent.all /\ y = spent.planned /\ z = spent.rules
    BY DEF TypeOK
  <1>8. z <= y /\ y <= x
    BY <1>7 DEF Flow
  <1>9. /\ x + a \in Nat /\ y + p \in Nat /\ z + r \in Nat
        /\ z + r <= y + p /\ y + p <= x + a
        /\ y + p <= y + PlannedFee(i) /\ z + r <= z + RulesFee(i)
    BY <1>4, <1>8, SMT
  <1>10. spent' \in [all : Nat, planned : Nat, rules : Nat]
    BY <1>5, <1>7, <1>9, SMT
  <1>11. QED
    BY <1>6, <1>7, <1>9, <1>10

-----------------------------------------------------------------------------
(* Types, Run and the counter of sticky loop-outs *)

\* The counter is right and within the limit.
Counting ==
    /\ activeStickyLoops = Cardinality(Active)
    /\ activeStickyLoops <= MaxAutoInFlight

\* The types of Run, of the sticky loop-outs and of the swaps.
RunTypes ==
    /\ params \in Parameters /\ db \in Parameters
    /\ stage \in {"none", "rules", "easy"} \cup Assets
    /\ step \in {"enter", "plan", "dispatch"}
    /\ todo \subseteq Assets
    /\ outSwaps \in Seq(Suggestion) /\ inSwaps \in Seq(Suggestion)
    /\ events \in 0..MaxEvents
LoopTypes == loop \in [Loops -> LoopType \cup {NoLoop}]
SwapTypes ==
    /\ swap \in [Swaps -> SwapType \cup {NoSwap}]
    /\ spent \in [all : Nat, planned : Nat, rules : Nat]
    /\ made \in 0..MaxSwaps
    /\ failed \subseteq {"out", "in"} \X Channels

\* Leaving a stage keeps the types of Run.
LEMMA LeaveStageType ==
    ASSUME TypeOK, LeaveStage, UNCHANGED <<params, db, events>>
    PROVE  RunTypes'
  <1>1. <<>> \in Seq(Suggestion)
    BY SMT
  <1>2. QED
    BY <1>1 DEF TypeOK, RunTypes, LeaveStage, NextStage

\* Every step keeps the types of Run.
LEMMA RunTypesStep ==
    ASSUME Laws, TypeOK, Flow, [Next]_vars
    PROVE  RunTypes'
  <1> USE DEF TypeOK, RunTypes
  <1>1. CASE UNCHANGED vars
    BY <1>1 DEF vars, runVars
  <1>2. ASSUME Event PROVE events' \in 0..MaxEvents
    BY <1>2, BoundsAssumption, SMT DEF Event
  <1>3. CASE PeriodElapses
    BY <1>2, <1>3 DEF PeriodElapses, Parameters, runVars
  <1>4. ASSUME NEW p \in Requests, SetParameters(p) PROVE RunTypes'
    <2>1. p \in Parameters
      BY RequestsAssumption
    <2>2. \A due \in BOOLEAN : [p EXCEPT !.due = due] \in Parameters
      BY <2>1 DEF Parameters
    <2>3. params.due \in BOOLEAN
      BY DEF Parameters
    <2>4. params' \in Parameters /\ db' \in Parameters
      BY <1>4, <2>2, <2>3 DEF SetParameters
    <2>5. QED
      BY <1>2, <1>4, <2>4 DEF SetParameters, runVars
  <1>5. CASE Tick
    BY <1>5 DEF Tick
  <1>6. CASE Skip
    BY <1>6, LeaveStageType DEF Skip
  <1>7. CASE RefreshAutoloopBudget
    <2>1. [params EXCEPT !.due = FALSE] \in Parameters
      BY DEF Parameters
    <2>2. params' \in Parameters /\ db' \in Parameters
      BY <1>7, <2>1 DEF RefreshAutoloopBudget
    <2>3. QED
      BY <1>7, <2>2 DEF RefreshAutoloopBudget
  <1>8. CASE SuggestSwaps
    BY <1>8, RulesPlan DEF SuggestSwaps, PlanMade
  <1>9. CASE EasySuggestion
    BY <1>9, EasyPlan DEF EasySuggestion, PlanMade, Flow
  <1>10. CASE NoSuggestion
    BY <1>10, LeaveStageType DEF NoSuggestion
  <1>11. CASE DispatchOut
    BY <1>11, HeadAndTail DEF DispatchOut
  <1>12. CASE DispatchIn
    BY <1>12, HeadAndTail DEF DispatchIn
  <1>13. CASE DispatchEnds
    BY <1>13, LeaveStageType DEF DispatchEnds
  <1>14. ASSUME NEW l \in Loops, \/ StickyStarts(l) \/ StickyDispatches(l)
                                 \/ StickySeesUpdate(l) \/ StickyTimesOut(l)
         PROVE  RunTypes'
    BY <1>14 DEF StickyStarts, StickyDispatches, StickySeesUpdate, StickyTimesOut, runVars
  <1>15. ASSUME NEW i \in Swaps, Progress(i) \/ Finishes(i) \/ PaymentFails(i)
         PROVE  RunTypes'
    BY <1>15 DEF Progress, Finishes, PaymentFails, runVars
  <1>16. ASSUME NEW f \in failed, BackoffElapses(f) PROVE RunTypes'
    BY <1>16 DEF BackoffElapses, runVars
  <1>17. CASE Restart
    <2>1. <<>> \in Seq(Suggestion)
      BY SMT
    <2>2. QED
      BY <1>2, <1>17, <2>1 DEF Restart
  <1> HIDE DEF TypeOK, RunTypes
  <1>18. QED
    BY <1>1, <1>3, <1>4, <1>5, <1>6, <1>7, <1>8, <1>9, <1>10, <1>11, <1>12, <1>13,
       <1>14, <1>15, <1>16, <1>17 DEF Next

\* The sticky loop-out that waits for a swap keeps its type when it sees an update.
LEMMA SeenType ==
    ASSUME TypeOK, NEW i \in Swaps, NEW st \in {"failedPayment", "other"}, Seen(i, st)
    PROVE  /\ loop' \in [Loops -> LoopType \cup {NoLoop}]
           /\ \A l \in Loops :
                loop'[l] = IF loop[l].st = "waiting" /\ loop[l].id = i
                           THEN [st |-> "waiting", out |-> loop[l].out, tries |-> loop[l].tries,
                                 id |-> 0, seen |-> st]
                           ELSE loop[l]
           /\ \A l \in Loops :
                /\ loop'[l].st = loop[l].st
                /\ loop[l].st # "waiting" => loop'[l] = loop[l]
                /\ loop[l].st = "waiting" => loop'[l].out = loop[l].out
  <1>1. loop \in [Loops -> LoopType \cup {NoLoop}]
    BY DEF TypeOK
  <1>2. \A l \in Loops :
                loop'[l] = IF loop[l].st = "waiting" /\ loop[l].id = i
                           THEN [st |-> "waiting", out |-> loop[l].out, tries |-> loop[l].tries,
                                 id |-> 0, seen |-> st]
                           ELSE loop[l]
    BY DEF Seen
  <1>3. ASSUME NEW x \in LoopType \cup {NoLoop}, x.st = "waiting"
        PROVE  [st |-> "waiting", out |-> x.out, tries |-> x.tries, id |-> 0, seen |-> st]
                    \in LoopType
    BY <1>3, LoopFields DEF LoopType
  <1>4. \A l \in Loops : loop'[l] \in LoopType \cup {NoLoop}
    BY <1>1, <1>2, <1>3
  <1>5. loop' = [l \in Loops |-> loop'[l]]
    BY DEF Seen
  <1>6. ASSUME NEW l \in Loops
        PROVE  /\ loop'[l].st = loop[l].st
               /\ loop[l].st # "waiting" => loop'[l] = loop[l]
               /\ loop[l].st = "waiting" => loop'[l].out = loop[l].out
    <2>1. CASE loop[l].st = "waiting" /\ loop[l].id = i
      <3>1. loop'[l] = [st |-> "waiting", out |-> loop[l].out, tries |-> loop[l].tries,
                        id |-> 0, seen |-> st]
        BY <1>2, <2>1
      <3>2. QED
        BY <2>1, <3>1, SMT
    <2>2. CASE ~(loop[l].st = "waiting" /\ loop[l].id = i)
      BY <1>2, <2>2
    <2>3. QED
      BY <2>1, <2>2
  <1>7. QED
    BY <1>2, <1>4, <1>5, <1>6

\* Every step keeps the types of the sticky loop-outs.
LEMMA LoopTypesStep ==
    ASSUME TypeOK, Flow, [Next]_vars
    PROVE  LoopTypes'
  <1>1. loop \in [Loops -> LoopType \cup {NoLoop}]
    BY DEF TypeOK
  <1>2. CASE loop' = loop
    BY <1>1, <1>2 DEF LoopTypes
  <1>3. CASE DispatchOut
    <2>1. CASE MayDispatch(Head(outSwaps))
      BY <1>1, <1>3, <2>1, DispatchOutLoop DEF LoopTypes
    <2>2. CASE ~MayDispatch(Head(outSwaps))
      BY <1>2, <1>3, <2>2 DEF DispatchOut
    <2>3. QED
      BY <2>1, <2>2
  <1>4. ASSUME NEW l \in Loops, Sticky(l) PROVE LoopTypes'
    <2>1. PICK x \in LoopType \cup {NoLoop} : loop' = [loop EXCEPT ![l] = x]
      BY <1>4, StickySteps DEF Sticky
    <2>2. QED
      BY <1>1, <2>1 DEF LoopTypes
  <1>5. ASSUME NEW i \in Swaps, SwapStep(i) PROVE LoopTypes'
    <2>1. PICK st \in {"failedPayment", "other"} : Seen(i, st)
      BY <1>5, SwapSteps DEF SwapStep
    <2>2. QED
      BY <2>1, SeenType DEF LoopTypes
  <1>6. CASE Restart
    BY <1>6 DEF LoopTypes, Restart
  <1>7. QED
    BY <1>2, <1>3, <1>4, <1>5, <1>6, StepCases, StepFrame DEF Quiet, Leaving, Planning,
        loopVars

\* The types of the variables of Run, of the sticky loop-outs and of the swaps.
LEMMA TypesSplit ==
    TypeOK <=> RunTypes /\ LoopTypes /\ SwapTypes /\ activeStickyLoops \in Nat
  BY DEF TypeOK, RunTypes, LoopTypes, SwapTypes

\* Every step keeps the types of the swaps.
LEMMA SwapTypesStep ==
    ASSUME Laws, TypeOK, Flow, [Next]_vars
    PROVE  SwapTypes'
  <1> USE DEF SwapTypes
  <1>1. SwapTypes
    BY TypesSplit
  <1>2. CASE UNCHANGED swapVars
    BY <1>1, <1>2 DEF swapVars
  <1>3. CASE RefreshAutoloopBudget
    <2>1. [all |-> 0, planned |-> 0, rules |-> 0] \in [all : Nat, planned : Nat, rules : Nat]
      BY SMT
    <2>2. spent' \in {spent, [all |-> 0, planned |-> 0, rules |-> 0]}
      BY <1>3 DEF RefreshAutoloopBudget
    <2>3. QED
      BY <1>1, <1>3, <2>1, <2>2, StepFrame
  <1>4. ASSUME NEW s \in Suggestion, NEW retry \in BOOLEAN, Start(s, retry),
               UNCHANGED <<spent, failed>>
        PROVE  SwapTypes'
    BY <1>1, <1>4, StartType
  <1>5. CASE DispatchIn
    <2>1. Head(inSwaps) \in Suggestion
      BY <1>5, HeadAndTail DEF DispatchIn, TypeOK
    <2>2. QED
      BY <1>1, <1>4, <1>5, <2>1, StepFrame DEF DispatchIn
  <1>6. ASSUME NEW l \in Loops, Sticky(l) PROVE SwapTypes'
    <2>1. UNCHANGED <<spent, failed>>
      BY <1>6, StepFrame
    <2>2. \/ UNCHANGED <<swap, made>>
          \/ loop[l].st = "dispatching" /\ Start(loop[l].out, loop[l].tries > 0)
      BY <1>6, StickySteps DEF Sticky
    <2>3. loop[l].st = "dispatching" => loop[l].out \in Suggestion
      BY LoopFields DEF TypeOK
    <2>4. (loop[l].tries > 0) \in BOOLEAN
      BY SMT
    <2>5. QED
      BY <1>1, <1>4, <2>1, <2>2, <2>3, <2>4
  <1>7. ASSUME NEW i \in Swaps, SwapStep(i) PROVE SwapTypes'
    <2>1. i \in Pending /\ made' = made
      BY <1>7, SwapSteps DEF SwapStep
    <2>2. PICK x \in SwapType \cup {NoSwap}, st \in {"failedPayment", "other"} :
              /\ swap' = [swap EXCEPT ![i] = x]
              /\ UNCHANGED <<spent, failed>> \/ Ended(i, st)
      BY <1>7, SwapSteps DEF SwapStep
    <2>3. CASE UNCHANGED <<spent, failed>>
      BY <1>1, <2>1, <2>2, <2>3
    <2>4. CASE Ended(i, st)
      BY <1>1, <2>1, <2>2, <2>4, SpendEffect DEF Ended
    <2>5. QED
      BY <2>2, <2>3, <2>4
  <1>8. ASSUME NEW f \in failed, BackoffElapses(f) PROVE SwapTypes'
    BY <1>1, <1>8, StepFrame DEF BackoffElapses
  <1>9. QED
    BY <1>2, <1>3, <1>5, <1>6, <1>7, <1>8, StepCases, StepFrame DEF Quiet, Leaving, Planning

\* The goroutines are finitely many.
LEMMA LoopsFinite ==
    ASSUME Laws, NEW S \in SUBSET Loops
    PROVE  IsFiniteSet(S) /\ Cardinality(S) \in Nat
  <1>1. IsFiniteSet(Loops)
    BY BoundsAssumption, FiniteInterval, SMT DEF Loops
  <1>2. QED
    BY <1>1, FiniteSubset, CountType

\* When one sticky loop-out changes, so does the set of those under way.
LEMMA ActiveChange ==
    ASSUME TypeOK, NEW l \in Loops, NEW x, loop' = [loop EXCEPT ![l] = x]
    PROVE  Active' = IF x.st \in {"dispatching", "waiting"} THEN Active \cup {l}
                     ELSE Active \ {l}
  BY DEF TypeOK, Active

\* activeStickyLoops is the number of sticky loop-outs under way after every step.
LEMMA CountingStep ==
    ASSUME Laws, TypeOK, Flow, Counting, [Next]_vars
    PROVE  Counting'
  <1>1. activeStickyLoops = Cardinality(Active) /\ activeStickyLoops <= MaxAutoInFlight
        /\ IsFiniteSet(Active) /\ activeStickyLoops \in Nat /\ MaxAutoInFlight \in Nat
    BY LoopsFinite, FeesAssumption DEF Counting, Active
  <1>2. loop \in [Loops -> LoopType \cup {NoLoop}] /\ NoLoop.st = "none"
    BY DEF TypeOK, NoLoop
  <1>3. CASE UNCHANGED loopVars
    BY <1>1, <1>3 DEF Counting, Active, loopVars
  <1>4. CASE DispatchOut
    <2>1. CASE MayDispatch(Head(outSwaps))
      <3> DEFINE x == [st |-> "spawned", out |-> Head(outSwaps), tries |-> 0]
      <3>1. NewLoop \in Loops /\ loop[NewLoop] = NoLoop /\ loop' = [loop EXCEPT ![NewLoop] = x]
        BY <1>4, <2>1, DispatchOutLoop
      <3>2. x.st = "spawned"
        BY SMT
      <3> HIDE DEF x
      <3>3. Active' = Active \ {NewLoop}
        BY <3>1, <3>2, ActiveChange
      <3>4. NewLoop \notin Active
        BY <1>2, <3>1 DEF Active
      <3>5. Active' = Active
        BY <3>3, <3>4
      <3>6. QED
        BY <1>1, <1>4, <3>5, StepFrame DEF Counting
    <2>2. CASE ~MayDispatch(Head(outSwaps))
      BY <1>3, <1>4, <2>2 DEF DispatchOut, loopVars
    <2>3. QED
      BY <2>1, <2>2
  <1>5. ASSUME NEW l \in Loops, Sticky(l) PROVE Counting'
    <2>1. PICK x \in LoopType \cup {NoLoop} :
             /\ loop' = [loop EXCEPT ![l] = x]
             /\ \/ /\ x = NoLoop /\ loop[l].st # "none"
                   /\ activeStickyLoops' = IF loop[l].st = "spawned" THEN activeStickyLoops
                                           ELSE activeStickyLoops - 1
                \/ /\ loop[l].st = "spawned" /\ x = Dispatching(loop[l])
                   /\ activeStickyLoops < MaxAutoInFlight
                   /\ activeStickyLoops' = activeStickyLoops + 1
                \/ /\ loop[l].st \in {"dispatching", "waiting"}
                   /\ x \in {Dispatching(loop[l]), Waiting(loop[l], made')}
                   /\ UNCHANGED activeStickyLoops
      BY <1>5, StickySteps DEF Sticky
    <2>2. Dispatching(loop[l]).st = "dispatching" /\ Waiting(loop[l], made').st = "waiting"
      BY SMT DEF Dispatching, Waiting
    <2>3. loop[l].st \in {"none", "spawned", "dispatching", "waiting"}
      BY <1>2, LoopFields
    <2>4. CASE x = NoLoop
      <3>1. Active' = Active \ {l} /\ loop[l].st # "none"
            /\ activeStickyLoops' = IF loop[l].st = "spawned" THEN activeStickyLoops
                                           ELSE activeStickyLoops - 1
        BY <1>2, <2>1, <2>2, <2>4, ActiveChange
      <3>2. l \in Active <=> loop[l].st # "spawned"
        BY <2>3, <3>1 DEF Active
      <3>3. Cardinality(Active \ {l}) = IF l \in Active THEN Cardinality(Active) - 1
                                        ELSE Cardinality(Active)
        BY <1>1, RemoveOne
      <3>4. activeStickyLoops' = Cardinality(Active')
        BY <1>1, <3>1, <3>2, <3>3
      <3>5. activeStickyLoops' <= MaxAutoInFlight
        BY <1>1, <3>1, SMT
      <3>6. QED
        BY <3>4, <3>5 DEF Counting
    <2>5. CASE loop[l].st = "spawned" /\ x = Dispatching(loop[l])
      <3>1. x # NoLoop
        BY <1>2, <2>2, <2>5
      <3>2. Active' = Active \cup {l} /\ l \notin Active
            /\ activeStickyLoops < MaxAutoInFlight /\ activeStickyLoops' = activeStickyLoops + 1
        BY <2>1, <2>2, <2>5, <3>1, ActiveChange DEF Active
      <3>3. Cardinality(Active \cup {l}) = Cardinality(Active) + 1
        BY <1>1, <3>2, AddOne
      <3>4. activeStickyLoops' = Cardinality(Active')
        BY <1>1, <3>2, <3>3
      <3>5. activeStickyLoops' <= MaxAutoInFlight
        BY <1>1, <3>2, SMT
      <3>6. QED
        BY <3>4, <3>5 DEF Counting
    <2>6. CASE x \in {Dispatching(loop[l]), Waiting(loop[l], made')} /\ loop[l].st \in {"dispatching", "waiting"}
      <3>1. x # NoLoop
        BY <1>2, <2>2, <2>6
      <3>2. activeStickyLoops' = activeStickyLoops /\ x.st \in {"dispatching", "waiting"}
        BY <2>1, <2>2, <2>6, <3>1
      <3>3. Active' = Active \cup {l} /\ l \in Active
        BY <2>1, <2>6, <3>2, ActiveChange DEF Active
      <3>4. Active' = Active
        BY <3>3
      <3>5. QED
        BY <1>1, <3>2, <3>4 DEF Counting
    <2>7. QED
      BY <2>1, <2>4, <2>5, <2>6
  <1>6. ASSUME NEW i \in Swaps, SwapStep(i) PROVE Counting'
    <2>1. PICK st \in {"failedPayment", "other"} : Seen(i, st)
      BY <1>6, SwapSteps DEF SwapStep
    <2>2. Active' = Active
      BY <2>1, SeenType DEF Active
    <2>3. QED
      BY <1>1, <1>6, <2>2, StepFrame DEF Counting
  <1>7. CASE Restart
    <2>1. Active' = {}
      BY <1>2, <1>7 DEF Restart, Active
    <2>2. Cardinality({}) = 0
      BY EmptyCount
    <2>3. 0 <= MaxAutoInFlight
      BY <1>1, SMT
    <2>4. QED
      BY <1>7, <2>1, <2>2, <2>3 DEF Counting, Restart
  <1>8. QED
    BY <1>3, <1>4, <1>5, <1>6, <1>7, StepCases, StepFrame
        DEF Quiet, Leaving, Planning

\* Every step keeps the types.
LEMMA AutoloopTypeStep ==
    ASSUME Laws, TypeOK, Flow, Counting, [Next]_vars
    PROVE  TypeOK'
  <1>1. Counting'
    BY CountingStep
  <1>2. (activeStickyLoops \in Nat)'
    <2>1. (Cardinality(Active) \in Nat)'
      <3>1. Active' \in SUBSET Loops
        BY DEF Active
      <3>2. QED
        BY <3>1, LoopsFinite
    <2>2. QED
      BY <1>1, <2>1 DEF Counting
  <1>3. RunTypes' /\ LoopTypes' /\ SwapTypes'
    BY RunTypesStep, LoopTypesStep, SwapTypesStep
  <1>4. QED
    BY <1>2, <1>3 DEF TypeOK, RunTypes, LoopTypes, SwapTypes

\* Every step keeps where Run is, the kinds of the swaps and the order of the costs.
LEMMA FlowStep ==
    ASSUME Laws, TypeOK, Flow, [Next]_vars
    PROVE  Flow'
  <1>1. (step # "enter" => stage # "none")'
    <2>1. step # "enter" => stage # "none"
      BY DEF Flow
    <2>2. CASE Tick
      BY <2>2 DEF Tick
    <2>3. CASE RefreshAutoloopBudget
      BY <2>3 DEF RefreshAutoloopBudget
    <2>4. CASE Restart
      BY <2>4 DEF Restart
    <2>5. CASE Planning
      BY <2>1, <2>5 DEF Planning
    <2>6. QED
      BY <2>1, <2>2, <2>3, <2>4, <2>5, StepCases, StepFrame
          DEF Quiet, Leaving, LeaveStage, runVars
  <1>2. (step # "dispatch" => outSwaps = <<>> /\ inSwaps = <<>>)'
    <2>1. step # "dispatch" => outSwaps = <<>> /\ inSwaps = <<>>
      BY DEF Flow
    <2>2. CASE RefreshAutoloopBudget
      BY <2>1, <2>2 DEF RefreshAutoloopBudget
    <2>3. CASE Restart
      BY <2>3 DEF Restart
    <2>4. CASE DispatchOut \/ DispatchIn
      BY <2>4, StepFrame DEF DispatchOut, DispatchIn
    <2>5. QED
      BY <2>1, <2>2, <2>3, <2>4, StepCases, StepFrame
          DEF Quiet, Leaving, LeaveStage, Planning, runVars
  <1>3. (\A i \in Swaps : i > made => swap[i] = NoSwap)'
    <2>1. \A i \in Swaps : i > made => swap[i] = NoSwap
      BY DEF Flow
    <2>2. ASSUME NEW s \in Suggestion, NEW retry \in BOOLEAN, Start(s, retry)
          PROVE  \A i \in Swaps : i > made' => swap'[i] = NoSwap
      <3> SUFFICES ASSUME NEW i \in Swaps, i > made'
                   PROVE  swap'[i] = NoSwap
        BY SMT
      <3>1. made' = made + 1 /\ made \in Int /\ i \in Int
        <4>1. made' = made + 1
          BY <2>2, StartType
        <4>2. made \in 0..MaxSwaps
          BY DEF TypeOK
        <4>3. QED
          BY <4>1, <4>2, BoundsAssumption, SMT DEF Swaps
      <3>2. i > made /\ i # made'
        BY <3>1, SMT
      <3>3. swap' = [swap EXCEPT ![made'] = swap'[made']]
        BY <2>2, StartType
      <3>4. swap'[i] = swap[i]
        BY <3>2, <3>3 DEF TypeOK
      <3>5. QED
        BY <2>1, <3>2, <3>4
    <2>3. CASE DispatchIn
      <3>1. Head(inSwaps) \in Suggestion
        BY <2>3, HeadAndTail DEF DispatchIn, TypeOK
      <3>2. QED
        BY <2>1, <2>2, <2>3, <3>1 DEF DispatchIn
    <2>4. ASSUME NEW l \in Loops, Sticky(l) PROVE \A i \in Swaps : i > made' => swap'[i] = NoSwap
      <3>1. \/ UNCHANGED <<swap, made>>
            \/ loop[l].st = "dispatching" /\ Start(loop[l].out, loop[l].tries > 0)
        BY <2>4, StickySteps DEF Sticky
      <3>2. loop[l].st = "dispatching" => loop[l].out \in Suggestion
        BY LoopFields DEF TypeOK
      <3>3. (loop[l].tries > 0) \in BOOLEAN
        BY SMT
      <3>4. UNCHANGED <<swap, made>> \/ \E s \in Suggestion, retry \in BOOLEAN : Start(s, retry)
        BY <3>1, <3>2, <3>3
      <3>5. QED
        BY <2>1, <2>2, <3>4
    <2>5. ASSUME NEW j \in Swaps, SwapStep(j) PROVE \A i \in Swaps : i > made' => swap'[i] = NoSwap
      <3>1. j \in Pending /\ made' = made
        BY <2>5, SwapSteps DEF SwapStep
      <3>2. PICK x \in SwapType \cup {NoSwap} : swap' = [swap EXCEPT ![j] = x]
        BY <2>5, SwapSteps DEF SwapStep
      <3>3. QED
        BY <2>1, <3>1, <3>2 DEF Pending, TypeOK
    <2>6. QED
      BY <2>1, <2>3, <2>4, <2>5, StepCases, StepFrame
          DEF Quiet, Leaving, Planning, swapVars
  <1>4. (\A k \in 1..Len(outSwaps) : outSwaps[k].kind = "out")'
        /\ (\A k \in 1..Len(inSwaps) : inSwaps[k].kind = "in")'
    <2>1. (\A k \in 1..Len(outSwaps) : outSwaps[k].kind = "out")
          /\ (\A k \in 1..Len(inSwaps) : inSwaps[k].kind = "in")
      BY DEF Flow
    <2>2. (\A k \in 1..Len(<<>>) : <<>>[k].kind = "out") /\ (\A k \in 1..Len(<<>>) : <<>>[k].kind = "in")
      BY SMT
    <2>3. CASE Planning
      <3>1. PlanMade
        BY <2>3, RulesPlan, EasyPlan DEF Planning, Flow
      <3>2. QED
        BY <3>1 DEF PlanMade
    <2>4. CASE DispatchOut
      <3>1. outSwaps \in Seq(Suggestion) /\ outSwaps # <<>> /\ outSwaps' = Tail(outSwaps)
            /\ inSwaps' = inSwaps
        BY <2>4 DEF DispatchOut, TypeOK
      <3>2. \A k \in 1..Len(Tail(outSwaps)) :
                Tail(outSwaps)[k] = outSwaps[k + 1] /\ k + 1 \in 1..Len(outSwaps)
        BY <3>1, HeadAndTail
      <3>3. QED
        BY <2>1, <3>1, <3>2
    <2>5. CASE DispatchIn
      <3>1. inSwaps \in Seq(Suggestion) /\ inSwaps # <<>> /\ inSwaps' = Tail(inSwaps)
            /\ outSwaps' = outSwaps
        BY <2>5 DEF DispatchIn, TypeOK
      <3>2. \A k \in 1..Len(Tail(inSwaps)) :
                Tail(inSwaps)[k] = inSwaps[k + 1] /\ k + 1 \in 1..Len(inSwaps)
        BY <3>1, HeadAndTail
      <3>3. QED
        BY <2>1, <3>1, <3>2
    <2>6. CASE outSwaps' = <<>> /\ inSwaps' = <<>>
      BY <2>2, <2>6
    <2>7. CASE outSwaps' = outSwaps /\ inSwaps' = inSwaps
      BY <2>1, <2>7
    <2>8. QED
      BY <2>3, <2>4, <2>5, <2>6, <2>7, StepCases, StepFrame
          DEF Quiet, Leaving, LeaveStage, Restart, runVars
  <1>5. (\A l \in Loops : loop[l] # NoLoop => loop[l].out.kind = "out")'
    <2>1. (\A l \in Loops : loop[l] # NoLoop => loop[l].out.kind = "out")
          /\ loop \in [Loops -> LoopType \cup {NoLoop}]
      BY DEF Flow, TypeOK
    <2>2. CASE DispatchOut
      <3>1. CASE MayDispatch(Head(outSwaps))
        <4>1. outSwaps \in Seq(Suggestion) /\ outSwaps # <<>>
          BY <2>2 DEF DispatchOut, TypeOK
        <4>2. Head(outSwaps).kind = "out"
          BY <4>1, HeadAndTail DEF Flow
        <4> DEFINE x == [st |-> "spawned", out |-> Head(outSwaps), tries |-> 0]
        <4>3. loop' = [loop EXCEPT ![NewLoop] = x]
          BY <2>2, <3>1, DispatchOutLoop
        <4>4. x.out.kind = "out"
          BY <4>2
        <4> HIDE DEF x
        <4>5. QED
          BY <2>1, <4>3, <4>4
      <3>2. CASE ~MayDispatch(Head(outSwaps))
        BY <2>1, <2>2, <3>2 DEF DispatchOut
      <3>3. QED
        BY <3>1, <3>2
    <2>3. ASSUME NEW l \in Loops, Sticky(l)
          PROVE  \A m \in Loops : loop'[m] # NoLoop => loop'[m].out.kind = "out"
      <3>1. PICK x \in LoopType \cup {NoLoop} :
                /\ loop' = [loop EXCEPT ![l] = x]
                /\ \/ x = NoLoop
                   \/ /\ loop[l].st \in {"spawned", "dispatching", "waiting"}
                      /\ x \in {Dispatching(loop[l]), Waiting(loop[l], made')}
        BY <2>3, StickySteps DEF Sticky
      <3>2. Dispatching(loop[l]).out = loop[l].out /\ Waiting(loop[l], made').out = loop[l].out
        BY SMT DEF Dispatching, Waiting
      <3>3. x # NoLoop => loop[l].st # "none" /\ x.out = loop[l].out
        BY <3>1, <3>2
      <3>4. loop[l] = NoLoop <=> loop[l].st = "none"
        BY <2>1, LoopFields
      <3>5. QED
        BY <2>1, <3>1, <3>3, <3>4
    <2>4. ASSUME NEW i \in Swaps, SwapStep(i)
          PROVE  \A m \in Loops : loop'[m] # NoLoop => loop'[m].out.kind = "out"
      <3>1. PICK st \in {"failedPayment", "other"} : Seen(i, st)
        BY <2>4, SwapSteps DEF SwapStep
      <3>2. SUFFICES ASSUME NEW m \in Loops, loop'[m] # NoLoop
                     PROVE  loop'[m].out.kind = "out"
        BY SMT
      <3>3. CASE loop[m].st = "waiting"
        <4>1. loop[m] # NoLoop
          BY <3>3, SMT DEF NoLoop
        <4>2. loop'[m].out = loop[m].out
          BY <3>1, SeenType
        <4>3. QED
          BY <2>1, <4>1, <4>2
      <3>4. CASE loop[m].st # "waiting"
        BY <2>1, <3>1, <3>2, <3>4, SeenType
      <3>5. QED
        BY <3>3, <3>4
    <2>5. CASE Restart
      BY <2>5 DEF Restart
    <2>6. QED
      BY <2>1, <2>2, <2>3, <2>4, <2>5, StepCases, StepFrame
          DEF Quiet, Leaving, Planning, loopVars
  <1>6. (spent.rules <= spent.planned /\ spent.planned <= spent.all)'
    <2>1. spent.rules <= spent.planned /\ spent.planned <= spent.all
      BY DEF Flow
    <2>2. CASE RefreshAutoloopBudget
      <3>1. spent' = spent \/ spent' = [all |-> 0, planned |-> 0, rules |-> 0]
        BY <2>2 DEF RefreshAutoloopBudget
      <3>2. QED
        BY <2>1, <3>1, SMT
    <2>3. ASSUME NEW i \in Swaps, SwapStep(i)
          PROVE  spent'.rules <= spent'.planned /\ spent'.planned <= spent'.all
      <3>1. i \in Pending
        BY <2>3, SwapSteps DEF SwapStep
      <3>2. PICK st \in {"failedPayment", "other"} : spent' = spent \/ Ended(i, st)
        BY <2>3, SwapSteps DEF SwapStep
      <3>3. QED
        BY <2>1, <3>1, <3>2, SpendEffect DEF Ended
    <2>4. QED
      BY <2>1, <2>2, <2>3, StepCases, StepFrame
          DEF Quiet, Leaving, Planning, swapVars
  <1>7. QED
    BY <1>1, <1>2, <1>3, <1>4, <1>5, <1>6 DEF Flow

-----------------------------------------------------------------------------
(* The channels *)

\* No stage plans for an asset whose sticky loop-outs of this tick it cannot see yet.
Visited ==
    /\ stage # "none" => ClassOf(stage) \notin todo
    /\ \A l \in Loops : Fresh(l) =>
        /\ AssetOf[loop[l].out.chan] \notin todo
        /\ stage # "none" /\ step # "dispatch" => AssetOf[loop[l].out.chan] # ClassOf(stage)
    /\ \A k \in 1..Len(outSwaps) : AssetOf[outSwaps[k].chan] \notin todo

\* A sticky loop-out that may start a swap after a step of one of them could before.
LEMMA BareSticky ==
    ASSUME TypeOK, NEW l \in Loops, Sticky(l), NEW m \in Loops, Bare(m)'
    PROVE  Bare(m) /\ loop'[m].out = loop[m].out /\ (Fresh(m)' <=> Fresh(m))
  <1>1. loop \in [Loops -> LoopType \cup {NoLoop}]
    BY DEF TypeOK
  <1>2. PICK x \in LoopType \cup {NoLoop} :
             /\ loop' = [loop EXCEPT ![l] = x]
             /\ \/ x = NoLoop
                \/ loop[l].st = "spawned" /\ x = Dispatching(loop[l])
                \/ loop[l].st = "waiting" /\ loop[l].seen = "failedPayment"
                   /\ x = Dispatching(loop[l])
                \/ x = Waiting(loop[l], made')
    BY StickySteps DEF Sticky
  <1>3. CASE m # l
    <2>1. loop'[m] = loop[m]
      BY <1>1, <1>2, <1>3
    <2>2. QED
      BY <2>1 DEF Bare, Fresh
  <1>4. CASE m = l
    <2>1. loop'[m] = x
      BY <1>1, <1>2, <1>4
    <2>2. Dispatching(loop[l]).st = "dispatching" /\ Dispatching(loop[l]).out = loop[l].out
          /\ Dispatching(loop[l]).tries = loop[l].tries
      BY SMT DEF Dispatching
    <2>3. Waiting(loop[l], made').st = "waiting" /\ Waiting(loop[l], made').seen = "started"
          /\ NoLoop.st = "none"
      BY SMT DEF Waiting, NoLoop
    <2>4. x.st \in {"spawned", "dispatching"} \/ (x.st = "waiting" /\ x.seen = "failedPayment")
      BY <2>1 DEF Bare
    <2>5. x # NoLoop /\ x # Waiting(loop[l], made')
      BY <2>3, <2>4
    <2>6. x.st = "dispatching" /\ x.out = loop[l].out /\ x.tries = loop[l].tries
      BY <1>2, <2>2, <2>5
    <2>7. CASE loop[l].st = "spawned"
      BY <1>4, <2>1, <2>6, <2>7 DEF Bare, Fresh
    <2>8. CASE loop[l].st = "waiting" /\ loop[l].seen = "failedPayment"
      <3>1. loop[l].tries \in 1..RetryCount
        BY <1>1, <2>8, LoopFields
      <3>2. loop[l].tries # 0
        BY <3>1, BoundsAssumption, SMT
      <3>3. QED
        BY <1>4, <2>1, <2>6, <2>8, <3>2 DEF Bare, Fresh
    <2>9. QED
      BY <1>2, <2>5, <2>7, <2>8
  <1>5. QED
    BY <1>3, <1>4

\* A sticky loop-out that may start a swap after a step of a swap could before, or it
\* has just seen that the payment of this swap failed.
LEMMA BareSwap ==
    ASSUME TypeOK, NEW i \in Swaps, NEW st \in {"failedPayment", "other"}, Seen(i, st),
           NEW m \in Loops, Bare(m)'
    PROVE  \/ loop'[m] = loop[m] /\ Bare(m)
           \/ /\ loop[m].st = "waiting" /\ loop[m].id = i /\ st = "failedPayment"
              /\ loop'[m].out = loop[m].out /\ ~Fresh(m)'
  <1>1. CASE loop[m].st = "waiting" /\ loop[m].id = i
    <2>1. loop'[m] = [st |-> "waiting", out |-> loop[m].out, tries |-> loop[m].tries,
                      id |-> 0, seen |-> st]
      BY <1>1, SeenType
    <2>2. loop'[m].st = "waiting" /\ loop'[m].seen = st /\ loop'[m].out = loop[m].out
      BY <2>1, SMT
    <2>3. QED
      BY <1>1, <2>2 DEF Bare, Fresh
  <1>2. CASE ~(loop[m].st = "waiting" /\ loop[m].id = i)
    <2>1. loop'[m] = loop[m]
      BY <1>2, SeenType
    <2>2. QED
      BY <2>1 DEF Bare
  <1>3. QED
    BY <1>1, <1>2

\* A sticky loop-out that may start a swap after a dispatch could before, or it is
\* the one that was dispatched.
LEMMA BareDispatch ==
    ASSUME TypeOK, DispatchOut, NEW m \in Loops, Bare(m)'
    PROVE  \/ loop'[m] = loop[m] /\ Bare(m)
           \/ /\ m = NewLoop /\ MayDispatch(Head(outSwaps))
              /\ loop'[m].out = Head(outSwaps) /\ Fresh(m)'
  <1>1. loop \in [Loops -> LoopType \cup {NoLoop}]
    BY DEF TypeOK
  <1>2. CASE loop'[m] = loop[m]
    BY <1>2 DEF Bare
  <1>3. CASE loop'[m] # loop[m]
    <2>1. MayDispatch(Head(outSwaps))
      BY <1>3 DEF DispatchOut
    <2> DEFINE x == [st |-> "spawned", out |-> Head(outSwaps), tries |-> 0]
    <2>2. NewLoop \in Loops /\ loop' = [loop EXCEPT ![NewLoop] = x]
      BY <2>1, DispatchOutLoop
    <2>3. x.st = "spawned" /\ x.out = Head(outSwaps) /\ x.tries = 0
      BY SMT
    <2> HIDE DEF x
    <2>4. m = NewLoop /\ loop'[m] = x
      BY <1>1, <1>3, <2>2
    <2>5. QED
      BY <2>1, <2>3, <2>4 DEF Fresh
  <1>4. QED
    BY <1>2, <1>3

\* Within a tick a class of channels is looked at once.
LEMMA VisitedStep ==
    ASSUME Laws, TypeOK, Flow, Visited, [Next]_vars
    PROVE  Visited'
  <1>1. /\ stage # "none" => ClassOf(stage) \notin todo
        /\ \A l \in Loops : Fresh(l) =>
            /\ AssetOf[loop[l].out.chan] \notin todo
            /\ stage # "none" /\ step # "dispatch" => AssetOf[loop[l].out.chan] # ClassOf(stage)
        /\ \A k \in 1..Len(outSwaps) : AssetOf[outSwaps[k].chan] \notin todo
    BY DEF Visited
  <1>2. \A k \in 1..Len(<<>>) : AssetOf[<<>>[k].chan] \notin todo'
    BY SMT
  <1>3. ASSUME UNCHANGED <<stage, todo, outSwaps>>, step' = step,
               \A l \in Loops : Fresh(l)' => Fresh(l) /\ loop'[l].out = loop[l].out
        PROVE  Visited'
    BY <1>1, <1>3 DEF Visited
  <1>4. \A l \in Loops : Fresh(l) => Bare(l)
    BY DEF Fresh, Bare
  <1>5. \A l \in Loops : Fresh(l)' => Bare(l)'
    BY DEF Fresh, Bare
  <1>6. UNCHANGED loop => \A l \in Loops : Fresh(l)' => Fresh(l) /\ loop'[l].out = loop[l].out
    BY DEF Fresh
  <1>7. CASE Quiet \/ DispatchIn \/ \E f \in failed : BackoffElapses(f)
    <2>1. UNCHANGED <<stage, todo, outSwaps, step, loop>>
      BY <1>7, StepFrame DEF Quiet, runVars, loopVars
    <2>2. QED
      BY <1>3, <1>6, <2>1
  <1>8. CASE Tick
    <2>1. stage = "none" /\ ~Raced /\ stage' \in {"easy", "rules"} /\ todo' = Assets
      BY <1>8 DEF Tick
    <2>2. UNCHANGED <<step, outSwaps, loop>>
      BY <1>8, StepFrame DEF loopVars
    <2>3. outSwaps' = <<>>
      BY <2>1, <2>2 DEF Flow, TypeOK
    <2>4. \A l \in Loops : ~Fresh(l)'
      BY <2>1, <2>2 DEF Raced, Fresh
    <2>5. ClassOf(stage') = "none"
      BY <2>1 DEF ClassOf
    <2>6. "none" \notin Assets
      BY ChannelsAssumption
    <2>7. QED
      BY <1>2, <2>1, <2>3, <2>4, <2>5, <2>6 DEF Visited
  <1>9. CASE Leaving
    <2>1. LeaveStage /\ loop' = loop /\ outSwaps' = <<>> /\ step' = "enter"
      BY <1>9 DEF Leaving, LeaveStage, loopVars
    <2>2. \A l \in Loops : Fresh(l)' => Fresh(l) /\ loop'[l].out = loop[l].out
      BY <1>6, <2>1
    <2>3. CASE todo = {}
      <3>1. stage' = "none" /\ todo' = {}
        BY <2>1, <2>3 DEF LeaveStage, NextStage
      <3>2. QED
        BY <1>2, <2>1, <3>1 DEF Visited
    <2>4. CASE todo # {}
      <3>1. PICK a \in todo : stage' = a /\ todo' = todo \ {a}
        BY <2>1, <2>4 DEF LeaveStage, NextStage
      <3>2. a \in Assets
        BY DEF TypeOK
      <3>3. ClassOf(a) = a
        BY <3>2, ChannelsAssumption DEF ClassOf
      <3>4. QED
        BY <1>1, <1>2, <2>1, <2>2, <3>1, <3>3 DEF Visited
    <2>5. QED
      BY <2>3, <2>4
  <1>10. CASE RefreshAutoloopBudget
    <2>1. UNCHANGED <<stage, todo, outSwaps, loop>> /\ step = "enter"
      BY <1>10, StepFrame DEF loopVars, RefreshAutoloopBudget
    <2>2. \A l \in Loops : Fresh(l)' => Fresh(l) /\ loop'[l].out = loop[l].out
      BY <1>6, <2>1
    <2>3. QED
      BY <1>1, <2>1, <2>2 DEF Visited
  <1>11. CASE Planning
    <2>1. UNCHANGED <<stage, todo, loop>> /\ step = "plan" /\ step' = "dispatch"
      BY <1>11 DEF Planning, loopVars
    <2>2. PlanMade
      BY <1>11, RulesPlan, EasyPlan DEF Planning, Flow
    <2>3. stage # "none"
      BY <2>1 DEF Flow
    <2>4. \A k \in 1..Len(outSwaps') : AssetOf[outSwaps'[k].chan] = ClassOf(stage)
      BY <2>2 DEF PlanMade
    <2>5. \A l \in Loops : Fresh(l)' => Fresh(l) /\ loop'[l].out = loop[l].out
      BY <1>6, <2>1
    <2>6. QED
      BY <1>1, <2>1, <2>3, <2>4, <2>5 DEF Visited
  <1>12. CASE DispatchOut
    <2>1. /\ UNCHANGED <<stage, todo, step>> /\ step = "dispatch"
          /\ outSwaps # <<>> /\ outSwaps' = Tail(outSwaps) /\ outSwaps \in Seq(Suggestion)
      BY <1>12 DEF DispatchOut, TypeOK
    <2>2. /\ Head(outSwaps) = outSwaps[1] /\ 1 \in 1..Len(outSwaps)
          /\ \A k \in 1..Len(Tail(outSwaps)) :
                Tail(outSwaps)[k] = outSwaps[k + 1] /\ k + 1 \in 1..Len(outSwaps)
      BY <2>1, HeadAndTail
    <2>3. \A k \in 1..Len(outSwaps') : AssetOf[outSwaps'[k].chan] \notin todo
      BY <1>1, <2>1, <2>2
    <2>4. ASSUME NEW l \in Loops, Fresh(l)' PROVE AssetOf[loop'[l].out.chan] \notin todo
      <3>1. \/ loop'[l] = loop[l]
            \/ loop'[l].out = Head(outSwaps)
        BY <1>5, <1>12, <2>4, BareDispatch
      <3>2. loop'[l] = loop[l] => Fresh(l)
        BY <2>4 DEF Fresh
      <3>3. QED
        BY <1>1, <2>2, <3>1, <3>2
    <2>5. QED
      BY <1>1, <2>1, <2>3, <2>4 DEF Visited
  <1>13. ASSUME NEW l \in Loops, Sticky(l) PROVE Visited'
    <2>1. UNCHANGED <<stage, todo, outSwaps, step>>
      BY <1>13, StepFrame DEF runVars
    <2>2. \A m \in Loops : Fresh(m)' => Fresh(m) /\ loop'[m].out = loop[m].out
      BY <1>5, <1>13, BareSticky
    <2>3. QED
      BY <1>3, <2>1, <2>2
  <1>14. ASSUME NEW i \in Swaps, SwapStep(i) PROVE Visited'
    <2>1. UNCHANGED <<stage, todo, outSwaps, step>>
      BY <1>14, StepFrame DEF runVars
    <2>2. PICK st \in {"failedPayment", "other"} : Seen(i, st)
      BY <1>14, SwapSteps DEF SwapStep
    <2>3. ASSUME NEW m \in Loops, Fresh(m)' PROVE Fresh(m) /\ loop'[m].out = loop[m].out
      <3>1. loop'[m] = loop[m]
        BY <1>5, <2>2, <2>3, BareSwap
      <3>2. QED
        BY <2>3, <3>1 DEF Fresh
    <2>4. QED
      BY <1>3, <2>1, <2>3
  <1>15. CASE Restart
    <2>1. stage' = "none" /\ todo' = {} /\ outSwaps' = <<>>
      BY <1>15 DEF Restart
    <2>2. QED
      BY <1>2, <2>1 DEF Visited
  <1>16. QED
    BY <1>7, <1>8, <1>9, <1>10, <1>11, <1>12, <1>13, <1>14, <1>15, StepCases

\* The pending loop-outs.
PendingOut == {i \in Pending : swap[i].kind = "out"}
\* A sticky loop-out that waits for swap i has started it and has not seen its end.
WaitsFor(l, i) == loop[l].st = "waiting" /\ loop[l].id = i
\* What a sticky loop-out that waits, or is about to try again, can rely on.
Waits ==
    /\ \A l \in Loops, i \in Swaps : WaitsFor(l, i) =>
        /\ i \in PendingOut /\ swap[i].st = "started" /\ swap[i].chan = loop[l].out.chan
        /\ loop[l].seen = "started"
    /\ \A l, m \in Loops, i \in Swaps : WaitsFor(l, i) /\ WaitsFor(m, i) => l = m
    /\ \A l \in Loops : Bare(l) /\ ~Fresh(l) => <<"out", loop[l].out.chan>> \in failed

\* How many of the values of w are in P, and what they may cost.
Tally(w, P) == Cardinality({k \in DOMAIN w : w[k] \in P})
Cost(x, P, F) == IF x \in P THEN F[x] ELSE 0
Costs(w, P, F) == Total([k \in DOMAIN w |-> Cost(w[k], P, F)])

\* v differs from w in the value x of i.
Changed(w, v, i, x) == v = [w EXCEPT ![i] = x]
One(x, P) == IF x \in P THEN 1 ELSE 0
\* The number and the cost change by what the two values stand for.
Balanced(w, v, P, F, y, x) ==
    /\ Tally(v, P) + One(y, P) = Tally(w, P) + One(x, P)
    /\ Costs(v, P, F) + Cost(y, P, F) = Costs(w, P, F) + Cost(x, P, F)

\* What a suggestion adds to the commitments when it is dispatched.
AddsSwaps(s) == IF Counted(s) THEN 1 ELSE 0
AddsFee(s) == IF Counted(s) THEN s.fee ELSE 0
AddsRulesFee(s) == IF Counted(s) /\ ~s.easy THEN s.fee ELSE 0
Started(s, retry) ==
    [st |-> "started", kind |-> s.kind, chan |-> s.chan, fee |-> s.fee,
     labelled |-> s.labelled, easy |-> s.easy, raced |-> s.raced, retry |-> retry]

\* A swap that is started takes a free place.
LEMMA StartChanges ==
    ASSUME TypeOK, Flow, NEW s \in Suggestion, NEW retry \in BOOLEAN, Start(s, retry)
    PROVE  /\ made' \in Swaps /\ swap[made'] = NoSwap
           /\ Started(s, retry) \in SwapType /\ Changed(swap, swap', made', Started(s, retry))
  <1>1. made' \in Swaps /\ made' = made + 1 /\ swap' = [swap EXCEPT ![made'] = swap'[made']]
        /\ swap'[made'] = Started(s, retry)
    BY StartType DEF Started
  <1>2. made' > made
    <2>1. made \in 0..MaxSwaps
      BY DEF TypeOK
    <2>2. QED
      BY <1>1, <2>1, BoundsAssumption, SMT
  <1>3. swap[made'] = NoSwap
    BY <1>1, <1>2 DEF Flow
  <1>4. Started(s, retry) \in SwapType
    BY SuggestionFields DEF SwapType, Started
  <1>5. QED
    BY <1>1, <1>3, <1>4 DEF Changed

\* A swap that is started leaves the pending loop-outs alone.
LEMMA StartPending ==
    ASSUME TypeOK, Flow, NEW s \in Suggestion, NEW retry \in BOOLEAN, Start(s, retry)
    PROVE  /\ made' \in Swaps /\ made' \notin Pending
           /\ \A i \in PendingOut : i \in PendingOut' /\ swap'[i] = swap[i] /\ i # made'
           /\ \A i \in PendingOut' : i \in PendingOut \/ i = made'
           /\ made' \in PendingOut' <=> s.kind = "out"
           /\ swap'[made'].st = "started" /\ swap'[made'].chan = s.chan
  <1> DEFINE x == Started(s, retry)
  <1>1. /\ made' \in Swaps /\ swap[made'] = NoSwap /\ swap' = [swap EXCEPT ![made'] = x]
        /\ swap \in [Swaps -> SwapType \cup {NoSwap}] /\ x \in SwapType
    BY StartChanges DEF Changed, TypeOK
  <1>2. x.st = "started" /\ x.chan = s.chan /\ x.kind = s.kind /\ NoSwap.st = "none"
    BY SMT DEF Started, NoSwap
  <1> HIDE DEF x
  <1>3. x # NoSwap /\ swap'[made'] = x /\ \A i \in Swaps : i # made' => swap'[i] = swap[i]
    BY <1>1, <1>2
  <1>4. made' \notin Pending /\ made' \notin PendingOut
    BY <1>1 DEF Pending, PendingOut
  <1>5. \A i \in PendingOut : i \in PendingOut' /\ swap'[i] = swap[i] /\ i # made'
    BY <1>3, <1>4 DEF Pending, PendingOut
  <1>6. \A i \in PendingOut' : i \in PendingOut \/ i = made'
    BY <1>3 DEF Pending, PendingOut
  <1>7. made' \in PendingOut' <=> s.kind = "out"
    BY <1>1, <1>2, <1>3 DEF Pending, PendingOut
  <1>8. QED
    BY <1>1, <1>2, <1>3, <1>4, <1>5, <1>6, <1>7

\* A swap that goes on or is done leaves the other pending loop-outs alone.
LEMMA SwapPending ==
    ASSUME TypeOK, NEW i \in Swaps, NEW x \in SwapType \cup {NoSwap}, i \in Pending,
           swap' = [swap EXCEPT ![i] = x], x = NoSwap \/ x = Paid(swap[i])
    PROVE  /\ \A j \in PendingOut : j # i => j \in PendingOut' /\ swap'[j] = swap[j]
           /\ \A j \in PendingOut' : j \in PendingOut /\ swap'[j].chan = swap[j].chan
           /\ x = NoSwap => i \notin PendingOut'
  <1>1. swap \in [Swaps -> SwapType \cup {NoSwap}]
    BY DEF TypeOK
  <1>2. swap'[i] = x /\ \A j \in Swaps : j # i => swap'[j] = swap[j]
    BY <1>1
  <1>3. Paid(swap[i]).kind = swap[i].kind /\ Paid(swap[i]).chan = swap[i].chan
    BY SMT DEF Paid
  <1>4. \A j \in PendingOut : j # i => j \in PendingOut' /\ swap'[j] = swap[j]
    BY <1>2 DEF Pending, PendingOut
  <1>5. x = NoSwap => i \notin PendingOut'
    BY <1>2 DEF Pending, PendingOut
  <1>6. ASSUME NEW j \in PendingOut' PROVE j \in PendingOut /\ swap'[j].chan = swap[j].chan
    <2>1. j \in Swaps /\ swap'[j] # NoSwap /\ swap'[j].kind = "out"
      BY <1>6 DEF Pending, PendingOut
    <2>2. CASE j # i
      BY <1>2, <2>1, <2>2 DEF Pending, PendingOut
    <2>3. CASE j = i
      BY <1>2, <1>3, <2>1, <2>3 DEF Pending, PendingOut
    <2>4. QED
      BY <2>2, <2>3
  <1>7. QED
    BY <1>4, <1>5, <1>6

\* Every step keeps what the sticky loop-outs know of their swaps.
LEMMA WaitsStep ==
    ASSUME TypeOK, Flow, Waits, [Next]_vars
    PROVE  Waits'
  <1>1. /\ \A l \in Loops, i \in Swaps : WaitsFor(l, i) =>
            /\ i \in PendingOut /\ swap[i].st = "started" /\ swap[i].chan = loop[l].out.chan
            /\ loop[l].seen = "started"
        /\ \A l, m \in Loops, i \in Swaps : WaitsFor(l, i) /\ WaitsFor(m, i) => l = m
        /\ \A l \in Loops : Bare(l) /\ ~Fresh(l) => <<"out", loop[l].out.chan>> \in failed
    BY DEF Waits
  <1>2. loop \in [Loops -> LoopType \cup {NoLoop}]
    BY DEF TypeOK
  <1>3. ASSUME UNCHANGED <<swap, loop>>, UNCHANGED failed PROVE Waits'
    <2>1. PendingOut' = PendingOut
      BY <1>3 DEF PendingOut, Pending
    <2>2. QED
      BY <1>1, <1>3, <2>1 DEF Waits, WaitsFor, Bare, Fresh
  <1>4. CASE Quiet \/ Tick \/ Leaving \/ RefreshAutoloopBudget \/ Planning
    BY <1>3, <1>4, StepFrame DEF Quiet, Leaving, Planning, loopVars, swapVars
  <1>5. CASE DispatchOut
    <2>1. UNCHANGED <<swap, failed>> /\ PendingOut' = PendingOut
      BY <1>5, StepFrame DEF swapVars, PendingOut, Pending
    <2>2. ASSUME NEW l \in Loops, NEW i \in Swaps, WaitsFor(l, i)'
          PROVE  loop'[l] = loop[l]
      <3>1. CASE MayDispatch(Head(outSwaps))
        <4> DEFINE x == [st |-> "spawned", out |-> Head(outSwaps), tries |-> 0]
        <4>1. loop' = [loop EXCEPT ![NewLoop] = x]
          BY <1>5, <3>1, DispatchOutLoop
        <4>2. x.st = "spawned"
          BY SMT
        <4> HIDE DEF x
        <4>3. QED
          BY <1>2, <2>2, <4>1, <4>2 DEF WaitsFor
      <3>2. CASE ~MayDispatch(Head(outSwaps))
        BY <1>5, <3>2 DEF DispatchOut
      <3>3. QED
        BY <3>1, <3>2
    <2>3. \A l \in Loops, i \in Swaps : WaitsFor(l, i)' => WaitsFor(l, i) /\ loop'[l] = loop[l]
      BY <2>2 DEF WaitsFor
    <2>4. ASSUME NEW l \in Loops, Bare(l)', ~Fresh(l)'
          PROVE  <<"out", loop'[l].out.chan>> \in failed
      <3>1. loop'[l] = loop[l] /\ Bare(l)
        BY <1>5, <2>4, BareDispatch
      <3>2. ~Fresh(l)
        BY <2>4, <3>1 DEF Fresh
      <3>3. QED
        BY <1>1, <3>1, <3>2
    <2>5. QED
      BY <1>1, <2>1, <2>3, <2>4 DEF Waits
  <1>6. CASE DispatchIn
    <2>1. UNCHANGED <<loop, failed>>
      BY <1>6, StepFrame DEF loopVars
    <2>2. CASE UNCHANGED swap
      BY <1>3, <2>1, <2>2
    <2>3. CASE Start(Head(inSwaps), FALSE)
      <3>1. Head(inSwaps) \in Suggestion
        BY <1>6, HeadAndTail DEF DispatchIn, TypeOK
      <3>2. \A i \in PendingOut : i \in PendingOut' /\ swap'[i] = swap[i]
        BY <2>3, <3>1, StartPending
      <3>3. \A l \in Loops, i \in Swaps : WaitsFor(l, i)' = WaitsFor(l, i)
        BY <2>1 DEF WaitsFor
      <3>4. \A l \in Loops : Bare(l)' /\ ~Fresh(l)' => <<"out", loop'[l].out.chan>> \in failed'
        BY <1>1, <2>1 DEF Bare, Fresh
      <3>5. ASSUME NEW l \in Loops, NEW i \in Swaps, WaitsFor(l, i)'
            PROVE  /\ i \in PendingOut' /\ swap'[i].st = "started"
                   /\ swap'[i].chan = loop'[l].out.chan /\ loop'[l].seen = "started"
        <4>1. /\ i \in PendingOut /\ swap[i].st = "started" /\ swap[i].chan = loop[l].out.chan
              /\ loop[l].seen = "started"
          BY <1>1, <3>3, <3>5
        <4>2. QED
          BY <2>1, <3>2, <4>1
      <3>6. \A l, m \in Loops, i \in Swaps : WaitsFor(l, i)' /\ WaitsFor(m, i)' => l = m
        BY <1>1, <3>3
      <3>7. QED
        BY <3>4, <3>5, <3>6 DEF Waits
    <2>4. QED
      BY <1>6, <2>2, <2>3 DEF DispatchIn
  <1>7. ASSUME NEW l \in Loops, Sticky(l) PROVE Waits'
    <2>1. failed' = failed
      BY <1>7, StepFrame
    <2>2. \A m \in Loops : Bare(m)' /\ ~Fresh(m)' => <<"out", loop'[m].out.chan>> \in failed'
      BY <1>1, <1>7, <2>1, BareSticky
    <2>3. PICK x \in LoopType \cup {NoLoop} :
             /\ loop' = [loop EXCEPT ![l] = x]
             /\ \/ UNCHANGED swap /\ (x = NoLoop \/ x = Dispatching(loop[l]))
                \/ /\ loop[l].st = "dispatching" /\ x = Waiting(loop[l], made')
                   /\ Start(loop[l].out, loop[l].tries > 0)
      BY <1>7, StickySteps DEF Sticky
    <2>4. loop'[l] = x /\ \A m \in Loops : m # l => loop'[m] = loop[m]
      BY <1>2, <2>3
    <2>5. CASE UNCHANGED swap /\ (x = NoLoop \/ x = Dispatching(loop[l]))
      <3>1. x.st # "waiting"
        <4>1. NoLoop.st = "none" /\ Dispatching(loop[l]).st = "dispatching"
          BY SMT DEF NoLoop, Dispatching
        <4>2. QED
          BY <2>5, <4>1
      <3>2. \A m \in Loops, i \in Swaps : WaitsFor(m, i)' => WaitsFor(m, i) /\ loop'[m] = loop[m]
        BY <2>4, <3>1 DEF WaitsFor
      <3>3. PendingOut' = PendingOut
        BY <2>5 DEF PendingOut, Pending
      <3>4. QED
        BY <1>1, <2>2, <2>5, <3>2, <3>3 DEF Waits
    <2>6. CASE loop[l].st = "dispatching" /\ x = Waiting(loop[l], made')
               /\ Start(loop[l].out, loop[l].tries > 0)
      <3>1. loop[l].out \in Suggestion /\ loop[l].out.kind = "out"
        <4>1. loop[l] # NoLoop
          BY <2>6, SMT DEF NoLoop
        <4>2. QED
          BY <1>2, <2>6, <4>1, LoopFields DEF Flow
      <3>2. (loop[l].tries > 0) \in BOOLEAN
        BY SMT
      <3>3. PICK retry \in BOOLEAN : Start(loop[l].out, retry)
        BY <2>6, <3>2
      <3>4. /\ made' \in Swaps /\ made' \notin Pending /\ made' \in PendingOut'
            /\ \A i \in PendingOut : i \in PendingOut' /\ swap'[i] = swap[i] /\ i # made'
            /\ swap'[made'].st = "started" /\ swap'[made'].chan = loop[l].out.chan
        BY <3>1, <3>3, StartPending
      <3>5. x.st = "waiting" /\ x.id = made' /\ x.seen = "started" /\ x.out = loop[l].out
        BY <2>6, SMT DEF Waiting
      <3>6. \A m \in Loops, i \in Swaps : WaitsFor(m, i)' =>
                \/ m = l /\ i = made'
                \/ m # l /\ WaitsFor(m, i) /\ loop'[m] = loop[m]
        BY <2>4, <3>5 DEF WaitsFor
      <3>7. ASSUME NEW m \in Loops, NEW i \in Swaps, WaitsFor(m, i)'
            PROVE  /\ i \in PendingOut' /\ swap'[i].st = "started"
                   /\ swap'[i].chan = loop'[m].out.chan /\ loop'[m].seen = "started"
        <4>1. CASE m = l /\ i = made'
          BY <2>4, <3>4, <3>5, <4>1
        <4>2. CASE WaitsFor(m, i) /\ loop'[m] = loop[m]
          BY <1>1, <3>4, <4>2
        <4>3. QED
          BY <3>6, <3>7, <4>1, <4>2
      <3>8. ASSUME NEW m \in Loops, NEW k \in Loops, NEW i \in Swaps,
                   WaitsFor(m, i)', WaitsFor(k, i)'
            PROVE  m = k
        <4>1. WaitsFor(m, i) => i # made'
          BY <1>1, <3>4
        <4>2. WaitsFor(k, i) => i # made'
          BY <1>1, <3>4
        <4>3. (m = l /\ i = made') \/ (m # l /\ WaitsFor(m, i))
          BY <3>6, <3>8
        <4>4. (k = l /\ i = made') \/ (k # l /\ WaitsFor(k, i))
          BY <3>6, <3>8
        <4>5. WaitsFor(m, i) /\ WaitsFor(k, i) => m = k
          BY <1>1
        <4>6. QED
          BY <4>1, <4>2, <4>3, <4>4, <4>5
      <3>9. QED
        BY <2>2, <3>7, <3>8 DEF Waits
    <2>7. QED
      BY <2>3, <2>5, <2>6
  <1>8. ASSUME NEW i \in Swaps, SwapStep(i) PROVE Waits'
    <2>1. i \in Pending
      BY <1>8, SwapSteps DEF SwapStep
    <2>2. PICK x \in SwapType \cup {NoSwap}, st \in {"failedPayment", "other"} :
                /\ swap' = [swap EXCEPT ![i] = x] /\ Seen(i, st)
                /\ \/ x = Paid(swap[i]) /\ st = "other" /\ UNCHANGED failed
                   \/ x = NoSwap /\ Ended(i, st)
      BY <1>8, SwapSteps DEF SwapStep
    <2>3. failed \subseteq failed' /\ (st = "failedPayment" => <<"out", swap[i].chan>> \in failed')
      BY <2>2 DEF Ended
    <2>4. \A j \in PendingOut : j # i => j \in PendingOut' /\ swap'[j] = swap[j]
      BY <2>1, <2>2, SwapPending
    <2>5. ASSUME NEW m \in Loops, NEW j \in Swaps, WaitsFor(m, j)'
          PROVE  WaitsFor(m, j) /\ loop'[m] = loop[m] /\ j # i
      <3>1. CASE loop[m].st = "waiting" /\ loop[m].id = i
        <4>1. loop'[m] = [st |-> "waiting", out |-> loop[m].out, tries |-> loop[m].tries,
                          id |-> 0, seen |-> st]
          BY <2>2, <3>1, SeenType
        <4>2. loop'[m].id = 0
          BY <4>1, SMT
        <4>3. 0 \notin Swaps
          BY BoundsAssumption, SMT DEF Swaps
        <4>4. QED
          BY <2>5, <4>2, <4>3 DEF WaitsFor
      <3>2. CASE ~(loop[m].st = "waiting" /\ loop[m].id = i)
        <4>1. loop'[m] = loop[m]
          BY <2>2, <3>2, SeenType
        <4>2. QED
          BY <2>5, <3>2, <4>1 DEF WaitsFor
      <3>3. QED
        BY <3>1, <3>2
    <2>6. ASSUME NEW m \in Loops, Bare(m)', ~Fresh(m)'
          PROVE  <<"out", loop'[m].out.chan>> \in failed'
      <3>1. CASE loop'[m] = loop[m] /\ Bare(m)
        <4>1. ~Fresh(m)
          BY <2>6, <3>1 DEF Fresh
        <4>2. QED
          BY <1>1, <2>3, <3>1, <4>1
      <3>2. CASE /\ loop[m].st = "waiting" /\ loop[m].id = i /\ st = "failedPayment"
                 /\ loop'[m].out = loop[m].out
        <4>1. swap[i].chan = loop[m].out.chan
          BY <1>1, <3>2 DEF WaitsFor
        <4>2. QED
          BY <2>3, <3>2, <4>1
      <3>3. QED
        BY <2>2, <2>6, <3>1, <3>2, BareSwap
    <2>7. ASSUME NEW m \in Loops, NEW j \in Swaps, WaitsFor(m, j)'
          PROVE  /\ j \in PendingOut' /\ swap'[j].st = "started"
                 /\ swap'[j].chan = loop'[m].out.chan /\ loop'[m].seen = "started"
      <3>1. WaitsFor(m, j) /\ loop'[m] = loop[m] /\ j # i
        BY <2>5, <2>7
      <3>2. /\ j \in PendingOut /\ swap[j].st = "started" /\ swap[j].chan = loop[m].out.chan
            /\ loop[m].seen = "started"
        BY <1>1, <3>1
      <3>3. QED
        BY <2>4, <3>1, <3>2
    <2>8. \A l, m \in Loops, j \in Swaps : WaitsFor(l, j)' /\ WaitsFor(m, j)' => l = m
      BY <1>1, <2>5
    <2>9. QED
      BY <2>6, <2>7, <2>8 DEF Waits
  <1>9. ASSUME NEW f \in failed, BackoffElapses(f) PROVE Waits'
    <2>1. UNCHANGED <<swap, loop>> /\ failed' = failed \ {f}
      BY <1>9, StepFrame DEF loopVars, BackoffElapses
    <2>2. PendingOut' = PendingOut
      BY <2>1 DEF PendingOut, Pending
    <2>3. ASSUME NEW l \in Loops, Bare(l), ~Fresh(l) PROVE <<"out", loop[l].out.chan>> # f
      <3>1. ~(/\ loop[l] # NoLoop /\ f = <<"out", loop[l].out.chan>>
              /\ IF loop[l].st = "waiting" THEN loop[l].seen = "failedPayment"
                                           ELSE loop[l].tries > 0)
        BY <1>9 DEF BackoffElapses
      <3>2. loop[l] # NoLoop
        <4>1. NoLoop.st = "none"
          BY SMT DEF NoLoop
        <4>2. QED
          BY <2>3, <4>1 DEF Bare
      <3>3. IF loop[l].st = "waiting" THEN loop[l].seen = "failedPayment"
                                      ELSE loop[l].tries > 0
        <4>1. CASE loop[l].st = "waiting"
          BY <2>3, <4>1 DEF Bare
        <4>2. CASE loop[l].st # "waiting"
          <5>1. loop[l].tries \in 0..(RetryCount - 1) /\ loop[l].tries # 0
            BY <1>2, <2>3, <4>2, LoopFields DEF Bare, Fresh
          <5>2. loop[l].tries > 0
            BY <5>1, BoundsAssumption, SMT
          <5>3. QED
            BY <4>2, <5>2
        <4>3. QED
          BY <4>1, <4>2
      <3>4. QED
        BY <3>1, <3>2, <3>3
    <2>4. \A l \in Loops : Bare(l)' /\ ~Fresh(l)' => <<"out", loop'[l].out.chan>> \in failed'
      BY <1>1, <2>1, <2>3 DEF Bare, Fresh
    <2>5. QED
      BY <1>1, <2>1, <2>2, <2>4 DEF Waits, WaitsFor
  <1>10. CASE Restart
    <2>1. NoLoop.st = "none"
      BY SMT DEF NoLoop
    <2>2. \A l \in Loops : loop'[l].st = "none"
      BY <1>10, <2>1 DEF Restart
    <2>3. QED
      BY <2>2 DEF Waits, WaitsFor, Bare
  <1>11. QED
    BY <1>4, <1>5, <1>6, <1>7, <1>8, <1>9, <1>10, StepCases

\* The channels that the pending loop-outs, the sticky loop-outs without a swap and
\* the suggested loop-outs are for: no channel is in two places.
Held == OngoingLoopOut
Sought == {loop[l].out.chan : l \in {m \in Loops : Bare(m)}}
Listed == {outSwaps[k].chan : k \in 1..Len(outSwaps)}
Apart(A, B, C) == A \cap B = {} /\ A \cap C = {} /\ B \cap C = {}
\* Every channel has one user.
Exclusive ==
    /\ \A i, j \in PendingOut : swap[i].chan = swap[j].chan => i = j
    /\ \A l, m \in Loops : Bare(l) /\ Bare(m) /\ loop[l].out.chan = loop[m].out.chan => l = m
    /\ Distinct(outSwaps)
    /\ Apart(Held, Sought, Listed)

\* What a step must do to the channels for Exclusive to go on holding: each of the
\* three places shrinks, or a channel moves from one to another.
Moves(A, B, C, D, E, F, c) ==
    \/ D \subseteq A /\ E \subseteq B /\ F \subseteq C
    \/ D \subseteq A \cup {c} /\ c \in B /\ E \subseteq B \ {c} /\ F \subseteq C
    \/ D \subseteq A /\ E \subseteq B \cup {c} /\ c \in C /\ F \subseteq C \ {c}
    \/ c \in A /\ D \subseteq A \ {c} /\ E \subseteq B \cup {c} /\ F \subseteq C

\* A channel that moves from one place to another is in one place afterwards.
LEMMA MovesApart ==
    ASSUME NEW A, NEW B, NEW C, NEW D, NEW E, NEW F, NEW c, Apart(A, B, C),
           Moves(A, B, C, D, E, F, c)
    PROVE  Apart(D, E, F)
  BY SMT DEF Apart, Moves

\* Every step keeps the channels of the automated loop-outs apart.
LEMMA ExclusiveStep ==
    ASSUME Laws, TypeOK, Flow, Visited, Waits, Exclusive, [Next]_vars
    PROVE  Exclusive'
  \* The channels of the three places, member by member.
  <1>held. /\ \A i \in PendingOut : swap[i].chan \in Held
           /\ \A c \in Held : \E i \in PendingOut : swap[i].chan = c
           /\ \A c \in Held' : \E i \in PendingOut' : swap'[i].chan = c
    BY DEF Held, OngoingLoopOut, PendingOut
  <1>sought. /\ \A l \in Loops : Bare(l) => loop[l].out.chan \in Sought
             /\ \A c \in Sought : \E l \in Loops : Bare(l) /\ loop[l].out.chan = c
             /\ \A c \in Sought' : \E l \in Loops : Bare(l)' /\ loop'[l].out.chan = c
    BY DEF Sought
  <1>listed. /\ \A k \in 1..Len(outSwaps) : outSwaps[k].chan \in Listed
             /\ \A c \in Listed : \E k \in 1..Len(outSwaps) : outSwaps[k].chan = c
             /\ \A c \in Listed' : \E k \in 1..Len(outSwaps') : outSwaps'[k].chan = c
    BY DEF Listed
  \* The suggestions that are left after the first are for the other channels.
  <1>tail. ASSUME outSwaps \in Seq(Suggestion), outSwaps # <<>>, Distinct(outSwaps),
                  outSwaps' = Tail(outSwaps)
           PROVE  /\ Distinct(outSwaps') /\ Head(outSwaps).chan \in Listed
                  /\ \A k \in 1..Len(outSwaps') :
                           outSwaps'[k].chan \in Listed /\ outSwaps'[k].chan # Head(outSwaps).chan
    <2> DEFINE q == outSwaps
               p == Tail(outSwaps)
    <2>1. /\ Head(q) = q[1] /\ \A k \in 1..Len(p) : p[k] = q[k + 1]
          /\ 1 \in 1..Len(q) /\ \A k \in 1..Len(p) : k + 1 \in 1..Len(q) /\ k + 1 # 1
      BY <1>tail, HeadAndTail
    <2>2. \A k, n \in 1..Len(p) : k + 1 = n + 1 => k = n
      BY SMT
    <2> HIDE DEF p
    <2>3. ASSUME NEW k \in 1..Len(p), NEW n \in 1..Len(p), p[k].chan = p[n].chan
          PROVE  k = n
      <3>1. k + 1 \in 1..Len(q) /\ n + 1 \in 1..Len(q) /\ q[k + 1].chan = q[n + 1].chan
        BY <2>1, <2>3
      <3>2. k + 1 = n + 1
        BY <1>tail, <3>1 DEF Distinct
      <3>3. QED
        BY <2>2, <3>2
    <2>4. ASSUME NEW k \in 1..Len(p)
          PROVE  p[k].chan \in Listed /\ p[k].chan # Head(q).chan
      <3>1. k + 1 \in 1..Len(q) /\ k + 1 # 1 /\ p[k] = q[k + 1] /\ 1 \in 1..Len(q)
        BY <2>1
      <3>2. p[k].chan # q[1].chan
        BY <1>tail, <3>1 DEF Distinct
      <3>3. QED
        BY <2>1, <3>1, <3>2, <1>listed
    <2>5. outSwaps' = p
      BY <1>tail DEF p
    <2>6. QED
      BY <2>1, <2>3, <2>4, <2>5, <1>listed DEF Distinct
  <1>1. /\ \A i, j \in PendingOut : swap[i].chan = swap[j].chan => i = j
        /\ \A l, m \in Loops : Bare(l) /\ Bare(m) /\ loop[l].out.chan = loop[m].out.chan => l = m
        /\ Distinct(outSwaps) /\ Apart(Held, Sought, Listed)
    BY DEF Exclusive
  <1>2. /\ loop \in [Loops -> LoopType \cup {NoLoop}] /\ outSwaps \in Seq(Suggestion)
        /\ Len(<<>>) = 0 /\ 1..0 = {}
    BY SMT DEF TypeOK
  \* The three places are the same, or smaller.
  <1>3. ASSUME \A i \in PendingOut' : i \in PendingOut /\ swap'[i].chan = swap[i].chan
        PROVE  /\ \A i, j \in PendingOut' : swap'[i].chan = swap'[j].chan => i = j
               /\ Held' \subseteq Held
    <2>1. \A i, j \in PendingOut' : swap'[i].chan = swap'[j].chan => i = j
      BY <1>1, <1>3
    <2>2. Held' \subseteq Held
      <3>1. ASSUME NEW c \in Held' PROVE c \in Held
        <4>1. PICK i \in PendingOut' : swap'[i].chan = c
          BY <3>1, <1>held
        <4>2. i \in PendingOut /\ swap[i].chan = c
          BY <1>3, <4>1
        <4>3. QED
          BY <4>2, <1>held
      <3>2. QED
        BY <3>1
    <2>3. QED
      BY <2>1, <2>2
  <1>4. ASSUME \A l \in Loops : Bare(l)' => Bare(l) /\ loop'[l].out = loop[l].out
        PROVE  /\ \A l, m \in Loops :
                    Bare(l)' /\ Bare(m)' /\ loop'[l].out.chan = loop'[m].out.chan => l = m
               /\ Sought' \subseteq Sought
    <2>1. \A l, m \in Loops :
                    Bare(l)' /\ Bare(m)' /\ loop'[l].out.chan = loop'[m].out.chan => l = m
      BY <1>1, <1>4
    <2>2. Sought' \subseteq Sought
      <3>1. ASSUME NEW c \in Sought' PROVE c \in Sought
        <4>1. PICK l \in Loops : Bare(l)' /\ loop'[l].out.chan = c
          BY <3>1, <1>sought
        <4>2. Bare(l) /\ loop[l].out.chan = c
          BY <1>4, <4>1
        <4>3. QED
          BY <4>2, <1>sought
      <3>2. QED
        BY <3>1
    <2>3. QED
      BY <2>1, <2>2
  <1>5. ASSUME outSwaps' = outSwaps \/ outSwaps' = <<>>
        PROVE  Distinct(outSwaps') /\ Listed' \subseteq Listed
    <2>1. CASE outSwaps' = outSwaps
      BY <1>1, <2>1 DEF Distinct, Listed
    <2>2. CASE outSwaps' = <<>>
      <3>1. 1..Len(outSwaps') = {}
        BY <1>2, <2>2
      <3>2. QED
        BY <3>1 DEF Distinct, Listed
    <2>3. QED
      BY <1>5, <2>1, <2>2
  <1>6. UNCHANGED swap => \A i \in PendingOut' : i \in PendingOut /\ swap'[i].chan = swap[i].chan
    BY DEF PendingOut, Pending
  <1>7. UNCHANGED loop => \A l \in Loops : Bare(l)' => Bare(l) /\ loop'[l].out = loop[l].out
    BY DEF Bare, Fresh
  <1>8. ASSUME NEW c, Moves(Held, Sought, Listed, Held', Sought', Listed', c),
               \A i, j \in PendingOut' : swap'[i].chan = swap'[j].chan => i = j,
               \A l, m \in Loops :
                    Bare(l)' /\ Bare(m)' /\ loop'[l].out.chan = loop'[m].out.chan => l = m,
               Distinct(outSwaps')
        PROVE  Exclusive'
    <2>1. Apart(Held', Sought', Listed')
      BY <1>1, <1>8, MovesApart
    <2>2. QED
      BY <1>8, <2>1 DEF Exclusive
  <1>9. ASSUME \A i \in PendingOut' : i \in PendingOut /\ swap'[i].chan = swap[i].chan,
               \A l \in Loops : Bare(l)' => Bare(l) /\ loop'[l].out = loop[l].out,
               outSwaps' = outSwaps \/ outSwaps' = <<>>
        PROVE  Exclusive'
    <2>1. Moves(Held, Sought, Listed, Held', Sought', Listed', 0)
      BY <1>3, <1>4, <1>5, <1>9 DEF Moves
    <2>2. QED
      BY <1>3, <1>4, <1>5, <1>8, <1>9, <2>1
  <1>10. CASE Quiet \/ Tick \/ Leaving \/ RefreshAutoloopBudget
              \/ \E f \in failed : BackoffElapses(f)
    <2>1. UNCHANGED <<swap, loop>> /\ (outSwaps' = outSwaps \/ outSwaps' = <<>>)
      BY <1>10, StepFrame DEF Quiet, Leaving, LeaveStage, runVars, loopVars, swapVars
    <2>2. QED
      BY <1>6, <1>7, <1>9, <2>1
  <1>11. CASE Restart
    <2>1. UNCHANGED swap /\ outSwaps' = <<>>
      BY <1>11 DEF Restart, swapVars
    <2>2. NoLoop.st = "none"
      BY SMT DEF NoLoop
    <2>3. \A l \in Loops : loop'[l].st = "none"
      BY <1>11, <2>2 DEF Restart
    <2>4. QED
      BY <1>6, <1>9, <2>1, <2>3 DEF Bare
  <1>12. CASE Planning
    <2>1. UNCHANGED <<swap, loop>> /\ step = "plan" /\ stage # "none"
      BY <1>12 DEF Planning, loopVars, swapVars, Flow
    <2>2. PlanMade
      BY <1>12, <2>1, RulesPlan, EasyPlan DEF Planning
    <2>3. \A k \in 1..Len(outSwaps') : outSwaps'[k].chan \notin Held
      BY <2>2 DEF PlanMade, Held
    <2>4. ASSUME NEW k \in 1..Len(outSwaps'), NEW l \in Loops, Bare(l)
          PROVE  outSwaps'[k].chan # loop[l].out.chan
      <3>1. /\ outSwaps'[k].chan \notin FailedLoopOut
            /\ AssetOf[outSwaps'[k].chan] = ClassOf(stage)
        BY <2>2 DEF PlanMade
      <3>2. CASE Fresh(l)
        <4>1. AssetOf[loop[l].out.chan] # ClassOf(stage)
          BY <2>1, <3>2 DEF Visited
        <4>2. QED
          BY <3>1, <4>1
      <3>3. CASE ~Fresh(l)
        <4>1. <<"out", loop[l].out.chan>> \in failed
          BY <2>4, <3>3 DEF Waits
        <4>2. loop[l] # NoLoop
          <5>1. NoLoop.st = "none"
            BY SMT DEF NoLoop
          <5>2. QED
            BY <2>4, <5>1 DEF Bare
        <4>3. loop[l].out.chan \in Channels
          BY <1>2, <4>2, LoopFields, SuggestionFields
        <4>4. QED
          BY <3>1, <4>1, <4>3 DEF FailedLoopOut
      <3>4. QED
        BY <3>2, <3>3
    <2>5. Held' \subseteq Held /\ Sought' \subseteq Sought
      BY <1>3, <1>4, <1>6, <1>7, <2>1
    <2>6. Apart(Held', Sought', Listed')
      <3>1. Listed' \cap Held = {}
        BY <2>3, <1>listed
      <3>2. ASSUME NEW c \in Listed', c \in Sought PROVE FALSE
        <4>1. PICK k \in 1..Len(outSwaps') : outSwaps'[k].chan = c
          BY <3>2, <1>listed
        <4>2. PICK l \in Loops : Bare(l) /\ loop[l].out.chan = c
          BY <3>2, <1>sought
        <4>3. QED
          BY <2>4, <4>1, <4>2
      <3>3. QED
        BY <1>1, <2>5, <3>1, <3>2, SMT DEF Apart
    <2>7. Distinct(outSwaps')
      BY <2>2 DEF PlanMade
    <2>8. QED
      BY <1>3, <1>4, <1>6, <1>7, <2>1, <2>6, <2>7 DEF Exclusive
  <1>13. CASE DispatchOut
    <2> DEFINE c == Head(outSwaps).chan
    <2>1. UNCHANGED swap /\ outSwaps # <<>> /\ outSwaps' = Tail(outSwaps)
      BY <1>13 DEF DispatchOut, swapVars
    <2>2. Distinct(outSwaps') /\ c \in Listed /\ Listed' \subseteq Listed \ {c}
      <3>1. /\ Distinct(outSwaps') /\ c \in Listed
            /\ \A k \in 1..Len(outSwaps') : outSwaps'[k].chan \in Listed /\ outSwaps'[k].chan # c
        BY <1>1, <1>2, <2>1, <1>tail
      <3>2. ASSUME NEW d \in Listed' PROVE d \in Listed /\ d # c
        BY <3>1, <3>2, <1>listed
      <3>3. QED
        BY <3>1, <3>2
    <2>3. c \notin Sought
      BY <1>1, <2>2 DEF Apart
    <2>4. \A m \in Loops : Bare(m)' => \/ loop'[m].out = loop[m].out /\ Bare(m)
                                       \/ m = NewLoop /\ loop'[m].out = Head(outSwaps)
      BY <1>13, BareDispatch
    <2>5. Sought' \subseteq Sought \cup {c}
      <3>1. ASSUME NEW d \in Sought' PROVE d \in Sought \cup {c}
        <4>1. PICK m \in Loops : Bare(m)' /\ loop'[m].out.chan = d
          BY <3>1, <1>sought
        <4>2. CASE loop'[m].out = loop[m].out /\ Bare(m)
          BY <4>1, <4>2, <1>sought
        <4>3. CASE loop'[m].out = Head(outSwaps)
          BY <4>1, <4>3
        <4>4. QED
          BY <2>4, <4>1, <4>2, <4>3
      <3>2. QED
        BY <3>1
    <2>6. ASSUME NEW l \in Loops, NEW m \in Loops, Bare(l)', Bare(m)',
                 loop'[l].out.chan = loop'[m].out.chan
          PROVE  l = m
      BY <1>1, <2>3, <2>4, <2>6, <1>sought
    <2> HIDE DEF c
    <2>7. Moves(Held, Sought, Listed, Held', Sought', Listed', c)
      BY <1>3, <1>6, <2>1, <2>2, <2>5 DEF Moves
    <2>8. QED
      BY <1>3, <1>6, <1>8, <2>1, <2>2, <2>6, <2>7
  <1>14. CASE DispatchIn
    <2>1. UNCHANGED <<loop, outSwaps>>
      BY <1>14, StepFrame DEF loopVars
    <2>2. CASE UNCHANGED swap
      BY <1>6, <1>7, <1>9, <2>1, <2>2
    <2>3. CASE Start(Head(inSwaps), FALSE)
      <3>1. inSwaps \in Seq(Suggestion) /\ inSwaps # <<>>
        BY <1>14 DEF DispatchIn, TypeOK
      <3>2. Head(inSwaps) \in Suggestion /\ Head(inSwaps).kind # "out"
        <4>1. Head(inSwaps) = inSwaps[1] /\ 1 \in 1..Len(inSwaps) /\ Head(inSwaps) \in Suggestion
          BY <3>1, HeadAndTail
        <4>2. Head(inSwaps).kind = "in"
          BY <4>1 DEF Flow
        <4>3. QED
          BY <4>1, <4>2, SMT
      <3>3. \A i \in PendingOut' : i \in PendingOut /\ swap'[i].chan = swap[i].chan
        BY <2>3, <3>2, StartPending
      <3>4. QED
        BY <1>7, <1>9, <2>1, <3>3
    <2>4. QED
      BY <1>14, <2>2, <2>3 DEF DispatchIn
  <1>15. ASSUME NEW l \in Loops, Sticky(l) PROVE Exclusive'
    <2>1. UNCHANGED outSwaps
      BY <1>15, StepFrame DEF runVars
    <2>2. \A m \in Loops : Bare(m)' => Bare(m) /\ loop'[m].out = loop[m].out
      BY <1>15, BareSticky
    <2>3. PICK x \in LoopType \cup {NoLoop} :
             /\ loop' = [loop EXCEPT ![l] = x]
             /\ \/ UNCHANGED swap
                \/ /\ loop[l].st = "dispatching" /\ x = Waiting(loop[l], made')
                   /\ Start(loop[l].out, loop[l].tries > 0)
      BY <1>15, StickySteps DEF Sticky
    <2>4. CASE UNCHANGED swap
      BY <1>6, <1>9, <2>1, <2>2, <2>4
    <2>5. CASE loop[l].st = "dispatching" /\ x = Waiting(loop[l], made')
               /\ Start(loop[l].out, loop[l].tries > 0)
      <3> DEFINE c == loop[l].out.chan
      <3>1. loop[l].out \in Suggestion
        <4>1. loop[l] # NoLoop
          BY <2>5, SMT DEF NoLoop
        <4>2. QED
          BY <1>2, <4>1, LoopFields
      <3>2. (loop[l].tries > 0) \in BOOLEAN
        BY SMT
      <3>3. PICK retry \in BOOLEAN : Start(loop[l].out, retry)
        BY <2>5, <3>2
      <3>4. /\ made' \in Swaps /\ swap'[made'].chan = c
            /\ \A i \in PendingOut' : i = made' \/ (i \in PendingOut /\ swap'[i] = swap[i])
        BY <3>1, <3>3, StartPending
      <3>5. x.st = "waiting" /\ x.seen = "started"
        BY <2>5, SMT DEF Waiting
      <3>6. "started" # "failedPayment" /\ "waiting" \notin {"spawned", "dispatching"}
        BY SMT
      <3>7. ~Bare(l)' /\ Bare(l)
        <4>1. loop'[l] = x
          BY <1>2, <2>3
        <4>2. QED
          BY <2>5, <3>5, <3>6, <4>1 DEF Bare
      <3>8. c \in Sought /\ c \notin Held
        <4>1. c \in Sought
          BY <3>7, <1>sought
        <4>2. QED
          BY <1>1, <4>1 DEF Apart
      <3>9. Sought' \subseteq Sought \ {c}
        <4>1. ASSUME NEW d \in Sought' PROVE d \in Sought /\ d # c
          <5>1. PICK m \in Loops : Bare(m)' /\ loop'[m].out.chan = d
            BY <4>1, <1>sought
          <5>2. Bare(m) /\ loop[m].out.chan = d /\ m # l
            BY <2>2, <3>7, <5>1
          <5>3. QED
            BY <1>1, <3>7, <5>2, <1>sought
        <4>2. QED
          BY <4>1
      <3>10. Held' \subseteq Held \cup {c}
        <4>1. ASSUME NEW d \in Held' PROVE d \in Held \cup {c}
          <5>1. PICK i \in PendingOut' : swap'[i].chan = d
            BY <4>1, <1>held
          <5>2. CASE i = made'
            BY <3>4, <5>1, <5>2
          <5>3. CASE i \in PendingOut /\ swap'[i] = swap[i]
            BY <5>1, <5>3, <1>held
          <5>4. QED
            BY <3>4, <5>2, <5>3
        <4>2. QED
          BY <4>1
      <3>11. ASSUME NEW i \in PendingOut', NEW j \in PendingOut', swap'[i].chan = swap'[j].chan
             PROVE  i = j
        <4>1. \A k \in PendingOut' : k = made' \/ (k \in PendingOut /\ swap'[k].chan # c)
          BY <3>4, <3>8, <1>held
        <4>2. CASE i = made' \/ j = made'
          BY <3>4, <3>11, <4>1, <4>2
        <4>3. CASE i # made' /\ j # made'
          BY <1>1, <3>4, <3>11, <4>3
        <4>4. QED
          BY <4>2, <4>3
      <3> HIDE DEF c
      <3>12. Moves(Held, Sought, Listed, Held', Sought', Listed', c)
        BY <1>5, <2>1, <3>8, <3>9, <3>10 DEF Moves
      <3>13. QED
        BY <1>4, <1>5, <1>8, <2>1, <2>2, <3>11, <3>12
    <2>6. QED
      BY <2>3, <2>4, <2>5
  <1>16. ASSUME NEW i \in Swaps, SwapStep(i) PROVE Exclusive'
    <2> DEFINE c == swap[i].chan
    <2>1. i \in Pending /\ UNCHANGED outSwaps
      BY <1>16, SwapSteps, StepFrame DEF SwapStep, runVars
    <2>2. PICK x \in SwapType \cup {NoSwap}, st \in {"failedPayment", "other"} :
                /\ swap' = [swap EXCEPT ![i] = x] /\ Seen(i, st)
                /\ \/ x = Paid(swap[i]) /\ st = "other"
                   \/ x = NoSwap
      BY <1>16, SwapSteps DEF SwapStep
    <2>3. /\ \A j \in PendingOut' : j \in PendingOut /\ swap'[j].chan = swap[j].chan
          /\ x = NoSwap => i \notin PendingOut'
      BY <2>1, <2>2, SwapPending
    <2>4. ASSUME NEW m \in Loops, Bare(m)'
          PROVE  \/ loop'[m].out = loop[m].out /\ Bare(m)
                 \/ /\ WaitsFor(m, i) /\ i \in PendingOut /\ x = NoSwap
                    /\ loop'[m].out.chan = c
      <3>1. CASE loop'[m] = loop[m] /\ Bare(m)
        BY <3>1
      <3>2. CASE /\ loop[m].st = "waiting" /\ loop[m].id = i /\ st = "failedPayment"
                 /\ loop'[m].out = loop[m].out
        <4>1. WaitsFor(m, i)
          BY <3>2 DEF WaitsFor
        <4>2. i \in PendingOut /\ swap[i].chan = loop[m].out.chan
          BY <4>1 DEF Waits
        <4>3. "failedPayment" # "other"
          BY SMT
        <4>4. QED
          BY <2>2, <3>2, <4>1, <4>2, <4>3
      <3>3. QED
        BY <2>2, <2>4, <3>1, <3>2, BareSwap
    <2>5. CASE \A m \in Loops : Bare(m)' => Bare(m) /\ loop'[m].out = loop[m].out
      BY <1>9, <2>1, <2>3, <2>5
    <2>6. ASSUME NEW m \in Loops, Bare(m)', WaitsFor(m, i), i \in PendingOut, x = NoSwap
          PROVE  Exclusive'
      <3>1. c \in Held /\ c \notin Sought
        <4>1. c \in Held
          BY <2>6, <1>held
        <4>2. QED
          BY <1>1, <4>1 DEF Apart
      <3>2. Held' \subseteq Held \ {c}
        <4>1. ASSUME NEW d \in Held' PROVE d \in Held /\ d # c
          <5>1. PICK j \in PendingOut' : swap'[j].chan = d
            BY <4>1, <1>held
          <5>2. j \in PendingOut /\ swap[j].chan = d /\ j # i
            BY <2>3, <2>6, <5>1
          <5>3. QED
            BY <1>1, <2>6, <5>2, <1>held
        <4>2. QED
          BY <4>1
      <3>3. Sought' \subseteq Sought \cup {c}
        <4>1. ASSUME NEW d \in Sought' PROVE d \in Sought \cup {c}
          <5>1. PICK k \in Loops : Bare(k)' /\ loop'[k].out.chan = d
            BY <4>1, <1>sought
          <5>2. CASE loop'[k].out = loop[k].out /\ Bare(k)
            BY <5>1, <5>2, <1>sought
          <5>3. CASE loop'[k].out.chan = c
            BY <5>1, <5>3
          <5>4. QED
            BY <2>4, <5>1, <5>2, <5>3
        <4>2. QED
          BY <4>1
      <3>4. \A k, n \in Loops : WaitsFor(k, i) /\ WaitsFor(n, i) => k = n
        BY DEF Waits
      <3>5. ASSUME NEW k \in Loops, NEW n \in Loops, Bare(k)', Bare(n)',
                   loop'[k].out.chan = loop'[n].out.chan
            PROVE  k = n
        <4>1. \A a \in Loops : Bare(a)' =>
                  \/ loop'[a].out = loop[a].out /\ Bare(a) /\ loop'[a].out.chan # c
                  \/ WaitsFor(a, i) /\ loop'[a].out.chan = c
          BY <2>4, <3>1, <1>sought
        <4>2. CASE loop'[k].out.chan = c
          BY <3>4, <3>5, <4>1, <4>2
        <4>3. CASE loop'[k].out.chan # c
          BY <1>1, <3>5, <4>1, <4>3
        <4>4. QED
          BY <4>2, <4>3
      <3> HIDE DEF c
      <3>6. Moves(Held, Sought, Listed, Held', Sought', Listed', c)
        BY <1>5, <2>1, <3>1, <3>2, <3>3 DEF Moves
      <3>7. QED
        BY <1>3, <1>5, <1>8, <2>1, <2>3, <3>5, <3>6
    <2>7. QED
      BY <2>4, <2>5, <2>6
  <1>17. QED
    BY <1>10, <1>11, <1>12, <1>13, <1>14, <1>15, <1>16, StepCases

-----------------------------------------------------------------------------
(* The limits *)

\* The swaps that the planners answer for, and the sticky loop-outs that are yet to
\* start such a swap, each with its fee.
PlannedSwap == {x \in SwapType : Counted(x) /\ ~x.retry}
RulesSwap == {x \in PlannedSwap : ~x.easy}
SwapFee == [x \in SwapType |-> x.fee]
FreshLoop == {x \in LoopType : /\ x.st \in {"spawned", "dispatching"} /\ x.tries = 0
                               /\ Counted(x.out)}
FreshRulesLoop == {x \in FreshLoop : ~x.out.easy}
LoopFee == [x \in LoopType |-> x.out.fee]

\* What the planners have committed to: swaps in flight, with those that sticky
\* loop-outs are yet to start, and their costs of this period, in all and by the rules.
InFlight == Tally(swap, PlannedSwap) + Tally(loop, FreshLoop)
Committed ==
    spent.planned + Costs(swap, PlannedSwap, SwapFee) + Costs(loop, FreshLoop, LoopFee)
CommittedByRules ==
    spent.rules + Costs(swap, RulesSwap, SwapFee) + Costs(loop, FreshRulesLoop, LoopFee)

\* How many suggestions there are, and their fees.
Size(out, in) == Len(out) + Len(in)
Price(out, in) == PlanFees(out) + PlanFees(in)

\* Commitments of n swaps that cost f, and g by the rules, are within the limits
\* together with the suggestions that are left.
Limited(n, f, g, size, price, S) ==
    /\ n <= MaxAutoInFlight
    /\ f < AutoFeeBudget + MaxFee
    /\ g <= AutoFeeBudget
    /\ \A s \in S : Counted(s) =>
        /\ n + size <= MaxAutoInFlight
        /\ f + price < AutoFeeBudget + MaxFee
        /\ ~s.easy => g + price <= AutoFeeBudget
\* The commitments are within the limits, with the suggestions that are left.
Limits ==
    Limited(InFlight, Committed, CommittedByRules, Size(outSwaps, inSwaps),
            Price(outSwaps, inSwaps), Suggested)

\* The commitments grow by at most dn swaps that cost df, and dg by the rules.
Grows(dn, df, dg) ==
    /\ InFlight' <= InFlight + dn
    /\ Committed' <= Committed + df
    /\ CommittedByRules' <= CommittedByRules + dg

\* The number and the cost of the values of a function are naturals.
LEMMA TallyType ==
    ASSUME Laws, NEW n \in Nat, NEW X, NEW P \in SUBSET X, NEW F, \A x \in P : F[x] \in Nat,
           NEW w \in [1..n -> X]
    PROVE  /\ Tally(w, P) \in Nat /\ Costs(w, P, F) \in Nat
           /\ IsFiniteSet({k \in DOMAIN w : w[k] \in P})
           /\ [k \in DOMAIN w |-> Cost(w[k], P, F)] \in [1..n -> Nat]
  <1>1. DOMAIN w = 1..n
    BY SMT
  <1>2. \A x \in X : Cost(x, P, F) \in Nat
    BY SMT DEF Cost
  <1>3. [k \in DOMAIN w |-> Cost(w[k], P, F)] \in [1..n -> Nat]
    BY <1>1, <1>2
  <1>4. Costs(w, P, F) \in Nat
    BY <1>3, RangeIsSequence, TotalNat DEF Costs
  <1>5. IsFiniteSet(1..n)
    BY FiniteInterval, SMT
  <1>6. {k \in DOMAIN w : w[k] \in P} \subseteq 1..n
    BY <1>1
  <1>7. IsFiniteSet({k \in DOMAIN w : w[k] \in P})
    BY <1>5, <1>6, FiniteSubset
  <1>8. QED
    BY <1>3, <1>4, <1>7, CountType DEF Tally

\* What the values stand for.
LEMMA Weights ==
    /\ PlannedSwap \subseteq SwapType \cup {NoSwap} /\ RulesSwap \subseteq PlannedSwap
    /\ FreshLoop \subseteq LoopType \cup {NoLoop} /\ FreshRulesLoop \subseteq FreshLoop
    /\ NoSwap \notin PlannedSwap /\ NoLoop \notin FreshLoop
    /\ \A x \in SwapType : SwapFee[x] = x.fee
    /\ \A x \in LoopType : LoopFee[x] = x.out.fee
    /\ \A x \in PlannedSwap : SwapFee[x] \in Nat
    /\ \A x \in FreshLoop : LoopFee[x] \in Nat
  <1>1. /\ PlannedSwap \subseteq SwapType \cup {NoSwap} /\ RulesSwap \subseteq PlannedSwap
        /\ FreshLoop \subseteq LoopType \cup {NoLoop} /\ FreshRulesLoop \subseteq FreshLoop
        /\ PlannedSwap \subseteq SwapType /\ FreshLoop \subseteq LoopType
    BY DEF PlannedSwap, RulesSwap, FreshLoop, FreshRulesLoop
  <1>2. NoSwap \notin PlannedSwap /\ NoLoop \notin FreshLoop
    <2>1. NoSwap.st = "none" /\ NoLoop.st = "none"
      BY SMT DEF NoSwap, NoLoop
    <2>2. \A x \in PlannedSwap : x.st \in {"started", "paid"}
      BY DEF PlannedSwap, SwapType
    <2>3. \A x \in FreshLoop : x.st \in {"spawned", "dispatching"}
      BY DEF FreshLoop
    <2>4. QED
      BY <2>1, <2>2, <2>3
  <1>3. \A x \in SwapType : SwapFee[x] = x.fee /\ x.fee \in Fees
    BY DEF SwapFee, SwapType
  <1>4. \A x \in LoopType : LoopFee[x] = x.out.fee
    BY DEF LoopFee
  <1>5. \A x \in FreshLoop : x.out \in Suggestion
    <2>1. \A x \in LoopType \cup {NoLoop} : x.st \in {"spawned", "dispatching"} => x.out \in Suggestion
      BY LoopFields
    <2>2. QED
      BY <1>1, <2>1 DEF FreshLoop
  <1>6. QED
    BY <1>1, <1>2, <1>3, <1>4, <1>5, FeeType, FeesAssumption

\* The numbers and costs of swaps are naturals.
LEMMA SwapNumbers ==
    ASSUME Laws, NEW w \in [Swaps -> SwapType \cup {NoSwap}]
    PROVE  /\ Tally(w, PlannedSwap) \in Nat /\ Costs(w, PlannedSwap, SwapFee) \in Nat
           /\ Costs(w, RulesSwap, SwapFee) \in Nat
  <1>1. MaxSwaps \in Nat /\ w \in [1..MaxSwaps -> SwapType \cup {NoSwap}]
    BY BoundsAssumption DEF Swaps
  <1>2. Tally(w, PlannedSwap) \in Nat /\ Costs(w, PlannedSwap, SwapFee) \in Nat
    <2>1. PlannedSwap \in SUBSET (SwapType \cup {NoSwap})
      BY Weights
    <2>2. QED
      BY <1>1, <2>1, Weights, TallyType
  <1>3. Costs(w, RulesSwap, SwapFee) \in Nat
    <2>1. RulesSwap \in SUBSET (SwapType \cup {NoSwap}) /\ \A x \in RulesSwap : SwapFee[x] \in Nat
      BY Weights
    <2>2. QED
      BY <1>1, <2>1, TallyType
  <1>4. QED
    BY <1>2, <1>3

\* The numbers and costs of sticky loop-outs are naturals.
LEMMA LoopNumbers ==
    ASSUME Laws, NEW w \in [Loops -> LoopType \cup {NoLoop}]
    PROVE  /\ Tally(w, FreshLoop) \in Nat /\ Costs(w, FreshLoop, LoopFee) \in Nat
           /\ Costs(w, FreshRulesLoop, LoopFee) \in Nat
  <1>1. MaxLoops \in Nat /\ w \in [1..MaxLoops -> LoopType \cup {NoLoop}]
    BY BoundsAssumption DEF Loops
  <1>2. Tally(w, FreshLoop) \in Nat /\ Costs(w, FreshLoop, LoopFee) \in Nat
    <2>1. FreshLoop \in SUBSET (LoopType \cup {NoLoop})
      BY Weights
    <2>2. QED
      BY <1>1, <2>1, Weights, TallyType
  <1>3. Costs(w, FreshRulesLoop, LoopFee) \in Nat
    <2>1. FreshRulesLoop \in SUBSET (LoopType \cup {NoLoop})
          /\ \A x \in FreshRulesLoop : LoopFee[x] \in Nat
      BY Weights
    <2>2. QED
      BY <1>1, <2>1, TallyType
  <1>4. QED
    BY <1>2, <1>3

\* Nothing moves but what was spent, which is not more than before.
LEMMA NothingGrows ==
    ASSUME Laws, TypeOK, UNCHANGED <<swap, loop>>,
           spent'.planned \in Nat, spent'.rules \in Nat,
           spent'.planned <= spent.planned, spent'.rules <= spent.rules
    PROVE  Grows(0, 0, 0)
  <1>1. PICK a \in Nat, b \in Nat, c \in Nat :
            /\ a = Tally(loop, FreshLoop) /\ b = Costs(loop, FreshLoop, LoopFee)
            /\ c = Costs(loop, FreshRulesLoop, LoopFee)
    BY LoopNumbers DEF TypeOK
  <1>2. PICK p \in Nat, q \in Nat, r \in Nat :
            /\ p = Tally(swap, PlannedSwap) /\ q = Costs(swap, PlannedSwap, SwapFee)
            /\ r = Costs(swap, RulesSwap, SwapFee)
    BY SwapNumbers DEF TypeOK
  <1>3. PICK y \in Nat, z \in Nat, y1 \in Nat, z1 \in Nat :
            /\ y = spent.planned /\ z = spent.rules
            /\ y1 = spent'.planned /\ z1 = spent'.rules
    BY DEF TypeOK
  <1>4. y1 <= y /\ z1 <= z
    BY <1>3
  <1>5. p + a <= (p + a) + 0 /\ y1 + q + b <= (y + q + b) + 0 /\ z1 + r + c <= (z + r + c) + 0
    BY <1>4, SMT
  <1>6. /\ InFlight = p + a /\ InFlight' = p + a
        /\ Committed = y + q + b /\ Committed' = y1 + q + b
        /\ CommittedByRules = z + r + c /\ CommittedByRules' = z1 + r + c
    BY <1>1, <1>2, <1>3 DEF InFlight, Committed, CommittedByRules
  <1>7. QED
    BY <1>5, <1>6 DEF Grows

\* The size and the price of the suggestions are naturals.
LEMMA PlanNumbers ==
    ASSUME Laws, NEW out \in Seq(Suggestion), NEW in \in Seq(Suggestion)
    PROVE  Size(out, in) \in Nat /\ Price(out, in) \in Nat
  <1>1. PlanFees(out) \in Nat /\ PlanFees(in) \in Nat
    BY PlanFeesType
  <1>2. Len(out) \in Nat /\ Len(in) \in Nat
    BY SMT
  <1>3. QED
    BY <1>1, <1>2, SMT DEF Size, Price

\* Commitments grow only if a suggestion is counted, those by the rules if it is one of them.
Justified(S, dn, df, dg) ==
    \/ dn = 0 /\ df = 0 /\ dg = 0
    \/ \E s \in S : Counted(s) /\ (dg = 0 \/ ~s.easy)

\* The commitments are naturals.
LEMMA CommitmentsType ==
    ASSUME Laws, TypeOK
    PROVE  InFlight \in Nat /\ Committed \in Nat /\ CommittedByRules \in Nat
  <1>1. /\ Tally(swap, PlannedSwap) \in Nat /\ Costs(swap, PlannedSwap, SwapFee) \in Nat
        /\ Costs(swap, RulesSwap, SwapFee) \in Nat
    BY SwapNumbers DEF TypeOK
  <1>2. /\ Tally(loop, FreshLoop) \in Nat /\ Costs(loop, FreshLoop, LoopFee) \in Nat
        /\ Costs(loop, FreshRulesLoop, LoopFee) \in Nat
    BY LoopNumbers DEF TypeOK
  <1>3. spent.planned \in Nat /\ spent.rules \in Nat
    BY DEF TypeOK
  <1>4. QED
    BY <1>1, <1>2, <1>3, SMT DEF InFlight, Committed, CommittedByRules

\* The commitments after a step are naturals.
LEMMA CommitmentsTypeNext ==
    ASSUME Laws, TypeOK'
    PROVE  InFlight' \in Nat /\ Committed' \in Nat /\ CommittedByRules' \in Nat
  <1>1. /\ Tally(swap', PlannedSwap) \in Nat /\ Costs(swap', PlannedSwap, SwapFee) \in Nat
        /\ Costs(swap', RulesSwap, SwapFee) \in Nat
    BY SwapNumbers DEF TypeOK
  <1>2. /\ Tally(loop', FreshLoop) \in Nat /\ Costs(loop', FreshLoop, LoopFee) \in Nat
        /\ Costs(loop', FreshRulesLoop, LoopFee) \in Nat
    BY LoopNumbers DEF TypeOK
  <1>3. spent'.planned \in Nat /\ spent'.rules \in Nat
    BY DEF TypeOK
  <1>4. QED
    BY <1>1, <1>2, <1>3, SMT DEF InFlight, Committed, CommittedByRules

\* Commitments that grow by what is taken from the suggestions stay within the limits.
LEMMA LimitsGrow ==
    ASSUME Laws, TypeOK, TypeOK', Limits, NEW dn \in Nat, NEW df \in Nat, NEW dg \in Nat,
           Grows(dn, df, dg), Suggested' \subseteq Suggested,
           Size(outSwaps', inSwaps') + dn <= Size(outSwaps, inSwaps),
           Price(outSwaps', inSwaps') + df <= Price(outSwaps, inSwaps),
           Price(outSwaps', inSwaps') + dg <= Price(outSwaps, inSwaps),
           Justified(Suggested, dn, df, dg)
    PROVE  Limits'
  <1>1. PICK n \in Nat, f \in Nat, g \in Nat :
            n = InFlight /\ f = Committed /\ g = CommittedByRules
    BY CommitmentsType
  <1>2. PICK n1 \in Nat, f1 \in Nat, g1 \in Nat :
            n1 = InFlight' /\ f1 = Committed' /\ g1 = CommittedByRules'
    BY CommitmentsTypeNext
  <1>3. PICK size \in Nat, price \in Nat, size1 \in Nat, price1 \in Nat :
            /\ size = Size(outSwaps, inSwaps) /\ price = Price(outSwaps, inSwaps)
            /\ size1 = Size(outSwaps', inSwaps') /\ price1 = Price(outSwaps', inSwaps')
    BY PlanNumbers DEF TypeOK
  <1>4. Limited(n, f, g, size, price, Suggested)
    BY <1>1, <1>3 DEF Limits
  <1>5. /\ n1 <= n + dn /\ f1 <= f + df /\ g1 <= g + dg
        /\ size1 + dn <= size /\ price1 + df <= price /\ price1 + dg <= price
    BY <1>1, <1>2, <1>3 DEF Grows
  <1> DEFINE S == Suggested
             S1 == Suggested'
  <1>6. S1 \in SUBSET S
    OBVIOUS
  <1>7. Justified(S, dn, df, dg)
    OBVIOUS
  <1>8. Limited(n, f, g, size, price, S)
    BY <1>4
  <1> HIDE DEF S, S1
  <1>9. Limited(n1, f1, g1, size1, price1, S1)
    <2>1. MaxAutoInFlight \in Nat /\ AutoFeeBudget \in Nat /\ MaxFee \in Nat
      BY FeesAssumption, MaxFeeType
    <2>2. n <= MaxAutoInFlight /\ f < AutoFeeBudget + MaxFee /\ g <= AutoFeeBudget
      BY <1>8 DEF Limited
    <2>3. /\ n1 <= MaxAutoInFlight
          /\ f1 < AutoFeeBudget + MaxFee
          /\ g1 <= AutoFeeBudget
      <3>1. CASE dn = 0 /\ df = 0 /\ dg = 0
        BY <1>5, <2>1, <2>2, <3>1, SMT
      <3>2. CASE \E s \in S : Counted(s) /\ (dg = 0 \/ ~s.easy)
        <4>1. n + size <= MaxAutoInFlight /\ f + price < AutoFeeBudget + MaxFee
              /\ (dg = 0 \/ g + price <= AutoFeeBudget)
          BY <1>8, <3>2 DEF Limited
        <4>2. QED
          BY <1>5, <2>1, <2>2, <4>1, SMT
      <3>3. QED
        BY <3>1, <3>2, <1>7 DEF Justified
    <2>4. ASSUME NEW s \in S1, Counted(s)
          PROVE  /\ n1 + size1 <= MaxAutoInFlight
                 /\ f1 + price1 < AutoFeeBudget + MaxFee
                 /\ ~s.easy => g1 + price1 <= AutoFeeBudget
      <3>1. n + size <= MaxAutoInFlight /\ f + price < AutoFeeBudget + MaxFee
        BY <1>6, <1>8, <2>4 DEF Limited
      <3>2. n1 + size1 <= MaxAutoInFlight /\ f1 + price1 < AutoFeeBudget + MaxFee
        BY <1>5, <2>1, <3>1, SMT
      <3>3. ~s.easy => g + price <= AutoFeeBudget
        BY <1>6, <1>8, <2>4 DEF Limited
      <3>4. g + price <= AutoFeeBudget => g1 + price1 <= AutoFeeBudget
        BY <1>5, <2>1, SMT
      <3>5. QED
        BY <3>2, <3>3, <3>4
    <2>5. QED
      BY <2>3, <2>4 DEF Limited
  <1>10. QED
    BY <1>2, <1>3, <1>9 DEF Limits, S1

\* Suggestions that are dispatched or given up leave smaller ones.
LEMMA PlanShrinks ==
    ASSUME Laws, TypeOK, Flow,
           \/ UNCHANGED <<outSwaps, inSwaps>>
           \/ outSwaps' = <<>> /\ inSwaps' = <<>>
    PROVE  /\ Suggested' \subseteq Suggested
           /\ Size(outSwaps', inSwaps') <= Size(outSwaps, inSwaps)
           /\ Price(outSwaps', inSwaps') <= Price(outSwaps, inSwaps)
  <1>1. Size(outSwaps, inSwaps) \in Nat /\ Price(outSwaps, inSwaps) \in Nat
    BY PlanNumbers DEF TypeOK
  <1>2. CASE UNCHANGED <<outSwaps, inSwaps>>
    <2>1. /\ Suggested' = Suggested /\ Size(outSwaps', inSwaps') = Size(outSwaps, inSwaps)
          /\ Price(outSwaps', inSwaps') = Price(outSwaps, inSwaps)
      BY <1>2 DEF Suggested
    <2>2. QED
      BY <1>1, <2>1, SMT
  <1>3. CASE outSwaps' = <<>> /\ inSwaps' = <<>>
    <2>1. Suggested' = {}
      BY <1>3, SMT DEF Suggested
    <2>2. Size(<<>>, <<>>) = 0
      BY SMT DEF Size
    <2>3. Price(<<>>, <<>>) = 0
      BY PlanFeesEmpty, SMT DEF Price
    <2>4. 0 <= Size(outSwaps, inSwaps) /\ 0 <= Price(outSwaps, inSwaps)
      BY <1>1, SMT
    <2>5. QED
      BY <1>3, <2>1, <2>2, <2>3, <2>4
  <1>4. QED
    BY <1>2, <1>3

\* The limits are kept while the commitments do not grow.
LEMMA CalmLimits ==
    ASSUME Laws, TypeOK, TypeOK', Flow, Limits, Grows(0, 0, 0),
           \/ UNCHANGED <<outSwaps, inSwaps>>
           \/ outSwaps' = <<>> /\ inSwaps' = <<>>
    PROVE  Limits'
  <1>1. /\ Suggested' \subseteq Suggested
        /\ Size(outSwaps', inSwaps') <= Size(outSwaps, inSwaps)
        /\ Price(outSwaps', inSwaps') <= Price(outSwaps, inSwaps)
    BY PlanShrinks
  <1>2. PICK size1 \in Nat, price1 \in Nat :
            size1 = Size(outSwaps', inSwaps') /\ price1 = Price(outSwaps', inSwaps')
    BY PlanNumbers DEF TypeOK
  <1>3. 0 \in Nat /\ size1 + 0 = size1 /\ price1 + 0 = price1
    BY SMT
  <1>4. Justified(Suggested, 0, 0, 0)
    BY SMT DEF Justified
  <1>5. /\ Size(outSwaps', inSwaps') + 0 <= Size(outSwaps, inSwaps)
        /\ Price(outSwaps', inSwaps') + 0 <= Price(outSwaps, inSwaps)
    BY <1>1, <1>2, <1>3
  <1>6. QED
    BY <1>1, <1>3, <1>4, <1>5, LimitsGrow

\* What a value stands for: dn swaps that cost df, and dg by the rules.
SwapIs(x, dn, df, dg) ==
    /\ One(x, PlannedSwap) = dn /\ Cost(x, PlannedSwap, SwapFee) = df
    /\ Cost(x, RulesSwap, SwapFee) = dg
LoopIs(x, dn, df, dg) ==
    /\ One(x, FreshLoop) = dn /\ Cost(x, FreshLoop, LoopFee) = df
    /\ Cost(x, FreshRulesLoop, LoopFee) = dg

\* A sticky loop-out stands for its suggestion until its first swap is stored.
LEMMA LoopWeights ==
    ASSUME NEW x \in LoopType \cup {NoLoop}
    PROVE  IF x.st \in {"spawned", "dispatching"} /\ x.tries = 0
           THEN LoopIs(x, AddsSwaps(x.out), AddsFee(x.out), AddsRulesFee(x.out))
           ELSE LoopIs(x, 0, 0, 0)
  <1>1. CASE x.st \in {"spawned", "dispatching"} /\ x.tries = 0
    <2>1. x \in LoopType
      <3>1. x.st # "none"
        BY <1>1
      <3>2. QED
        BY <3>1, LoopFields
    <2>2. LoopFee[x] = x.out.fee
      BY <2>1, Weights
    <2>3. (x \in FreshLoop <=> Counted(x.out))
          /\ (x \in FreshRulesLoop <=> Counted(x.out) /\ ~x.out.easy)
      BY <1>1, <2>1 DEF FreshLoop, FreshRulesLoop
    <2>4. QED
      BY <1>1, <2>2, <2>3 DEF LoopIs, One, Cost, AddsSwaps, AddsFee, AddsRulesFee
  <1>2. CASE ~(x.st \in {"spawned", "dispatching"} /\ x.tries = 0)
    <2>1. x \notin FreshLoop /\ x \notin FreshRulesLoop
      BY <1>2 DEF FreshLoop, FreshRulesLoop
    <2>2. QED
      BY <1>2, <2>1 DEF LoopIs, One, Cost
  <1>3. QED
    BY <1>1, <1>2

\* A value that stands for n1, f1 and g1 takes the place of one that stood for n0, f0
\* and g0.
Rises(n0, f0, g0, n1, f1, g1, dn, df, dg) ==
    n1 <= n0 + dn /\ f1 <= f0 + df /\ g1 <= g0 + dg

\* When one value changes, the number and the cost change by what it stands for.
LEMMA OneChanges ==
    ASSUME Laws, NEW n \in Nat, NEW X, NEW P \in SUBSET X, NEW F, \A x \in P : F[x] \in Nat,
           NEW w \in [1..n -> X], NEW i \in 1..n, NEW x \in X,
           NEW v, Changed(w, v, i, x)
    PROVE  Balanced(w, v, P, F, w[i], x)
  <1>1. v \in [1..n -> X] /\ DOMAIN v = 1..n /\ DOMAIN w = 1..n /\ v[i] = x
        /\ \A k \in 1..n : k # i => v[k] = w[k]
    BY DEF Changed
  <1>2. Costs(v, P, F) + Cost(w[i], P, F) = Costs(w, P, F) + Cost(x, P, F)
    <2> DEFINE a == [k \in DOMAIN w |-> Cost(w[k], P, F)]
               b == [k \in DOMAIN v |-> Cost(v[k], P, F)]
    <2>0. \A y \in X : Cost(y, P, F) \in Nat
      BY SMT DEF Cost
    <2>1. a \in [1..n -> Nat] /\ b \in [1..n -> Nat]
      BY <1>1, <2>0
    <2>2. a[i] = Cost(w[i], P, F) /\ b[i] = Cost(x, P, F)
          /\ \A k \in 1..n : k # i => b[k] = a[k]
      BY <1>1
    <2>3. Costs(w, P, F) = Total(a) /\ Costs(v, P, F) = Total(b)
      BY DEF Costs
    <2> HIDE DEF a, b
    <2>4. Total(b) + a[i] = Total(a) + b[i]
      BY <2>1, <2>2, TotalChange
    <2>5. QED
      BY <2>2, <2>3, <2>4
  <1>3. Tally(v, P) + One(w[i], P) = Tally(w, P) + One(x, P)
    <2> DEFINE S == {k \in DOMAIN w : w[k] \in P}
               T == {k \in DOMAIN v : v[k] \in P}
    <2>1. IsFiniteSet(S) /\ IsFiniteSet(T) /\ Cardinality(S) \in Nat /\ Cardinality(T) \in Nat
          /\ Tally(v, P) = Cardinality(T) /\ Tally(w, P) = Cardinality(S)
      <3>1. IsFiniteSet(1..n) /\ S \in SUBSET (1..n) /\ T \in SUBSET (1..n)
        BY <1>1, FiniteInterval, SMT
      <3>2. IsFiniteSet(S) /\ IsFiniteSet(T)
        BY <3>1, FiniteSubset
      <3>3. Tally(v, P) = Cardinality(T) /\ Tally(w, P) = Cardinality(S)
        BY DEF Tally
      <3> HIDE DEF S, T
      <3>4. QED
        BY <3>2, <3>3, CountType
    <2>2. (i \in S <=> w[i] \in P) /\ (i \in T <=> x \in P) /\ S \ {i} = T \ {i}
      BY <1>1
    <2> HIDE DEF S, T
    <2>3. Cardinality(S \ {i}) = IF i \in S THEN Cardinality(S) - 1 ELSE Cardinality(S)
      BY <2>1, RemoveOne
    <2>4. Cardinality(T \ {i}) = IF i \in T THEN Cardinality(T) - 1 ELSE Cardinality(T)
      BY <2>1, RemoveOne
    <2>5. PICK c \in Nat, d \in Nat : c = Cardinality(S) /\ d = Cardinality(T)
      BY <2>1
    <2>6. (IF w[i] \in P THEN c - 1 ELSE c) = (IF x \in P THEN d - 1 ELSE d)
      BY <2>2, <2>3, <2>4, <2>5
    <2>7. d + One(w[i], P) = c + One(x, P)
      BY <2>6, SMT DEF One
    <2>8. QED
      BY <2>1, <2>5, <2>7
  <1>4. QED
    BY <1>2, <1>3 DEF Balanced

\* One sticky loop-out changes.
LEMMA LoopChange ==
    ASSUME Laws, NEW w \in [Loops -> LoopType \cup {NoLoop}], NEW l \in Loops,
           NEW x \in LoopType \cup {NoLoop}, NEW v, Changed(w, v, l, x)
    PROVE  /\ Balanced(w, v, FreshLoop, LoopFee, w[l], x)
           /\ Balanced(w, v, FreshRulesLoop, LoopFee, w[l], x)
  <1>1. MaxLoops \in Nat /\ w \in [1..MaxLoops -> LoopType \cup {NoLoop}] /\ l \in 1..MaxLoops
    BY BoundsAssumption DEF Loops
  <1>2. FreshLoop \in SUBSET (LoopType \cup {NoLoop}) /\ \A y \in FreshLoop : LoopFee[y] \in Nat
    BY Weights
  <1>3. FreshRulesLoop \in SUBSET (LoopType \cup {NoLoop})
        /\ \A y \in FreshRulesLoop : LoopFee[y] \in Nat
    BY Weights
  <1>4. Balanced(w, v, FreshRulesLoop, LoopFee, w[l], x)
    BY <1>1, <1>3, OneChanges
  <1>5. Balanced(w, v, FreshLoop, LoopFee, w[l], x)
    BY <1>1, <1>2, OneChanges
  <1>6. QED
    BY <1>4, <1>5

\* A sticky loop-out that changes.
LEMMA LoopGrows ==
    ASSUME Laws, TypeOK, TypeOK', NEW l \in Loops, NEW x \in LoopType \cup {NoLoop},
           Changed(loop, loop', l, x), UNCHANGED <<swap, spent>>,
           NEW n0 \in Nat, NEW f0 \in Nat, NEW g0 \in Nat, LoopIs(loop[l], n0, f0, g0),
           NEW n1 \in Nat, NEW f1 \in Nat, NEW g1 \in Nat, LoopIs(x, n1, f1, g1),
           NEW dn \in Nat, NEW df \in Nat, NEW dg \in Nat,
           Rises(n0, f0, g0, n1, f1, g1, dn, df, dg)
    PROVE  Grows(dn, df, dg)
  <1>1. /\ Balanced(loop, loop', FreshLoop, LoopFee, loop[l], x)
        /\ Balanced(loop, loop', FreshRulesLoop, LoopFee, loop[l], x)
    BY LoopChange DEF TypeOK
  <1>2. /\ Tally(loop', FreshLoop) + n0 = Tally(loop, FreshLoop) + n1
        /\ Costs(loop', FreshLoop, LoopFee) + f0 = Costs(loop, FreshLoop, LoopFee) + f1
        /\ Costs(loop', FreshRulesLoop, LoopFee) + g0 = Costs(loop, FreshRulesLoop, LoopFee) + g1
    BY <1>1 DEF Balanced, LoopIs
  <1>3. PICK a \in Nat, b \in Nat, c \in Nat :
            /\ a = Tally(loop, FreshLoop) /\ b = Costs(loop, FreshLoop, LoopFee)
            /\ c = Costs(loop, FreshRulesLoop, LoopFee)
    BY LoopNumbers DEF TypeOK
  <1>4. PICK d \in Nat, e \in Nat, h \in Nat :
            /\ d = Tally(loop', FreshLoop) /\ e = Costs(loop', FreshLoop, LoopFee)
            /\ h = Costs(loop', FreshRulesLoop, LoopFee)
    BY LoopNumbers DEF TypeOK
  <1>5. PICK p \in Nat, q \in Nat, r \in Nat :
            /\ p = Tally(swap, PlannedSwap) /\ q = Costs(swap, PlannedSwap, SwapFee)
            /\ r = Costs(swap, RulesSwap, SwapFee)
    BY SwapNumbers DEF TypeOK
  <1>6. PICK y \in Nat, z \in Nat : y = spent.planned /\ z = spent.rules
    BY DEF TypeOK
  <1>7. d + n0 = a + n1 /\ e + f0 = b + f1 /\ h + g0 = c + g1
    BY <1>2, <1>3, <1>4
  <1>8. p + d <= (p + a) + dn /\ y + q + e <= (y + q + b) + df /\ z + r + h <= (z + r + c) + dg
    BY <1>7, SMT DEF Rises
  <1>9. /\ InFlight = p + a /\ InFlight' = p + d
        /\ Committed = y + q + b /\ Committed' = y + q + e
        /\ CommittedByRules = z + r + c /\ CommittedByRules' = z + r + h
    BY <1>3, <1>4, <1>5, <1>6 DEF InFlight, Committed, CommittedByRules
  <1>10. QED
    BY <1>8, <1>9 DEF Grows

\* What a suggestion adds is at most one swap and its fee.
LEMMA AddsType ==
    ASSUME NEW s \in Suggestion
    PROVE  /\ AddsSwaps(s) \in Nat /\ AddsFee(s) \in Nat /\ AddsRulesFee(s) \in Nat
           /\ AddsSwaps(s) <= 1 /\ AddsFee(s) <= s.fee /\ AddsRulesFee(s) <= s.fee
           /\ \/ AddsSwaps(s) = 0 /\ AddsFee(s) = 0 /\ AddsRulesFee(s) = 0
              \/ Counted(s) /\ (AddsRulesFee(s) = 0 \/ ~s.easy)
  <1>1. PICK f \in Nat : f = s.fee
    BY FeeType
  <1>2. 0 \in Nat /\ 1 \in Nat /\ 0 <= 1 /\ 1 <= 1 /\ 0 <= f /\ f <= f
    BY SMT
  <1>3. QED
    BY <1>1, <1>2 DEF AddsSwaps, AddsFee, AddsRulesFee

\* The first suggestion is taken away.
LEMMA HeadTaken ==
    ASSUME Laws, TypeOK,
           \/ /\ outSwaps # <<>> /\ outSwaps' = Tail(outSwaps) /\ UNCHANGED inSwaps
           \/ /\ inSwaps # <<>> /\ inSwaps' = Tail(inSwaps) /\ UNCHANGED outSwaps,
           NEW s, s = IF outSwaps # <<>> /\ outSwaps' = Tail(outSwaps) /\ UNCHANGED inSwaps
                      THEN Head(outSwaps) ELSE Head(inSwaps)
    PROVE  /\ s \in Suggestion /\ s \in Suggested /\ Suggested' \subseteq Suggested
           /\ Size(outSwaps', inSwaps') + 1 = Size(outSwaps, inSwaps)
           /\ Price(outSwaps', inSwaps') + s.fee = Price(outSwaps, inSwaps)
  <1> DEFINE q == outSwaps
             r == inSwaps
  <1>1. q \in Seq(Suggestion) /\ r \in Seq(Suggestion)
    BY DEF TypeOK
  <1>2. PICK a \in Nat, b \in Nat, c \in Nat, d \in Nat :
            a = Len(q) /\ b = Len(r) /\ c = PlanFees(q) /\ d = PlanFees(r)
    <2>1. Len(q) \in Nat /\ Len(r) \in Nat
      BY <1>1, SMT
    <2>2. QED
      BY <1>1, <2>1, PlanFeesType
  <1>3. CASE q # <<>> /\ outSwaps' = Tail(q) /\ UNCHANGED inSwaps
    <2>1. s = Head(q)
      BY <1>3
    <2>2. /\ Head(q) \in Suggestion /\ Tail(q) \in Seq(Suggestion) /\ 1 \in 1..Len(q)
          /\ Len(Tail(q)) = Len(q) - 1 /\ Head(q) = q[1]
          /\ \A k \in 1..Len(Tail(q)) : Tail(q)[k] = q[k + 1] /\ k + 1 \in 1..Len(q)
      BY <1>1, <1>3, HeadAndTail
    <2>3. s \in Suggested /\ Suggested' \subseteq Suggested
      <3>1. s \in Suggested
        BY <2>1, <2>2 DEF Suggested
      <3>2. \A k \in 1..Len(outSwaps') : outSwaps'[k] \in Suggested
        BY <1>3, <2>2 DEF Suggested
      <3>3. \A k \in 1..Len(inSwaps') : inSwaps'[k] \in Suggested
        BY <1>3 DEF Suggested
      <3>4. Suggested' \subseteq Suggested
        <4>1. Suggested' = {outSwaps'[k] : k \in 1..Len(outSwaps')}
                             \cup {inSwaps'[k] : k \in 1..Len(inSwaps')}
          BY DEF Suggested
        <4>2. QED
          BY <3>2, <3>3, <4>1
      <3>5. QED
        BY <3>1, <3>4
    <2>4. PICK e \in Nat, f \in Nat : e = PlanFees(Tail(q)) /\ f = s.fee
      BY <2>1, <2>2, PlanFeesType, FeeType
    <2>5. c = e + f
      BY <1>1, <1>2, <1>3, <2>1, <2>4, PlanFeesTail
    <2>6. Size(q, r) = a + b /\ Size(outSwaps', inSwaps') = (a - 1) + b
      BY <1>2, <1>3, <2>2 DEF Size
    <2>7. Price(q, r) = c + d /\ Price(outSwaps', inSwaps') = e + d
      BY <1>2, <1>3, <2>4 DEF Price
    <2>8. (a - 1) + b + 1 = a + b /\ (e + d) + f = c + d
      BY <2>5, SMT
    <2>9. QED
      BY <2>1, <2>2, <2>3, <2>4, <2>6, <2>7, <2>8
  <1>4. CASE ~(q # <<>> /\ outSwaps' = Tail(q) /\ UNCHANGED inSwaps)
    <2>1. s = Head(r) /\ r # <<>> /\ inSwaps' = Tail(r) /\ UNCHANGED outSwaps
      BY <1>4
    <2>2. /\ Head(r) \in Suggestion /\ Tail(r) \in Seq(Suggestion) /\ 1 \in 1..Len(r)
          /\ Len(Tail(r)) = Len(r) - 1 /\ Head(r) = r[1]
          /\ \A k \in 1..Len(Tail(r)) : Tail(r)[k] = r[k + 1] /\ k + 1 \in 1..Len(r)
      BY <1>1, <2>1, HeadAndTail
    <2>3. s \in Suggested /\ Suggested' \subseteq Suggested
      BY <2>1, <2>2 DEF Suggested
    <2>4. PICK e \in Nat, f \in Nat : e = PlanFees(Tail(r)) /\ f = s.fee
      BY <2>1, <2>2, PlanFeesType, FeeType
    <2>5. d = e + f
      BY <1>1, <1>2, <2>1, <2>4, PlanFeesTail
    <2>6. Size(q, r) = a + b /\ Size(outSwaps', inSwaps') = a + (b - 1)
      BY <1>2, <2>1, <2>2 DEF Size
    <2>7. Price(q, r) = c + d /\ Price(outSwaps', inSwaps') = c + e
      BY <1>2, <2>1, <2>4 DEF Price
    <2>8. a + (b - 1) + 1 = a + b /\ (c + e) + f = c + d
      BY <2>5, SMT
    <2>9. QED
      BY <2>1, <2>2, <2>3, <2>4, <2>6, <2>7, <2>8
  <1>5. QED
    BY <1>3, <1>4

\* The limits are kept when the first suggestion is dispatched or dropped.
LEMMA HeadLimits ==
    ASSUME Laws, TypeOK, TypeOK', Limits,
           \/ /\ outSwaps # <<>> /\ outSwaps' = Tail(outSwaps) /\ UNCHANGED inSwaps
           \/ /\ inSwaps # <<>> /\ inSwaps' = Tail(inSwaps) /\ UNCHANGED outSwaps,
           NEW s, s = IF outSwaps # <<>> /\ outSwaps' = Tail(outSwaps) /\ UNCHANGED inSwaps
                      THEN Head(outSwaps) ELSE Head(inSwaps),
           NEW dn, NEW df, NEW dg, Grows(dn, df, dg),
           \/ dn = 0 /\ df = 0 /\ dg = 0
           \/ dn = AddsSwaps(s) /\ df = AddsFee(s) /\ dg = AddsRulesFee(s)
    PROVE  Limits'
  <1>1. /\ s \in Suggestion /\ s \in Suggested /\ Suggested' \subseteq Suggested
        /\ Size(outSwaps', inSwaps') + 1 = Size(outSwaps, inSwaps)
        /\ Price(outSwaps', inSwaps') + s.fee = Price(outSwaps, inSwaps)
    BY HeadTaken
  <1>2. PICK f \in Nat : f = s.fee
    BY <1>1, FeeType
  <1>3. /\ dn \in Nat /\ df \in Nat /\ dg \in Nat /\ dn <= 1 /\ df <= f /\ dg <= f
        /\ \/ dn = 0 /\ df = 0 /\ dg = 0
           \/ Counted(s) /\ (dg = 0 \/ ~s.easy)
    <2>1. 0 \in Nat /\ 0 <= 1 /\ 0 <= f
      BY SMT
    <2>2. QED
      BY <1>1, <1>2, <2>1, AddsType
  <1>4. PICK size1 \in Nat, price1 \in Nat :
            size1 = Size(outSwaps', inSwaps') /\ price1 = Price(outSwaps', inSwaps')
    BY PlanNumbers DEF TypeOK
  <1>5. size1 + dn <= size1 + 1 /\ price1 + df <= price1 + f /\ price1 + dg <= price1 + f
    BY <1>3, SMT
  <1>6. /\ Size(outSwaps', inSwaps') + dn <= Size(outSwaps, inSwaps)
        /\ Price(outSwaps', inSwaps') + df <= Price(outSwaps, inSwaps)
        /\ Price(outSwaps', inSwaps') + dg <= Price(outSwaps, inSwaps)
    BY <1>1, <1>2, <1>4, <1>5
  <1>7. Justified(Suggested, dn, df, dg)
    BY <1>1, <1>3 DEF Justified
  <1>8. QED
    BY <1>1, <1>3, <1>6, <1>7, LimitsGrow

\* The limits are kept when a loop-out is dispatched.
LEMMA DispatchOutLimits ==
    ASSUME Laws, TypeOK, TypeOK', Limits, DispatchOut
    PROVE  Limits'
  <1> DEFINE s == Head(outSwaps)
             x == [st |-> "spawned", out |-> s, tries |-> 0]
  <1>1. /\ outSwaps # <<>> /\ outSwaps' = Tail(outSwaps) /\ UNCHANGED inSwaps
        /\ swap' = swap /\ spent' = spent /\ outSwaps \in Seq(Suggestion)
    BY DEF DispatchOut, swapVars, TypeOK
  <1>2. s \in Suggestion
    BY <1>1, HeadAndTail
  <1>3. CASE MayDispatch(s)
    <2>1. /\ NewLoop \in Loops /\ loop[NewLoop] = NoLoop
          /\ x \in LoopType /\ loop' = [loop EXCEPT ![NewLoop] = x]
      BY <1>3, DispatchOutLoop
    <2>2. x.st = "spawned" /\ x.tries = 0 /\ x.out = s
      BY SMT
    <2> HIDE DEF x, s
    <2>3. LoopIs(x, AddsSwaps(s), AddsFee(s), AddsRulesFee(s))
      BY <2>1, <2>2, LoopWeights
    <2>4. LoopIs(NoLoop, 0, 0, 0)
      <3>1. NoLoop.st = "none"
        BY SMT DEF NoLoop
      <3>2. QED
        BY <3>1, LoopWeights
    <2>5. Changed(loop, loop', NewLoop, x)
      BY <2>1 DEF Changed
    <2>6. PICK n \in Nat, f \in Nat, g \in Nat :
              n = AddsSwaps(s) /\ f = AddsFee(s) /\ g = AddsRulesFee(s)
      BY <1>2, AddsType
    <2>7. 0 \in Nat /\ Rises(0, 0, 0, n, f, g, n, f, g)
      BY SMT DEF Rises
    <2>8. LoopIs(loop[NewLoop], 0, 0, 0) /\ LoopIs(x, n, f, g)
      BY <2>1, <2>3, <2>4, <2>6
    <2>9. Grows(n, f, g)
      BY <1>1, <2>1, <2>5, <2>7, <2>8, LoopGrows
    <2>10. s = IF outSwaps # <<>> /\ outSwaps' = Tail(outSwaps) /\ UNCHANGED inSwaps
              THEN Head(outSwaps) ELSE Head(inSwaps)
      BY <1>1 DEF s
    <2>11. QED
      BY <1>1, <2>6, <2>9, <2>10, HeadLimits
  <1>4. CASE ~MayDispatch(s)
    <2>1. loop' = loop
      BY <1>4 DEF DispatchOut
    <2>2. Grows(0, 0, 0)
      <3>1. PICK a \in Nat, b \in Nat : a = spent.planned /\ b = spent.rules
        BY DEF TypeOK
      <3>2. a <= a /\ b <= b
        BY SMT
      <3>3. QED
        BY <1>1, <2>1, <3>1, <3>2, NothingGrows
    <2> HIDE DEF s
    <2>3. s = IF outSwaps # <<>> /\ outSwaps' = Tail(outSwaps) /\ UNCHANGED inSwaps
              THEN Head(outSwaps) ELSE Head(inSwaps)
      BY <1>1 DEF s
    <2>4. QED
      BY <1>1, <2>2, <2>3, HeadLimits
  <1>5. QED
    BY <1>3, <1>4

\* A swap that is started stands for its suggestion at the first attempt, and a
\* swap that is done for nothing.
LEMMA StartedWeights ==
    ASSUME NEW s \in Suggestion, NEW retry \in BOOLEAN
    PROVE  /\ IF retry THEN SwapIs(Started(s, retry), 0, 0, 0)
              ELSE SwapIs(Started(s, retry), AddsSwaps(s), AddsFee(s), AddsRulesFee(s))
           /\ SwapIs(NoSwap, 0, 0, 0)
  <1> DEFINE x == Started(s, retry)
  <1>1. x \in SwapType
    BY SuggestionFields DEF SwapType, Started
  <1>2. x.retry = retry /\ x.fee = s.fee /\ x.easy = s.easy
        /\ x.labelled = s.labelled /\ x.raced = s.raced
    BY SMT DEF Started
  <1> HIDE DEF x
  <1>3. Counted(x) <=> Counted(s)
    BY <1>2 DEF Counted
  <1>4. SwapFee[x] = s.fee
    BY <1>1, <1>2, Weights
  <1>5. (x \in PlannedSwap <=> Counted(s) /\ ~retry)
        /\ (x \in RulesSwap <=> Counted(s) /\ ~retry /\ ~s.easy)
    BY <1>1, <1>2, <1>3 DEF PlannedSwap, RulesSwap
  <1>6. IF retry THEN SwapIs(x, 0, 0, 0)
        ELSE SwapIs(x, AddsSwaps(s), AddsFee(s), AddsRulesFee(s))
    BY <1>4, <1>5 DEF SwapIs, One, Cost, AddsSwaps, AddsFee, AddsRulesFee
  <1>7. NoSwap \notin PlannedSwap /\ NoSwap \notin RulesSwap
    BY Weights
  <1>8. SwapIs(NoSwap, 0, 0, 0)
    BY <1>7 DEF SwapIs, One, Cost
  <1>9. QED
    BY <1>6, <1>8 DEF x

\* The sticky loop-outs as a whole stand for what they did, but for one of them.
LoopsMove(m0, e0, h0, m1, e1, h1) ==
    /\ Tally(loop', FreshLoop) + m0 = Tally(loop, FreshLoop) + m1
    /\ Costs(loop', FreshLoop, LoopFee) + e0 = Costs(loop, FreshLoop, LoopFee) + e1
    /\ Costs(loop', FreshRulesLoop, LoopFee) + h0 = Costs(loop, FreshRulesLoop, LoopFee) + h1

\* The planned swaps cost at most sf more than before, those of the rules sg.
SpentBy(sf, sg) == spent'.planned <= spent.planned + sf /\ spent'.rules <= spent.rules + sg
\* A swap changes what it stands for from n0, f0, g0 to n1, f1, g1, the sticky
\* loop-outs from m0, e0, h0 to m1, e1, h1.
RiseTogether(n0, f0, g0, n1, f1, g1, m0, e0, h0, m1, e1, h1, sf, sg, dn, df, dg) ==
    /\ n1 + m1 <= n0 + m0 + dn
    /\ sf + f1 + e1 <= f0 + e0 + df
    /\ sg + g1 + h1 <= g0 + h0 + dg

\* One swap changes.
LEMMA SwapChange ==
    ASSUME Laws, NEW w \in [Swaps -> SwapType \cup {NoSwap}], NEW i \in Swaps,
           NEW x \in SwapType \cup {NoSwap}, NEW v, Changed(w, v, i, x)
    PROVE  /\ Balanced(w, v, PlannedSwap, SwapFee, w[i], x)
           /\ Balanced(w, v, RulesSwap, SwapFee, w[i], x)
  <1>1. MaxSwaps \in Nat /\ w \in [1..MaxSwaps -> SwapType \cup {NoSwap}] /\ i \in 1..MaxSwaps
    BY BoundsAssumption DEF Swaps
  <1>2. PlannedSwap \in SUBSET (SwapType \cup {NoSwap}) /\ \A y \in PlannedSwap : SwapFee[y] \in Nat
    BY Weights
  <1>3. RulesSwap \in SUBSET (SwapType \cup {NoSwap}) /\ \A y \in RulesSwap : SwapFee[y] \in Nat
    BY Weights
  <1>4. Balanced(w, v, RulesSwap, SwapFee, w[i], x)
    BY <1>1, <1>3, OneChanges
  <1>5. Balanced(w, v, PlannedSwap, SwapFee, w[i], x)
    BY <1>1, <1>2, OneChanges
  <1>6. QED
    BY <1>4, <1>5

\* A swap that changes, together with the sticky loop-outs and what was spent.
LEMMA SwapGrows ==
    ASSUME Laws, TypeOK, TypeOK', NEW i \in Swaps, NEW x \in SwapType \cup {NoSwap},
           Changed(swap, swap', i, x),
           NEW n0 \in Nat, NEW f0 \in Nat, NEW g0 \in Nat, SwapIs(swap[i], n0, f0, g0),
           NEW n1 \in Nat, NEW f1 \in Nat, NEW g1 \in Nat, SwapIs(x, n1, f1, g1),
           NEW m0 \in Nat, NEW e0 \in Nat, NEW h0 \in Nat,
           NEW m1 \in Nat, NEW e1 \in Nat, NEW h1 \in Nat, LoopsMove(m0, e0, h0, m1, e1, h1),
           NEW sf \in Nat, NEW sg \in Nat, SpentBy(sf, sg),
           NEW dn \in Nat, NEW df \in Nat, NEW dg \in Nat,
           RiseTogether(n0, f0, g0, n1, f1, g1, m0, e0, h0, m1, e1, h1, sf, sg, dn, df, dg)
    PROVE  Grows(dn, df, dg)
  <1>1. /\ Balanced(swap, swap', PlannedSwap, SwapFee, swap[i], x)
        /\ Balanced(swap, swap', RulesSwap, SwapFee, swap[i], x)
    BY SwapChange DEF TypeOK
  <1>2. /\ Tally(swap', PlannedSwap) + n0 = Tally(swap, PlannedSwap) + n1
        /\ Costs(swap', PlannedSwap, SwapFee) + f0 = Costs(swap, PlannedSwap, SwapFee) + f1
        /\ Costs(swap', RulesSwap, SwapFee) + g0 = Costs(swap, RulesSwap, SwapFee) + g1
    BY <1>1 DEF Balanced, SwapIs
  <1>3. PICK a \in Nat, b \in Nat, c \in Nat :
            /\ a = Tally(loop, FreshLoop) /\ b = Costs(loop, FreshLoop, LoopFee)
            /\ c = Costs(loop, FreshRulesLoop, LoopFee)
    BY LoopNumbers DEF TypeOK
  <1>4. PICK d \in Nat, e \in Nat, h \in Nat :
            /\ d = Tally(loop', FreshLoop) /\ e = Costs(loop', FreshLoop, LoopFee)
            /\ h = Costs(loop', FreshRulesLoop, LoopFee)
    BY LoopNumbers DEF TypeOK
  <1>5. PICK p \in Nat, q \in Nat, r \in Nat :
            /\ p = Tally(swap, PlannedSwap) /\ q = Costs(swap, PlannedSwap, SwapFee)
            /\ r = Costs(swap, RulesSwap, SwapFee)
    BY SwapNumbers DEF TypeOK
  <1>6. PICK p1 \in Nat, q1 \in Nat, r1 \in Nat :
            /\ p1 = Tally(swap', PlannedSwap) /\ q1 = Costs(swap', PlannedSwap, SwapFee)
            /\ r1 = Costs(swap', RulesSwap, SwapFee)
    BY SwapNumbers DEF TypeOK
  <1>7. PICK y \in Nat, z \in Nat : y = spent.planned /\ z = spent.rules
    BY DEF TypeOK
  <1>8. PICK y1 \in Nat, z1 \in Nat : y1 = spent'.planned /\ z1 = spent'.rules
    BY DEF TypeOK
  <1>9. d + m0 = a + m1 /\ e + e0 = b + e1 /\ h + h0 = c + h1
    BY <1>3, <1>4 DEF LoopsMove
  <1>10. p1 + n0 = p + n1 /\ q1 + f0 = q + f1 /\ r1 + g0 = r + g1
    BY <1>2, <1>5, <1>6
  <1>11. y1 <= y + sf /\ z1 <= z + sg
    BY <1>7, <1>8 DEF SpentBy
  <1>12. p1 + d <= (p + a) + dn
    BY <1>9, <1>10, SMT DEF RiseTogether
  <1>13. y1 + q1 + e <= (y + q + b) + df
    BY <1>9, <1>10, <1>11, SMT DEF RiseTogether
  <1>14. z1 + r1 + h <= (z + r + c) + dg
    BY <1>9, <1>10, <1>11, SMT DEF RiseTogether
  <1>15. /\ InFlight = p + a /\ InFlight' = p1 + d
         /\ Committed = y + q + b /\ Committed' = y1 + q1 + e
         /\ CommittedByRules = z + r + c /\ CommittedByRules' = z1 + r1 + h
    BY <1>3, <1>4, <1>5, <1>6, <1>7, <1>8 DEF InFlight, Committed, CommittedByRules
  <1>16. QED
    BY <1>12, <1>13, <1>14, <1>15 DEF Grows

\* The limits are kept when a loop-in is dispatched.
LEMMA DispatchInLimits ==
    ASSUME Laws, TypeOK, TypeOK', Flow, Limits, DispatchIn
    PROVE  Limits'
  <1> DEFINE s == Head(inSwaps)
             x == Started(s, FALSE)
  <1>1. /\ inSwaps # <<>> /\ inSwaps' = Tail(inSwaps) /\ UNCHANGED outSwaps
        /\ outSwaps = <<>> /\ loop' = loop /\ spent' = spent /\ inSwaps \in Seq(Suggestion)
    BY DEF DispatchIn, loopVars, TypeOK
  <1>2. s \in Suggestion
    BY <1>1, HeadAndTail
  <1>3. PICK a \in Nat, b \in Nat : a = spent.planned /\ b = spent.rules
    BY DEF TypeOK
  <1>4. s = IF outSwaps # <<>> /\ outSwaps' = Tail(outSwaps) /\ UNCHANGED inSwaps
            THEN Head(outSwaps) ELSE Head(inSwaps)
    BY <1>1
  <1> HIDE DEF s
  <1>5. CASE MayDispatch(s)
    <2>1. Start(s, FALSE)
      BY <1>5 DEF DispatchIn, s
    <2>2. /\ made' \in Swaps /\ swap[made'] = NoSwap
          /\ x \in SwapType /\ Changed(swap, swap', made', x)
      BY <1>2, <2>1, StartChanges
    <2>3. SwapIs(NoSwap, 0, 0, 0) /\ SwapIs(x, AddsSwaps(s), AddsFee(s), AddsRulesFee(s))
      BY <1>2, StartedWeights
    <2> HIDE DEF x
    <2>4. PICK n \in Nat, f \in Nat, g \in Nat :
              n = AddsSwaps(s) /\ f = AddsFee(s) /\ g = AddsRulesFee(s)
      BY <1>2, AddsType
    <2>5. SwapIs(swap[made'], 0, 0, 0) /\ SwapIs(x, n, f, g)
      BY <2>2, <2>3, <2>4
    <2>6. LoopsMove(0, 0, 0, 0, 0, 0)
      BY <1>1 DEF LoopsMove
    <2>7. /\ 0 \in Nat /\ a <= a + 0 /\ b <= b + 0
          /\ RiseTogether(0, 0, 0, n, f, g, 0, 0, 0, 0, 0, 0, 0, 0, n, f, g)
      BY SMT DEF RiseTogether
    <2>8. SpentBy(0, 0)
      BY <1>1, <1>3, <2>7 DEF SpentBy
    <2>9. Grows(n, f, g)
      BY <2>2, <2>5, <2>6, <2>7, <2>8, SwapGrows
    <2>10. QED
      BY <1>1, <1>4, <2>4, <2>9, HeadLimits
  <1>6. CASE ~MayDispatch(s)
    <2>1. swap' = swap
      BY <1>6 DEF DispatchIn, s
    <2>2. Grows(0, 0, 0)
      <3>1. a <= a /\ b <= b
        BY SMT
      <3>2. QED
        BY <1>1, <1>3, <2>1, <3>1, NothingGrows
    <2>3. QED
      BY <1>1, <1>4, <2>2, HeadLimits
  <1>7. QED
    BY <1>5, <1>6

\* What a sticky loop-out stands for are naturals.
LEMMA LoopStandsFor ==
    ASSUME NEW x \in LoopType \cup {NoLoop}
    PROVE  \E n \in Nat, f \in Nat, g \in Nat : LoopIs(x, n, f, g)
  <1>1. 0 \in Nat
    BY SMT
  <1>2. CASE x.st \in {"spawned", "dispatching"} /\ x.tries = 0
    <2>1. x.out \in Suggestion
      BY <1>2, LoopFields
    <2>2. QED
      BY <1>2, <2>1, LoopWeights, AddsType
  <1>3. CASE ~(x.st \in {"spawned", "dispatching"} /\ x.tries = 0)
    BY <1>1, <1>3, LoopWeights
  <1>4. QED
    BY <1>2, <1>3

\* The commitments do not grow when a sticky loop-out ends or goes on.
LEMMA StickyMoves ==
    ASSUME Laws, TypeOK, TypeOK', NEW l \in Loops, NEW x \in LoopType \cup {NoLoop},
           Changed(loop, loop', l, x), UNCHANGED <<swap, spent>>,
           \/ x = NoLoop
           \/ loop[l].st = "spawned" /\ x = Dispatching(loop[l])
           \/ loop[l].st = "waiting" /\ x = Dispatching(loop[l])
    PROVE  Grows(0, 0, 0)
  <1>1. loop[l] \in LoopType \cup {NoLoop}
    BY DEF TypeOK
  <1>2. PICK n \in Nat, f \in Nat, g \in Nat : LoopIs(loop[l], n, f, g)
    BY <1>1, LoopStandsFor
  <1>3. /\ 0 \in Nat /\ Rises(n, f, g, 0, 0, 0, 0, 0, 0)
        /\ Rises(n, f, g, n, f, g, 0, 0, 0)
    BY SMT DEF Rises
  <1>4. ASSUME LoopIs(x, 0, 0, 0) PROVE Grows(0, 0, 0)
    BY <1>2, <1>3, <1>4, LoopGrows
  <1>5. CASE x = NoLoop
    <2>1. NoLoop.st = "none"
      BY SMT DEF NoLoop
    <2>2. LoopIs(x, 0, 0, 0)
      BY <1>5, <2>1, LoopWeights
    <2>3. QED
      BY <1>4, <2>2
  <1>6. x = Dispatching(loop[l]) =>
            x.st = "dispatching" /\ x.tries = loop[l].tries /\ x.out = loop[l].out
    BY SMT DEF Dispatching
  <1>7. CASE loop[l].st = "spawned" /\ x = Dispatching(loop[l])
    <2>1. LoopIs(x, n, f, g)
      <3>1. CASE loop[l].tries = 0
        <4>1. LoopIs(loop[l], AddsSwaps(x.out), AddsFee(x.out), AddsRulesFee(x.out))
          BY <1>1, <1>6, <1>7, <3>1, LoopWeights
        <4>2. LoopIs(x, AddsSwaps(x.out), AddsFee(x.out), AddsRulesFee(x.out))
          BY <1>6, <1>7, <3>1, LoopWeights
        <4>3. QED
          BY <1>2, <4>1, <4>2 DEF LoopIs
      <3>2. CASE loop[l].tries # 0
        <4>1. LoopIs(loop[l], 0, 0, 0)
          BY <1>1, <3>2, LoopWeights
        <4>2. LoopIs(x, 0, 0, 0)
          BY <1>6, <1>7, <3>2, LoopWeights
        <4>3. QED
          BY <1>2, <4>1, <4>2 DEF LoopIs
      <3>3. QED
        BY <3>1, <3>2
    <2>2. QED
      BY <1>2, <1>3, <2>1, LoopGrows
  <1>8. CASE loop[l].st = "waiting" /\ x = Dispatching(loop[l])
    <2>1. loop[l].tries \in 1..RetryCount
      BY <1>1, <1>8, LoopFields
    <2>2. x.tries # 0
      BY <1>6, <1>8, <2>1, BoundsAssumption, SMT
    <2>3. LoopIs(x, 0, 0, 0)
      BY <2>2, LoopWeights
    <2>4. QED
      BY <1>4, <2>3
  <1>9. QED
    BY <1>5, <1>7, <1>8

\* The swap that a sticky loop-out starts stands for what the sticky loop-out did.
LEMMA StickyStartMoves ==
    ASSUME Laws, TypeOK, TypeOK', Flow, NEW l \in Loops, NEW x \in LoopType \cup {NoLoop},
           Changed(loop, loop', l, x), UNCHANGED spent,
           loop[l].st = "dispatching", x = Waiting(loop[l], made'),
           NEW retry \in BOOLEAN, retry <=> loop[l].tries > 0, Start(loop[l].out, retry)
    PROVE  Grows(0, 0, 0)
  <1> DEFINE s == loop[l].out
             y == Started(s, retry)
  <1>1. loop[l] \in LoopType \cup {NoLoop}
    BY DEF TypeOK
  <1>2. s \in Suggestion /\ loop[l].tries \in 0..(RetryCount - 1)
    BY <1>1, LoopFields
  <1>3. retry <=> loop[l].tries # 0
    BY <1>2, BoundsAssumption, SMT
  <1>4. PICK n \in Nat, f \in Nat, g \in Nat : LoopIs(loop[l], n, f, g) /\ SwapIs(y, n, f, g)
    <2>1. CASE retry
      <3>1. LoopIs(loop[l], 0, 0, 0)
        BY <1>1, <1>3, <2>1, LoopWeights
      <3>2. SwapIs(y, 0, 0, 0)
        BY <1>2, <2>1, StartedWeights
      <3>3. 0 \in Nat
        BY SMT
      <3>4. QED
        BY <3>1, <3>2, <3>3
    <2>2. CASE ~retry
      <3>1. LoopIs(loop[l], AddsSwaps(s), AddsFee(s), AddsRulesFee(s))
        BY <1>1, <1>3, <2>2, LoopWeights
      <3>2. SwapIs(y, AddsSwaps(s), AddsFee(s), AddsRulesFee(s))
        BY <1>2, <2>2, StartedWeights
      <3>3. QED
        BY <1>2, <3>1, <3>2, AddsType
    <2>3. QED
      BY <2>1, <2>2
  <1>5. x.st = "waiting"
    BY SMT DEF Waiting
  <1>6. LoopIs(x, 0, 0, 0)
    BY <1>5, LoopWeights
  <1>7. LoopsMove(n, f, g, 0, 0, 0)
    <2>1. /\ Balanced(loop, loop', FreshLoop, LoopFee, loop[l], x)
          /\ Balanced(loop, loop', FreshRulesLoop, LoopFee, loop[l], x)
      BY LoopChange DEF TypeOK
    <2>2. QED
      BY <1>4, <1>6, <2>1 DEF Balanced, LoopIs, LoopsMove
  <1>8. /\ made' \in Swaps /\ swap[made'] = NoSwap
        /\ y \in SwapType /\ Changed(swap, swap', made', y) /\ SwapIs(NoSwap, 0, 0, 0)
    BY <1>2, StartChanges, StartedWeights
  <1> HIDE DEF y, s
  <1>9. PICK a \in Nat, b \in Nat : a = spent.planned /\ b = spent.rules
    BY DEF TypeOK
  <1>10. /\ 0 \in Nat /\ a <= a + 0 /\ b <= b + 0
         /\ RiseTogether(0, 0, 0, n, f, g, n, f, g, 0, 0, 0, 0, 0, 0, 0, 0)
    BY SMT DEF RiseTogether
  <1>11. SpentBy(0, 0)
    BY <1>9, <1>10 DEF SpentBy
  <1>12. SwapIs(swap[made'], 0, 0, 0)
    BY <1>8
  <1>13. QED
    BY <1>4, <1>7, <1>8, <1>10, <1>11, <1>12, SwapGrows

\* What a pending swap stands for.
LEMMA SwapStandsFor ==
    ASSUME TypeOK, NEW i \in Pending
    PROVE  /\ PlannedFee(i) \in Nat /\ RulesFee(i) \in Nat /\ One(swap[i], PlannedSwap) \in Nat
           /\ SwapIs(swap[i], One(swap[i], PlannedSwap), PlannedFee(i), RulesFee(i))
           /\ SwapIs(Paid(swap[i]), One(swap[i], PlannedSwap), PlannedFee(i), RulesFee(i))
  <1> DEFINE x == swap[i]
  <1>1. x # NoSwap /\ x \in SwapType \cup {NoSwap} /\ i \in Swaps
    BY DEF Pending, TypeOK
  <1>2. x \in SwapType /\ x.fee \in Nat
    BY <1>1, SwapFields, FeesAssumption
  <1>3. (i \in Planned <=> x \in PlannedSwap) /\ (i \in ByRules <=> x \in RulesSwap)
    BY <1>1, <1>2 DEF Planned, ByRules, Automatic, PlannedSwap, RulesSwap, Counted
  <1>4. SwapFee[x] = x.fee
    BY <1>2, Weights
  <1>5. 0 \in Nat /\ 1 \in Nat
    BY SMT
  <1>6. /\ PlannedFee(i) = IF x \in PlannedSwap THEN x.fee ELSE 0
        /\ RulesFee(i) = IF x \in RulesSwap THEN x.fee ELSE 0
    BY <1>3 DEF PlannedFee, RulesFee
  <1> HIDE DEF x
  <1>7. SwapIs(x, One(x, PlannedSwap), PlannedFee(i), RulesFee(i))
    BY <1>4, <1>6 DEF SwapIs, Cost
  <1>8. /\ Paid(x).labelled = x.labelled /\ Paid(x).raced = x.raced /\ Paid(x).retry = x.retry
        /\ Paid(x).easy = x.easy /\ Paid(x).fee = x.fee
    BY SMT DEF Paid
  <1>9. Paid(x) \in SwapType
    BY <1>2 DEF Paid, SwapType
  <1>10. (Paid(x) \in PlannedSwap <=> x \in PlannedSwap) /\ (Paid(x) \in RulesSwap <=> x \in RulesSwap)
    BY <1>2, <1>8, <1>9 DEF PlannedSwap, RulesSwap, Counted
  <1>11. SwapFee[Paid(x)] = x.fee
    BY <1>8, <1>9, Weights
  <1>12. SwapIs(Paid(x), One(x, PlannedSwap), PlannedFee(i), RulesFee(i))
    BY <1>6, <1>10, <1>11 DEF SwapIs, Cost, One
  <1>13. PlannedFee(i) \in Nat /\ RulesFee(i) \in Nat /\ One(x, PlannedSwap) \in Nat
    BY <1>2, <1>5, <1>6 DEF One
  <1>14. QED
    BY <1>7, <1>12, <1>13 DEF x

\* The same values of w and of v are in P.
Alike(w, v, P, n) ==
    /\ DOMAIN w = 1..n /\ DOMAIN v = 1..n
    /\ \A k \in 1..n : (v[k] \in P <=> w[k] \in P) /\ (v[k] \in P => v[k] = w[k])
\* w and v have as many values in P, at the same cost.
Equivalent(w, v, P, F) == Tally(v, P) = Tally(w, P) /\ Costs(v, P, F) = Costs(w, P, F)

\* Values that stand for the same are as many and cost as much.
LEMMA NoneChanges ==
    ASSUME NEW n \in Nat, NEW P, NEW F, NEW w, NEW v, Alike(w, v, P, n)
    PROVE  Equivalent(w, v, P, F)
  <1> USE DEF Alike
  <1>1. {k \in DOMAIN v : v[k] \in P} = {k \in DOMAIN w : w[k] \in P}
    OBVIOUS
  <1>2. \A k \in 1..n : Cost(v[k], P, F) = Cost(w[k], P, F)
    BY DEF Cost
  <1>3. [k \in DOMAIN v |-> Cost(v[k], P, F)] = [k \in DOMAIN w |-> Cost(w[k], P, F)]
    BY <1>2
  <1>4. QED
    BY <1>1, <1>3 DEF Tally, Costs, Equivalent

\* A sticky loop-out that sees an update is past its first swap.
LEMMA SeenMoves ==
    ASSUME TypeOK, TypeOK', NEW i \in Swaps, NEW st \in {"failedPayment", "other"}, Seen(i, st)
    PROVE  LoopsMove(0, 0, 0, 0, 0, 0)
  <1>1. MaxLoops \in Nat /\ DOMAIN loop = 1..MaxLoops /\ DOMAIN loop' = 1..MaxLoops
    BY BoundsAssumption DEF TypeOK, Loops
  <1>2. \A l \in 1..MaxLoops : loop'[l].st = loop[l].st /\ (loop[l].st # "waiting" => loop'[l] = loop[l])
    BY SeenType DEF Loops
  <1>3. \A x \in FreshLoop : x.st # "waiting"
    BY DEF FreshLoop
  <1>4. FreshRulesLoop \subseteq FreshLoop
    BY Weights
  <1>5. \A l \in 1..MaxLoops : (loop'[l] \in FreshLoop <=> loop[l] \in FreshLoop)
            /\ (loop'[l] \in FreshLoop => loop'[l] = loop[l])
    BY <1>2, <1>3
  <1>6. \A l \in 1..MaxLoops : (loop'[l] \in FreshRulesLoop <=> loop[l] \in FreshRulesLoop)
            /\ (loop'[l] \in FreshRulesLoop => loop'[l] = loop[l])
    BY <1>4, <1>5
  <1>7. /\ Alike(loop, loop', FreshLoop, MaxLoops)
        /\ Alike(loop, loop', FreshRulesLoop, MaxLoops)
    BY <1>1, <1>5, <1>6 DEF Alike
  <1>8. /\ Equivalent(loop, loop', FreshLoop, LoopFee)
        /\ Equivalent(loop, loop', FreshRulesLoop, LoopFee)
    BY <1>1, <1>7, NoneChanges
  <1>9. QED
    BY <1>8 DEF LoopsMove, Equivalent

\* The commitments do not grow when a swap goes on or is done.
LEMMA SwapStepMoves ==
    ASSUME Laws, TypeOK, TypeOK', Flow, NEW i \in Swaps, SwapStep(i)
    PROVE  Grows(0, 0, 0)
  <1>1. i \in Pending
    BY SwapSteps DEF SwapStep
  <1>2. PICK x \in SwapType \cup {NoSwap}, st \in {"failedPayment", "other"} :
                /\ swap' = [swap EXCEPT ![i] = x] /\ Seen(i, st)
                /\ \/ x = Paid(swap[i]) /\ UNCHANGED spent
                   \/ x = NoSwap /\ Ended(i, st)
    BY SwapSteps DEF SwapStep
  <1>3. Changed(swap, swap', i, x)
    BY <1>2 DEF Changed
  <1>4. LoopsMove(0, 0, 0, 0, 0, 0)
    BY <1>2, SeenMoves
  <1>5. PICK n \in Nat, f \in Nat, g \in Nat :
            /\ f = PlannedFee(i) /\ g = RulesFee(i)
            /\ SwapIs(swap[i], n, f, g) /\ SwapIs(Paid(swap[i]), n, f, g)
    BY <1>1, SwapStandsFor
  <1>6. 0 \in Nat
    BY SMT
  <1>7. CASE x = Paid(swap[i]) /\ UNCHANGED spent
    <2>1. SwapIs(x, n, f, g)
      BY <1>5, <1>7
    <2>2. RiseTogether(n, f, g, n, f, g, 0, 0, 0, 0, 0, 0, 0, 0, 0, 0, 0)
      BY SMT DEF RiseTogether
    <2>3. PICK a \in Nat, b \in Nat : a = spent.planned /\ b = spent.rules
      BY DEF TypeOK
    <2>4. a <= a + 0 /\ b <= b + 0
      BY SMT
    <2>5. SpentBy(0, 0)
      BY <1>7, <2>3, <2>4 DEF SpentBy
    <2>6. QED
      BY <1>3, <1>4, <1>5, <1>6, <2>1, <2>2, <2>5, SwapGrows
  <1>8. CASE x = NoSwap /\ Ended(i, st)
    <2>1. SwapIs(x, 0, 0, 0)
      <3>1. NoSwap \notin PlannedSwap /\ NoSwap \notin RulesSwap
        BY Weights
      <3>2. QED
        BY <1>8, <3>1 DEF SwapIs, One, Cost
    <2>2. SpentBy(f, g)
      BY <1>1, <1>5, <1>8, SpendEffect DEF Ended, SpentBy
    <2>3. RiseTogether(n, f, g, 0, 0, 0, 0, 0, 0, 0, 0, 0, f, g, 0, 0, 0)
      BY SMT DEF RiseTogether
    <2>4. QED
      BY <1>3, <1>4, <1>5, <1>6, <2>1, <2>2, <2>3, SwapGrows
  <1>9. QED
    BY <1>2, <1>7, <1>8

\* No values cost nothing.
LEMMA NoneCounts ==
    ASSUME Laws, NEW n \in Nat, NEW P, NEW F, NEW w, DOMAIN w = 1..n, \A k \in 1..n : w[k] \notin P
    PROVE  Tally(w, P) = 0 /\ Costs(w, P, F) = 0
  <1> DEFINE a == [k \in DOMAIN w |-> Cost(w[k], P, F)]
  <1>1. {k \in DOMAIN w : w[k] \in P} = {} /\ \A k \in 1..n : a[k] = 0
    BY DEF Cost
  <1>2. a \in Seq(Nat) /\ Len(a) = n
    <2>1. a = [k \in 1..n |-> a[k]]
      OBVIOUS
    <2> HIDE DEF a
    <2>2. a \in [1..n -> Nat]
      BY <1>1, <2>1, SMT
    <2>3. QED
      BY <2>2, RangeIsSequence
  <1>3. Costs(w, P, F) = Total(a)
    BY DEF Costs
  <1> HIDE DEF a
  <1>4. Total(a) = 0
    BY <1>1, <1>2, TotalZero, SMT
  <1>5. QED
    BY <1>1, <1>3, <1>4, EmptyCount DEF Tally

\* The numbers and costs of the planned swaps, as the model states them.
LEMMA PlannedNumbers ==
    ASSUME Laws, TypeOK
    PROVE  /\ Tally(swap, PlannedSwap) = Cardinality(Planned)
           /\ Costs(swap, PlannedSwap, SwapFee) = PendingFees(Planned)
           /\ Costs(swap, RulesSwap, SwapFee) = PendingFees(ByRules)
  <1>1. DOMAIN swap = Swaps /\ Planned \subseteq Pending /\ ByRules \subseteq Pending
        /\ Pending \subseteq Swaps
    BY SummaryType DEF TypeOK, Pending
  <1>2. ASSUME NEW i \in Swaps
        PROVE  /\ swap[i] \in PlannedSwap <=> i \in Planned
               /\ swap[i] \in RulesSwap <=> i \in ByRules
               /\ i \in Pending => SwapFee[swap[i]] = swap[i].fee
    <2>1. CASE i \in Pending
      <3>1. swap[i] \in SwapType
        BY <2>1 DEF TypeOK, Pending
      <3>2. QED
        BY <2>1, <3>1, Weights
            DEF Planned, ByRules, Automatic, PlannedSwap, RulesSwap, Counted
    <2>2. CASE i \notin Pending
      <3>1. swap[i] = NoSwap
        BY <2>2 DEF Pending
      <3>2. QED
        BY <1>1, <2>2, <3>1, Weights
    <2>3. QED
      BY <2>1, <2>2
  <1>3. {k \in DOMAIN swap : swap[k] \in PlannedSwap} = Planned
    BY <1>1, <1>2
  <1>4. \A i \in Swaps :
            /\ Cost(swap[i], PlannedSwap, SwapFee) = IF i \in Planned THEN swap[i].fee ELSE 0
            /\ Cost(swap[i], RulesSwap, SwapFee) = IF i \in ByRules THEN swap[i].fee ELSE 0
    BY <1>1, <1>2 DEF Cost
  <1>5. [k \in DOMAIN swap |-> Cost(swap[k], PlannedSwap, SwapFee)]
            = [i \in Swaps |-> IF i \in Planned THEN swap[i].fee ELSE 0]
    BY <1>1, <1>4
  <1>6. [k \in DOMAIN swap |-> Cost(swap[k], RulesSwap, SwapFee)]
            = [i \in Swaps |-> IF i \in ByRules THEN swap[i].fee ELSE 0]
    BY <1>1, <1>4
  <1>7. QED
    BY <1>3, <1>5, <1>6 DEF Tally, Costs, PendingFees

\* Swaps of a larger set may cost more.
LEMMA PendingFeesMonotonic ==
    ASSUME Laws, TypeOK, NEW T \in SUBSET Pending, NEW S \in SUBSET T
    PROVE  PendingFees(S) <= PendingFees(T)
  <1>1. /\ FeeIn(S) \in [1..MaxSwaps -> Nat] /\ PendingFees(S) = Total(FeeIn(S))
        /\ FeeIn(T) \in [1..MaxSwaps -> Nat] /\ PendingFees(T) = Total(FeeIn(T))
    <2>1. S \in SUBSET Pending
      OBVIOUS
    <2>2. QED
      BY <2>1, PendingFeesType
  <1>2. ASSUME NEW k \in 1..MaxSwaps PROVE FeeIn(S)[k] <= FeeIn(T)[k]
    <2>1. PICK a \in Nat, b \in Nat : a = FeeIn(S)[k] /\ b = FeeIn(T)[k]
      BY <1>1
    <2>2. FeeIn(S)[k] = 0 \/ FeeIn(S)[k] = FeeIn(T)[k]
      BY DEF FeeIn, Swaps
    <2>3. a = 0 \/ a = b
      BY <2>1, <2>2
    <2>4. a <= b
      BY <2>3, SMT
    <2>5. QED
      BY <2>1, <2>4
  <1>3. MaxSwaps \in Nat
    BY BoundsAssumption
  <1>4. QED
    BY <1>1, <1>2, <1>3, TotalMonotonic

\* When no sticky loop-out has yet to store its first swap, the planners see all
\* commitments.
LEMMA CommitmentsSeen ==
    ASSUME Laws, TypeOK, Flow, ~Raced
    PROVE  /\ InFlight <= InFlightCount /\ Committed <= TotalFees
           /\ CommittedByRules <= TotalFees
  <1>1. \A l \in 1..MaxLoops : loop[l] \notin FreshLoop /\ loop[l] \notin FreshRulesLoop
    BY DEF Raced, Loops, FreshLoop, FreshRulesLoop
  <1>2. MaxLoops \in Nat /\ DOMAIN loop = 1..MaxLoops
    BY BoundsAssumption DEF TypeOK, Loops
  <1>3. Tally(loop, FreshLoop) = 0 /\ Costs(loop, FreshLoop, LoopFee) = 0
    BY <1>1, <1>2, NoneCounts
  <1>4. Costs(loop, FreshRulesLoop, LoopFee) = 0
    BY <1>1, <1>2, NoneCounts
  <1>5. /\ Automatic \in SUBSET Pending /\ Planned \in SUBSET Automatic
        /\ ByRules \in SUBSET Automatic /\ IsFiniteSet(Automatic)
        /\ Planned \in SUBSET Pending /\ ByRules \in SUBSET Pending
    BY SummaryType, FiniteSubset
  <1>6. PICK a \in Nat, c \in Nat : a = Cardinality(Planned) /\ c = InFlightCount /\ a <= c
    BY <1>5, FiniteSubset, CountType DEF InFlightCount
  <1>7. PICK p \in Nat, q \in Nat, r \in Nat :
            p = PendingFees(Planned) /\ q = PendingFees(ByRules) /\ r = PendingFees(Automatic)
    BY <1>5, PendingFeesType
  <1>8. p <= r /\ q <= r
    BY <1>5, <1>7, PendingFeesMonotonic
  <1>9. PICK x \in Nat, y \in Nat, z \in Nat :
            x = spent.all /\ y = spent.planned /\ z = spent.rules
    BY DEF TypeOK
  <1>10. z <= y /\ y <= x
    BY <1>9 DEF Flow
  <1>11. InFlight = a + 0 /\ Committed = y + p + 0 /\ CommittedByRules = z + q + 0
         /\ TotalFees = x + r
    BY <1>3, <1>4, <1>6, <1>7, <1>9, PlannedNumbers
        DEF InFlight, Committed, CommittedByRules, TotalFees
  <1>12. a + 0 <= c /\ y + p + 0 <= x + r /\ z + q + 0 <= x + r
    BY <1>6, <1>8, <1>10, SMT
  <1>13. QED
    BY <1>6, <1>11, <1>12

\* A plan is made within the limits.
LEMMA PlanningLimits ==
    ASSUME Laws, TypeOK, TypeOK', Flow, Limits, Planning
    PROVE  Limits'
  <1>1. PlanMade
    BY RulesPlan, EasyPlan DEF Planning, Flow
  <1>2. PICK n \in Nat, f \in Nat, g \in Nat :
            n = InFlight /\ f = Committed /\ g = CommittedByRules
    BY CommitmentsType
  <1>3. n = InFlight' /\ f = Committed' /\ g = CommittedByRules'
    BY <1>2 DEF Planning, loopVars, swapVars, InFlight, Committed, CommittedByRules
  <1>4. MaxAutoInFlight \in Nat /\ AutoFeeBudget \in Nat /\ MaxFee \in Nat
    BY FeesAssumption, MaxFeeType
  <1>5. n <= MaxAutoInFlight /\ f < AutoFeeBudget + MaxFee /\ g <= AutoFeeBudget
    BY <1>2 DEF Limits, Limited
  <1>6. PICK a \in Nat, b \in Nat, c \in Nat, d \in Nat :
            a = Len(outSwaps') /\ b = Len(inSwaps')
            /\ c = PlanFees(outSwaps') /\ d = PlanFees(inSwaps')
    <2>1. outSwaps' \in Seq(Suggestion) /\ inSwaps' \in Seq(Suggestion)
      BY <1>1 DEF PlanMade
    <2>2. Len(outSwaps') \in Nat /\ Len(inSwaps') \in Nat
      BY <2>1, SMT
    <2>3. QED
      BY <2>1, <2>2, PlanFeesType
  <1>7. ASSUME NEW s \in Suggested', Counted(s)
        PROVE  /\ n + (a + b) <= MaxAutoInFlight
               /\ f + (c + d) < AutoFeeBudget + MaxFee
               /\ ~s.easy => g + (c + d) <= AutoFeeBudget
    <2>1. ~Raced
      BY <1>1, <1>7 DEF PlanMade, Counted
    <2>2. PICK e \in Nat, h \in Nat : e = InFlightCount /\ h = TotalFees
      BY SummaryType
    <2>3. n <= e /\ f <= h /\ g <= h
      BY <1>2, <2>1, <2>2, CommitmentsSeen
    <2>4. e + a + b <= MaxAutoInFlight /\ h + c + d < AutoFeeBudget + MaxFee
      BY <1>1, <1>6, <2>2 DEF PlanMade
    <2>5. ~s.easy => h + c + d <= AutoFeeBudget
      BY <1>1, <1>6, <1>7, <2>2 DEF PlanMade
    <2>6. n + (a + b) <= MaxAutoInFlight /\ f + (c + d) < AutoFeeBudget + MaxFee
      BY <1>4, <2>3, <2>4, SMT
    <2>7. h + c + d <= AutoFeeBudget => g + (c + d) <= AutoFeeBudget
      BY <1>4, <2>3, SMT
    <2>8. QED
      BY <2>5, <2>6, <2>7
  <1>8. Limited(n, f, g, a + b, c + d, Suggested')
    BY <1>5, <1>7 DEF Limited
  <1>9. Size(outSwaps', inSwaps') = a + b /\ Price(outSwaps', inSwaps') = c + d
    BY <1>6 DEF Size, Price
  <1>10. QED
    BY <1>3, <1>8, <1>9 DEF Limits

\* A restart forgets the sticky loop-outs, and nothing else that is committed.
LEMMA RestartMoves ==
    ASSUME Laws, TypeOK, Restart
    PROVE  Grows(0, 0, 0)
  <1>1. swap' = swap /\ spent' = spent /\ loop' = [l \in Loops |-> NoLoop]
    BY DEF Restart, swapVars
  <1>2. MaxLoops \in Nat /\ DOMAIN loop' = 1..MaxLoops
        /\ \A l \in 1..MaxLoops : loop'[l] \notin FreshLoop /\ loop'[l] \notin FreshRulesLoop
    BY <1>1, BoundsAssumption, Weights DEF Loops
  <1>3. Tally(loop', FreshLoop) = 0 /\ Costs(loop', FreshLoop, LoopFee) = 0
    BY <1>2, NoneCounts
  <1>4. Costs(loop', FreshRulesLoop, LoopFee) = 0
    BY <1>2, NoneCounts
  <1>5. PICK a \in Nat, b \in Nat, c \in Nat :
            /\ a = Tally(loop, FreshLoop) /\ b = Costs(loop, FreshLoop, LoopFee)
            /\ c = Costs(loop, FreshRulesLoop, LoopFee)
    BY LoopNumbers DEF TypeOK
  <1>6. PICK p \in Nat, q \in Nat, r \in Nat :
            /\ p = Tally(swap, PlannedSwap) /\ q = Costs(swap, PlannedSwap, SwapFee)
            /\ r = Costs(swap, RulesSwap, SwapFee)
    BY SwapNumbers DEF TypeOK
  <1>7. PICK y \in Nat, z \in Nat : y = spent.planned /\ z = spent.rules
    BY DEF TypeOK
  <1>8. p + 0 <= (p + a) + 0 /\ y + q + 0 <= (y + q + b) + 0 /\ z + r + 0 <= (z + r + c) + 0
    BY SMT
  <1>9. /\ InFlight = p + a /\ InFlight' = p + 0
        /\ Committed = y + q + b /\ Committed' = y + q + 0
        /\ CommittedByRules = z + r + c /\ CommittedByRules' = z + r + 0
    BY <1>1, <1>3, <1>4, <1>5, <1>6, <1>7 DEF InFlight, Committed, CommittedByRules
  <1>10. QED
    BY <1>8, <1>9 DEF Grows

\* The limits are kept by every step.
LEMMA LimitsStep ==
    ASSUME Laws, TypeOK, TypeOK', Flow, Limits, [Next]_vars
    PROVE  Limits'
  <1>1. PICK a \in Nat, b \in Nat : a = spent.planned /\ b = spent.rules
    BY DEF TypeOK
  <1>2. a <= a /\ b <= b /\ 0 \in Nat /\ 0 <= a /\ 0 <= b
    BY SMT
  <1>3. ASSUME UNCHANGED <<swap, loop, spent>>,
               \/ UNCHANGED <<outSwaps, inSwaps>>
               \/ outSwaps' = <<>> /\ inSwaps' = <<>>
        PROVE  Limits'
    BY <1>1, <1>2, <1>3, NothingGrows, CalmLimits
  <1>4. CASE Quiet \/ Tick \/ \E f \in failed : BackoffElapses(f)
    BY <1>3, <1>4, StepFrame DEF Quiet, runVars, loopVars, swapVars
  <1>5. CASE Leaving
    BY <1>3, <1>5 DEF Leaving, LeaveStage, loopVars, swapVars
  <1>6. CASE RefreshAutoloopBudget
    <2>1. UNCHANGED <<swap, loop, outSwaps, inSwaps>>
      BY <1>6, StepFrame DEF loopVars
    <2>2. spent' = spent \/ spent' = [all |-> 0, planned |-> 0, rules |-> 0]
      BY <1>6 DEF RefreshAutoloopBudget
    <2>3. spent' = spent \/ (spent'.planned = 0 /\ spent'.rules = 0)
      BY <2>2, SMT
    <2>4. Grows(0, 0, 0)
      BY <1>1, <1>2, <2>1, <2>3, NothingGrows
    <2>5. QED
      BY <2>1, <2>4, CalmLimits
  <1>7. ASSUME NEW l \in Loops, Sticky(l) PROVE Limits'
    <2>1. UNCHANGED <<outSwaps, inSwaps, spent>>
      BY <1>7, StepFrame DEF runVars
    <2>2. PICK x \in LoopType \cup {NoLoop} :
             /\ loop' = [loop EXCEPT ![l] = x]
             /\ \/ /\ UNCHANGED swap
                   /\ \/ x = NoLoop
                      \/ loop[l].st = "spawned" /\ x = Dispatching(loop[l])
                      \/ loop[l].st = "waiting" /\ x = Dispatching(loop[l])
                \/ /\ loop[l].st = "dispatching" /\ x = Waiting(loop[l], made')
                   /\ Start(loop[l].out, loop[l].tries > 0)
      BY <1>7, StickySteps DEF Sticky
    <2>3. Changed(loop, loop', l, x)
      BY <2>2 DEF Changed
    <2>4. CASE UNCHANGED swap /\ \/ x = NoLoop
                                 \/ loop[l].st = "spawned" /\ x = Dispatching(loop[l])
                                 \/ loop[l].st = "waiting" /\ x = Dispatching(loop[l])
      <3>1. Grows(0, 0, 0)
        BY <2>1, <2>3, <2>4, StickyMoves
      <3>2. QED
        BY <2>1, <3>1, CalmLimits
    <2>5. CASE loop[l].st = "dispatching" /\ x = Waiting(loop[l], made')
               /\ Start(loop[l].out, loop[l].tries > 0)
      <3>0. (loop[l].tries > 0) \in BOOLEAN
        BY SMT
      <3>1. PICK retry \in BOOLEAN : retry = (loop[l].tries > 0)
        BY <3>0
      <3>2. Start(loop[l].out, retry)
        BY <2>5, <3>1
      <3>3. Grows(0, 0, 0)
        BY <2>1, <2>3, <2>5, <3>1, <3>2, StickyStartMoves
      <3>4. QED
        BY <2>1, <3>3, CalmLimits
    <2>6. QED
      BY <2>2, <2>4, <2>5
  <1>8. ASSUME NEW i \in Swaps, SwapStep(i) PROVE Limits'
    <2>1. UNCHANGED <<outSwaps, inSwaps>>
      BY <1>8, StepFrame DEF runVars
    <2>2. QED
      BY <1>8, <2>1, SwapStepMoves, CalmLimits
  <1>9. CASE Restart
    <2>1. outSwaps' = <<>> /\ inSwaps' = <<>>
      BY <1>9 DEF Restart
    <2>2. QED
      BY <1>9, <2>1, RestartMoves, CalmLimits
  <1>10. QED
    BY <1>4, <1>5, <1>6, <1>7, <1>8, <1>9, StepCases, PlanningLimits, DispatchOutLimits,
       DispatchInLimits

-----------------------------------------------------------------------------
(* The invariant *)

\* The inductive invariant of the autoloop manager.
AutoloopInv ==
    /\ TypeOK /\ Flow /\ Counting
    /\ Limits
    /\ Visited /\ Waits /\ Exclusive

\* Run starts with no swap, no suggestion and nothing spent.
LEMMA AutoloopInit ==
    ASSUME Laws, Init
    PROVE  AutoloopInv
  <1>1. /\ stage = "none" /\ step = "enter" /\ todo = {} /\ outSwaps = <<>> /\ inSwaps = <<>>
        /\ loop = [l \in Loops |-> NoLoop] /\ activeStickyLoops = 0
        /\ swap = [i \in Swaps |-> NoSwap] /\ failed = {} /\ made = 0 /\ events = 0
        /\ db = params /\ params \in [auto : BOOLEAN, easy : BOOLEAN, due : {FALSE}]
    BY DEF Init
  <1>2. spent.all = 0 /\ spent.planned = 0 /\ spent.rules = 0
        /\ spent \in [all : Nat, planned : Nat, rules : Nat]
    BY SMT DEF Init
  <1>3. /\ <<>> \in Seq(Suggestion) /\ Len(<<>>) = 0 /\ 1..0 = {} /\ 0 + 0 = 0 /\ 0 <= 0
        /\ NoLoop.st = "none" /\ NoSwap.st = "none"
    BY SMT DEF NoLoop, NoSwap
  <1>4. \A l \in Loops : ~Bare(l) /\ ~Fresh(l) /\ \A i \in Swaps : ~WaitsFor(l, i)
    BY <1>1, <1>3 DEF Bare, Fresh, WaitsFor
  <1>5. Pending = {} /\ PendingOut = {} /\ Held = {} /\ Sought = {} /\ Listed = {} /\ Active = {}
    BY <1>1, <1>3, <1>4
       DEF Pending, PendingOut, Held, OngoingLoopOut, Sought, Listed, Active
  <1>6. TypeOK
    <2>1. params \in Parameters
      BY <1>1 DEF Parameters
    <2>2. made \in 0..MaxSwaps /\ events \in 0..MaxEvents /\ activeStickyLoops \in Nat
      BY <1>1, BoundsAssumption, SMT
    <2>3. QED
      BY <1>1, <1>2, <1>3, <2>1, <2>2 DEF TypeOK
  <1>7. Flow
    BY <1>1, <1>2, <1>3 DEF Flow
  <1>8. Counting
    <2>1. Cardinality({}) = 0 /\ 0 <= MaxAutoInFlight
      BY EmptyCount, FeesAssumption, SMT
    <2>2. QED
      BY <1>1, <1>5, <2>1 DEF Counting
  <1>9. Visited /\ Waits
    BY <1>1, <1>3, <1>4 DEF Visited, Waits
  <1>10. Exclusive
    BY <1>1, <1>3, <1>4, <1>5 DEF Exclusive, Distinct, Apart
  <1>11. Limits
    <2>1. /\ MaxLoops \in Nat /\ DOMAIN loop = 1..MaxLoops
          /\ \A l \in 1..MaxLoops : loop[l] \notin FreshLoop /\ loop[l] \notin FreshRulesLoop
      BY <1>1, BoundsAssumption, Weights DEF Loops
    <2>2. /\ MaxSwaps \in Nat /\ DOMAIN swap = 1..MaxSwaps
          /\ \A i \in 1..MaxSwaps : swap[i] \notin PlannedSwap /\ swap[i] \notin RulesSwap
      BY <1>1, BoundsAssumption, Weights DEF Swaps
    <2>3. /\ Tally(loop, FreshLoop) = 0 /\ Costs(loop, FreshLoop, LoopFee) = 0
          /\ Costs(loop, FreshRulesLoop, LoopFee) = 0
      BY <2>1, NoneCounts
    <2>4. /\ Tally(swap, PlannedSwap) = 0 /\ Costs(swap, PlannedSwap, SwapFee) = 0
          /\ Costs(swap, RulesSwap, SwapFee) = 0
      BY <2>2, NoneCounts
    <2>5. InFlight = 0 /\ Committed = 0 /\ CommittedByRules = 0
      BY <1>2, <2>3, <2>4, <1>3 DEF InFlight, Committed, CommittedByRules
    <2>6. Suggested = {}
      BY <1>1, <1>3 DEF Suggested
    <2>7. 0 <= MaxAutoInFlight /\ 0 < AutoFeeBudget + MaxFee /\ 0 <= AutoFeeBudget
      BY MaxFeeType, FeesAssumption, SMT
    <2>8. QED
      BY <2>5, <2>6, <2>7 DEF Limits, Limited
  <1>12. QED
    BY <1>6, <1>7, <1>8, <1>9, <1>10, <1>11 DEF AutoloopInv

\* Every step keeps the inductive invariant.
LEMMA AutoloopStep ==
    ASSUME Laws, AutoloopInv, [Next]_vars
    PROVE  AutoloopInv'
  <1>1. TypeOK /\ Flow /\ Counting /\ Limits /\ Visited /\ Waits /\ Exclusive
    BY DEF AutoloopInv
  <1>2. TypeOK'
    BY <1>1, AutoloopTypeStep
  <1>3. Flow' /\ Counting'
    BY <1>1, FlowStep, CountingStep
  <1>4. Limits'
    BY <1>1, <1>2, LimitsStep
  <1>5. Visited' /\ Waits'
    BY <1>1, VisitedStep, WaitsStep
  <1>6. Exclusive'
    BY <1>1, ExclusiveStep
  <1>7. QED
    BY <1>2, <1>3, <1>4, <1>5, <1>6 DEF AutoloopInv

\* The invariant implies the limits: what the loops that have not swapped yet will
\* commit to only adds to what their swaps have committed to.
LEMMA InvariantKeepsLimits ==
    ASSUME Laws, AutoloopInv
    PROVE  LimitsKept
  <1>1. TypeOK /\ Limits
    BY DEF AutoloopInv
  <1>2. PICK n \in Nat, f \in Nat, g \in Nat, m \in Nat, e \in Nat, h \in Nat :
            /\ n = Tally(swap, PlannedSwap) /\ m = Tally(loop, FreshLoop)
            /\ f = Costs(swap, PlannedSwap, SwapFee) /\ e = Costs(loop, FreshLoop, LoopFee)
            /\ g = Costs(swap, RulesSwap, SwapFee) /\ h = Costs(loop, FreshRulesLoop, LoopFee)
    BY <1>1, SwapNumbers, LoopNumbers DEF TypeOK
  <1>3. PICK a \in Nat, b \in Nat : a = spent.planned /\ b = spent.rules
    BY <1>1 DEF TypeOK
  <1>4. /\ n + m <= MaxAutoInFlight /\ a + f + e < AutoFeeBudget + MaxFee
        /\ b + g + h <= AutoFeeBudget
    BY <1>1, <1>2, <1>3
       DEF Limits, Limited, InFlight, Committed, CommittedByRules
  <1>5. n <= MaxAutoInFlight /\ a + f < AutoFeeBudget + MaxFee /\ b + g <= AutoFeeBudget
    BY <1>4, MaxFeeType, FeesAssumption, SMT
  <1>6. n = Cardinality(Planned) /\ f = PendingFees(Planned) /\ g = PendingFees(ByRules)
    BY <1>1, <1>2, PlannedNumbers
  <1>7. QED
    BY <1>3, <1>5, <1>6 DEF LimitsKept

-----------------------------------------------------------------------------
(* The theorems *)

INSTANCE FiniteSetTheorems

\* Induction, from the fact that every set of naturals has a smallest element.
LEMMA NaturalInduction ==
    ASSUME NEW T \in SUBSET Nat, 0 \in T, \A n \in T : n + 1 \in T
    PROVE  T = Nat
  <1> DEFINE R == OpToRel(<, Nat)
  <1>1. SUFFICES ASSUME Nat \ T # {} PROVE FALSE
    OBVIOUS
  <1>2. IsWellFoundedOn(R, Nat)
    BY NatLessThanWellFounded
  <1>3. PICK x \in Nat \ T : \A y \in Nat \ T : ~(<<y, x>> \in R)
    <2> HIDE DEF R
    <2>1. Nat \ T \subseteq Nat
      BY SMT
    <2>2. QED
      BY <1>1, <1>2, <2>1, WFMin
  <1>4. \A y \in Nat \ T : ~(y < x)
    BY <1>3 DEF OpToRel
  <1> HIDE DEF R
  <1>5. x # 0 /\ x - 1 \in Nat /\ x - 1 < x /\ (x - 1) + 1 = x
    BY SMT
  <1>6. QED
    BY <1>4, <1>5, SMT

\* The hypothesis of the lemmas above holds.
LEMMA LawsHold == Laws
  <1>1. \A T \in SUBSET Nat : 0 \in T /\ (\A n \in T : n + 1 \in T) => T = Nat
    BY NaturalInduction
  <1>2. IsFiniteSet({}) /\ Cardinality({}) = 0
    BY FS_EmptySet
  <1>3. \A a, b \in Int : IsFiniteSet(a..b)
    BY FS_Interval
  <1>4. \A S, T : IsFiniteSet(S) /\ T \in SUBSET S =>
            IsFiniteSet(T) /\ Cardinality(T) <= Cardinality(S)
    BY FS_Subset
  <1>5. \A S : IsFiniteSet(S) => Cardinality(S) \in Nat
    BY FS_CardinalityType
  <1>6. \A S, x : IsFiniteSet(S) =>
            /\ Cardinality(S \cup {x}) = IF x \in S THEN Cardinality(S) ELSE Cardinality(S) + 1
            /\ Cardinality(S \ {x}) = IF x \in S THEN Cardinality(S) - 1 ELSE Cardinality(S)
    BY FS_AddElement, FS_RemoveElement
  <1>7. QED
    BY <1>1, <1>2, <1>3, <1>4, <1>5, <1>6 DEF Laws

\* What the planner of the rules suggests keeps to the budget and to the number of
\* swaps that are left, comes from its candidates and uses every channel once
\* (SuggestSwaps).
THEOREM SuggestionsWithinLimits ==
    ASSUME NEW candidates \in Seq(Suggestion), Distinct(candidates),
           NEW available \in Nat, NEW allowed \in Nat
    PROVE  LET r == SelectSwaps(candidates, available, allowed)
           IN  Within(r.left, r.out, r.in, candidates, Len(candidates), available, allowed)
  BY LawsHold, SelectionWithinLimits

\* The inductive invariant holds in every reachable state.
THEOREM AutoloopInvariant == Spec => []AutoloopInv
  <1>1. Init => AutoloopInv
    BY AutoloopInit, LawsHold, SMT
  <1>2. AutoloopInv /\ [Next]_vars => AutoloopInv'
    BY AutoloopStep, LawsHold, SMT
  <1>3. QED
    BY <1>1, <1>2, PTL DEF Spec

\* activeStickyLoops is the number of the sticky loop-outs under way and stays within
\* MaxAutoInFlight, whichever way each of them returns (dispatchStickyLoopOut).
THEOREM StickyLoopsAreCounted == Spec => []StickyLoopsCounted
  <1>1. AutoloopInv => StickyLoopsCounted
    BY DEF AutoloopInv, Counting, Active, StickyLoopsCounted
  <1>2. QED
    BY <1>1, AutoloopInvariant, PTL

\* The swaps that were planned with every earlier one in sight stay within
\* MaxAutoInFlight, those that the rules suggest within the budget, and all of them
\* within the budget and one swap's fees (checkSummaryInflight, checkSummaryBudget).
THEOREM LimitsAreKept == Spec => []LimitsKept
  <1>1. AutoloopInv => LimitsKept
    BY InvariantKeepsLimits, LawsHold, SMT
  <1>2. QED
    BY <1>1, AutoloopInvariant, PTL

\* No channel carries two automatic loop-outs at the same time, retries of sticky
\* loop-outs included (inUse, dispatchStickyLoopOut).
THEOREM ChannelsAreExclusive == Spec => []ChannelExclusive
  <1>1. AutoloopInv => ChannelExclusive
    BY DEF AutoloopInv, Exclusive, PendingOut, ChannelExclusive
  <1>2. QED
    BY <1>1, AutoloopInvariant, PTL
=============================================================================
