-------------------------- MODULE SweepBatcherProofs --------------------------
(***************************************************************************)
(* For any number of sweeps, batches, stops, failing calls and             *)
(* reorganisations: a running batch holds the sweeps of its rows, a        *)
(* completed sweep is spent for good, the fee of a spend has payers, and a *)
(* sweep that is not spent is held by somebody.                            *)
(*                                                                         *)
(* None of the four is inductive.  That memory and store agree rests on    *)
(* the request in hand: handleSweeps looks for its sweep in all running    *)
(* batches before it places it, and nobody else places sweeps.  The payers *)
(* rest on the primary sweep, which a batch that watches it holds.  That   *)
(* nothing is left dangling rests on both, and on the reorganisation that  *)
(* it takes to undo the spend that a swap was told of.                     *)
(***************************************************************************)
EXTENDS SweepBatcher, FiniteSetTheorems, WellFoundedInduction, TLAPS

\* The rows of sweep_batches are numbered from one, without gaps.
Numbered ==
    \E k \in 0 .. MaxBatches : \A b \in Batches : dbState[b] # "none" <=> b <= k

\* A running batch is known to the batcher and stored as open.  Nothing is left of
\* one that does not run, and nothing there is of one that is not stored.
Stored ==
    \A b \in Batches :
        /\ Running(b) => b \in batches /\ dbState[b] = "open"
        /\ ~Running(b) => sweeps[b] = {} /\ primary[b] = NoSweep /\ confs[b] = {}
        /\ dbState[b] = "none" => state[b] = "none" /\ Rows(b) = {}
        /\ pc = "down" => state[b] = "none"

\* The batch of the request in hand: one that has the sweep, or a new one.
InHand ==
    /\ pc = "readd" => /\ req.batch \in Batches
                       /\ Running(req.batch) => req.sweep \in sweeps[req.batch]
    /\ pc \in {"fill", "refill"} => /\ req.batch \in Batches
                                    /\ Running(req.batch)
                                    /\ primary[req.batch] = NoSweep
                                    /\ sweeps[req.batch] = {}

\* A batch that watches its primary sweep holds it; without one it has no spends.
Primary ==
    \A b \in Batches :
        /\ primary[b] = NoSweep => ~watched[b] /\ spendChan[b] = <<>>
        /\ watched[b] => primary[b] \in sweeps[b]

\* A spend that lnd reports is mined, unless a block was reorganised away.
Reported ==
    \A b \in Batches : \A i \in DOMAIN spendChan[b] :
        spendChan[b][i] \in mined \/ reorged

\* No running batch has the sweep in hand, or only the one that was found first.
Elsewhere ==
    ~damaged =>
        \A b \in Batches :
            Running(b) /\ pc \notin {"idle", "down"} /\ req.sweep \in sweeps[b]
            => pc = "readd" /\ req.batch = b

\* Completed rows name a batch.
Completed ==
    CompletedIsConfirmed /\ \A s \in dbDone : dbBatch[s] \in Batches

\* Damage and reorganisations are faults.
Counted ==
    /\ damaged \/ reorged => faults >= 1
    /\ damaged /\ reorged => faults >= 2

InHands(s) == pc \notin {"idle", "down"} /\ req.sweep = s

InBatch(s) ==
    \E b \in Batches : \/ Running(b) /\ s \in sweeps[b]
                       \/ dbState[b] = "open" /\ s \in Rows(b)

Holding(s) == s \in purging \/ InHands(s) \/ InBatch(s)

SpentForGood(s) == \E t \in deep : s \in t.ins

\* A sweep whose swap was or will be told of its spend is spent, unless that was
\* undone; and it is held or spent for good, unless it takes another fault to undo
\* its spend.
Told ==
    \A s \in told \cup notifying :
        /\ Spent(s) \/ reorged
        /\ \/ Holding(s) \/ SpentForGood(s)
           \/ Spent(s) /\ faults >= 1
           \/ reorged /\ faults > 1

Inv ==
    /\ TypeOK /\ Numbered /\ Stored /\ InHand /\ Primary /\ Reported /\ Elsewhere
    /\ MemoryMatchesStore /\ Completed /\ FeeHasPayers /\ Counted /\ Told

-----------------------------------------------------------------------------
(* Types, by the part of the state that a step changes. *)

LoopTypes ==
    /\ pc \in Pcs
    /\ req \in Requests \cup {NoRequest}
    /\ pc \in {"idle", "down"} <=> req = NoRequest
    /\ batches \subseteq Batches
    /\ purging \subseteq Sweeps
    /\ notifying \subseteq Sweeps

BatchTypes ==
    /\ state \in [Batches -> {"none", "Open", "Closed", "Confirmed"}]
    /\ sweeps \in [Batches -> SUBSET Sweeps]
    /\ primary \in [Batches -> Sweeps \cup {NoSweep}]
    /\ spendChan \in [Batches -> Seq(Txs)]
    /\ confs \in [Batches -> SUBSET Txs]
    /\ hasNotifier \subseteq Sweeps

FlagTypes ==
    /\ paused \in [Batches -> BOOLEAN]
    /\ watched \in [Batches -> BOOLEAN]
    /\ reorgChan \in [Batches -> BOOLEAN]

DbTypes ==
    /\ dbState \in [Batches -> {"none", "open", "confirmed", "cancelled"}]
    /\ dbId \in [Sweeps -> Nat]
    /\ dbBatch \in [Sweeps -> Batches \cup {0}]
    /\ dbDone \subseteq Sweeps

ChainTypes ==
    /\ txs \subseteq Txs /\ mined \subseteq txs /\ deep \subseteq mined
    /\ wanted \subseteq Sweeps /\ told \subseteq Sweeps

FaultTypes == damaged \in BOOLEAN /\ reorged \in BOOLEAN /\ faults \in 0 .. MaxFaults

\* The parts make up the type invariant.
LEMMA TypesAre ==
    TypeOK <=> /\ LoopTypes /\ BatchTypes /\ FlagTypes /\ DbTypes /\ ChainTypes
               /\ FaultTypes
BY Zenon DEF TypeOK, LoopTypes, BatchTypes, FlagTypes, DbTypes, ChainTypes, FaultTypes

\* A fault is counted.
LEMMA FaultCounts ==
    ASSUME faults \in 0 .. MaxFaults, Fault
    PROVE  faults' \in 0 .. MaxFaults /\ faults' = faults + 1
BY BoundsAssumption DEF Fault

-----------------------------------------------------------------------------
(* Sequences, rows and numbers. *)

\* What is in a queue after a message was added.
LEMMA InAppend ==
    ASSUME NEW S, NEW q \in Seq(S), NEW t \in S, NEW i \in DOMAIN Append(q, t)
    PROVE  Append(q, t)[i] = t \/ \E j \in DOMAIN q : Append(q, t)[i] = q[j]
OBVIOUS

\* What is in a queue whose first message was taken.
LEMMA InTail ==
    ASSUME NEW S, NEW q \in Seq(S), q # <<>>
    PROVE  /\ Head(q) \in S /\ Tail(q) \in Seq(S)
           /\ 1 \in DOMAIN q /\ Head(q) = q[1]
           /\ \A i \in DOMAIN Tail(q) : \E j \in DOMAIN q : Tail(q)[i] = q[j]
<1>1. Len(q) \in Nat \ {0} /\ DOMAIN q = 1 .. Len(q)
  OBVIOUS
<1>2. \A i \in DOMAIN Tail(q) : i + 1 \in DOMAIN q /\ Tail(q)[i] = q[i + 1]
  BY <1>1
<1>q. QED BY <1>1, <1>2

\* What lnd finds for a sweep spends it and is mined.
LEMMA SpendsOfSpend ==
    ASSUME NEW s
    PROVE  /\ \A i \in DOMAIN SpendsOf(s) : SpendsOf(s)[i] \in mined /\ s \in SpendsOf(s)[i].ins
           /\ mined \subseteq Txs => SpendsOf(s) \in Seq(Txs)
<1>1. CASE Spent(s)
  <2>. DEFINE t == CHOOSE t \in mined : s \in t.ins
  <2>1. t \in mined /\ s \in t.ins
    BY <1>1, Zenon DEF Spent
  <2>2. SpendsOf(s) = <<t>>
    BY <1>1, Zenon DEF SpendsOf
  <2>. HIDE DEF t
  <2>q. QED BY <2>1, <2>2
<1>2. CASE ~Spent(s)
  <2>1. SpendsOf(s) = <<>>
    BY <1>2, Zenon DEF SpendsOf
  <2>q. QED BY <2>1
<1>q. QED BY <1>1, <1>2, Zenon

\* The first row of a batch is one of its rows.
LEMMA FirstRowIn ==
    ASSUME DbTypes, NEW b \in Batches, Rows(b) # {}
    PROVE  FirstRow(b) \in Rows(b)
<1>. DEFINE Ids == {dbId[s] : s \in Rows(b)}
<1>1. Ids \subseteq Nat /\ Ids # {}
  BY Zenon DEF DbTypes, Rows
<1>. HIDE DEF Ids
<1>2. \E x \in Ids : \A y \in Ids : ~ (<<y, x>> \in OpToRel(<, Nat))
  BY <1>1, WFMin, NatLessThanWellFounded, Zenon
<1>3. PICK x \in Ids : \A y \in Ids : ~ (<<y, x>> \in OpToRel(<, Nat))
  BY <1>2, Zenon
<1>4. ASSUME NEW y \in Ids
      PROVE  ~ (y < x)
  <2>1. <<y, x>> \in Nat \X Nat /\ <<y, x>>[1] = y /\ <<y, x>>[2] = x
    BY <1>1, Zenon
  <2>q. QED BY <1>3, <2>1, Zenon DEF OpToRel
<1>5. \A y \in Ids : x <= y
  BY <1>1, <1>4
<1>6. PICK s \in Rows(b) : dbId[s] = x
  BY <1>3, Zenon DEF Ids
<1>7. \A r \in Rows(b) : dbId[s] <= dbId[r]
  BY <1>5, <1>6, Zenon DEF Ids
<1>q. QED BY <1>7, Zenon DEF FirstRow

\* A new batch gets the number after the last one, which no row has.
LEMMA NewBatch ==
    ASSUME DbTypes, Numbered, NEW b \in Batches,
           b = 1 + Cardinality({c \in Batches : dbState[c] # "none"}),
           dbState' = [dbState EXCEPT ![b] = "open"]
    PROVE  dbState[b] = "none" /\ Numbered'
<1>1. PICK k \in 0 .. MaxBatches : \A c \in Batches : dbState[c] # "none" <=> c <= k
  BY Zenon DEF Numbered
<1>2. {c \in Batches : dbState[c] # "none"} = 1 .. k
  BY <1>1, BoundsAssumption DEF Batches
<1>3. Cardinality(1 .. k) = k
  BY <1>1, FS_Interval, BoundsAssumption
<1>4. b = k + 1 /\ k + 1 \in 0 .. MaxBatches
  <2>1. Cardinality({c \in Batches : dbState[c] # "none"}) = k
    BY <1>2, <1>3, Zenon
  <2>2. b = 1 + k
    BY <2>1, Zenon
  <2>q. QED BY <1>1, <2>2, BoundsAssumption DEF Batches
<1>5. \A c \in Batches : dbState'[c] # "none" <=> c <= k + 1
  BY <1>1, <1>4, BoundsAssumption DEF Batches, DbTypes
<1>6. dbState[b] = "none"
  BY <1>1, <1>4, BoundsAssumption DEF Batches
<1>q. QED BY <1>4, <1>5, <1>6, Zenon DEF Numbered

\* The number of a new row of a sweep is a number.
LEMMA NewRow ==
    ASSUME DbTypes
    PROVE  1 + Cardinality({r \in Sweeps : dbId[r] # 0}) \in Nat
<1>1. IsFiniteSet({r \in Sweeps : dbId[r] # 0})
  BY SweepsAssumption, FS_Subset, Zenon
<1>q. QED BY <1>1, FS_CardinalityType

-----------------------------------------------------------------------------
(* What the parts of the invariant need of a step. *)

\* As long as the swaps, the requests and the chain move on, what is held or spent
\* for good stays so.
LEMMA ToldKept ==
    ASSUME Told, faults \in Nat, faults' \in Nat, faults' >= faults,
           mined \subseteq mined', deep \subseteq deep', reorged => reorged',
           \A s \in told \cup notifying :
               Holding(s) => Holding(s)' \/ SpentForGood(s)',
           \A s \in told' \cup notifying' :
               \/ s \in told \cup notifying
               \/ (Spent(s)' \/ reorged') /\ (Holding(s)' \/ SpentForGood(s)')
    PROVE  Told'
<1>. SUFFICES ASSUME NEW s \in told' \cup notifying'
              PROVE  /\ Spent(s)' \/ reorged'
                     /\ \/ Holding(s)' \/ SpentForGood(s)'
                        \/ Spent(s)' /\ faults' >= 1
                        \/ reorged' /\ faults' > 1
  BY Zenon DEF Told
<1>1. CASE s \in told \cup notifying
  <2>1. Spent(s) => Spent(s)'
    BY Zenon DEF Spent
  <2>2. SpentForGood(s) => SpentForGood(s)'
    BY Zenon DEF SpentForGood
  <2>3. (faults >= 1 => faults' >= 1) /\ (faults > 1 => faults' > 1)
    OBVIOUS
  <2>q. QED BY <1>1, <2>1, <2>2, <2>3, Zenon DEF Told
<1>q. QED BY <1>1, Zenon

\* A step of the batcher's loop that leaves the batches and the store alone.
LEMMA LoopKeeps ==
    ASSUME Inv,
           UNCHANGED <<state, sweeps, primary, paused, watched, spendChan, reorgChan,
                       confs, dbVars, chainVars, damaged>>,
           LoopTypes', hasNotifier' \subseteq Sweeps, wanted' \subseteq Sweeps,
           told' \subseteq Sweeps, faults' \in 0 .. MaxFaults, faults' >= faults,
           \A b \in batches : Running(b) => b \in batches',
           pc' = "down" => pc = "down",
           InHand', Elsewhere', Told'
    PROVE  Inv'
<1>1. TypeOK'
  <2>1. BatchTypes' /\ FlagTypes' /\ DbTypes'
    BY TypesAre, Zenon DEF Inv, BatchTypes, FlagTypes, DbTypes, dbVars
  <2>2. ChainTypes' /\ FaultTypes'
    BY TypesAre, Zenon DEF Inv, ChainTypes, FaultTypes, chainVars
  <2>3. TypeOK' <=> /\ LoopTypes' /\ BatchTypes' /\ FlagTypes' /\ DbTypes' /\ ChainTypes'
                    /\ FaultTypes'
    BY TypesAre, PTL
  <2>q. QED BY <2>1, <2>2, <2>3, Zenon
<1>2. Numbered' /\ Stored'
  BY Zenon DEF Inv, Numbered, Stored, Running, Rows, dbVars
<1>3. Primary' /\ Reported'
  BY Zenon DEF Inv, Primary, Reported, chainVars
<1>4. MemoryMatchesStore'
  BY Zenon DEF Inv, MemoryMatchesStore, Running, Rows, dbVars
<1>5. Completed' /\ FeeHasPayers'
  BY Zenon DEF Inv, Completed, CompletedIsConfirmed, FeeHasPayers, Running, dbVars,
     chainVars
<1>6. Counted'
  <2>1. (faults >= 1 => faults' >= 1) /\ (faults >= 2 => faults' >= 2)
    BY DEF Inv, TypeOK
  <2>q. QED BY <2>1, Zenon DEF Inv, Counted, chainVars
<1>q. QED BY <1>1, <1>2, <1>3, <1>4, <1>5, <1>6, Zenon DEF Inv

\* In such a step a sweep stays in its batch.
LEMMA InBatchKept ==
    ASSUME UNCHANGED <<state, sweeps, dbState, dbBatch>>, NEW s
    PROVE  InBatch(s)' <=> InBatch(s)
BY Zenon DEF InBatch, Running, Rows

-----------------------------------------------------------------------------
(* The batcher's loop: requests. *)

\* A request is none of the two values that stand for no request.
LEMMA RequestIs ==
    ASSUME NEW s \in Sweeps, NEW n \in BOOLEAN, NEW b \in Batches \cup {0}
    PROVE  LET r == [sweep |-> s, notifier |-> n, batch |-> b]
           IN  r \in Requests /\ r # NoRequest /\ r.sweep = s /\ r.batch = b
BY SweepsAssumption, Zenon DEF Requests, NoRequest

\* The batcher takes the sweep of a request.
LEMMA TakeStep ==
    ASSUME Inv, NEW s \in Sweeps, NEW n \in BOOLEAN, Take(s, n),
           wanted' \subseteq Sweeps, purging' \subseteq purging,
           purging \ {s} \subseteq purging'
    PROVE  Inv'
<1>1. /\ UNCHANGED <<notifying, batchVars, dbVars, chainVars, told, damaged, faults>>
      /\ pc = "idle" /\ pc' \in {"readd", "status"}
  BY Zenon DEF Take
<1>2. PICK b \in Batches \cup {0} :
        /\ req' = [sweep |-> s, notifier |-> n, batch |-> b]
        /\ \/ /\ pc' = "readd" /\ b \in batches /\ Running(b) /\ s \in sweeps[b]
              /\ batches' = batches
           \/ /\ pc' = "status" /\ Cleanup
              /\ \A c \in batches : Running(c) => s \notin sweeps[c]
  <2>1. batches \subseteq Batches
    BY Zenon DEF Inv, TypeOK
  <2>q. QED BY <2>1, Zenon DEF Take
<1>3. /\ req' \in Requests /\ req' # NoRequest /\ req'.sweep = s /\ req'.batch = b
  BY <1>2, RequestIs, Zenon
<1>4. batches' \subseteq batches /\ \A c \in batches : Running(c) => c \in batches'
  BY <1>2, Zenon DEF Cleanup, Running
<1>5. LoopTypes'
  BY <1>1, <1>3, <1>4, Zenon DEF Inv, TypeOK, LoopTypes, Pcs
<1>6. \A c \in Batches : Running(c)' <=> Running(c)
  BY <1>1, Zenon DEF Running, batchVars
<1>7. InHand'
  <2>1. batches \subseteq Batches /\ sweeps' = sweeps
    BY <1>1, Zenon DEF Inv, TypeOK, batchVars
  <2>2. CASE pc' = "readd"
    <3>1. b \in Batches /\ s \in sweeps[b]
      BY <1>2, <2>1, <2>2, Zenon
    <3>q. QED BY <1>3, <2>1, <2>2, <3>1, Zenon DEF InHand
  <2>q. QED BY <1>1, <2>2, Zenon DEF InHand
<1>8. Elsewhere'
  <2>. SUFFICES ASSUME ~damaged, NEW c \in Batches, Running(c), s \in sweeps[c]
                PROVE  pc' = "readd" /\ b = c
    BY <1>1, <1>3, <1>6, Zenon DEF Elsewhere, batchVars
  <2>1. c \in batches
    BY Zenon DEF Inv, Stored
  <2>2. pc' = "readd" /\ b \in batches /\ Running(b) /\ s \in sweeps[b]
    BY <1>2, <2>1, Zenon
  <2>3. b \in Batches
    BY <2>2, Zenon DEF Inv, TypeOK
  <2>4. s \in Rows(b) /\ s \in Rows(c)
    BY <2>2, <2>3, Zenon DEF Inv, MemoryMatchesStore
  <2>q. QED BY <2>2, <2>4, Zenon DEF Rows
<1>9. Told'
  <2>1. \A r \in told \cup notifying : Holding(r) => Holding(r)'
    <3>. SUFFICES ASSUME NEW r, Holding(r) PROVE Holding(r)'
      OBVIOUS
    <3>1. InBatch(r)' <=> InBatch(r)
      BY <1>1, InBatchKept, Zenon DEF batchVars, dbVars
    <3>2. r = s => InHands(r)'
      BY <1>1, <1>3, Zenon DEF InHands
    <3>q. QED BY <1>1, <3>1, <3>2, Zenon DEF Holding, InHands
  <2>2. faults \in Nat /\ faults' = faults
    BY <1>1 DEF Inv, TypeOK
  <2>3. UNCHANGED <<told, notifying, mined, deep, reorged>>
    BY <1>1, Zenon DEF chainVars
  <2>q. QED BY <2>1, <2>2, <2>3, ToldKept DEF Inv
<1>10. /\ hasNotifier' \subseteq Sweeps /\ told' \subseteq Sweeps
       /\ faults' \in 0 .. MaxFaults /\ faults' >= faults
  BY <1>1 DEF Inv, TypeOK, batchVars
<1>q. QED BY <1>1, <1>4, <1>5, <1>7, <1>8, <1>9, <1>10, LoopKeeps, Zenon DEF batchVars

\* A swap asks for its sweep.
LEMMA SwapRequestStep ==
    ASSUME Inv, NEW s \in Sweeps, SwapRequest(s)
    PROVE  Inv'
<1>1. wanted' \subseteq Sweeps /\ purging' = purging
  BY Zenon DEF Inv, TypeOK, SwapRequest
<1>q. QED BY <1>1, TakeStep, Zenon DEF SwapRequest

\* A sweep that a confirmed transaction left out is fed back.
LEMMA PurgeRequestStep ==
    ASSUME Inv, NEW s \in Sweeps, PurgeRequest(s)
    PROVE  Inv'
<1>1. wanted' \subseteq Sweeps /\ purging' = purging \ {s}
  BY Zenon DEF Inv, TypeOK, PurgeRequest
<1>2. ASSUME NEW n, n = (s \in hasNotifier)
      PROVE  n \in BOOLEAN
  <2>1. CASE s \in hasNotifier
    BY <1>2, <2>1, Zenon
  <2>2. CASE s \notin hasNotifier
    BY <1>2, <2>2
  <2>q. QED BY <2>1, <2>2, Zenon
<1>3. (s \in hasNotifier) \in BOOLEAN
  BY <1>2, Zenon
<1>q. QED BY <1>1, <1>3, TakeStep, Zenon DEF PurgeRequest

\* What a step of a request keeps when it goes on or returns and leaves the batches
\* and the store alone.
LEMMA RequestKeeps ==
    ASSUME Inv, pc \notin {"idle", "down"},
           UNCHANGED <<purging, state, sweeps, primary, paused, watched, spendChan,
                       reorgChan, confs, dbVars, chainVars, swapVars, damaged>>,
           batches' \subseteq batches, \A b \in batches : Running(b) => b \in batches',
           hasNotifier' \subseteq Sweeps, notifying' \subseteq Sweeps,
           faults' \in 0 .. MaxFaults, faults' >= faults,
           \/ Return
           \/ UNCHANGED req /\ pc' \in {"status", "place", "fallback"},
           pc' # "idle" /\ pc = "readd" => ~Running(req.batch),
           pc' = "idle" => InBatch(req.sweep) \/ SpentForGood(req.sweep),
           \A s \in notifying' :
               s \in notifying \/ SpentForGood(s)
    PROVE  Inv'
<1>1. pc' \in {"idle", "status", "place", "fallback"}
  BY Zenon DEF Return
<1>2. LoopTypes'
  BY <1>1, Zenon DEF Inv, TypeOK, LoopTypes, Return, Pcs
<1>3. InHand'
  BY <1>1, Zenon DEF InHand
<1>4. Elsewhere'
  <2>. SUFFICES ASSUME ~damaged, NEW b \in Batches, Running(b), pc' # "idle",
                       req.sweep \in sweeps[b]
                PROVE  FALSE
    BY <1>1, Zenon DEF Elsewhere, Running, Return
  <2>1. pc = "readd" /\ req.batch = b
    BY Zenon DEF Inv, Elsewhere
  <2>q. QED BY <2>1, Zenon
<1>5. Told'
  <2>1. \A r \in told \cup notifying : Holding(r) => Holding(r)' \/ SpentForGood(r)'
    <3>. SUFFICES ASSUME NEW r, Holding(r) PROVE Holding(r)' \/ SpentForGood(r)'
      OBVIOUS
    <3>1. (InBatch(r)' <=> InBatch(r)) /\ (SpentForGood(r)' <=> SpentForGood(r))
      BY InBatchKept, Zenon DEF dbVars, chainVars, SpentForGood
    <3>2. InHands(r) => InHands(r)' \/ InBatch(r) \/ SpentForGood(r)
      BY <1>1, Zenon DEF InHands, Return
    <3>q. QED BY <3>1, <3>2, Zenon DEF Holding
  <2>2. faults \in Nat /\ faults' \in Nat
    BY DEF Inv, TypeOK
  <2>3. UNCHANGED <<told, mined, deep, reorged>>
    BY Zenon DEF chainVars, swapVars
  <2>4. deep \subseteq mined
    BY Zenon DEF Inv, TypeOK
  <2>5. \A s : SpentForGood(s) => Spent(s)' /\ SpentForGood(s)'
    BY <2>3, <2>4, Zenon DEF SpentForGood, Spent
  <2>q. QED BY <2>1, <2>2, <2>3, <2>5, ToldKept, Zenon DEF Inv
<1>6. wanted' \subseteq Sweeps /\ told' \subseteq Sweeps
  BY Zenon DEF Inv, TypeOK, swapVars
<1>q. QED BY <1>1, <1>2, <1>3, <1>4, <1>5, <1>6, LoopKeeps, Zenon

\* What can be attached is a sweep.
LEMMA AttachTypes ==
    ASSUME TypeOK, pc \notin {"idle", "down"}
    PROVE  /\ req \in Requests /\ req.sweep \in Sweeps
           /\ Attach(req.sweep) => hasNotifier' \subseteq Sweeps
<1>1. req \in Requests /\ req.sweep \in Sweeps
  BY Zenon DEF TypeOK, Requests
<1>2. hasNotifier \subseteq Sweeps
  BY Zenon DEF TypeOK
<1>q. QED BY <1>1, <1>2, Zenon DEF Attach

\* A sweep that is in a batch gets the new notifier.
LEMMA ReAddStep == ASSUME Inv, ReAdd PROVE Inv'
<1>1. /\ UNCHANGED <<purging, notifying, state, sweeps, primary, paused, watched,
                     spendChan, reorgChan, confs, dbVars, chainVars, swapVars, damaged,
                     faults>>
      /\ pc = "readd"
  BY Zenon DEF ReAdd
<1>2. batches' \subseteq batches /\ \A b \in batches : Running(b) => b \in batches'
  BY Zenon DEF ReAdd, Cleanup, Running
<1>3. hasNotifier' \subseteq Sweeps
  <2>1. hasNotifier \subseteq Sweeps
    BY Zenon DEF Inv, TypeOK
  <2>q. QED BY <1>1, <2>1, AttachTypes, Zenon DEF Inv, ReAdd
<1>4. /\ notifying' \subseteq Sweeps /\ faults' \in 0 .. MaxFaults /\ faults' >= faults
  BY <1>1 DEF Inv, TypeOK
<1>5. CASE Running(req.batch) /\ Return
  <2>1. InBatch(req.sweep)
    BY <1>1, <1>5, Zenon DEF Inv, InHand, InBatch
  <2>2. pc' = "idle"
    BY <1>5, Zenon DEF Return
  <2>q. QED BY <1>1, <1>2, <1>3, <1>4, <1>5, <2>1, <2>2, RequestKeeps, Zenon
<1>6. CASE ~Running(req.batch) /\ GoOn("status")
  <2>1. pc' = "status" /\ UNCHANGED req
    BY <1>6, Zenon DEF GoOn
  <2>q. QED BY <1>1, <1>2, <1>3, <1>4, <1>6, <2>1, RequestKeeps, Zenon
<1>q. QED BY <1>5, <1>6, Zenon DEF ReAdd

\* A completed sweep is only reported.
LEMMA StatusStep == ASSUME Inv, Status PROVE Inv'
<1>1. /\ UNCHANGED <<batches, purging, batchVars, dbVars, chainVars, swapVars, damaged,
                     faults>>
      /\ pc = "status"
  BY Zenon DEF Status
<1>2. req.sweep \in Sweeps
  BY <1>1, AttachTypes, Zenon DEF Inv
<1>3. /\ notifying' \subseteq Sweeps /\ faults' \in 0 .. MaxFaults /\ faults' >= faults
      /\ hasNotifier' \subseteq Sweeps
  BY <1>1, <1>2 DEF Inv, TypeOK, Status, batchVars
<1>4. CASE req.sweep \in dbDone
  <2>1. SpentForGood(req.sweep)
    BY <1>4, Zenon DEF Inv, Completed, CompletedIsConfirmed, SpentForGood
  <2>2. \A s \in notifying' : s \in notifying \/ s = req.sweep
    BY Zenon DEF Status
  <2>3. Return \/ (pc' = "place" /\ UNCHANGED req)
    BY Zenon DEF Status, GoOn
  <2>q. QED BY <1>1, <1>3, <2>1, <2>2, <2>3, RequestKeeps, Zenon DEF batchVars
<1>5. CASE req.sweep \notin dbDone
  <2>1. pc' = "place" /\ UNCHANGED <<req, notifying>>
    BY <1>5, Zenon DEF Status, GoOn
  <2>q. QED BY <1>1, <1>3, <2>1, RequestKeeps, Zenon DEF batchVars
<1>q. QED BY <1>4, <1>5, Zenon

\* The search for a batch fails.
LEMMA PlaceFailsStep == ASSUME Inv, PlaceFails PROVE Inv'
<1>1. /\ UNCHANGED <<batches, batchVars, dbVars, damaged, purging, notifying, chainVars,
                     swapVars, req>>
      /\ pc = "place" /\ pc' = "fallback"
  BY Zenon DEF PlaceFails, placeUnchanged, GoOn
<1>2. faults' \in 0 .. MaxFaults /\ faults' >= faults
  <2>1. faults \in 0 .. MaxFaults
    BY Zenon DEF Inv, TypeOK
  <2>2. UNCHANGED faults \/ Fault
    BY Zenon DEF PlaceFails
  <2>q. QED BY <2>1, <2>2, FaultCounts
<1>3. notifying' \subseteq Sweeps /\ hasNotifier' \subseteq Sweeps
  BY <1>1, Zenon DEF Inv, TypeOK, batchVars
<1>q. QED BY <1>1, <1>2, <1>3, RequestKeeps, Zenon DEF batchVars

\* A swap takes its spend.
LEMMA NotifyStep == ASSUME Inv, NEW s \in Sweeps, Notify(s) PROVE Inv'
<1>1. /\ UNCHANGED <<pc, req, batches, purging, batchVars, dbVars, chainVars, wanted,
                     damaged, faults>>
      /\ notifying' = notifying \ {s} /\ told' = told \cup {s} /\ s \in notifying
  BY Zenon DEF Notify
<1>2. /\ LoopTypes' /\ hasNotifier' \subseteq Sweeps /\ wanted' \subseteq Sweeps
      /\ told' \subseteq Sweeps /\ faults' \in 0 .. MaxFaults /\ faults' >= faults
  BY <1>1 DEF Inv, TypeOK, LoopTypes, batchVars
<1>3. InHand' /\ Elsewhere'
  BY <1>1, Zenon DEF Inv, InHand, Elsewhere, Running, batchVars
<1>4. Told'
  <2>1. \A r \in told \cup notifying : Holding(r) => Holding(r)'
    <3>. SUFFICES ASSUME NEW r, Holding(r) PROVE Holding(r)'
      OBVIOUS
    <3>1. InBatch(r)' <=> InBatch(r)
      BY <1>1, InBatchKept, Zenon DEF batchVars, dbVars
    <3>q. QED BY <1>1, <3>1, Zenon DEF Holding, InHands
  <2>2. faults \in Nat /\ faults' = faults
    BY <1>1 DEF Inv, TypeOK
  <2>3. UNCHANGED <<mined, deep, reorged>> /\ told' \cup notifying' = told \cup notifying
    BY <1>1, Zenon DEF chainVars
  <2>q. QED BY <2>1, <2>2, <2>3, ToldKept DEF Inv
<1>q. QED BY <1>1, <1>2, <1>3, <1>4, LoopKeeps, Zenon DEF batchVars

-----------------------------------------------------------------------------
(* The batcher's loop: a sweep joins a batch. *)

\* addSweeps changes one batch: the sweep joins it, and becomes its primary sweep,
\* whose spend is registered, when there is none.
LEMMA AddNewIs ==
    ASSUME TypeOK, NEW b \in Batches, NEW s \in Sweeps, AddNew(b, s)
    PROVE  /\ sweeps' \in [Batches -> SUBSET Sweeps]
           /\ primary' \in [Batches -> Sweeps \cup {NoSweep}]
           /\ spendChan' \in [Batches -> Seq(Txs)]
           /\ watched' \in [Batches -> BOOLEAN]
           /\ sweeps'[b] = sweeps[b] \cup {s}
           /\ \A c \in Batches \ {b} : sweeps'[c] = sweeps[c]
           /\ \A c \in Batches :
                 \/ /\ primary'[c] = primary[c] /\ spendChan'[c] = spendChan[c]
                    /\ watched'[c] <=> watched[c]
                 \/ c = b /\ primary'[c] = s /\ spendChan'[c] = SpendsOf(s)
<1>1. /\ sweeps' \in [Batches -> SUBSET Sweeps] /\ sweeps'[b] = sweeps[b] \cup {s}
      /\ \A c \in Batches \ {b} : sweeps'[c] = sweeps[c]
  <2>1. sweeps' = [sweeps EXCEPT ![b] = @ \cup {s}]
    BY Zenon DEF AddNew
  <2>q. QED BY <2>1, Zenon DEF TypeOK
<1>2. CASE UNCHANGED <<primary, watched, spendChan>>
  BY <1>1, <1>2, Zenon DEF TypeOK
<1>3. CASE /\ primary' = [primary EXCEPT ![b] = s]
           /\ watched' = [watched EXCEPT ![b] = TRUE]
           /\ spendChan' = [spendChan EXCEPT ![b] = SpendsOf(s)]
  <2>1. /\ primary' \in [Batches -> Sweeps \cup {NoSweep}]
        /\ \A c \in Batches : primary'[c] = IF c = b THEN s ELSE primary[c]
    BY <1>3, Zenon DEF TypeOK
  <2>2. SpendsOf(s) \in Seq(Txs)
    BY SpendsOfSpend, Zenon DEF TypeOK
  <2>3. /\ spendChan' \in [Batches -> Seq(Txs)]
        /\ \A c \in Batches : spendChan'[c] = IF c = b THEN SpendsOf(s) ELSE spendChan[c]
    BY <1>3, <2>2, Zenon DEF TypeOK
  <2>4. /\ watched' \in [Batches -> BOOLEAN]
        /\ \A c \in Batches \ {b} : watched'[c] <=> watched[c]
    BY <1>3, Zenon DEF TypeOK
  <2>q. QED BY <1>1, <2>1, <2>3, <2>4, Zenon
<1>q. QED BY <1>2, <1>3, Zenon DEF AddNew

\* The upsert changes one row.
LEMMA PersistSweepIs ==
    ASSUME DbTypes, NEW b \in Batches, NEW s \in Sweeps, PersistSweep(b, s)
    PROVE  /\ DbTypes' /\ UNCHANGED dbState
           /\ dbBatch'[s] = b /\ \A r \in Sweeps \ {s} : dbBatch'[r] = dbBatch[r]
           /\ dbDone' = dbDone \ {s}
<1>. DEFINE n == 1 + Cardinality({r \in Sweeps : dbId[r] # 0})
<1>1. n \in Nat
  BY NewRow, Zenon
<1>2. dbId' = IF dbId[s] # 0 THEN dbId ELSE [dbId EXCEPT ![s] = n]
  BY Zenon DEF PersistSweep
<1>. HIDE DEF n
<1>3. dbId' \in [Sweeps -> Nat]
  BY <1>1, <1>2, Zenon DEF DbTypes
<1>4. /\ dbBatch' = [dbBatch EXCEPT ![s] = b] /\ dbDone' = dbDone \ {s}
      /\ UNCHANGED dbState
  BY Zenon DEF PersistSweep
<1>q. QED BY <1>3, <1>4, Zenon DEF DbTypes

\* Both ways in which the sweep in hand joins a batch: its row is stored and the
\* request is done, or that fails and the fallback takes over.
Joins(b) ==
    /\ AddNew(b, req.sweep)
    /\ \/ /\ PersistSweep(b, req.sweep)
          /\ Return
          /\ UNCHANGED <<damaged, faults>>
       \/ /\ Fault
          /\ damaged' = TRUE
          /\ GoOn("fallback")
          /\ UNCHANGED dbVars
    /\ UNCHANGED <<batches, purging, notifying, chainVars, swapVars>>

\* The sweep in hand joins a running batch.
LEMMA JoinStep ==
    ASSUME Inv, NEW b \in Batches, Running(b), Joins(b),
           pc \in {"place", "fill", "fallback", "refill"}
    PROVE  Inv'
<1>1. PICK s \in Sweeps : s = req.sweep /\ s # NoSweep
  BY AttachTypes, SweepsAssumption, Zenon DEF Inv
<1>2. AddNew(b, s) /\ Attach(s) /\ UNCHANGED <<state, paused, reorgChan, confs>>
  BY <1>1, Zenon DEF Joins, AddNew
<1>3. /\ sweeps' \in [Batches -> SUBSET Sweeps]
      /\ primary' \in [Batches -> Sweeps \cup {NoSweep}]
      /\ spendChan' \in [Batches -> Seq(Txs)]
      /\ watched' \in [Batches -> BOOLEAN]
      /\ sweeps'[b] = sweeps[b] \cup {s}
      /\ \A c \in Batches \ {b} : sweeps'[c] = sweeps[c]
      /\ \A c \in Batches :
            \/ /\ primary'[c] = primary[c] /\ spendChan'[c] = spendChan[c]
               /\ watched'[c] <=> watched[c]
            \/ c = b /\ primary'[c] = s /\ spendChan'[c] = SpendsOf(s)
  BY <1>1, <1>2, AddNewIs, Zenon DEF Inv
<1>4. UNCHANGED <<batches, purging, notifying, told, wanted, txs, mined, deep, reorged>>
  BY Zenon DEF Joins, chainVars, swapVars
<1>5. /\ DbTypes' /\ UNCHANGED dbState
      /\ \A r \in Sweeps \ {s} : dbBatch'[r] = dbBatch[r]
      /\ dbDone' \subseteq dbDone
      /\ \/ dbBatch'[s] = b /\ s \notin dbDone' /\ pc' = "idle" /\ req' = NoRequest
            /\ UNCHANGED <<damaged, faults>>
         \/ dbBatch'[s] = dbBatch[s] /\ damaged' /\ Fault /\ pc' = "fallback"
            /\ UNCHANGED req
  <2>1. DbTypes
    BY TypesAre, Zenon DEF Inv
  <2>2. CASE PersistSweep(b, s) /\ Return /\ UNCHANGED <<damaged, faults>>
    BY <1>1, <2>1, <2>2, PersistSweepIs DEF Return
  <2>3. CASE Fault /\ damaged' = TRUE /\ GoOn("fallback") /\ UNCHANGED dbVars
    BY <2>1, <2>3, Zenon DEF DbTypes, GoOn, dbVars
  <2>q. QED BY <1>1, <2>2, <2>3, Zenon DEF Joins
<1>6. \A c \in Batches : Running(c)' <=> Running(c)
  BY <1>2, Zenon DEF Running
<1>7. \A c \in Batches \ {b} : Rows(c)' \subseteq Rows(c)
  BY <1>5, Zenon DEF Rows
<1>8. TypeOK'
  <2>1. pc' \in {"idle", "fallback"} /\ faults' \in 0 .. MaxFaults
    <3>1. faults \in 0 .. MaxFaults
      BY Zenon DEF Inv, TypeOK
    <3>q. QED BY <1>5, <3>1, FaultCounts, Zenon
  <2>2. LoopTypes'
    <3>1. req \in Requests \cup {NoRequest} /\ (pc' = "fallback" => req' = req)
          /\ (pc' = "idle" => req' = NoRequest) /\ req # NoRequest
      BY <1>5, Zenon DEF Inv, TypeOK
    <3>q. QED BY <1>4, <2>1, <3>1, Zenon DEF Inv, TypeOK, LoopTypes, Pcs
  <2>3. BatchTypes'
    <3>1. hasNotifier' \subseteq Sweeps
      BY <1>1, <1>2, AttachTypes, Zenon DEF Inv
    <3>q. QED BY <1>2, <1>3, <3>1, Zenon DEF Inv, TypeOK, BatchTypes
  <2>4. FlagTypes' /\ ChainTypes'
    BY <1>2, <1>3, <1>4, Zenon DEF Inv, TypeOK, FlagTypes, ChainTypes
  <2>5. FaultTypes'
    <3>1. damaged' \in BOOLEAN /\ reorged' \in BOOLEAN
      BY <1>4, Zenon DEF Joins, Inv, TypeOK
    <3>q. QED BY <2>1, <3>1, Zenon DEF FaultTypes
  <2>q. QED BY <1>5, <2>2, <2>3, <2>4, <2>5, TypesAre, PTL
<1>9. Numbered'
  BY <1>5, Zenon DEF Inv, Numbered
<1>10. Stored'
  <2>. SUFFICES ASSUME NEW c \in Batches
                PROVE  /\ Running(c)' => c \in batches' /\ dbState'[c] = "open"
                       /\ ~Running(c)' => sweeps'[c] = {} /\ primary'[c] = NoSweep
                                          /\ confs'[c] = {}
                       /\ dbState'[c] = "none" => state'[c] = "none" /\ Rows(c)' = {}
                       /\ pc' = "down" => state'[c] = "none"
    BY Zenon DEF Stored
  <2>1. dbState[b] # "none"
    BY Zenon DEF Inv, Stored
  <2>2. pc' # "down"
    BY <1>5, Zenon
  <2>3. dbState'[c] = "none" => state'[c] = "none" /\ Rows(c)' = {}
    BY <1>2, <1>5, <1>7, <2>1, Zenon DEF Inv, Stored
  <2>4. ~Running(c)' => sweeps'[c] = {} /\ primary'[c] = NoSweep /\ confs'[c] = {}
    BY <1>2, <1>3, <1>6, Zenon DEF Inv, Stored
  <2>q. QED BY <1>4, <1>5, <1>6, <2>2, <2>3, <2>4, Zenon DEF Inv, Stored
<1>11. InHand'
  BY <1>5, Zenon DEF InHand
<1>12. Primary'
  <2>. SUFFICES ASSUME NEW c \in Batches
                PROVE  /\ primary'[c] = NoSweep => ~watched'[c] /\ spendChan'[c] = <<>>
                       /\ watched'[c] => primary'[c] \in sweeps'[c]
    BY Zenon DEF Primary
  <2>1. sweeps[c] \subseteq sweeps'[c]
    BY <1>3, Zenon
  <2>2. CASE c = b /\ primary'[c] = s
    BY <1>1, <1>3, <2>2, Zenon
  <2>q. QED BY <1>3, <2>1, <2>2, Zenon DEF Inv, Primary
<1>13. Reported' /\ FeeHasPayers'
  <2>1. ASSUME NEW c \in Batches, NEW i \in DOMAIN spendChan'[c]
        PROVE  /\ spendChan'[c][i] \in mined' \/ reorged'
               /\ Running(c)' => spendChan'[c][i].ins \cap sweeps'[c] # {}
    <3>1. CASE spendChan'[c] = spendChan[c]
      <4>1. i \in DOMAIN spendChan[c] /\ sweeps[c] \subseteq sweeps'[c]
        BY <1>3, <2>1, <3>1, Zenon
      <4>2. Running(c) => spendChan[c][i].ins \cap sweeps[c] # {}
        BY <4>1, Zenon DEF Inv, FeeHasPayers
      <4>3. Running(c)' => spendChan'[c][i].ins \cap sweeps'[c] # {}
        BY <1>6, <3>1, <4>1, <4>2, Zenon
      <4>q. QED BY <1>4, <3>1, <4>1, <4>3, Zenon DEF Inv, Reported
    <3>2. CASE c = b /\ spendChan'[c] = SpendsOf(s)
      <4>1. spendChan'[c][i] \in mined /\ s \in spendChan'[c][i].ins
        BY <2>1, <3>2, SpendsOfSpend, Zenon
      <4>q. QED BY <1>3, <1>4, <3>2, <4>1, Zenon
    <3>q. QED BY <1>3, <3>1, <3>2, Zenon
  <2>2. ASSUME NEW c \in Batches, Running(c)', NEW t \in confs'[c]
        PROVE  t.ins \cap sweeps'[c] # {}
    <3>1. Running(c) /\ t \in confs[c] /\ sweeps[c] \subseteq sweeps'[c]
      BY <1>2, <1>3, <1>6, <2>2, Zenon
    <3>q. QED BY <3>1, Zenon DEF Inv, FeeHasPayers
  <2>q. QED BY <2>1, <2>2, Zenon DEF Reported, FeeHasPayers
<1>14. Elsewhere'
  BY <1>5, Zenon DEF Elsewhere
<1>15. MemoryMatchesStore'
  <2>. SUFFICES ASSUME ~damaged', NEW c \in Batches, Running(c)
                PROVE  sweeps'[c] = Rows(c)'
    BY <1>6, Zenon DEF MemoryMatchesStore
  <2>1. ~damaged /\ dbBatch'[s] = b
    <3>1. CASE dbBatch'[s] = b /\ UNCHANGED damaged
      BY <3>1, Zenon
    <3>q. QED BY <1>5, <3>1, Zenon
  <2>2. sweeps[c] = Rows(c)
    BY <2>1, Zenon DEF Inv, MemoryMatchesStore
  <2>3. CASE c = b
    BY <1>1, <1>3, <1>5, <2>1, <2>2, <2>3, Zenon DEF Rows
  <2>4. CASE c # b
    <3>1. s \notin sweeps[c]
      BY <1>1, <2>1, Zenon DEF Inv, Elsewhere
    <3>2. sweeps'[c] = Rows(c) /\ s \notin Rows(c)
      BY <1>3, <2>2, <2>4, <3>1, Zenon
    <3>3. ASSUME NEW r \in Sweeps
          PROVE  dbBatch'[r] = c <=> dbBatch[r] = c
      BY <1>1, <1>5, <2>1, <2>4, <3>2, Zenon DEF Rows
    <3>q. QED BY <3>2, <3>3, Zenon DEF Rows
  <2>q. QED BY <2>3, <2>4, Zenon
<1>16. Completed'
  <2>1. dbDone \subseteq Sweeps
    BY Zenon DEF Inv, TypeOK
  <2>2. \A r \in dbDone' : r \in dbDone /\ dbBatch'[r] = dbBatch[r]
    BY <1>5, <2>1, Zenon
  <2>q. QED BY <1>4, <1>5, <2>2, Zenon DEF Inv, Completed, CompletedIsConfirmed
<1>17. Counted'
  <2>1. faults \in 0 .. MaxFaults
    BY Zenon DEF Inv, TypeOK
  <2>2. CASE UNCHANGED <<damaged, faults>>
    BY <1>4, <2>2, Zenon DEF Inv, Counted
  <2>3. CASE Fault
    <3>1. faults' >= 1 /\ (faults >= 1 => faults' >= 2)
      BY <2>1, <2>3, FaultCounts
    <3>q. QED BY <1>4, <3>1, Zenon DEF Inv, Counted
  <2>q. QED BY <1>5, <2>2, <2>3, Zenon
<1>18. Told'
  <2>1. InBatch(s)'
    BY <1>3, <1>6, Zenon DEF InBatch
  <2>2. ASSUME NEW r \in told \cup notifying, Holding(r)
        PROVE  Holding(r)'
    <3>1. r \in Sweeps
      BY Zenon DEF Inv, TypeOK
    <3>2. CASE r = s
      BY <2>1, <3>2, Zenon DEF Holding
    <3>3. CASE r # s /\ InBatch(r)
      <4>1. PICK c \in Batches : \/ Running(c) /\ r \in sweeps[c]
                                 \/ dbState[c] = "open" /\ dbBatch[r] = c
        BY <3>3, Zenon DEF InBatch, Rows
      <4>2. sweeps[c] \subseteq sweeps'[c] /\ dbBatch'[r] = dbBatch[r]
        BY <1>3, <1>5, <3>1, <3>3, Zenon
      <4>q. QED BY <1>5, <1>6, <3>1, <4>1, <4>2, Zenon DEF Holding, InBatch, Rows
    <3>q. QED BY <1>1, <1>4, <2>2, <3>2, <3>3, Zenon DEF Holding, InHands
  <2>3. faults \in Nat /\ faults' \in Nat /\ faults' >= faults
    <3>1. faults \in 0 .. MaxFaults
      BY Zenon DEF Inv, TypeOK
    <3>q. QED BY <1>5, <3>1, FaultCounts
  <2>q. QED BY <1>4, <2>2, <2>3, ToldKept, Zenon DEF Inv
<1>q. QED BY <1>8, <1>9, <1>10, <1>11, <1>12, <1>13, <1>14, <1>15, <1>16, <1>17, <1>18,
      Zenon DEF Inv

\* The greedy search puts the sweep into a batch that accepts it.
LEMMA PlaceInBatchStep ==
    ASSUME Inv, NEW b \in Batches, PlaceInBatch(b)
    PROVE  Inv'
<1>1. Running(b)
  BY Zenon DEF PlaceInBatch, Accepts, Running
<1>2. Joins(b) /\ pc = "place"
  BY Zenon DEF PlaceInBatch, Joins, placeUnchanged
<1>q. QED BY <1>1, <1>2, JoinStep, Zenon

\* The sweep joins the new batch.
LEMMA FillStep == ASSUME Inv, Fill PROVE Inv'
<1>1. pc \in {"fill", "refill"}
  BY Zenon DEF Fill
<1>2. req.batch \in Batches /\ Running(req.batch)
  BY <1>1, Zenon DEF Inv, InHand
<1>3. Joins(req.batch)
  BY Zenon DEF Fill, Joins, placeUnchanged
<1>4. PICK b \in Batches : b = req.batch
  BY <1>2, Zenon
<1>q. QED BY <1>1, <1>2, <1>3, <1>4, JoinStep, Zenon

\* The spend of the primary sweep of the new batch cannot be registered.
LEMMA UnwatchedStep ==
    ASSUME Inv, pc = "fill", Fault, damaged' = TRUE,
           primary' = [primary EXCEPT ![req.batch] = req.sweep],
           UNCHANGED <<state, sweeps, paused, watched, spendChan, reorgChan, confs,
                       hasNotifier, batches, dbVars>>,
           placeUnchanged, GoOn("fallback")
    PROVE  Inv'
<1>1. pc' = "fallback" /\ UNCHANGED <<req, purging, notifying, chainVars, swapVars>>
  BY Zenon DEF GoOn, placeUnchanged
<1>2. /\ req.sweep \in Sweeps /\ req.sweep # NoSweep /\ req # NoRequest
      /\ req \in Requests
  BY AttachTypes, SweepsAssumption, Zenon DEF Inv, TypeOK
<1>3. PICK b \in Batches : b = req.batch /\ Running(b) /\ primary[b] = NoSweep
  BY Zenon DEF Inv, InHand
<1>4. ~watched[b] /\ spendChan[b] = <<>>
  BY <1>3, Zenon DEF Inv, Primary
<1>5. /\ primary' \in [Batches -> Sweeps \cup {NoSweep}]
      /\ primary'[b] # NoSweep
      /\ \A c \in Batches \ {b} : primary'[c] = primary[c]
  BY <1>2, <1>3, Zenon DEF Inv, TypeOK
<1>6. faults \in 0 .. MaxFaults /\ faults' \in 0 .. MaxFaults /\ faults' = faults + 1
  <2>1. faults \in 0 .. MaxFaults
    BY Zenon DEF Inv, TypeOK
  <2>q. QED BY <2>1, FaultCounts, Zenon
<1>7. damaged' \in BOOLEAN
  BY Zenon
<1>8. TypeOK'
  <2>1. LoopTypes'
    BY <1>1, <1>2, Zenon DEF Inv, TypeOK, LoopTypes, Pcs
  <2>2. BatchTypes' /\ FlagTypes' /\ DbTypes' /\ ChainTypes' /\ FaultTypes'
    BY <1>1, <1>5, <1>6, <1>7, Zenon DEF Inv, TypeOK, BatchTypes, FlagTypes, DbTypes,
       ChainTypes, FaultTypes, dbVars, chainVars, swapVars
  <2>q. QED BY <2>1, <2>2, TypesAre, PTL
<1>9. Numbered' /\ Stored'
  <2>1. \A c \in Batches : Running(c)' <=> Running(c)
    BY Zenon DEF Running
  <2>2. \A c \in Batches : ~Running(c) => primary'[c] = primary[c]
    BY <1>3, <1>5, Zenon
  <2>3. \A c \in Batches : Rows(c)' = Rows(c)
    BY Zenon DEF Rows, dbVars
  <2>q. QED BY <1>1, <2>1, <2>2, <2>3, Zenon DEF Inv, Numbered, Stored, dbVars
<1>10. InHand' /\ Elsewhere'
  BY <1>1, Zenon DEF InHand, Elsewhere
<1>11. Primary'
  BY <1>4, <1>5, Zenon DEF Inv, Primary
<1>12. Reported' /\ FeeHasPayers' /\ MemoryMatchesStore' /\ Completed'
  BY <1>1, Zenon DEF Inv, Reported, FeeHasPayers, MemoryMatchesStore, Completed,
     CompletedIsConfirmed, Running, dbVars, chainVars
<1>13. Counted'
  <2>1. faults' >= 1 /\ (faults >= 1 => faults' >= 2)
    BY <1>6
  <2>q. QED BY <1>1, <2>1, Zenon DEF Inv, Counted, chainVars
<1>14. Told'
  <2>1. ASSUME NEW r \in told \cup notifying, Holding(r)
        PROVE  Holding(r)'
    <3>1. InBatch(r)' <=> InBatch(r)
      BY InBatchKept, Zenon DEF dbVars
    <3>q. QED BY <1>1, <2>1, <3>1, Zenon DEF Holding, InHands
  <2>2. faults \in Nat /\ faults' \in Nat /\ faults' >= faults
    BY <1>6
  <2>q. QED BY <1>1, <2>1, <2>2, ToldKept, Zenon DEF Inv, chainVars, swapVars
<1>q. QED BY <1>8, <1>9, <1>10, <1>11, <1>12, <1>13, <1>14, Zenon DEF Inv

\* The sweep cannot join the new batch.
LEMMA FillFailsStep == ASSUME Inv, FillFails PROVE Inv'
<1>1. /\ pc = "fill" /\ Fault /\ damaged' = TRUE /\ GoOn("fallback")
      /\ UNCHANGED <<batches, dbVars>> /\ placeUnchanged
  BY Zenon DEF FillFails
<1>2. CASE AddNew(req.batch, req.sweep)
  <2>1. PICK b \in Batches : b = req.batch /\ Running(b)
    BY <1>1, Zenon DEF Inv, InHand
  <2>2. Joins(b)
    BY <1>1, <1>2, <2>1, Zenon DEF Joins, placeUnchanged
  <2>q. QED BY <1>1, <2>1, <2>2, JoinStep, Zenon
<1>q. QED BY <1>1, <1>2, UnwatchedStep, Zenon DEF FillFails

\* The fallback finds a batch that has the sweep or accepts it.
LEMMA FallbackStep ==
    ASSUME Inv, NEW b \in Batches, Fallback(b)
    PROVE  Inv'
<1>1. /\ pc = "fallback" /\ Return
      /\ UNCHANGED <<batches, damaged, faults, purging, notifying, chainVars, swapVars>>
  BY Zenon DEF Fallback, placeUnchanged
<1>2. CASE /\ Running(b) /\ req.sweep \in sweeps[b]
           /\ Attach(req.sweep)
           /\ UNCHANGED <<state, sweeps, primary, paused, watched, spendChan, reorgChan,
                          confs, dbVars>>
  <2>1. InBatch(req.sweep) /\ pc' = "idle"
    BY <1>1, <1>2, Zenon DEF InBatch, Return
  <2>2. /\ notifying' \subseteq Sweeps /\ faults' \in 0 .. MaxFaults /\ faults' >= faults
        /\ hasNotifier' \subseteq Sweeps
    BY <1>1, <1>2, AttachTypes DEF Inv, TypeOK
  <2>q. QED BY <1>1, <1>2, <2>1, <2>2, RequestKeeps, Zenon
<1>3. CASE /\ Accepts(b, req.sweep)
           /\ AddNew(b, req.sweep)
           /\ PersistSweep(b, req.sweep)
  <2>1. Running(b)
    BY <1>3, Zenon DEF Accepts, Running
  <2>2. Joins(b)
    BY <1>1, <1>3, Zenon DEF Joins
  <2>q. QED BY <1>1, <2>1, <2>2, JoinStep, Zenon
<1>q. QED BY <1>2, <1>3, Zenon DEF Fallback

\* A new batch is stored and started for the sweep in hand.
LEMMA SpinUpStep ==
    ASSUME Inv, pc \in {"place", "fallback"}, pc' \in {"fill", "refill"}, SpinUpBatch,
           UNCHANGED <<damaged, faults>>, placeUnchanged
    PROVE  Inv'
<1>1. PICK b \in Batches :
        /\ b = 1 + Cardinality({c \in Batches : dbState[c] # "none"})
        /\ dbState' = [dbState EXCEPT ![b] = "open"]
        /\ state' = [state EXCEPT ![b] = "Open"]
        /\ batches' = batches \cup {b}
        /\ req' = [req EXCEPT !.batch = b]
        /\ UNCHANGED <<dbId, dbBatch, dbDone, sweeps, primary, paused, watched,
                       spendChan, reorgChan, confs, hasNotifier>>
  BY Zenon DEF SpinUpBatch
<1>2. UNCHANGED <<purging, notifying, txs, mined, deep, reorged, wanted, told>>
  BY Zenon DEF placeUnchanged, chainVars, swapVars
<1>3. dbState[b] = "none" /\ Numbered'
  <2>1. DbTypes /\ Numbered
    BY TypesAre, Zenon DEF Inv
  <2>q. QED BY <1>1, <2>1, NewBatch, Zenon
<1>4. /\ state[b] = "none" /\ ~Running(b) /\ Rows(b) = {} /\ sweeps[b] = {}
      /\ primary[b] = NoSweep
  BY <1>3, Zenon DEF Inv, Stored, Running
<1>5. confs[b] = {} /\ spendChan[b] = <<>> /\ ~watched[b]
  BY <1>4, Zenon DEF Inv, Stored, Primary
<1>6. /\ req \in Requests /\ req' \in Requests /\ req'.batch = b
      /\ req'.sweep = req.sweep /\ req.sweep \in Sweeps
  <2>1. req \in Requests /\ req.sweep \in Sweeps
    BY AttachTypes, Zenon DEF Inv
  <2>q. QED BY <1>1, <2>1, Zenon DEF Requests
<1>7. /\ state' \in [Batches -> {"none", "Open", "Closed", "Confirmed"}]
      /\ state'[b] = "Open" /\ \A c \in Batches \ {b} : state'[c] = state[c]
      /\ dbState' \in [Batches -> {"none", "open", "confirmed", "cancelled"}]
      /\ dbState'[b] = "open" /\ \A c \in Batches \ {b} : dbState'[c] = dbState[c]
  BY <1>1, Zenon DEF Inv, TypeOK
<1>8. /\ Running(b)' /\ \A c \in Batches \ {b} : Running(c)' <=> Running(c)
  BY <1>7, Zenon DEF Running
<1>9. \A c \in Batches : Rows(c)' = Rows(c)
  BY <1>1, Zenon DEF Rows
<1>10. TypeOK'
  <2>1. LoopTypes'
    <3>1. req' # NoRequest
      BY <1>6, SweepsAssumption DEF NoRequest
    <3>q. QED BY <1>1, <1>2, <1>6, <3>1, Zenon DEF Inv, TypeOK, LoopTypes, Pcs
  <2>2. BatchTypes' /\ FlagTypes' /\ DbTypes' /\ ChainTypes' /\ FaultTypes'
    BY <1>1, <1>2, <1>7, Zenon DEF Inv, TypeOK, BatchTypes, FlagTypes, DbTypes,
       ChainTypes, FaultTypes
  <2>q. QED BY <2>1, <2>2, TypesAre, PTL
<1>11. Stored'
  <2>. SUFFICES ASSUME NEW c \in Batches
                PROVE  /\ Running(c)' => c \in batches' /\ dbState'[c] = "open"
                       /\ ~Running(c)' => sweeps'[c] = {} /\ primary'[c] = NoSweep
                                          /\ confs'[c] = {}
                       /\ dbState'[c] = "none" => state'[c] = "none" /\ Rows(c)' = {}
                       /\ pc' = "down" => state'[c] = "none"
    BY Zenon DEF Stored
  <2>1. CASE c = b
    BY <1>1, <1>7, <1>8, <2>1, Zenon
  <2>2. CASE c # b
    <3>1. state'[c] = state[c] /\ dbState'[c] = dbState[c] /\ Rows(c)' = Rows(c)
          /\ (Running(c)' <=> Running(c))
      BY <1>7, <1>8, <1>9, <2>2, Zenon
    <3>2. batches \subseteq batches' /\ pc' # "down"
      BY <1>1, Zenon
    <3>q. QED BY <1>1, <3>1, <3>2, Zenon DEF Inv, Stored
  <2>q. QED BY <2>1, <2>2, Zenon
<1>12. InHand'
  BY <1>1, <1>4, <1>6, <1>8, Zenon DEF InHand
<1>13. Primary' /\ Reported'
  BY <1>1, <1>2, Zenon DEF Inv, Primary, Reported
<1>14. Elsewhere'
  <2>. SUFFICES ASSUME ~damaged, NEW c \in Batches, Running(c)', req.sweep \in sweeps[c]
                PROVE  FALSE
    BY <1>1, <1>6, Zenon DEF Elsewhere
  <2>1. c # b
    BY <1>4, Zenon
  <2>q. QED BY <1>8, <2>1, Zenon DEF Inv, Elsewhere
<1>15. MemoryMatchesStore'
  BY <1>1, <1>4, <1>8, <1>9, Zenon DEF Inv, MemoryMatchesStore
<1>16. Completed'
  <2>1. \A s \in dbDone : dbBatch[s] \in Batches /\ dbState[dbBatch[s]] = "confirmed"
    BY Zenon DEF Inv, Completed, CompletedIsConfirmed
  <2>2. \A s \in dbDone : dbState'[dbBatch[s]] = "confirmed"
    BY <1>3, <1>7, <2>1, Zenon
  <2>q. QED BY <1>1, <1>2, <2>1, <2>2, Zenon DEF Inv, Completed, CompletedIsConfirmed
<1>17. FeeHasPayers'
  <2>. SUFFICES ASSUME NEW c \in Batches, Running(c)'
                PROVE  /\ \A i \in DOMAIN spendChan[c] :
                             spendChan[c][i].ins \cap sweeps[c] # {}
                       /\ \A t \in confs[c] : t.ins \cap sweeps[c] # {}
    BY <1>1, Zenon DEF FeeHasPayers
  <2>1. CASE c = b
    BY <1>5, <2>1
  <2>2. CASE c # b
    BY <1>8, <2>2, Zenon DEF Inv, FeeHasPayers
  <2>q. QED BY <2>1, <2>2, Zenon
<1>18. Counted'
  BY <1>2, Zenon DEF Inv, Counted
<1>19. Told'
  <2>1. ASSUME NEW r \in told \cup notifying, Holding(r)
        PROVE  Holding(r)'
    <3>1. InBatch(r) => InBatch(r)'
      <4>. SUFFICES ASSUME NEW c \in Batches,
                           \/ Running(c) /\ r \in sweeps[c]
                           \/ dbState[c] = "open" /\ r \in Rows(c)
                    PROVE  InBatch(r)'
        BY Zenon DEF InBatch
      <4>1. c # b
        BY <1>3, <1>4, Zenon
      <4>2. dbState'[c] = dbState[c] /\ Rows(c)' = Rows(c) /\ (Running(c)' <=> Running(c))
        BY <1>7, <1>8, <1>9, <4>1, Zenon
      <4>q. QED BY <1>1, <4>2, Zenon DEF InBatch
    <3>2. InHands(r) => InHands(r)'
      BY <1>6, Zenon DEF InHands
    <3>q. QED BY <1>2, <2>1, <3>1, <3>2, Zenon DEF Holding
  <2>2. faults \in Nat /\ faults' = faults
    BY DEF Inv, TypeOK
  <2>q. QED BY <1>2, <2>1, <2>2, ToldKept DEF Inv
<1>q. QED BY <1>3, <1>10, <1>11, <1>12, <1>13, <1>14, <1>15, <1>16, <1>17, <1>18, <1>19,
      Zenon DEF Inv

\* The greedy search and the fallback open a new batch.
LEMMA NewBatchStep == ASSUME Inv, PlaceInNewBatch \/ FallbackToNew PROVE Inv'
BY SpinUpStep, Zenon DEF PlaceInNewBatch, FallbackToNew

-----------------------------------------------------------------------------
(* The event loops of the batches. *)

\* What an event keeps that leaves the sweeps of the batches and the store alone and
\* ends no batch.
LEMMA EventKeeps ==
    ASSUME Inv, runUnchanged,
           UNCHANGED <<purging, sweeps, primary, watched, hasNotifier, dbVars, mined,
                       deep, reorged>>,
           notifying' \subseteq Sweeps, FlagTypes', BatchTypes',
           txs \subseteq txs', txs' \subseteq Txs,
           faults' \in 0 .. MaxFaults, faults' >= faults,
           \A b \in Batches :
               /\ Running(b)' <=> Running(b)
               /\ ~Running(b) => state'[b] = state[b] /\ confs'[b] = confs[b]
               /\ spendChan[b] = <<>> => spendChan'[b] = <<>>,
           Reported', FeeHasPayers', Told'
    PROVE  Inv'
<1>1. UNCHANGED <<pc, req, batches, wanted, told, damaged>>
  BY Zenon DEF runUnchanged, swapVars
<1>2. TypeOK'
  <2>1. LoopTypes' /\ DbTypes' /\ FaultTypes'
    BY <1>1, Zenon DEF Inv, TypeOK, LoopTypes, DbTypes, FaultTypes, dbVars
  <2>2. ChainTypes'
    BY <1>1, Zenon DEF Inv, TypeOK, ChainTypes
  <2>q. QED BY <2>1, <2>2, TypesAre, PTL
<1>3. \A b \in Batches : Rows(b)' = Rows(b)
  BY Zenon DEF Rows, dbVars
<1>4. Numbered'
  BY Zenon DEF Inv, Numbered, dbVars
<1>5. Stored'
  <2>1. \A b \in Batches : state[b] = "none" => ~Running(b)
    BY Zenon DEF Running
  <2>q. QED BY <1>1, <1>3, <2>1, Zenon DEF Inv, Stored, dbVars
<1>6. InHand'
  BY <1>1, Zenon DEF Inv, InHand
<1>7. Primary'
  BY Zenon DEF Inv, Primary
<1>8. Elsewhere'
  BY <1>1, Zenon DEF Inv, Elsewhere
<1>9. MemoryMatchesStore'
  BY <1>1, <1>3, Zenon DEF Inv, MemoryMatchesStore
<1>10. Completed'
  BY Zenon DEF Inv, Completed, CompletedIsConfirmed, dbVars
<1>11. Counted'
  <2>1. (faults >= 1 => faults' >= 1) /\ (faults >= 2 => faults' >= 2)
    BY DEF Inv, TypeOK
  <2>q. QED BY <1>1, <2>1, Zenon DEF Inv, Counted
<1>q. QED BY <1>2, <1>4, <1>5, <1>6, <1>7, <1>8, <1>9, <1>10, <1>11, Zenon DEF Inv

\* In such an event what is held stays held.
LEMMA EventHolds ==
    ASSUME runUnchanged, UNCHANGED <<purging, sweeps, dbVars>>,
           \A b \in Batches : Running(b)' <=> Running(b),
           NEW s
    PROVE  Holding(s)' <=> Holding(s)
<1>1. \A b \in Batches : Rows(b)' = Rows(b)
  BY Zenon DEF Rows, dbVars
<1>2. InBatch(s)' <=> InBatch(s)
  BY <1>1, Zenon DEF InBatch, dbVars
<1>q. QED BY <1>2, Zenon DEF Holding, InHands, runUnchanged

\* A batch publishes a transaction of its sweeps, or cannot construct it.
LEMMA PublishStep ==
    ASSUME Inv, NEW b \in Batches, Publish(b) \/ PublishNotConstructed(b)
    PROVE  Inv'
<1>1. /\ UNCHANGED <<purging, notifying, state, sweeps, primary, watched, spendChan,
                     reorgChan, confs, hasNotifier, dbVars, mined, deep, reorged>>
      /\ runUnchanged
  BY Zenon DEF Publish, PublishNotConstructed, chainVars
<1>2. txs \subseteq txs' /\ txs' \subseteq Txs
  <2>1. [batch |-> b, ins |-> sweeps[b]] \in Txs
    BY Zenon DEF Inv, TypeOK, Txs
  <2>2. txs' = txs \/ txs' = txs \cup {[batch |-> b, ins |-> sweeps[b]]}
    BY Zenon DEF Publish, PublishMixedBatch, BatchTx, PublishNotConstructed, chainVars
  <2>3. txs \subseteq Txs
    BY Zenon DEF Inv, TypeOK
  <2>q. QED BY <2>1, <2>2, <2>3, Zenon
<1>3. paused' \in [Batches -> BOOLEAN]
  <2>1. paused \in [Batches -> BOOLEAN]
    BY Zenon DEF Inv, TypeOK
  <2>2. \/ paused' = [paused EXCEPT ![b] = TRUE]
        \/ paused' = [paused EXCEPT ![b] = FALSE]
    BY Zenon DEF Publish, PublishNotConstructed
  <2>q. QED BY <2>1, <2>2, Zenon
<1>4. faults' \in 0 .. MaxFaults /\ faults' >= faults /\ faults \in Nat /\ faults' \in Nat
  <2>1. faults \in 0 .. MaxFaults
    BY Zenon DEF Inv, TypeOK
  <2>2. UNCHANGED faults \/ Fault
    BY Zenon DEF Publish, PublishNotConstructed
  <2>q. QED BY <2>1, <2>2, FaultCounts
<1>5. \A c \in Batches : Running(c)' <=> Running(c)
  BY <1>1, Zenon DEF Running
<1>6. notifying' \subseteq Sweeps /\ FlagTypes' /\ BatchTypes'
  BY <1>1, <1>3, Zenon DEF Inv, TypeOK, FlagTypes, BatchTypes
<1>7. Reported' /\ FeeHasPayers'
  BY <1>1, <1>5, Zenon DEF Inv, Reported, FeeHasPayers
<1>8. Told'
  <2>1. UNCHANGED told
    BY <1>1, Zenon DEF runUnchanged, swapVars
  <2>q. QED BY <1>1, <1>4, <1>5, <2>1, EventHolds, ToldKept, Zenon DEF Inv
<1>q. QED BY <1>1, <1>2, <1>4, <1>5, <1>6, <1>7, <1>8, EventKeeps, Zenon

\* A batch learns of a spend, tells the swaps and waits for confirmations.
LEMMA HandleSpendStep ==
    ASSUME Inv, NEW b \in Batches, HandleSpend(b)
    PROVE  Inv'
<1>1. /\ UNCHANGED <<purging, sweeps, primary, watched, paused, reorgChan, hasNotifier,
                     dbVars, chainVars, faults>>
      /\ runUnchanged /\ Running(b) /\ spendChan[b] # <<>>
  BY Zenon DEF HandleSpend
<1>2. PICK t \in Txs : /\ t = Head(spendChan[b])
                       /\ 1 \in DOMAIN spendChan[b] /\ t = spendChan[b][1]
  <2>1. spendChan[b] \in Seq(Txs)
    BY Zenon DEF Inv, TypeOK
  <2>q. QED BY <1>1, <2>1, InTail, Zenon
<1>3. /\ notifying' = notifying \cup (sweeps[b] \cap t.ins \cap hasNotifier)
      /\ confs' = [confs EXCEPT ![b] = @ \cup {t}]
      /\ spendChan' = [spendChan EXCEPT ![b] = Tail(@)]
      /\ state' = [state EXCEPT ![b] = "Closed"]
  BY <1>2, Zenon DEF HandleSpend
<1>4. /\ state' \in [Batches -> {"none", "Open", "Closed", "Confirmed"}]
      /\ state'[b] = "Closed" /\ \A c \in Batches \ {b} : state'[c] = state[c]
  BY <1>3, Zenon DEF Inv, TypeOK
<1>5. \A c \in Batches : /\ Running(c)' <=> Running(c)
                         /\ ~Running(c) => state'[c] = state[c]
  BY <1>1, <1>4, Zenon DEF Running
<1>6. /\ spendChan' \in [Batches -> Seq(Txs)]
      /\ \A c \in Batches \ {b} : spendChan'[c] = spendChan[c]
      /\ \A i \in DOMAIN spendChan'[b] : \E j \in DOMAIN spendChan[b] :
            spendChan'[b][i] = spendChan[b][j]
  <2>1. spendChan \in [Batches -> Seq(Txs)] /\ spendChan[b] \in Seq(Txs)
    BY Zenon DEF Inv, TypeOK
  <2>2. Tail(spendChan[b]) \in Seq(Txs)
    BY <1>1, <2>1, InTail, Zenon
  <2>3. spendChan'[b] = Tail(spendChan[b])
    BY <1>3, <2>1, Zenon
  <2>4. /\ spendChan' \in [Batches -> Seq(Txs)]
        /\ \A c \in Batches \ {b} : spendChan'[c] = spendChan[c]
    BY <1>3, <2>1, <2>2, Zenon
  <2>q. QED BY <1>1, <2>1, <2>3, <2>4, InTail
<1>7. /\ confs' \in [Batches -> SUBSET Txs]
      /\ confs'[b] = confs[b] \cup {t} /\ \A c \in Batches \ {b} : confs'[c] = confs[c]
  BY <1>2, <1>3 DEF Inv, TypeOK
<1>8. /\ t \in mined \/ reorged
      /\ t.ins \cap sweeps[b] # {}
  BY <1>1, <1>2, Zenon DEF Inv, Reported, FeeHasPayers
<1>9. Reported'
  <2>1. ASSUME NEW c \in Batches, NEW i \in DOMAIN spendChan'[c]
        PROVE  \E j \in DOMAIN spendChan[c] : spendChan'[c][i] = spendChan[c][j]
    BY <1>6, <2>1, Zenon
  <2>q. QED BY <1>1, <2>1, Zenon DEF Inv, Reported, chainVars
<1>10. FeeHasPayers'
  <2>1. ASSUME NEW c \in Batches, NEW i \in DOMAIN spendChan'[c], Running(c)
        PROVE  spendChan'[c][i].ins \cap sweeps[c] # {}
    <3>1. \E j \in DOMAIN spendChan[c] : spendChan'[c][i] = spendChan[c][j]
      BY <1>6, <2>1, Zenon
    <3>q. QED BY <2>1, <3>1, Zenon DEF Inv, FeeHasPayers
  <2>2. ASSUME NEW c \in Batches, NEW u \in confs'[c], Running(c)
        PROVE  u.ins \cap sweeps[c] # {}
    <3>1. u \in confs[c] \/ (c = b /\ u = t)
      BY <1>7, <2>2, Zenon
    <3>q. QED BY <1>8, <2>2, <3>1, Zenon DEF Inv, FeeHasPayers
  <2>q. QED BY <1>1, <1>5, <2>1, <2>2, Zenon DEF FeeHasPayers
<1>11. Told'
  <2>1. UNCHANGED <<told, mined, deep, reorged>>
    BY <1>1, Zenon DEF runUnchanged, swapVars, chainVars
  <2>2. \A r \in notifying' : r \in notifying \/ (r \in sweeps[b] /\ r \in t.ins)
    BY <1>3, Zenon
  <2>3. \A r : r \in sweeps[b] => Holding(r)
    BY <1>1, Zenon DEF Holding, InBatch
  <2>4. \A r : r \in t.ins => Spent(r)' \/ reorged'
    BY <1>8, <2>1, Zenon DEF Spent
  <2>5. \A r : Holding(r)' <=> Holding(r)
    BY <1>1, <1>5, EventHolds, Zenon
  <2>6. faults \in Nat /\ faults' = faults
    BY <1>1 DEF Inv, TypeOK
  <2>q. QED BY <2>1, <2>2, <2>3, <2>4, <2>5, <2>6, ToldKept DEF Inv
<1>12. FlagTypes' /\ BatchTypes'
  BY <1>1, <1>4, <1>6, <1>7, Zenon DEF Inv, TypeOK, FlagTypes, BatchTypes
<1>13. /\ notifying' \subseteq Sweeps /\ faults' \in 0 .. MaxFaults /\ faults' >= faults
       /\ txs \subseteq txs' /\ txs' \subseteq Txs
  BY <1>1, <1>3 DEF Inv, TypeOK, chainVars
<1>14. \A c \in Batches : /\ ~Running(c) => confs'[c] = confs[c]
                          /\ spendChan[c] = <<>> => spendChan'[c] = <<>>
  BY <1>1, <1>6, <1>7, Zenon
<1>q. QED BY <1>1, <1>5, <1>9, <1>10, <1>11, <1>12, <1>13, <1>14, EventKeeps, Zenon
      DEF chainVars

\* A reorganisation reopens the batch.
LEMMA HandleReorgStep ==
    ASSUME Inv, NEW b \in Batches, HandleReorg(b)
    PROVE  Inv'
<1>1. /\ UNCHANGED <<purging, notifying, sweeps, primary, watched, paused, spendChan,
                     confs, hasNotifier, dbVars, chainVars, faults>>
      /\ runUnchanged /\ Running(b)
      /\ state' = [state EXCEPT ![b] = "Open"]
  BY Zenon DEF HandleReorg
<1>2. reorgChan' \in [Batches -> BOOLEAN]
  BY Zenon DEF HandleReorg, Inv, TypeOK
<1>3. /\ state' \in [Batches -> {"none", "Open", "Closed", "Confirmed"}]
      /\ \A c \in Batches : /\ Running(c)' <=> Running(c)
                            /\ ~Running(c) => state'[c] = state[c]
  BY <1>1, Zenon DEF Inv, TypeOK, Running
<1>4. Reported' /\ FeeHasPayers'
  BY <1>1, <1>3, Zenon DEF Inv, Reported, FeeHasPayers, chainVars
<1>5. Told'
  <2>1. UNCHANGED <<told, notifying, mined, deep, reorged>>
    BY <1>1, Zenon DEF runUnchanged, swapVars, chainVars
  <2>2. faults \in Nat /\ faults' = faults
    BY <1>1 DEF Inv, TypeOK
  <2>q. QED BY <1>1, <1>3, <2>1, <2>2, EventHolds, ToldKept DEF Inv
<1>6. FlagTypes' /\ BatchTypes' /\ notifying' \subseteq Sweeps
  BY <1>1, <1>2, <1>3, Zenon DEF Inv, TypeOK, FlagTypes, BatchTypes
<1>7. /\ faults' \in 0 .. MaxFaults /\ faults' >= faults
      /\ txs \subseteq txs' /\ txs' \subseteq Txs
  BY <1>1 DEF Inv, TypeOK, chainVars
<1>q. QED BY <1>1, <1>3, <1>4, <1>5, <1>6, <1>7, EventKeeps, Zenon DEF chainVars

\* What Forget leaves of a batch.
LEMMA ForgetIs ==
    ASSUME TypeOK, NEW b \in Batches, Forget(b)
    PROVE  /\ sweeps' \in [Batches -> SUBSET Sweeps]
           /\ primary' \in [Batches -> Sweeps \cup {NoSweep}]
           /\ spendChan' \in [Batches -> Seq(Txs)]
           /\ confs' \in [Batches -> SUBSET Txs]
           /\ FlagTypes'
           /\ sweeps'[b] = {} /\ primary'[b] = NoSweep /\ spendChan'[b] = <<>>
           /\ confs'[b] = {} /\ ~watched'[b]
           /\ \A c \in Batches \ {b} :
                 /\ sweeps'[c] = sweeps[c] /\ primary'[c] = primary[c]
                 /\ spendChan'[c] = spendChan[c] /\ confs'[c] = confs[c]
                 /\ watched'[c] <=> watched[c]
<1>1. /\ sweeps' \in [Batches -> SUBSET Sweeps]
      /\ primary' \in [Batches -> Sweeps \cup {NoSweep}]
      /\ confs' \in [Batches -> SUBSET Txs]
      /\ sweeps'[b] = {} /\ primary'[b] = NoSweep /\ confs'[b] = {}
      /\ \A c \in Batches \ {b} :
            /\ sweeps'[c] = sweeps[c] /\ primary'[c] = primary[c]
            /\ confs'[c] = confs[c]
  BY Zenon DEF TypeOK, Forget
<1>2. /\ spendChan' \in [Batches -> Seq(Txs)] /\ spendChan'[b] = <<>>
      /\ \A c \in Batches \ {b} : spendChan'[c] = spendChan[c]
  <2>1. <<>> \in Seq(Txs)
    OBVIOUS
  <2>2. spendChan' = [spendChan EXCEPT ![b] = <<>>]
    BY Zenon DEF Forget
  <2>q. QED BY <2>1, <2>2, Zenon DEF TypeOK
<1>3. FlagTypes' /\ ~watched'[b] /\ \A c \in Batches \ {b} : watched'[c] <=> watched[c]
  BY Zenon DEF TypeOK, Forget, FlagTypes
<1>q. QED BY <1>1, <1>2, <1>3, Zenon

\* The transaction of a batch is confirmed: its sweeps are completed, the others are
\* fed back.
LEMMA HandleConfStep ==
    ASSUME Inv, NEW b \in Batches, HandleConf(b)
    PROVE  Inv'
<1>1. PICK t \in confs[b] \cap deep :
        /\ dbState' = [dbState EXCEPT ![b] = "confirmed"]
        /\ dbDone' = dbDone \cup (sweeps[b] \cap t.ins)
        /\ purging' = purging \cup (sweeps[b] \ t.ins)
        /\ hasNotifier' = hasNotifier \ (sweeps[b] \cap t.ins)
  BY Zenon DEF HandleConf, ConfirmedSweeps, PurgedSweeps
<1>2. /\ Running(b) /\ Rows(b) = sweeps[b]
      /\ state' = [state EXCEPT ![b] = "Confirmed"] /\ Forget(b)
      /\ UNCHANGED <<notifying, dbId, dbBatch, faults, txs, mined, deep, reorged>>
      /\ UNCHANGED <<pc, req, batches, wanted, told, damaged>>
  BY Zenon DEF HandleConf, runUnchanged, chainVars, swapVars
<1>3. /\ sweeps' \in [Batches -> SUBSET Sweeps]
      /\ primary' \in [Batches -> Sweeps \cup {NoSweep}]
      /\ spendChan' \in [Batches -> Seq(Txs)]
      /\ confs' \in [Batches -> SUBSET Txs]
      /\ FlagTypes'
      /\ sweeps'[b] = {} /\ primary'[b] = NoSweep /\ spendChan'[b] = <<>>
      /\ confs'[b] = {} /\ ~watched'[b]
      /\ \A c \in Batches \ {b} :
            /\ sweeps'[c] = sweeps[c] /\ primary'[c] = primary[c]
            /\ spendChan'[c] = spendChan[c] /\ confs'[c] = confs[c]
            /\ watched'[c] <=> watched[c]
  BY <1>2, ForgetIs, Zenon DEF Inv
<1>4. /\ state' \in [Batches -> {"none", "Open", "Closed", "Confirmed"}]
      /\ state'[b] = "Confirmed" /\ \A c \in Batches \ {b} : state'[c] = state[c]
      /\ dbState' \in [Batches -> {"none", "open", "confirmed", "cancelled"}]
      /\ dbState'[b] = "confirmed" /\ \A c \in Batches \ {b} : dbState'[c] = dbState[c]
  BY <1>1, <1>2, Zenon DEF Inv, TypeOK
<1>5. ~Running(b)' /\ \A c \in Batches \ {b} : Running(c)' <=> Running(c)
  BY <1>4, Zenon DEF Running
<1>6. \A c \in Batches : Rows(c)' = Rows(c)
  BY <1>2, Zenon DEF Rows
<1>7. dbState[b] = "open"
  BY <1>2, Zenon DEF Inv, Stored
<1>8. TypeOK'
  <2>1. sweeps[b] \subseteq Sweeps
    BY Zenon DEF Inv, TypeOK
  <2>2. LoopTypes'
    BY <1>1, <1>2, <2>1, Zenon DEF Inv, TypeOK, LoopTypes
  <2>3. BatchTypes' /\ DbTypes'
    BY <1>1, <1>2, <1>3, <1>4, <2>1, Zenon DEF Inv, TypeOK, BatchTypes, DbTypes
  <2>4. ChainTypes' /\ FaultTypes'
    BY <1>2, Zenon DEF Inv, TypeOK, ChainTypes, FaultTypes
  <2>q. QED BY <1>3, <2>2, <2>3, <2>4, TypesAre, PTL
<1>9. Numbered'
  <2>1. \A c \in Batches : dbState'[c] # "none" <=> dbState[c] # "none"
    BY <1>4, <1>7, Zenon
  <2>q. QED BY <2>1, Zenon DEF Inv, Numbered
<1>10. Stored'
  <2>. SUFFICES ASSUME NEW c \in Batches
                PROVE  /\ Running(c)' => c \in batches' /\ dbState'[c] = "open"
                       /\ ~Running(c)' => sweeps'[c] = {} /\ primary'[c] = NoSweep
                                          /\ confs'[c] = {}
                       /\ dbState'[c] = "none" => state'[c] = "none" /\ Rows(c)' = {}
                       /\ pc' = "down" => state'[c] = "none"
    BY Zenon DEF Stored
  <2>1. pc # "down"
    BY <1>2, Zenon DEF Inv, Stored, Running
  <2>2. CASE c = b
    BY <1>2, <1>3, <1>4, <1>5, <2>1, <2>2, Zenon
  <2>3. CASE c # b
    <3>1. state'[c] = state[c] /\ dbState'[c] = dbState[c] /\ Rows(c)' = Rows(c)
          /\ (Running(c)' <=> Running(c)) /\ sweeps'[c] = sweeps[c]
          /\ primary'[c] = primary[c] /\ confs'[c] = confs[c]
      BY <1>3, <1>4, <1>5, <1>6, <2>3, Zenon
    <3>q. QED BY <1>2, <3>1, Zenon DEF Inv, Stored
  <2>q. QED BY <2>2, <2>3, Zenon
<1>11. InHand'
  <2>1. sweeps[b] # {}
    BY <1>1, <1>2, Zenon DEF Inv, FeeHasPayers
  <2>2. pc \in {"fill", "refill"} => req.batch \in Batches \ {b}
    BY <2>1, Zenon DEF Inv, InHand
  <2>3. \A c \in Batches : Running(c)' => c # b /\ Running(c) /\ sweeps'[c] = sweeps[c]
    BY <1>3, <1>5, Zenon
  <2>4. pc = "readd" => /\ req.batch \in Batches
                        /\ Running(req.batch)' => req.sweep \in sweeps'[req.batch]
    BY <1>2, <2>3, Zenon DEF Inv, InHand
  <2>q. QED BY <1>2, <1>3, <1>5, <2>2, <2>4, Zenon DEF Inv, InHand
<1>12. Primary'
  BY <1>3, Zenon DEF Inv, Primary
<1>13. Reported'
  <2>1. ASSUME NEW c \in Batches, NEW i \in DOMAIN spendChan'[c]
        PROVE  spendChan'[c][i] \in mined \/ reorged
    <3>1. c # b
      BY <1>3, <2>1
    <3>q. QED BY <1>3, <2>1, <3>1, Zenon DEF Inv, Reported
  <2>q. QED BY <1>2, <2>1, Zenon DEF Reported
<1>14. Elsewhere' /\ MemoryMatchesStore' /\ FeeHasPayers'
  <2>1. \A c \in Batches : Running(c)' => /\ c # b /\ Running(c) /\ sweeps'[c] = sweeps[c]
                                          /\ spendChan'[c] = spendChan[c]
                                          /\ confs'[c] = confs[c]
    BY <1>3, <1>5, Zenon
  <2>q. QED BY <1>2, <1>6, <2>1, Zenon
        DEF Inv, Elsewhere, MemoryMatchesStore, FeeHasPayers
<1>15. Completed'
  <2>. SUFFICES ASSUME NEW s \in dbDone'
                PROVE  /\ dbBatch[s] \in Batches /\ dbState'[dbBatch[s]] = "confirmed"
                       /\ \E u \in deep : s \in u.ins
    BY <1>2, Zenon DEF Completed, CompletedIsConfirmed
  <2>1. CASE s \in dbDone
    BY <1>4, <2>1, Zenon DEF Inv, Completed, CompletedIsConfirmed
  <2>2. CASE s \in sweeps[b] /\ s \in t.ins
    <3>1. dbBatch[s] = b
      BY <1>2, <2>2, Zenon DEF Rows
    <3>q. QED BY <1>1, <1>4, <2>2, <3>1, Zenon
  <2>q. QED BY <1>1, <2>1, <2>2, Zenon
<1>16. Counted'
  BY <1>2, Zenon DEF Inv, Counted
<1>17. Told'
  <2>1. ASSUME NEW r \in told \cup notifying, Holding(r)
        PROVE  Holding(r)' \/ SpentForGood(r)'
    <3>1. CASE r \in sweeps[b] /\ r \in t.ins
      BY <1>1, <1>2, <3>1, Zenon DEF SpentForGood
    <3>2. CASE r \in sweeps[b] /\ r \notin t.ins
      BY <1>1, <3>2, Zenon DEF Holding
    <3>3. CASE r \notin sweeps[b] /\ InBatch(r)
      <4>1. PICK c \in Batches : \/ Running(c) /\ r \in sweeps[c]
                                 \/ dbState[c] = "open" /\ r \in Rows(c)
        BY <3>3, Zenon DEF InBatch
      <4>2. c # b
        BY <1>2, <3>3, <4>1, Zenon
      <4>3. /\ Running(c)' <=> Running(c)
            /\ sweeps'[c] = sweeps[c] /\ dbState'[c] = dbState[c] /\ Rows(c)' = Rows(c)
        BY <1>3, <1>4, <1>5, <1>6, <4>2, Zenon
      <4>q. QED BY <4>1, <4>3, Zenon DEF Holding, InBatch
    <3>4. CASE r \in purging \/ InHands(r)
      BY <1>1, <1>2, <3>4, Zenon DEF Holding, InHands
    <3>q. QED BY <2>1, <3>1, <3>2, <3>3, <3>4, Zenon DEF Holding
  <2>2. faults \in Nat /\ faults' = faults
    BY <1>2 DEF Inv, TypeOK
  <2>q. QED BY <1>2, <2>1, <2>2, ToldKept DEF Inv
<1>q. QED BY <1>8, <1>9, <1>10, <1>11, <1>12, <1>13, <1>14, <1>15, <1>16, <1>17, Zenon
      DEF Inv

-----------------------------------------------------------------------------
(* Stops and restarts. *)

\* Memory is lost; it takes another fault to undo a spend that a swap was told of.
LEMMA ShutdownStep ==
    ASSUME Inv, Shutdown, UNCHANGED damaged,
           faults' \in 0 .. MaxFaults, faults' >= faults, faults' >= 1,
           reorged => faults' > 1
    PROVE  Inv'
<1>1. /\ pc' = "down" /\ batches' = {} /\ purging' = {} /\ notifying' = {}
      /\ state' = [b \in Batches |-> "none"] /\ sweeps' = [b \in Batches |-> {}]
      /\ primary' = [b \in Batches |-> NoSweep] /\ confs' = [b \in Batches |-> {}]
      /\ spendChan' = [b \in Batches |-> <<>>] /\ hasNotifier' = {}
      /\ req' = NoRequest
  BY Zenon DEF Shutdown
<1>2. UNCHANGED <<dbState, dbId, dbBatch, dbDone, txs, mined, deep, reorged, wanted, told>>
  BY Zenon DEF Shutdown, dbVars, chainVars, swapVars
<1>3. \A b \in Batches : ~Running(b)' /\ ~watched'[b] /\ state'[b] = "none"
  BY <1>1, Zenon DEF Running, Shutdown
<1>4. \A b \in Batches : /\ sweeps'[b] = {} /\ primary'[b] = NoSweep /\ confs'[b] = {}
                         /\ spendChan'[b] = <<>>
  BY <1>1, Zenon
<1>5. TypeOK'
  <2>1. LoopTypes'
    BY <1>1, Zenon DEF LoopTypes, Pcs
  <2>2. BatchTypes'
    <3>1. <<>> \in Seq(Txs)
      OBVIOUS
    <3>q. QED BY <1>1, <3>1, Zenon DEF BatchTypes
  <2>3. FlagTypes'
    BY Zenon DEF Shutdown, FlagTypes
  <2>4. DbTypes' /\ ChainTypes' /\ FaultTypes'
    BY <1>2, Zenon DEF Inv, TypeOK, DbTypes, ChainTypes, FaultTypes
  <2>q. QED BY <2>1, <2>2, <2>3, <2>4, TypesAre, PTL
<1>6. Numbered'
  BY <1>2, Zenon DEF Inv, Numbered
<1>7. Stored'
  BY <1>2, <1>3, <1>4, Zenon DEF Inv, Stored, Rows
<1>8. InHand' /\ Elsewhere'
  BY <1>1, Zenon DEF InHand, Elsewhere
<1>9. Primary' /\ Reported'
  BY <1>3, <1>4 DEF Primary, Reported
<1>10. MemoryMatchesStore' /\ FeeHasPayers'
  BY <1>3, Zenon DEF MemoryMatchesStore, FeeHasPayers
<1>11. Completed'
  BY <1>2, Zenon DEF Inv, Completed, CompletedIsConfirmed
<1>12. Counted'
  <2>1. (faults >= 1 => faults' >= 1) /\ (reorged => faults' >= 2)
    BY DEF Inv, TypeOK
  <2>q. QED BY <1>2, <2>1, Zenon DEF Inv, Counted
<1>13. Told'
  <2>. SUFFICES ASSUME NEW r \in told
                PROVE  /\ Spent(r)' \/ reorged'
                       /\ \/ Spent(r)' /\ faults' >= 1
                          \/ reorged' /\ faults' > 1
    BY <1>1, <1>2, Zenon DEF Told
  <2>1. Spent(r) \/ reorged
    BY Zenon DEF Inv, Told
  <2>2. Spent(r)' <=> Spent(r)
    BY <1>2, Zenon DEF Spent
  <2>q. QED BY <1>2, <2>1, <2>2, Zenon
<1>q. QED BY <1>5, <1>6, <1>7, <1>8, <1>9, <1>10, <1>11, <1>12, <1>13, Zenon DEF Inv

\* The batcher stops.
LEMMA StopStep == ASSUME Inv, Stop PROVE Inv'
<1>1. faults \in 0 .. MaxFaults
  BY Zenon DEF Inv, TypeOK
<1>2. Shutdown /\ Fault /\ UNCHANGED damaged
  BY Zenon DEF Stop
<1>3. faults' \in 0 .. MaxFaults /\ faults' = faults + 1
  BY <1>1, <1>2, FaultCounts, Zenon
<1>4. reorged => faults >= 1
  BY Zenon DEF Inv, Counted
<1>5. faults' >= faults /\ faults' >= 1 /\ (faults >= 1 => faults' > 1)
  BY <1>1, <1>3
<1>q. QED BY <1>2, <1>3, <1>4, <1>5, ShutdownStep, Zenon

\* A batch whose rows are not its sweeps stops the batcher; that takes a store call
\* that failed.
LEMMA HandleConfFailsStep ==
    ASSUME Inv, NEW b \in Batches, HandleConfFails(b)
    PROVE  Inv'
<1>1. faults \in 0 .. MaxFaults
  BY Zenon DEF Inv, TypeOK
<1>2. Shutdown /\ UNCHANGED <<damaged, faults>> /\ Running(b) /\ Rows(b) # sweeps[b]
  BY Zenon DEF HandleConfFails
<1>3. damaged
  BY <1>2, Zenon DEF Inv, MemoryMatchesStore
<1>4. faults >= 1 /\ (reorged => faults >= 2)
  BY <1>3, Zenon DEF Inv, Counted
<1>5. faults' \in 0 .. MaxFaults /\ faults' >= faults /\ faults' >= 1
      /\ (faults >= 2 => faults' > 1)
  BY <1>1, <1>2, <1>4
<1>q. QED BY <1>2, <1>4, <1>5, ShutdownStep, Zenon

\* The batches that have rows run again.
LEMMA RestartStep == ASSUME Inv, Restart PROVE Inv'
<1>1. /\ pc = "down" /\ pc' = "idle" /\ batches' = Loaded
      /\ UNCHANGED <<req, purging, notifying, paused, reorgChan, confs, hasNotifier,
                     dbId, dbBatch, dbDone, txs, mined, deep, reorged, wanted, told,
                     damaged, faults>>
  BY Zenon DEF Restart, chainVars, swapVars
<1>2. DbTypes /\ Loaded \subseteq Batches
  BY TypesAre, Zenon DEF Inv, Loaded, Unconfirmed
<1>3. ASSUME NEW b \in Loaded
      PROVE  /\ b \in Batches /\ dbState[b] = "open" /\ Rows(b) # {}
             /\ FirstRow(b) \in Rows(b) /\ FirstRow(b) \in Sweeps
             /\ FirstRow(b) # NoSweep /\ SpendsOf(FirstRow(b)) \in Seq(Txs)
  <2>1. b \in Batches /\ dbState[b] = "open" /\ Rows(b) # {}
    BY Zenon DEF Loaded, Unconfirmed
  <2>2. FirstRow(b) \in Rows(b)
    BY <1>2, <2>1, FirstRowIn, Zenon
  <2>3. FirstRow(b) \in Sweeps
    BY <2>2, Zenon DEF Rows
  <2>4. SpendsOf(FirstRow(b)) \in Seq(Txs)
    BY SpendsOfSpend, Zenon DEF Inv, TypeOK
  <2>q. QED BY <2>1, <2>2, <2>3, <2>4, SweepsAssumption, Zenon
<1>4. /\ state' = [b \in Batches |-> IF b \in Loaded THEN "Open" ELSE "none"]
      /\ sweeps' = [b \in Batches |-> IF b \in Loaded THEN Rows(b) ELSE {}]
      /\ primary' = [b \in Batches |->
              IF b \in Loaded THEN FirstRow(b) ELSE NoSweep]
      /\ spendChan' = [b \in Batches |->
              IF b \in Loaded THEN SpendsOf(FirstRow(b)) ELSE <<>>]
      /\ dbState' = [b \in Batches |->
              IF b \in Unconfirmed \ Loaded THEN "cancelled" ELSE dbState[b]]
  BY Zenon DEF Restart, SpinUpBatchFromDB
<1>5. \A b \in Batches : watched'[b] <=> b \in Loaded
  BY Zenon DEF Restart, SpinUpBatchFromDB
<1>6. \A b \in Loaded : /\ state'[b] = "Open" /\ sweeps'[b] = Rows(b)
                        /\ primary'[b] = FirstRow(b)
                        /\ spendChan'[b] = SpendsOf(FirstRow(b))
                        /\ dbState'[b] = "open"
  BY <1>3, <1>4, Zenon
<1>7. \A b \in Batches \ Loaded : /\ state'[b] = "none" /\ sweeps'[b] = {}
                                  /\ primary'[b] = NoSweep /\ spendChan'[b] = <<>>
  BY <1>4, Zenon
<1>8. \A b \in Batches : /\ dbState'[b] # dbState[b] => dbState[b] = "open"
                         /\ dbState'[b] = "none" <=> dbState[b] = "none"
  BY <1>4, Zenon DEF Unconfirmed
<1>9. \A b \in Batches : Running(b)' <=> b \in Loaded
  BY <1>6, <1>7, Zenon DEF Running
<1>10. \A b \in Batches : Rows(b)' = Rows(b)
  BY <1>1, Zenon DEF Rows
<1>11. \A b \in Batches : ~Running(b) /\ confs[b] = {}
  BY <1>1, Zenon DEF Inv, Stored, Running
<1>12. TypeOK'
  <2>1. LoopTypes'
    BY <1>1, <1>2, Zenon DEF Inv, TypeOK, LoopTypes, Pcs
  <2>2. BatchTypes'
    <3>1. state' \in [Batches -> {"none", "Open", "Closed", "Confirmed"}]
      BY <1>4, Zenon
    <3>2. sweeps' \in [Batches -> SUBSET Sweeps]
      BY <1>4, Zenon DEF Rows
    <3>3. primary' \in [Batches -> Sweeps \cup {NoSweep}]
      BY <1>3, <1>4, Zenon
    <3>4. spendChan' \in [Batches -> Seq(Txs)]
      <4>1. <<>> \in Seq(Txs)
        OBVIOUS
      <4>q. QED BY <1>3, <1>4, <4>1, Zenon
    <3>q. QED BY <1>1, <3>1, <3>2, <3>3, <3>4, Zenon DEF Inv, TypeOK, BatchTypes
  <2>3. FlagTypes'
    <3>1. watched' \in [Batches -> BOOLEAN]
      <4>1. watched' = [b \in Batches |-> b \in Loaded]
        BY Zenon DEF Restart, SpinUpBatchFromDB
      <4>q. QED BY <4>1
    <3>q. QED BY <1>1, <3>1, Zenon DEF Inv, TypeOK, FlagTypes
  <2>4. DbTypes'
    <3>1. dbState' \in [Batches -> {"none", "open", "confirmed", "cancelled"}]
      BY <1>2, <1>4, Zenon DEF DbTypes
    <3>q. QED BY <1>1, <1>2, <3>1, Zenon DEF DbTypes
  <2>5. ChainTypes' /\ FaultTypes'
    BY <1>1, Zenon DEF Inv, TypeOK, ChainTypes, FaultTypes
  <2>q. QED BY <2>1, <2>2, <2>3, <2>4, <2>5, TypesAre, PTL
<1>13. Numbered'
  BY <1>8, Zenon DEF Inv, Numbered
<1>14. Stored'
  <2>. SUFFICES ASSUME NEW c \in Batches
                PROVE  /\ Running(c)' => c \in batches' /\ dbState'[c] = "open"
                       /\ ~Running(c)' => sweeps'[c] = {} /\ primary'[c] = NoSweep
                                          /\ confs'[c] = {}
                       /\ dbState'[c] = "none" => state'[c] = "none" /\ Rows(c)' = {}
                       /\ pc' = "down" => state'[c] = "none"
    BY Zenon DEF Stored
  <2>1. CASE c \in Loaded
    BY <1>1, <1>6, <1>9, <2>1, Zenon
  <2>2. CASE c \notin Loaded
    BY <1>1, <1>7, <1>8, <1>9, <1>10, <1>11, <2>2, Zenon DEF Inv, Stored
  <2>q. QED BY <2>1, <2>2, Zenon
<1>15. InHand' /\ Elsewhere'
  BY <1>1, Zenon DEF InHand, Elsewhere
<1>16. Primary'
  <2>1. ASSUME NEW c \in Batches
        PROVE  /\ primary'[c] = NoSweep => ~watched'[c] /\ spendChan'[c] = <<>>
               /\ watched'[c] => primary'[c] \in sweeps'[c]
    <3>1. CASE c \in Loaded
      BY <1>3, <1>6, <3>1, Zenon
    <3>2. CASE c \notin Loaded
      BY <1>5, <1>7, <3>2, Zenon
    <3>q. QED BY <3>1, <3>2, Zenon
  <2>q. QED BY <2>1, Zenon DEF Primary
<1>17. Reported' /\ FeeHasPayers'
  <2>1. ASSUME NEW c \in Batches, NEW i \in DOMAIN spendChan'[c]
        PROVE  spendChan'[c][i] \in mined /\ spendChan'[c][i].ins \cap sweeps'[c] # {}
    <3>1. c \in Loaded
      BY <1>7, <2>1
    <3>2. spendChan'[c] = SpendsOf(FirstRow(c)) /\ FirstRow(c) \in sweeps'[c]
      BY <1>3, <1>6, <3>1, Zenon
    <3>3. spendChan'[c][i] \in mined /\ FirstRow(c) \in spendChan'[c][i].ins
      BY <2>1, <3>2, SpendsOfSpend, Zenon
    <3>q. QED BY <3>2, <3>3, Zenon
  <2>2. \A c \in Batches : confs'[c] = {}
    BY <1>1, <1>11, Zenon
  <2>3. Reported'
    BY <1>1, <2>1, Zenon DEF Reported
  <2>4. FeeHasPayers'
    BY <2>1, <2>2, Zenon DEF FeeHasPayers
  <2>q. QED BY <2>3, <2>4, Zenon
<1>18. MemoryMatchesStore'
  BY <1>6, <1>9, <1>10, Zenon DEF MemoryMatchesStore
<1>19. Completed'
  BY <1>1, <1>8, Zenon DEF Inv, Completed, CompletedIsConfirmed
<1>20. Counted'
  BY <1>1, Zenon DEF Inv, Counted
<1>21. Told'
  <2>1. ASSUME NEW r \in told \cup notifying, Holding(r)
        PROVE  Holding(r)'
    <3>1. CASE r \in purging
      BY <1>1, <3>1, Zenon DEF Holding
    <3>2. CASE InBatch(r)
      <4>1. PICK c \in Batches : dbState[c] = "open" /\ r \in Rows(c)
        BY <1>11, <3>2, Zenon DEF InBatch
      <4>2. c \in Loaded
        BY <4>1, Zenon DEF Loaded, Unconfirmed
      <4>q. QED BY <1>6, <1>9, <4>1, <4>2, Zenon DEF Holding, InBatch
    <3>q. QED BY <1>1, <2>1, <3>1, <3>2, Zenon DEF Holding, InHands
  <2>2. faults \in Nat /\ faults' = faults
    BY <1>1 DEF Inv, TypeOK
  <2>q. QED BY <1>1, <2>1, <2>2, ToldKept DEF Inv
<1>q. QED BY <1>12, <1>13, <1>14, <1>15, <1>16, <1>17, <1>18, <1>19, <1>20, <1>21, Zenon
      DEF Inv

-----------------------------------------------------------------------------
(* The chain. *)

\* What a block or a reorganisation keeps.
LEMMA ChainKeeps ==
    ASSUME Inv, chainUnchanged,
           spendChan' \in [Batches -> Seq(Txs)], reorgChan' \in [Batches -> BOOLEAN],
           mined' \subseteq txs, deep' \subseteq mined', deep \subseteq deep',
           reorged' \in BOOLEAN, faults' \in 0 .. MaxFaults,
           Primary', Reported', FeeHasPayers', Counted', Told'
    PROVE  Inv'
<1>1. UNCHANGED <<pc, req, batches, purging, notifying, state, sweeps, primary, paused,
                  watched, confs, hasNotifier, wanted, told, damaged, txs>>
  BY Zenon DEF chainUnchanged, loopVars, swapVars
<1>2. UNCHANGED dbVars
  BY Zenon DEF chainUnchanged
<1>3. TypeOK'
  <2>1. LoopTypes' /\ DbTypes' /\ FaultTypes' /\ ChainTypes'
    BY <1>1, <1>2, Zenon DEF Inv, TypeOK, LoopTypes, DbTypes, FaultTypes, ChainTypes,
       dbVars
  <2>2. BatchTypes' /\ FlagTypes'
    BY <1>1, Zenon DEF Inv, TypeOK, BatchTypes, FlagTypes
  <2>q. QED BY <2>1, <2>2, TypesAre, PTL
<1>4. Numbered' /\ Stored'
  <2>1. UNCHANGED <<dbState, dbBatch>>
    BY <1>2, Zenon DEF dbVars
  <2>2. Numbered'
    BY <2>1, Zenon DEF Inv, Numbered
  <2>3. \A b \in Batches : (Running(b)' <=> Running(b)) /\ Rows(b)' = Rows(b)
    BY <1>1, <2>1, Zenon DEF Running, Rows
  <2>4. Stored'
    BY <1>1, <2>1, <2>3, Zenon DEF Inv, Stored
  <2>q. QED BY <2>2, <2>4, Zenon
<1>5. InHand' /\ Elsewhere' /\ MemoryMatchesStore'
  BY <1>1, <1>2, Zenon
    DEF Inv, InHand, Elsewhere, MemoryMatchesStore, Running, Rows, dbVars
<1>6. Completed'
  BY <1>2, Zenon DEF Inv, Completed, CompletedIsConfirmed, dbVars
<1>q. QED BY <1>3, <1>4, <1>5, <1>6, Zenon DEF Inv

\* The chain does not change who holds a sweep.
LEMMA ChainHolds ==
    ASSUME chainUnchanged, NEW s
    PROVE  Holding(s)' <=> Holding(s)
<1>1. UNCHANGED <<pc, req, purging, state, sweeps, dbState, dbBatch>>
  BY Zenon DEF chainUnchanged, loopVars, dbVars
<1>2. InBatch(s)' <=> InBatch(s)
  BY <1>1, InBatchKept, Zenon
<1>q. QED BY <1>1, <1>2, Zenon DEF Holding, InHands

\* A version of a transaction is mined; the batches that watch an input are told.
LEMMA MineStep == ASSUME Inv, NEW t \in txs, Mine(t) PROVE Inv'
<1>1. /\ mined' = mined \cup {t} /\ UNCHANGED <<reorgChan, deep, reorged, faults>>
      /\ chainUnchanged
      /\ spendChan' = [b \in Batches |->
              IF Concerns(t, b) THEN Append(spendChan[b], t) ELSE spendChan[b]]
  BY Zenon DEF Mine
<1>2. UNCHANGED <<state, sweeps, primary, watched, confs, told, notifying, damaged>>
  BY <1>1, Zenon DEF chainUnchanged, loopVars, swapVars
<1>3. t \in Txs /\ spendChan \in [Batches -> Seq(Txs)]
  BY Zenon DEF Inv, TypeOK
<1>4. ASSUME NEW b \in Batches
      PROVE  /\ spendChan'[b] \in Seq(Txs)
             /\ \A i \in DOMAIN spendChan'[b] :
                   \/ \E j \in DOMAIN spendChan[b] : spendChan'[b][i] = spendChan[b][j]
                   \/ Concerns(t, b) /\ spendChan'[b][i] = t
             /\ ~Concerns(t, b) => spendChan'[b] = spendChan[b]
  <2>1. CASE Concerns(t, b)
    <3>1. spendChan'[b] = Append(spendChan[b], t) /\ spendChan[b] \in Seq(Txs)
      BY <1>1, <1>3, <2>1, Zenon
    <3>2. Append(spendChan[b], t) \in Seq(Txs)
      BY <1>3, <3>1
    <3>q. QED BY <1>3, <2>1, <3>1, <3>2, InAppend
  <2>2. CASE ~Concerns(t, b)
    <3>1. spendChan'[b] = spendChan[b] /\ spendChan[b] \in Seq(Txs)
      BY <1>1, <1>3, <2>2, Zenon
    <3>q. QED BY <2>2, <3>1, Zenon
  <2>q. QED BY <2>1, <2>2, Zenon
<1>5. spendChan' \in [Batches -> Seq(Txs)]
  <2>1. /\ DOMAIN spendChan' = Batches
        /\ spendChan' = [b \in Batches |-> spendChan'[b]]
    BY <1>1, Zenon
  <2>q. QED BY <1>4, <2>1, Zenon
<1>6. \A b \in Batches : Concerns(t, b) => /\ watched[b] /\ Running(b)
                                           /\ primary[b] \in t.ins
                                           /\ primary[b] \in sweeps[b]
  BY Zenon DEF Concerns, Inv, Primary
<1>7. Primary'
  <2>1. \A b \in Batches : primary[b] = NoSweep => ~Concerns(t, b)
    BY Zenon DEF Concerns, Inv, Primary
  <2>q. QED BY <1>2, <1>4, <2>1, Zenon DEF Inv, Primary
<1>8. Reported'
  BY <1>1, <1>4 DEF Inv, Reported
<1>9. FeeHasPayers'
  <2>1. ASSUME NEW b \in Batches, Running(b), NEW i \in DOMAIN spendChan'[b]
        PROVE  spendChan'[b][i].ins \cap sweeps[b] # {}
    <3>1. CASE \E j \in DOMAIN spendChan[b] : spendChan'[b][i] = spendChan[b][j]
      BY <2>1, <3>1, Zenon DEF Inv, FeeHasPayers
    <3>2. CASE Concerns(t, b) /\ spendChan'[b][i] = t
      BY <1>6, <3>2, Zenon
    <3>q. QED BY <1>4, <2>1, <3>1, <3>2, Zenon
  <2>2. \A b \in Batches : Running(b)' <=> Running(b)
    BY <1>2, Zenon DEF Running
  <2>q. QED BY <1>2, <2>1, <2>2, Zenon DEF Inv, FeeHasPayers
<1>10. Counted'
  BY <1>1, <1>2, Zenon DEF Inv, Counted
<1>11. Told'
  <2>1. faults \in Nat /\ faults' = faults
    BY <1>1 DEF Inv, TypeOK
  <2>q. QED BY <1>1, <1>2, <2>1, ChainHolds, ToldKept DEF Inv
<1>12. /\ mined' \subseteq txs /\ deep' \subseteq mined' /\ deep \subseteq deep'
       /\ faults' \in 0 .. MaxFaults
  BY <1>1, Zenon DEF Inv, TypeOK
<1>13. reorged' \in BOOLEAN /\ reorgChan' \in [Batches -> BOOLEAN]
  BY <1>1, Zenon DEF Inv, TypeOK
<1>q. QED BY <1>1, <1>5, <1>7, <1>8, <1>9, <1>10, <1>11, <1>12, <1>13, ChainKeeps, Zenon

\* A transaction is deep.
LEMMA DeepenStep == ASSUME Inv, NEW t \in txs, Deepen(t) PROVE Inv'
<1>1. /\ t \in mined /\ deep' = deep \cup {t}
      /\ UNCHANGED <<spendChan, reorgChan, mined, reorged, faults>>
      /\ chainUnchanged
  BY Zenon DEF Deepen
<1>2. UNCHANGED <<state, sweeps, primary, watched, confs, told, notifying, damaged>>
  BY <1>1, Zenon DEF chainUnchanged, loopVars, swapVars
<1>3. Primary' /\ Reported' /\ FeeHasPayers' /\ Counted'
  BY <1>1, <1>2, Zenon DEF Inv, Primary, Reported, FeeHasPayers, Running, Counted
<1>4. Told'
  <2>1. faults \in Nat /\ faults' = faults
    BY <1>1 DEF Inv, TypeOK
  <2>q. QED BY <1>1, <1>2, <2>1, ChainHolds, ToldKept DEF Inv
<1>5. /\ mined' \subseteq txs /\ deep' \subseteq mined' /\ deep \subseteq deep'
      /\ faults' \in 0 .. MaxFaults /\ spendChan' \in [Batches -> Seq(Txs)]
  BY <1>1, Zenon DEF Inv, TypeOK
<1>6. reorged' \in BOOLEAN /\ reorgChan' \in [Batches -> BOOLEAN]
  BY <1>1, Zenon DEF Inv, TypeOK
<1>q. QED BY <1>1, <1>3, <1>4, <1>5, <1>6, ChainKeeps, Zenon

\* A block is reorganised away.
LEMMA ReorgStep == ASSUME Inv, NEW t \in txs, Reorg(t) PROVE Inv'
<1>1. /\ t \in mined /\ t \notin deep /\ mined' = mined \ {t} /\ Fault
      /\ UNCHANGED <<spendChan, deep>> /\ chainUnchanged
      /\ reorgChan' = [b \in Batches |-> reorgChan[b] \/ Concerns(t, b)]
  BY Zenon DEF Reorg
<1>2. UNCHANGED <<state, sweeps, primary, watched, confs, told, notifying, damaged>>
  BY <1>1, Zenon DEF chainUnchanged, loopVars, swapVars
<1>3. reorged' /\ reorged' \in BOOLEAN
  BY Zenon DEF Reorg
<1>4. reorgChan' \in [Batches -> BOOLEAN]
  BY <1>1, Zenon
<1>5. /\ faults \in 0 .. MaxFaults /\ faults' \in 0 .. MaxFaults
      /\ faults' = faults + 1
  <2>1. faults \in 0 .. MaxFaults
    BY Zenon DEF Inv, TypeOK
  <2>q. QED BY <1>1, <2>1, FaultCounts, Zenon
<1>6. faults' >= 1 /\ (faults >= 1 => faults' >= 2 /\ faults' > 1)
  BY <1>5
<1>7. Primary' /\ FeeHasPayers' /\ Reported'
  BY <1>1, <1>2, <1>3, Zenon DEF Inv, Primary, FeeHasPayers, Running, Reported
<1>8. Counted'
  BY <1>2, <1>3, <1>6, Zenon DEF Inv, Counted
<1>9. Told'
  <2>. SUFFICES ASSUME NEW r \in told \cup notifying
                PROVE  Holding(r)' \/ SpentForGood(r)' \/ faults' > 1
    BY <1>2, <1>3, Zenon DEF Told
  <2>1. (Holding(r)' <=> Holding(r)) /\ (SpentForGood(r)' <=> SpentForGood(r))
    BY <1>1, ChainHolds, Zenon DEF SpentForGood
  <2>2. faults > 1 => faults >= 1
    BY <1>5
  <2>q. QED BY <1>6, <2>1, <2>2, Zenon DEF Inv, Told
<1>10. /\ mined' \subseteq txs /\ deep' \subseteq mined' /\ deep \subseteq deep'
       /\ spendChan' \in [Batches -> Seq(Txs)]
  BY <1>1, Zenon DEF Inv, TypeOK
<1>q. QED BY <1>1, <1>3, <1>4, <1>5, <1>7, <1>8, <1>9, <1>10, ChainKeeps, Zenon

-----------------------------------------------------------------------------
(* The theorems. *)

\* The batcher starts with an empty store.
LEMMA InitInv == Init => Inv
<1>. SUFFICES ASSUME Init PROVE Inv
  OBVIOUS
<1>1. /\ pc = "down" /\ req = NoRequest /\ batches = {} /\ purging = {}
      /\ notifying = {} /\ hasNotifier = {} /\ dbDone = {} /\ txs = {} /\ mined = {}
      /\ deep = {} /\ wanted = {} /\ told = {} /\ faults = 0
  BY Zenon DEF Init
<1>2. ~damaged /\ ~reorged /\ damaged \in BOOLEAN /\ reorged \in BOOLEAN
  BY Zenon DEF Init
<1>3. /\ state = [b \in Batches |-> "none"] /\ sweeps = [b \in Batches |-> {}]
      /\ primary = [b \in Batches |-> NoSweep] /\ spendChan = [b \in Batches |-> <<>>]
      /\ confs = [b \in Batches |-> {}] /\ dbState = [b \in Batches |-> "none"]
      /\ dbId = [s \in Sweeps |-> 0] /\ dbBatch = [s \in Sweeps |-> 0]
  BY Zenon DEF Init
<1>4. \A b \in Batches : ~watched[b] /\ ~Running(b)
  BY Zenon DEF Init, Running
<1>5. TypeOK
  <2>1. LoopTypes
    BY <1>1, Zenon DEF LoopTypes, Pcs
  <2>2. BatchTypes
    <3>1. <<>> \in Seq(Txs)
      OBVIOUS
    <3>q. QED BY <1>1, <1>3, <3>1, Zenon DEF BatchTypes
  <2>3. FlagTypes
    BY Zenon DEF Init, FlagTypes
  <2>4. DbTypes /\ ChainTypes
    BY <1>1, <1>3, Zenon DEF DbTypes, ChainTypes
  <2>5. faults \in 0 .. MaxFaults
    BY <1>1, BoundsAssumption
  <2>q. QED BY <1>2, <2>1, <2>2, <2>3, <2>4, <2>5, TypesAre, Zenon DEF FaultTypes
<1>6. Numbered
  <2>1. 0 \in 0 .. MaxBatches /\ \A b \in Batches : ~(b <= 0)
    BY BoundsAssumption DEF Batches
  <2>q. QED BY <1>3, <2>1, Zenon DEF Numbered
<1>7. Stored
  <2>1. \A b \in Batches : Rows(b) = {}
    BY <1>3 DEF Rows, Batches
  <2>q. QED BY <1>3, <1>4, <2>1, Zenon DEF Stored
<1>8. InHand /\ Elsewhere
  BY <1>1, Zenon DEF InHand, Elsewhere
<1>9. Primary /\ Reported
  BY <1>3, <1>4 DEF Primary, Reported
<1>10. MemoryMatchesStore /\ FeeHasPayers
  BY <1>4, Zenon DEF MemoryMatchesStore, FeeHasPayers
<1>11. Completed /\ Told
  BY <1>1, Zenon DEF Completed, CompletedIsConfirmed, Told
<1>12. Counted
  BY <1>2, Zenon DEF Counted
<1>q. QED BY <1>5, <1>6, <1>7, <1>8, <1>9, <1>10, <1>11, <1>12, Zenon DEF Inv

\* Nothing changes.
LEMMA StutterInv == ASSUME Inv, UNCHANGED vars PROVE Inv'
<1>1. chainUnchanged /\ UNCHANGED <<spendChan, reorgChan, mined, deep, reorged, faults>>
  BY Zenon DEF vars, chainUnchanged, batchVars, chainVars
<1>2. UNCHANGED <<state, sweeps, primary, watched, confs, told, notifying, damaged>>
  BY <1>1, Zenon DEF chainUnchanged, loopVars, swapVars
<1>3. Primary' /\ Reported' /\ FeeHasPayers' /\ Counted'
  BY <1>1, <1>2, Zenon DEF Inv, Primary, Reported, FeeHasPayers, Running, Counted
<1>4. Told'
  <2>1. faults \in Nat /\ faults' = faults
    BY <1>1 DEF Inv, TypeOK
  <2>q. QED BY <1>1, <1>2, <2>1, ChainHolds, ToldKept DEF Inv
<1>5. /\ mined' \subseteq txs /\ deep' \subseteq mined' /\ deep \subseteq deep'
      /\ faults' \in 0 .. MaxFaults /\ spendChan' \in [Batches -> Seq(Txs)]
      /\ reorged' \in BOOLEAN /\ reorgChan' \in [Batches -> BOOLEAN]
  BY <1>1, Zenon DEF Inv, TypeOK
<1>q. QED BY <1>1, <1>3, <1>4, <1>5, ChainKeeps, Zenon

\* Every step of the batcher, its batches and the chain keeps the invariant.
LEMMA NextInv == Inv /\ [Next]_vars => Inv'
<1>. SUFFICES ASSUME Inv, [Next]_vars PROVE Inv'
  OBVIOUS
<1>1. CASE \E s \in Sweeps : SwapRequest(s) \/ PurgeRequest(s) \/ Notify(s)
  BY <1>1, SwapRequestStep, PurgeRequestStep, NotifyStep, Zenon
<1>2. CASE BatcherStep
  BY <1>2, ReAddStep, StatusStep, PlaceFailsStep, FillStep, FillFailsStep, NewBatchStep,
     PlaceInBatchStep, FallbackStep, Zenon DEF BatcherStep
<1>3. CASE \E b \in Batches : \/ Publish(b) \/ PublishNotConstructed(b)
                              \/ HandleSpend(b) \/ HandleReorg(b)
                              \/ HandleConf(b) \/ HandleConfFails(b)
  BY <1>3, PublishStep, HandleSpendStep, HandleReorgStep, HandleConfStep,
     HandleConfFailsStep, Zenon
<1>4. CASE Stop \/ Restart
  BY <1>4, StopStep, RestartStep, Zenon
<1>5. CASE \E t \in txs : Mine(t) \/ Deepen(t) \/ Reorg(t)
  BY <1>5, MineStep, DeepenStep, ReorgStep, Zenon
<1>6. CASE UNCHANGED vars
  BY <1>6, StutterInv, Zenon
<1>q. QED BY <1>1, <1>2, <1>3, <1>4, <1>5, <1>6, Zenon DEF Next

\* The invariant holds in every state of every behaviour.
LEMMA InvHolds == Spec => []Inv
BY InitInv, NextInv, PTL DEF Spec

\* Every variable has its type, for any sweeps and any bounds.
THEOREM TypeCorrect == Spec => []TypeOK
<1>1. Inv => TypeOK
  BY Zenon DEF Inv
<1>q. QED BY <1>1, InvHolds, PTL

\* Unless a store or registration call failed, a running batch holds exactly the
\* sweeps of its rows: the check of getOrderedSweeps never fails.
THEOREM StoreMatches == Spec => []MemoryMatchesStore
<1>1. Inv => MemoryMatchesStore
  BY Zenon DEF Inv
<1>q. QED BY <1>1, InvHolds, PTL

\* A sweep that is stored as completed belongs to a confirmed batch and is spent by a
\* transaction that cannot be reorganised away, also after failing store calls.
THEOREM CompletedSound == Spec => []CompletedIsConfirmed
<1>1. Inv => CompletedIsConfirmed
  BY Zenon DEF Inv, Completed
<1>q. QED BY <1>1, InvHolds, PTL

\* A batch that divides a fee has a sweep to pay it.
THEOREM FeeDivides == Spec => []FeeHasPayers
<1>1. Inv => FeeHasPayers
  BY Zenon DEF Inv
<1>q. QED BY <1>1, InvHolds, PTL

\* A sweep that a swap asked for and no block spends is held by somebody, unless the
\* swap was told of a spend that a reorganisation took back and the batcher stopped.
THEOREM NothingDangles == Spec => []UnspentIsHeld
<1>1. Inv => UnspentIsHeld
  <2>. SUFFICES ASSUME Inv, NEW s \in wanted, ~Spent(s)
                PROVE  Held(s) \/ (reorged /\ faults > 1)
    BY Zenon DEF UnspentIsHeld
  <2>1. deep \subseteq mined
    BY Zenon DEF Inv, TypeOK
  <2>2. ~SpentForGood(s)
    BY <2>1, Zenon DEF SpentForGood, Spent
  <2>3. s \notin told \/ Holding(s) \/ (reorged /\ faults > 1)
    BY <2>2, Zenon DEF Inv, Told
  <2>4. Holding(s) => Held(s)
    BY Zenon DEF Holding, InHands, InBatch, Held
  <2>q. QED BY <2>3, <2>4, Zenon DEF Held
<1>q. QED BY <1>1, InvHolds, PTL
=============================================================================
