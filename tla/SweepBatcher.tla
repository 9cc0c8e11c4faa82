---------------------------- MODULE SweepBatcher ----------------------------
(***************************************************************************)
(* The sweep batcher (sweepbatcher/): swaps hand it htlc outputs, it puts  *)
(* them into batches, and each batch publishes a transaction that spends   *)
(* all of its sweeps and replaces it whenever it changes.  Any version can *)
(* confirm; the sweeps it left out are fed back.  The batcher's loop       *)
(* places sweeps, every batch has an event loop, the store outlives both.  *)
(* Requests carry one sweep each and no presigned transactions, as all     *)
(* requests of this repository do (loopout.go).                            *)
(***************************************************************************)
EXTENDS Integers, Sequences, FiniteSets

CONSTANTS
    Sweeps,              \* outpoints that swaps ask to be swept
    External,            \* the ones that pay to a non-wallet address
    Timeout,             \* Timeout[s]: expiry height of the swap of s
    MaxTimeoutDistance,  \* defaultMaxTimeoutDistance
    MaxSweepsPerBatch,
    MaxBatches,          \* bound on the rows of sweep_batches
    MaxFaults            \* bound on stops, failing calls, reorganisations

NoSweep == "none"

ASSUME SweepsAssumption ==
    IsFiniteSet(Sweeps) /\ NoSweep \notin Sweeps /\ External \subseteq Sweeps
ASSUME TimeoutAssumption == Timeout \in [Sweeps -> Int]
ASSUME BoundsAssumption ==
    /\ MaxTimeoutDistance \in Nat
    /\ MaxSweepsPerBatch \in Nat \ {0}
    /\ MaxBatches \in Nat
    /\ MaxFaults \in Nat

VARIABLES
    \* Batcher.Run and the request it handles
    pc,
    req,          \* sweep, whether it has a notifier, and the batch in hand
    batches,      \* Batcher.batches
    purging,      \* sweeps that handleConf's goroutines feed back
    notifying,    \* goroutines that send a spend to a swap
    \* one batch per id, in memory
    state,        \* batch.state, "none" without a running batch
    sweeps,       \* batch.sweeps
    primary,      \* batch.primarySweepID
    paused,       \* batch.admissionPaused
    watched,      \* monitorSpend registered the primary sweep
    spendChan,    \* batch.spendChan, and the spends lnd will send there
    reorgChan,    \* batch.reorgChan
    confs,        \* transactions that monitorConfirmations waits for
    hasNotifier,  \* sweeps whose copy in a batch has a notifier
    \* the tables sweep_batches and sweeps
    dbState,
    dbId,         \* sweep -> row id, 0 without a row
    dbBatch,      \* sweep -> batch_id
    dbDone,       \* sweeps that are completed
    \* the chain
    txs,          \* versions ever broadcast
    mined,        \* the ones in a block
    deep,         \* the ones with batchConfHeight confirmations
    \* the swaps
    wanted,       \* sweeps ever requested
    told,         \* sweeps whose swap got its spend and is finished
    damaged,      \* an upsert or a spend registration failed
    reorged,      \* a block was reorganised away
    faults

loopVars == <<pc, req, batches, purging, notifying>>
batchVars == <<state, sweeps, primary, paused, watched, spendChan, reorgChan,
               confs, hasNotifier>>
dbVars == <<dbState, dbId, dbBatch, dbDone>>
chainVars == <<txs, mined, deep, reorged>>
swapVars == <<wanted, told>>
vars == <<loopVars, batchVars, dbVars, chainVars, swapVars, damaged, faults>>

-----------------------------------------------------------------------------
Batches == 1 .. MaxBatches

Txs == [batch : Batches, ins : SUBSET Sweeps]

Pcs == {"down", "idle", "readd", "status", "place", "fill", "fallback",
        "refill"}

Requests == [sweep : Sweeps, notifier : BOOLEAN, batch : Batches \cup {0}]

NoRequest == [sweep |-> NoSweep, notifier |-> FALSE, batch |-> 0]

Running(b) == state[b] # "none" /\ state[b] # "Confirmed"

\* FetchBatchSweeps, and the first of them by id.
Rows(b) == {s \in Sweeps : dbBatch[s] = b}

\* Mutant: the query forgets which batch it asks for.
FirstRowAnyBatch(b) ==
    CHOOSE s \in Sweeps : /\ dbId[s] # 0
                          /\ \A r \in Sweeps : dbId[r] # 0 => dbId[s] <= dbId[r]

FirstRow(b) ==
    CHOOSE s \in Rows(b) : \A r \in Rows(b) : dbId[s] <= dbId[r]

Spent(s) == \E t \in mined : s \in t.ins

\* What a spend registration finds on the chain.
SpendsOf(s) ==
    IF Spent(s) THEN <<CHOOSE t \in mined : s \in t.ins>> ELSE <<>>

Init ==
    /\ pc = "down"
    /\ req = NoRequest
    /\ batches = {}
    /\ purging = {}
    /\ notifying = {}
    /\ state = [b \in Batches |-> "none"]
    /\ sweeps = [b \in Batches |-> {}]
    /\ primary = [b \in Batches |-> NoSweep]
    /\ paused = [b \in Batches |-> FALSE]
    /\ watched = [b \in Batches |-> FALSE]
    /\ spendChan = [b \in Batches |-> <<>>]
    /\ reorgChan = [b \in Batches |-> FALSE]
    /\ confs = [b \in Batches |-> {}]
    /\ hasNotifier = {}
    /\ dbState = [b \in Batches |-> "none"]
    /\ dbId = [s \in Sweeps |-> 0]
    /\ dbBatch = [s \in Sweeps |-> 0]
    /\ dbDone = {}
    /\ txs = {}
    /\ mined = {}
    /\ deep = {}
    /\ wanted = {}
    /\ told = {}
    /\ damaged = FALSE
    /\ reorged = FALSE
    /\ faults = 0

Fault ==
    /\ faults < MaxFaults
    /\ faults' = faults + 1

-----------------------------------------------------------------------------
(***************************************************************************)
(* The batcher's loop.  It takes one request at a time; the batches it     *)
(* asks in the course of a request run on between two questions.           *)
(***************************************************************************)
\* isComplete: batches that confirmed are dropped lazily.
Cleanup == batches' = {b \in batches : state[b] # "Confirmed"}

Take(s, withNotifier) ==
    /\ pc = "idle"
    /\ \/ \E b \in batches :
            /\ Running(b)
            /\ s \in sweeps[b]
            /\ pc' = "readd"
            /\ req' = [sweep |-> s, notifier |-> withNotifier, batch |-> b]
            /\ UNCHANGED batches
       \/ /\ \A b \in batches : Running(b) => s \notin sweeps[b]
          /\ pc' = "status"
          /\ req' = [sweep |-> s, notifier |-> withNotifier, batch |-> 0]
          /\ Cleanup
    /\ UNCHANGED <<notifying, batchVars, dbVars, chainVars, told, damaged,
                   faults>>

\* A swap that waits for its spend asks again with every block.
SwapRequest(s) ==
    /\ s \notin told
    /\ Take(s, TRUE)
    /\ wanted' = wanted \cup {s}
    /\ UNCHANGED purging

\* The goroutine of handleConf calls AddSweep with the notifier of the copy.
PurgeRequest(s) ==
    /\ s \in purging
    /\ Take(s, s \in hasNotifier)
    /\ purging' = purging \ {s}
    /\ UNCHANGED wanted

\* handleSweeps returns.
Return == pc' = "idle" /\ req' = NoRequest

GoOn(step) == pc' = step /\ UNCHANGED req

Attach(s) ==
    hasNotifier' = IF req.notifier THEN hasNotifier \cup {s}
                                   ELSE hasNotifier \ {s}

\* addSweeps for an existing sweep, unless the batch finished meanwhile.
ReAdd ==
    /\ pc = "readd"
    /\ Cleanup
    /\ \/ /\ Running(req.batch)
          /\ Return
          /\ Attach(req.sweep)
       \/ /\ ~Running(req.batch)
          /\ GoOn("status")
          /\ UNCHANGED hasNotifier
    /\ UNCHANGED <<purging, notifying, state, sweeps, primary, paused, watched,
                   spendChan, reorgChan, confs, dbVars, chainVars,
                   swapVars, damaged, faults>>

\* Mutants: a swap that asks for a completed sweep is not told of its spend;
\* a completed sweep is not looked up.
StatusSilent ==
    /\ pc = "status"
    /\ LET s == req.sweep
           finished == s \in dbDone /\ dbState[dbBatch[s]] = "confirmed"
       IN  IF finished THEN Return ELSE GoOn("place")
    /\ UNCHANGED <<batches, purging, notifying, batchVars, dbVars, chainVars,
                   swapVars, damaged, faults>>

\* GetSweepStatus and GetParentBatch; monitorSpendAndNotify.
Status ==
    /\ pc = "status"
    /\ LET s == req.sweep
           finished == s \in dbDone /\ dbState[dbBatch[s]] = "confirmed"
       IN  /\ IF finished THEN Return ELSE GoOn("place")
           /\ notifying' = IF finished /\ req.notifier
                           THEN notifying \cup {s} ELSE notifying
    /\ UNCHANGED <<batches, purging, batchVars, dbVars, chainVars, swapVars,
                   damaged, faults>>

\* checkSweepToAdd for a sweep that is not in the batch.
Accepts(b, s) ==
    /\ b \in batches
    /\ state[b] = "Open"
    /\ ~paused[b]
    /\ Cardinality(sweeps[b]) < MaxSweepsPerBatch
    /\ \A r \in sweeps[b] :
          /\ r \notin External /\ s \notin External
          /\ Timeout[s] - Timeout[r] \in -MaxTimeoutDistance .. MaxTimeoutDistance

\* Mutant: the upsert leaves an existing row in its old batch.
PersistSweepOnce(b, s) ==
    /\ dbBatch' = IF dbId[s] # 0 THEN dbBatch ELSE [dbBatch EXCEPT ![s] = b]
    /\ dbId' = IF dbId[s] # 0 THEN dbId
               ELSE [dbId EXCEPT ![s] =
                        1 + Cardinality({r \in Sweeps : dbId[r] # 0})]
    /\ dbDone' = dbDone \ {s}
    /\ UNCHANGED dbState

\* persistSweep: the upsert keeps the id of a row and clears completed.
PersistSweep(b, s) ==
    /\ dbBatch' = [dbBatch EXCEPT ![s] = b]
    /\ dbId' = IF dbId[s] # 0 THEN dbId
               ELSE [dbId EXCEPT ![s] =
                        1 + Cardinality({r \in Sweeps : dbId[r] # 0})]
    /\ dbDone' = dbDone \ {s}
    /\ UNCHANGED dbState

\* The rest of addSweeps for a new sweep: the first sweep of a batch becomes
\* its primary sweep, whose spend is monitored.
AddNew(b, s) ==
    /\ sweeps' = [sweeps EXCEPT ![b] = @ \cup {s}]
    /\ \/ /\ primary[b] = NoSweep
          /\ primary' = [primary EXCEPT ![b] = s]
          /\ watched' = [watched EXCEPT ![b] = TRUE]
          /\ spendChan' = [spendChan EXCEPT ![b] = SpendsOf(s)]
       \/ /\ primary[b] # NoSweep
          /\ UNCHANGED <<primary, watched, spendChan>>
    /\ Attach(s)
    /\ UNCHANGED <<state, paused, reorgChan, confs>>

\* insertAndAcquireID and the start of an empty batch.
SpinUpBatch ==
    \E b \in Batches :
        /\ b = 1 + Cardinality({c \in Batches : dbState[c] # "none"})
        /\ dbState' = [dbState EXCEPT ![b] = "open"]
        /\ state' = [state EXCEPT ![b] = "Open"]
        /\ batches' = batches \cup {b}
        /\ req' = [req EXCEPT !.batch = b]
        /\ UNCHANGED <<dbId, dbBatch, dbDone, sweeps, primary, paused, watched,
                       spendChan, reorgChan, confs, hasNotifier>>

placeUnchanged == UNCHANGED <<purging, notifying, chainVars, swapVars>>

\* estimateBatchWeight fails on an empty batch, and with it the greedy search.
CanEstimate ==
    \A b \in batches : Running(b) /\ ~paused[b] => sweeps[b] # {}

\* greedyAddSweeps: the costs decide between the batches that accept the sweep
\* and a new one, so that each of them can be the choice.
PlaceInBatch(b) ==
    /\ pc = "place"
    /\ CanEstimate
    /\ req.sweep \notin External
    /\ Accepts(b, req.sweep)
    /\ AddNew(b, req.sweep)
    /\ \/ /\ PersistSweep(b, req.sweep)
          /\ Return
          /\ UNCHANGED <<damaged, faults>>
       \/ /\ Fault
          /\ damaged' = TRUE
          /\ GoOn("fallback")
          /\ UNCHANGED dbVars
    /\ UNCHANGED batches
    /\ placeUnchanged

PlaceInNewBatch ==
    /\ pc = "place"
    /\ CanEstimate
    /\ SpinUpBatch
    /\ pc' = "fill"
    /\ UNCHANGED <<damaged, faults>>
    /\ placeUnchanged

\* The search failed, or the insertion of a new batch did.
PlaceFails ==
    /\ pc = "place"
    /\ \/ ~CanEstimate /\ UNCHANGED faults
       \/ Fault
    /\ GoOn("fallback")
    /\ UNCHANGED <<batches, batchVars, dbVars, damaged>>
    /\ placeUnchanged

\* addSweeps of spinUpNewBatch.
Fill ==
    /\ pc \in {"fill", "refill"}
    /\ AddNew(req.batch, req.sweep)
    /\ PersistSweep(req.batch, req.sweep)
    /\ Return
    /\ UNCHANGED <<batches, damaged, faults>>
    /\ placeUnchanged

\* It fails: RegisterSpendNtfn after the primary sweep was chosen, or the
\* upsert after the sweep joined the batch.  The greedy search returns the
\* error and the fallback tries again.
FillFails ==
    /\ pc = "fill"
    /\ Fault
    /\ damaged' = TRUE
    /\ \/ /\ primary' = [primary EXCEPT ![req.batch] = req.sweep]
          /\ UNCHANGED <<state, sweeps, paused, watched, spendChan, reorgChan,
                         confs, hasNotifier>>
       \/ AddNew(req.batch, req.sweep)
    /\ GoOn("fallback")
    /\ UNCHANGED <<batches, dbVars>>
    /\ placeUnchanged

\* The first batch, in the order of a map, that has or accepts the sweep.
Fallback(b) ==
    /\ pc = "fallback"
    /\ Return
    /\ \/ /\ b \in batches /\ Running(b) /\ ~paused[b]
          /\ req.sweep \in sweeps[b]
          /\ Attach(req.sweep)
          /\ UNCHANGED <<state, sweeps, primary, paused, watched, spendChan,
                         reorgChan, confs, dbVars>>
       \/ /\ Accepts(b, req.sweep)
          /\ req.sweep \notin sweeps[b]
          /\ AddNew(b, req.sweep)
          /\ PersistSweep(b, req.sweep)
    /\ UNCHANGED <<batches, damaged, faults>>
    /\ placeUnchanged

FallbackToNew ==
    /\ pc = "fallback"
    /\ \A b \in batches :
          /\ ~(Running(b) /\ ~paused[b] /\ req.sweep \in sweeps[b])
          /\ ~Accepts(b, req.sweep)
    /\ SpinUpBatch
    /\ pc' = "refill"
    /\ UNCHANGED <<damaged, faults>>
    /\ placeUnchanged

-----------------------------------------------------------------------------
(***************************************************************************)
(* The event loop of a batch.                                              *)
(***************************************************************************)
runUnchanged == UNCHANGED <<pc, req, batches, swapVars, damaged>>

\* constructUnsignedTx: the inputs are all the sweeps of the batch.
BatchTx(b) == [batch |-> b, ins |-> sweeps[b]]

\* The end of publishMixedBatch: lnd takes the transaction unless a block
\* has already spent one of its inputs.
PublishMixedBatch(b) ==
    txs' = IF \E s \in sweeps[b] : Spent(s) THEN txs ELSE txs \cup {BatchTx(b)}

\* The timer: publish signs and broadcasts a transaction of all the sweeps.
\* Broadcasting can fail without stopping the batch, also because an input
\* is already spent; both end a pause.
Publish(b) ==
    /\ state[b] = "Open"
    /\ sweeps[b] # {}
    /\ PublishMixedBatch(b)
    /\ paused' = [paused EXCEPT ![b] = FALSE]
    /\ UNCHANGED <<purging, notifying, state, sweeps, primary, watched, spendChan,
                   reorgChan, confs, hasNotifier, dbVars, mined, deep, reorged,
                   faults>>
    /\ runUnchanged

\* errBatchNotConstructed: the batch takes no new sweeps until it publishes.
PublishNotConstructed(b) ==
    /\ state[b] = "Open"
    /\ sweeps[b] # {}
    /\ Fault
    /\ paused' = [paused EXCEPT ![b] = TRUE]
    /\ UNCHANGED <<purging, notifying, state, sweeps, primary, watched, spendChan,
                   reorgChan, confs, hasNotifier, dbVars, chainVars>>
    /\ runUnchanged

HandleSpend(b) ==
    /\ Running(b)
    /\ spendChan[b] # <<>>
    /\ LET t == Head(spendChan[b]) IN
        /\ notifying' = notifying \cup (sweeps[b] \cap t.ins \cap hasNotifier)
        /\ confs' = [confs EXCEPT ![b] = @ \cup {t}]
    /\ spendChan' = [spendChan EXCEPT ![b] = Tail(@)]
    /\ state' = [state EXCEPT ![b] = "Closed"]
    /\ UNCHANGED <<purging, sweeps, primary, watched, paused, reorgChan,
                   hasNotifier, dbVars, chainVars, faults>>
    /\ runUnchanged

HandleReorg(b) ==
    /\ Running(b)
    /\ reorgChan[b]
    /\ reorgChan' = [reorgChan EXCEPT ![b] = FALSE]
    /\ state' = [state EXCEPT ![b] = "Open"]
    /\ UNCHANGED <<purging, notifying, sweeps, primary, watched, paused, spendChan,
                   confs, hasNotifier, dbVars, chainVars, faults>>
    /\ runUnchanged

\* What is left of a batch whose loop returned.
Forget(b) ==
    /\ sweeps' = [sweeps EXCEPT ![b] = {}]
    /\ primary' = [primary EXCEPT ![b] = NoSweep]
    /\ paused' = [paused EXCEPT ![b] = FALSE]
    /\ watched' = [watched EXCEPT ![b] = FALSE]
    /\ spendChan' = [spendChan EXCEPT ![b] = <<>>]
    /\ reorgChan' = [reorgChan EXCEPT ![b] = FALSE]
    /\ confs' = [confs EXCEPT ![b] = {}]

\* Mutants: all sweeps count as confirmed; none is fed back.
ConfirmedSweepsAll(b, t) == sweeps[b]

PurgedSweepsNone(b, t) == {}

\* The sweeps of the batch that the confirmed transaction spends, the others.
ConfirmedSweeps(b, t) == sweeps[b] \cap t.ins

PurgedSweeps(b, t) == sweeps[b] \ t.ins

\* The batch and the sweeps that confirmed are stored in one transaction, the
\* others leave the batch and are fed back; then the batch's loop returns.
HandleConf(b) ==
    /\ Running(b)
    /\ Rows(b) = sweeps[b]
    /\ \E t \in confs[b] \cap deep :
        /\ dbState' = [dbState EXCEPT ![b] = "confirmed"]
        /\ dbDone' = dbDone \cup ConfirmedSweeps(b, t)
        /\ purging' = purging \cup PurgedSweeps(b, t)
        /\ hasNotifier' = hasNotifier \ ConfirmedSweeps(b, t)
    /\ state' = [state EXCEPT ![b] = "Confirmed"]
    /\ Forget(b)
    /\ UNCHANGED <<notifying, dbId, dbBatch, chainVars, faults>>
    /\ runUnchanged

\* notifySweepSpend: the swap takes its spend and is finished.
Notify(s) ==
    /\ s \in notifying
    /\ notifying' = notifying \ {s}
    /\ told' = told \cup {s}
    /\ UNCHANGED <<pc, req, batches, purging, batchVars, dbVars, chainVars,
                   wanted, damaged, faults>>

-----------------------------------------------------------------------------
(***************************************************************************)
(* Stops and restarts.  A batch that fails stops the batcher, and all that *)
(* is in memory is lost with it.                                           *)
(***************************************************************************)
Shutdown ==
    /\ pc' = "down"
    /\ batches' = {}
    /\ purging' = {}
    /\ notifying' = {}
    /\ state' = [b \in Batches |-> "none"]
    /\ sweeps' = [b \in Batches |-> {}]
    /\ primary' = [b \in Batches |-> NoSweep]
    /\ paused' = [b \in Batches |-> FALSE]
    /\ watched' = [b \in Batches |-> FALSE]
    /\ spendChan' = [b \in Batches |-> <<>>]
    /\ reorgChan' = [b \in Batches |-> FALSE]
    /\ confs' = [b \in Batches |-> {}]
    /\ hasNotifier' = {}
    /\ req' = NoRequest
    /\ UNCHANGED <<dbVars, chainVars, swapVars>>

Stop ==
    /\ pc # "down"
    /\ Fault
    /\ Shutdown
    /\ UNCHANGED damaged

\* getOrderedSweeps refuses a batch whose rows are not its sweeps.
HandleConfFails(b) ==
    /\ Running(b)
    /\ Rows(b) # sweeps[b]
    /\ confs[b] \cap deep # {}
    /\ Shutdown
    /\ UNCHANGED <<damaged, faults>>

\* FetchUnconfirmedBatches, and the ones of them that have sweeps.
Unconfirmed == {b \in Batches : dbState[b] = "open"}

Loaded == {b \in Unconfirmed : Rows(b) # {}}

\* spinUpBatchFromDB: a batch runs again with the sweeps of its rows, without
\* notifiers, and watches the first one.  Its state is not stored.
SpinUpBatchFromDB ==
    /\ state' = [b \in Batches |-> IF b \in Loaded THEN "Open" ELSE "none"]
    /\ sweeps' = [b \in Batches |-> IF b \in Loaded THEN Rows(b) ELSE {}]
    /\ primary' = [b \in Batches |->
            IF b \in Loaded THEN FirstRow(b) ELSE NoSweep]
    /\ watched' = [b \in Batches |-> b \in Loaded]
    /\ spendChan' = [b \in Batches |->
            IF b \in Loaded THEN SpendsOf(FirstRow(b)) ELSE <<>>]

\* Batcher.Run starts the unconfirmed batches; empty ones are cancelled.
Restart ==
    /\ pc = "down"
    /\ pc' = "idle"
    /\ SpinUpBatchFromDB
    /\ batches' = Loaded
    /\ dbState' = [b \in Batches |->
            IF b \in Unconfirmed \ Loaded THEN "cancelled" ELSE dbState[b]]
    /\ UNCHANGED <<req, purging, notifying, paused, reorgChan, confs,
                   hasNotifier, dbId, dbBatch, dbDone, chainVars, swapVars,
                   damaged, faults>>

-----------------------------------------------------------------------------
(***************************************************************************)
(* The chain.  Miners may include any version that was broadcast.  lnd     *)
(* reports the spend of each registered primary sweep.                     *)
(***************************************************************************)
Concerns(t, b) == watched[b] /\ Running(b) /\ primary[b] \in t.ins

chainUnchanged ==
    UNCHANGED <<loopVars, state, sweeps, primary, paused, watched, confs,
                hasNotifier, dbVars, swapVars, damaged, txs>>

Mine(t) ==
    /\ t \in txs \ mined
    /\ \A s \in t.ins : ~Spent(s)
    /\ mined' = mined \cup {t}
    /\ spendChan' = [b \in Batches |->
            IF Concerns(t, b) THEN Append(spendChan[b], t) ELSE spendChan[b]]
    /\ UNCHANGED <<reorgChan, deep, reorged, faults>>
    /\ chainUnchanged

Deepen(t) ==
    /\ t \in mined \ deep
    /\ deep' = deep \cup {t}
    /\ UNCHANGED <<spendChan, reorgChan, mined, reorged, faults>>
    /\ chainUnchanged

Reorg(t) ==
    /\ t \in mined \ deep
    /\ Fault
    /\ reorged' = TRUE
    /\ mined' = mined \ {t}
    /\ reorgChan' = [b \in Batches |-> reorgChan[b] \/ Concerns(t, b)]
    /\ UNCHANGED <<spendChan, deep>>
    /\ chainUnchanged

-----------------------------------------------------------------------------
BatcherStep ==
    \/ ReAdd \/ Status
    \/ PlaceInNewBatch \/ PlaceFails \/ Fill \/ FillFails \/ FallbackToNew
    \/ \E b \in Batches : PlaceInBatch(b) \/ Fallback(b)

Next ==
    \/ \E s \in Sweeps : SwapRequest(s) \/ PurgeRequest(s) \/ Notify(s)
    \/ BatcherStep
    \/ \E b \in Batches :
          \/ Publish(b) \/ PublishNotConstructed(b)
          \/ HandleSpend(b) \/ HandleReorg(b)
          \/ HandleConf(b) \/ HandleConfFails(b)
    \/ Stop \/ Restart
    \/ \E t \in txs : Mine(t) \/ Deepen(t) \/ Reorg(t)

Spec == Init /\ [][Next]_vars

\* The loops run on and a select takes every case that stays ready.  A swap
\* asks with every block and a blocked sender on addSweepsChan is served.  A
\* daemon that stopped is started again.  Some version of a transaction that
\* can be mined is mined.
Fairness ==
    /\ WF_vars(BatcherStep)
    /\ WF_vars(Restart)
    /\ \A s \in Sweeps :
          /\ SF_vars(SwapRequest(s))
          /\ SF_vars(PurgeRequest(s))
          /\ WF_vars(Notify(s))
    /\ \A b \in Batches :
          /\ WF_vars(Publish(b))
          /\ WF_vars(HandleSpend(b))
          /\ WF_vars(HandleReorg(b))
          /\ WF_vars(HandleConf(b))
          /\ WF_vars(HandleConfFails(b))
    /\ WF_vars(\E t \in txs : Mine(t))
    /\ WF_vars(\E t \in txs : Deepen(t))

FairSpec == Spec /\ Fairness

-----------------------------------------------------------------------------
\* Every variable holds a value of its kind.
TypeOK ==
    /\ pc \in Pcs
    /\ req \in Requests \cup {NoRequest}
    /\ pc \in {"idle", "down"} <=> req = NoRequest
    /\ batches \subseteq Batches
    /\ purging \subseteq Sweeps
    /\ notifying \subseteq Sweeps
    /\ state \in [Batches -> {"none", "Open", "Closed", "Confirmed"}]
    /\ sweeps \in [Batches -> SUBSET Sweeps]
    /\ primary \in [Batches -> Sweeps \cup {NoSweep}]
    /\ paused \in [Batches -> BOOLEAN]
    /\ watched \in [Batches -> BOOLEAN]
    /\ spendChan \in [Batches -> Seq(Txs)]
    /\ reorgChan \in [Batches -> BOOLEAN]
    /\ confs \in [Batches -> SUBSET Txs]
    /\ hasNotifier \subseteq Sweeps
    /\ dbState \in [Batches -> {"none", "open", "confirmed", "cancelled"}]
    /\ dbId \in [Sweeps -> Nat]
    /\ dbBatch \in [Sweeps -> Batches \cup {0}]
    /\ dbDone \subseteq Sweeps
    /\ txs \subseteq Txs
    /\ mined \subseteq txs
    /\ deep \subseteq mined
    /\ wanted \subseteq Sweeps
    /\ told \subseteq Sweeps
    /\ damaged \in BOOLEAN
    /\ faults \in 0 .. MaxFaults
    /\ reorged \in BOOLEAN

\* Unless a store or registration call failed, a running batch holds exactly
\* the sweeps that its rows name, which is what getOrderedSweeps insists on
\* when the batch confirms, and so no sweep is in two running batches.
MemoryMatchesStore ==
    ~damaged => \A b \in Batches : Running(b) => sweeps[b] = Rows(b)

\* A row that says completed belongs to a confirmed batch, and a transaction
\* that cannot be reorganised away has spent the sweep: handleSweeps relies on
\* it when it stops sweeping and only reports the spend.
CompletedIsConfirmed ==
    \A s \in dbDone :
        /\ dbState[dbBatch[s]] = "confirmed"
        /\ \E t \in deep : s \in t.ins

\* A running batch shares its inputs with the transaction it is told of, so
\* that handleSpend and handleConf divide the fee by a number of sweeps that
\* is not zero (getFeePortionForSweep).
FeeHasPayers ==
    \A b \in Batches : Running(b) =>
        /\ \A i \in DOMAIN spendChan[b] : spendChan[b][i].ins \cap sweeps[b] # {}
        /\ \A t \in confs[b] : t.ins \cap sweeps[b] # {}

\* Somebody will still see to the sweep: its swap, the goroutine that feeds it
\* back, the request in hand, a running batch, or one that a restart runs.
Held(s) ==
    \/ s \notin told
    \/ s \in purging
    \/ pc \notin {"idle", "down"} /\ req.sweep = s
    \/ \E b \in Batches :
          \/ Running(b) /\ s \in sweeps[b]
          \/ dbState[b] = "open" /\ s \in Rows(b)

\* A sweep that no mined transaction spends is held by somebody, so that it
\* does not remain dangling (handleConf), unless its swap was told of a spend
\* that a reorganisation took back and the batcher stopped as well.
UnspentIsHeld ==
    \A s \in wanted : ~Spent(s) => Held(s) \/ (reorged /\ faults > 1)

\* A swap that asked for a sweep is told of its spend and the sweep is stored
\* as completed, across stops, versions that leave the sweep out, feeding back
\* and reorganisations.  The exceptions are a failed upsert or registration
\* and a stop after a reorganisation.
RequestedIsSwept ==
    \A s \in Sweeps :
        s \in wanted ~> \/ s \in told /\ s \in dbDone
                        \/ damaged
                        \/ reorged /\ faults > 1
=============================================================================
