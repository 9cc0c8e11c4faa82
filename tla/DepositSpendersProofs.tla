------------------------ MODULE DepositSpendersProofs ------------------------
(***************************************************************************)
(* For any number of deposits, transactions and failures, whatever the     *)
(* withdrawal and the channel opening manager and the other users of the   *)
(* deposits do: withdrawals that share a deposit have the same inputs, a   *)
(* deposit is Withdrawn only when a withdrawal of it is deep, and one that *)
(* is stored as Withdrawing can be recovered.                              *)
(*                                                                         *)
(* The three depend on each other.  A monitor looks at the first of its    *)
(* deposits only; that its spender withdraws the others too follows from   *)
(* SameInputs.  SameInputs rests on the check of a fee bump, which reads   *)
(* the transaction that the deposits reference; and that every reference,  *)
(* in memory or stored, is a broadcast withdrawal of its deposit makes the *)
(* recovery complete.                                                      *)
(***************************************************************************)
EXTENDS DepositSpenders, WellFoundedInduction, TLAPS

Withdraws(t, d) == t \in bcast /\ t.kind = "withdraw" /\ d \in t.ins

\* What a deposit references is a broadcast withdrawal of it, and a deposit that is
\* being withdrawn references one, in memory and in the store.
References ==
    \A d \in Deposits :
        /\ ftx[d] = NoTx \/ Withdraws(ftx[d], d)
        /\ dbTx[d] = NoTx \/ Withdraws(dbTx[d], d)
        /\ dep[d] = "Withdrawing" => ftx[d] # NoTx
        /\ dbDep[d] = "Withdrawing" => dbTx[d] # NoTx

\* Until the request publishes its transaction, every withdrawal that shares a
\* deposit with it has its inputs.
Request ==
    /\ wpc \in {"sign", "publish", "watch", "attach", "store"}
         => wtx \in Txs /\ wtx.kind = "withdraw" /\ wtx.ins = wset
    /\ wpc \in {"watch", "attach", "store"} => wtx \in bcast
    /\ wpc \in {"sign", "publish"}
         => \A t \in bcast : t.kind = "withdraw" /\ t.ins \cap wset # {}
                               => t.ins = wset
    /\ wpc # "store" => unstored = {}

\* lnd only has funding transactions.
Openings ==
    /\ opc \in {"lock", "psbt", "finalized"} => otx \in Txs /\ otx.kind = "channel"
    /\ \A t \in lndTxs : t.kind = "channel"

\* A monitor watches deposits of a broadcast withdrawal, and its spender spends the
\* first of them.
Watched ==
    \A m \in monitors :
        /\ m.tx \in bcast /\ m.tx.kind = "withdraw" /\ m.ds \subseteq m.tx.ins
        /\ m.at # "spend" => m.spender \in bcast /\ First(m.ds) \in m.spender.ins
        /\ m.at = "record" => m.spender \in deep /\ m.spender.kind = "withdraw"

Promises ==
    /\ References /\ Request /\ Watched /\ republish \subseteq bcast
    /\ SameInputs /\ WithdrawnIsConfirmed

Inv == TypeOK /\ Openings /\ Promises

-----------------------------------------------------------------------------
\* The first of a set of deposits is one of them.
LEMMA FirstIn ==
    ASSUME NEW D, D \subseteq Deposits, D # {}
    PROVE  First(D) \in D
<1>1. D \subseteq Nat
  BY PoolAssumption DEF Deposits
<1>2. \E x \in D : \A y \in D : ~ (<<y, x>> \in OpToRel(<, Nat))
  BY <1>1, WFMin, NatLessThanWellFounded, Zenon
<1>3. PICK x \in D : \A y \in D : ~ (<<y, x>> \in OpToRel(<, Nat))
  BY <1>2, Zenon
<1>4. ASSUME NEW y \in D
      PROVE  ~ (y < x)
  <2>1. <<y, x>> \in Nat \X Nat /\ <<y, x>>[1] = y /\ <<y, x>>[2] = x
    BY <1>1, Zenon
  <2>q. QED BY <1>3, <2>1, Zenon DEF OpToRel
<1>5. \A y \in D : x <= y
  BY <1>1, <1>4
<1>q. QED BY <1>5, Zenon DEF First

\* The states that the spenders move deposits to are states of the table.
LEMMA Names ==
    {"Deposited", "Withdrawing", "Withdrawn", "LoopingIn", "OpeningChannel",
     "ChannelPublished"} \subseteq States
<1>1. /\ <<"Empty", "OnStart", "Deposited">> \in Transitions
      /\ <<"Withdrawing", "OnWithdrawn", "Withdrawn">> \in Transitions
      /\ <<"Deposited", "OnLoopInInitiated", "LoopingIn">> \in Transitions
      /\ <<"OpeningChannel", "OnChannelPublished", "ChannelPublished">>
           \in Transitions
  BY Zenon DEF Transitions
<1>2. \A a, b, c : <<a, b, c>> \in Transitions => a \in States /\ c \in States
  <2>. SUFFICES ASSUME NEW a, NEW b, NEW c, <<a, b, c>> \in Transitions
                PROVE  a \in States /\ c \in States
    OBVIOUS
  <2>1. <<a, b, c>>[1] = a /\ <<a, b, c>>[3] = c
    OBVIOUS
  <2>q. QED BY <2>1, Zenon DEF States
<1>q. QED BY <1>1, <1>2, Zenon

\* Some of the deposits in D move to a state in T, and some of those are stored with
\* the transaction that they reference.
MovesTo(D, T) ==
    \A d \in Deposits :
        /\ dep'[d] # dep[d] => d \in D /\ dep'[d] \in T
        /\ \/ dbDep'[d] = dbDep[d] /\ dbTx'[d] = dbTx[d]
           \/ d \in D /\ dbDep'[d] \in T /\ dbTx'[d] = ftx'[d]

\* The types, by the part of the state that a step changes.
PoolTypes ==
    /\ dep \in [Deposits -> States] /\ dbDep \in [Deposits -> States]
    /\ dbTx \in [Deposits -> Txs \cup {NoTx}]
    /\ active \subseteq Deposits /\ faults \in 0 .. MaxFaults

ChainTypes ==
    /\ pool \subseteq bcast /\ mined \subseteq bcast /\ deep \subseteq mined
    /\ bcast \subseteq Txs

RequestTypes ==
    /\ wpc \in {"recover", "idle", "sign", "publish", "watch", "attach", "store"}
    /\ wtx \in Txs \cup {NoTx} /\ bump \in BOOLEAN
    /\ wset \subseteq Deposits /\ unstored \subseteq wset
    /\ held \subseteq Deposits

MonitorTypes ==
    /\ republish \subseteq Txs
    /\ monitors \subseteq [ds : (SUBSET Deposits) \ {{}}, tx : Txs,
                           spender : Txs \cup {NoTx},
                           at : {"spend", "conf", "record"}]
    /\ rows \in [Deposits -> {"none", "open", "done"}]

OpenTypes ==
    /\ opc \in {"recover", "idle", "lock", "psbt", "finalized"}
    /\ oset \subseteq Deposits /\ otx \in Txs \cup {NoTx} /\ lndTxs \subseteq Txs

OtherTypes ==
    /\ ftx \in [Deposits -> Txs \cup {NoTx}]
    /\ made \in 0 .. MaxTx /\ up \in BOOLEAN /\ lapsed \in BOOLEAN

Types ==
    /\ PoolTypes /\ ChainTypes /\ RequestTypes /\ MonitorTypes /\ OpenTypes
    /\ OtherTypes

\* The parts make up the type invariant.
LEMMA TypesAre == TypeOK <=> Types
BY Zenon DEF TypeOK, Types, PoolTypes, ChainTypes, RequestTypes, MonitorTypes,
   OpenTypes, OtherTypes

\* Every way in which TransitionDeposits and its callers move deposits.
LEMMA MovedMoves ==
    ASSUME PoolTypes, ftx' \in [Deposits -> Txs \cup {NoTx}],
           NEW K, K \subseteq Deposits, NEW target, NEW T, T \subseteq States,
           \A d \in Deposits : target[d] \in T,
           Moved(K, target)
    PROVE  PoolTypes' /\ MovesTo(K, T)
<1>. PICK W \in SUBSET K :
         /\ dbDep' = [d \in Deposits |-> IF d \in W THEN target[d] ELSE dbDep[d]]
         /\ dbTx' = [d \in Deposits |-> IF d \in W THEN ftx'[d] ELSE dbTx[d]]
         /\ \/ W = K /\ UNCHANGED faults
            \/ Cardinality(K \ W) = 1 /\ Fault
  BY Zenon DEF Moved
<1>1. dep' = [d \in Deposits |-> IF d \in K THEN target[d] ELSE dep[d]]
      /\ active' \subseteq active
  BY Zenon DEF Moved
<1>2. faults' \in 0 .. MaxFaults
  BY PoolAssumption DEF PoolTypes, Fault
<1>3. PoolTypes'
  BY <1>1, <1>2, Zenon DEF PoolTypes
<1>4. MovesTo(K, T)
  BY <1>1, Zenon DEF MovesTo
<1>q. QED BY <1>3, <1>4, Zenon

\* TransitionDeposits moves some of its deposits to the target, also when it fails.
LEMMA TransitionMoves ==
    ASSUME PoolTypes, ftx' \in [Deposits -> Txs \cup {NoTx}],
           NEW D, D \subseteq Deposits, NEW e, NEW t \in States,
           TransitionDeposits(D, e, t) \/ TransitionDepositsFails(D, e, t)
    PROVE  PoolTypes' /\ MovesTo(D, {t})
<1>1. \A d \in Deposits : To(t)[d] \in {t}
  BY Zenon DEF To
<1>2. ASSUME NEW K \in SUBSET D, Moved(K, To(t))
      PROVE  PoolTypes' /\ MovesTo(D, {t})
  <2>1. PoolTypes' /\ MovesTo(K, {t})
    BY <1>1, <1>2, MovedMoves, Zenon
  <2>q. QED BY <2>1, Zenon DEF MovesTo
<1>3. CASE UNCHANGED <<statevars, active, faults>>
  BY <1>3, Zenon DEF PoolTypes, MovesTo, statevars
<1>4. CASE Fault /\ UNCHANGED <<statevars, active>>
  BY <1>4, PoolAssumption DEF PoolTypes, MovesTo, statevars, Fault
<1>5. CASE \E K \in SUBSET D : Moved(K, To(t))
  BY <1>2, <1>5, Zenon
<1>6. CASE TransitionDeposits(D, e, t)
  BY <1>5, <1>6, Zenon DEF TransitionDeposits
<1>7. CASE TransitionDepositsFails(D, e, t)
  BY <1>3, <1>4, <1>5, <1>7, Zenon DEF TransitionDepositsFails
<1>q. QED BY <1>6, <1>7, Zenon

-----------------------------------------------------------------------------
(* What the promises need of a step. *)

\* The references hold on, and so does what is said of Withdrawn, when deposits move
\* to other states and the chain grows.
LEMMA StatesKept ==
    ASSUME References, WithdrawnIsConfirmed, UNCHANGED ftx,
           \A d \in Deposits : rows'[d] = "done" => rows[d] = "done",
           NEW T, MovesTo(Deposits, T), "Withdrawing" \notin T, "Withdrawn" \notin T,
           bcast \subseteq bcast', deep \subseteq deep'
    PROVE  References' /\ WithdrawnIsConfirmed'
<1>1. References'
  BY Zenon DEF References, Withdraws, MovesTo
<1>2. WithdrawnIsConfirmed'
  BY Zenon DEF WithdrawnIsConfirmed, SpentBy, MovesTo
<1>q. QED BY <1>1, <1>2, Zenon

\* A request is not disturbed by funding transactions.
LEMMA RequestKept ==
    ASSUME Request, UNCHANGED <<wpc, wset, wtx, unstored>>, bcast \subseteq bcast',
           \A t \in bcast' \ bcast : t.kind # "withdraw"
    PROVE  Request'
BY Zenon DEF Request

\* Only a new withdrawal can disturb the shared inputs.
LEMMA SameInputsKept ==
    ASSUME SameInputs, \A t \in bcast' \ bcast : t.kind # "withdraw"
    PROVE  SameInputs'
BY Zenon DEF SameInputs

\* Monitors that end, and a chain that grows, leave the others sound.
LEMMA WatchedKept ==
    ASSUME Watched, monitors' \subseteq monitors, bcast \subseteq bcast',
           deep \subseteq deep'
    PROVE  Watched'
BY Zenon DEF Watched

\* What steps outside of the withdrawal manager do.
LEMMA OthersKeep ==
    ASSUME Promises, UNCHANGED <<wvars, ftx>>,
           NEW T, MovesTo(Deposits, T), "Withdrawing" \notin T, "Withdrawn" \notin T,
           bcast \subseteq bcast', deep \subseteq deep',
           \A t \in bcast' \ bcast : t.kind # "withdraw"
    PROVE  Promises'
<1>1. References' /\ WithdrawnIsConfirmed'
  BY StatesKept, Zenon DEF Promises, wvars
<1>2. Request' /\ SameInputs'
  BY RequestKept, SameInputsKept, Zenon DEF Promises, wvars
<1>3. Watched'
  BY WatchedKept, Zenon DEF Promises, wvars
<1>4. (republish \subseteq bcast)'
  BY Zenon DEF Promises, wvars
<1>q. QED BY <1>1, <1>2, <1>3, <1>4, Zenon DEF Promises

\* Deposits that are left alone move nowhere.
LEMMA Unmoved == ASSUME UNCHANGED statevars PROVE MovesTo(Deposits, {})
BY Zenon DEF MovesTo, statevars

-----------------------------------------------------------------------------
(* The steps, one by one. *)

\* A block, a reorganisation or an eviction.
LEMMA ChainStep ==
    ASSUME Inv, Chain, UNCHANGED <<wvars, ovars>>
    PROVE  Inv'
<1>. PICK t \in pool : Mine(t) \/ Deepen(t) \/ Reorg(t) \/ Evict(t)
  BY Zenon DEF Chain
<1>1. UNCHANGED <<depvars, made, bcast, up, lapsed>> /\ deep \subseteq deep'
  BY Zenon DEF Mine, Deepen, Reorg, Evict
<1>2. Types
  BY TypesAre, Zenon DEF Inv
<1>3. ChainTypes' /\ faults' \in 0 .. MaxFaults
  BY <1>2, PoolAssumption
    DEF Types, ChainTypes, PoolTypes, Mine, Deepen, Reorg, Evict, Fault
<1>4. TypeOK'
  BY <1>1, <1>2, <1>3 DEF TypeOK, Types, PoolTypes, ChainTypes, RequestTypes,
     MonitorTypes, OpenTypes, OtherTypes, depvars, statevars, wvars, ovars
<1>5. Openings'
  BY Zenon DEF Inv, Openings, ovars
<1>6. Promises'
  BY <1>1, Unmoved, OthersKeep, Zenon DEF Inv, depvars
<1>q. QED BY <1>4, <1>5, <1>6, Zenon DEF Inv

\* A poll of the wallet updates the active deposits.
LEMMA ReconcileStep ==
    ASSUME Inv, ReconcileDeposits, UNCHANGED <<wvars, ovars>>
    PROVE  Inv'
<1>1. Fresh \subseteq Deposits
  BY Zenon DEF Inv, TypeOK, Fresh
<1>2. TypeOK'
  BY <1>1, Zenon DEF Inv, TypeOK, ReconcileDeposits, statevars, chainvars, wvars, ovars
<1>3. Openings'
  BY Zenon DEF Inv, Openings, ovars
<1>4. Promises'
  BY Unmoved, OthersKeep, Zenon DEF Inv, ReconcileDeposits, chainvars
<1>q. QED BY <1>2, <1>3, <1>4, Zenon DEF Inv

\* What a step of the pool that moves deposits, but not to a state of a withdrawal,
\* does to all but the opening manager.
LEMMA MoveStep ==
    ASSUME Inv, PoolTypes', NEW D, NEW T, MovesTo(D, T), D \subseteq Deposits,
           "Withdrawing" \notin T, "Withdrawn" \notin T,
           UNCHANGED <<wvars, ftx, held, made, chainvars, up>>, lapsed' \in BOOLEAN,
           OpenTypes', Openings'
    PROVE  Inv'
<1>1. TypeOK'
  BY Zenon DEF Inv, TypeOK, PoolTypes, OpenTypes, chainvars, wvars
<1>2. MovesTo(Deposits, T)
  BY Zenon DEF MovesTo
<1>3. Promises'
  BY <1>2, OthersKeep, Zenon DEF Inv, chainvars
<1>q. QED BY <1>1, <1>3, Zenon DEF Inv

\* A loop-in takes a deposit, or returns it.
LEMMA OtherStep ==
    ASSUME Inv, NEW d \in Shared, OtherTakes(d) \/ OtherReturns(d),
           UNCHANGED <<wvars, ovars>>
    PROVE  Inv'
<1>1. PoolTypes /\ OtherTypes /\ OpenTypes /\ {d} \subseteq Deposits
  BY TypesAre, PoolAssumption, Zenon DEF Inv, Types, Deposits
<1>2. /\ UNCHANGED <<ftx, held, made, chainvars, up, lapsed>>
      /\ \E e, t : /\ t \in {"LoopingIn", "Deposited"}
                   /\ TransitionDeposits({d}, e, t)
  BY Zenon DEF OtherTakes, OtherReturns
<1>. PICK e, t : t \in {"LoopingIn", "Deposited"} /\ TransitionDeposits({d}, e, t)
  BY <1>2, Zenon
<1>3. t \in States /\ t # "Withdrawing" /\ t # "Withdrawn"
  BY Names, Zenon
<1>4. PoolTypes' /\ MovesTo({d}, {t})
  BY <1>1, <1>2, <1>3, TransitionMoves, Zenon DEF OtherTypes
<1>5. OpenTypes' /\ Openings' /\ lapsed' \in BOOLEAN
  BY <1>1, <1>2, Zenon DEF Inv, Openings, OpenTypes, OtherTypes, ovars
<1>q. QED BY <1>1, <1>2, <1>3, <1>4, <1>5, MoveStep

\* A channel opening is requested.
LEMMA OpenRequestStep ==
    ASSUME Inv, NEW D \in SUBSET Deposits, OpenRequest(D), UNCHANGED wvars
    PROVE  Inv'
<1>1. Fresh \subseteq Deposits /\ D # {}
  BY Zenon DEF Inv, TypeOK, Fresh, OpenRequest, AllActive
<1>2. made' \in 1 .. MaxTx /\ made' = made + 1
  BY PoolAssumption DEF Inv, TypeOK, OpenRequest
<1>3. otx' \in Txs /\ otx'.kind = "channel"
  BY <1>1, <1>2, PoolAssumption DEF OpenRequest, Txs
<1>4. TypeOK'
  <2>1. made' \in 0 .. MaxTx /\ oset' \subseteq Deposits /\ active' \subseteq Deposits
    BY <1>1, <1>2 DEF OpenRequest
  <2>2. opc' = "lock" /\ otx' \in Txs \cup {NoTx}
    BY <1>3, Zenon DEF OpenRequest
  <2>q. QED BY <2>1, <2>2, Zenon DEF Inv, TypeOK, OpenRequest, statevars, chainvars, wvars
<1>5. Openings'
  BY <1>3, Zenon DEF Inv, Openings, OpenRequest
<1>6. Promises'
  BY Unmoved, OthersKeep, Zenon DEF Inv, OpenRequest, chainvars
<1>q. QED BY <1>4, <1>5, <1>6, Zenon DEF Inv

\* TransitionDeposits of a channel opening.
LEMMA OpenMoves ==
    ASSUME Inv, NEW e, NEW t \in {"OpeningChannel", "Deposited", "ChannelPublished"},
           UNCHANGED <<wvars, ftx, held, made, chainvars, up>>, lapsed' \in BOOLEAN,
           TransitionDeposits(oset, e, t) \/ TransitionDepositsFails(oset, e, t),
           OpenTypes', Openings'
    PROVE  Inv'
<1>1. PoolTypes /\ OtherTypes /\ oset \subseteq Deposits
  BY TypesAre, Zenon DEF Inv, Types, OpenTypes
<1>2. t \in States /\ t # "Withdrawing" /\ t # "Withdrawn"
  BY Names, Zenon
<1>3. PoolTypes' /\ MovesTo(oset, {t})
  BY <1>1, <1>2, TransitionMoves, Zenon DEF OtherTypes
<1>q. QED BY <1>1, <1>2, <1>3, MoveStep, Zenon

\* The deposits of a channel are locked, or that fails in part.
LEMMA LockOpeningStep ==
    ASSUME Inv, LockOpening, UNCHANGED wvars
    PROVE  Inv'
<1>1. lapsed' \in BOOLEAN
  BY Zenon DEF Inv, TypeOK, LockOpening
<1>2. OpenTypes' /\ Openings'
  BY Zenon DEF Inv, TypeOK, LockOpening, OpenReturns, OpenTypes, Openings
<1>q. QED BY <1>1, <1>2, OpenMoves, Zenon DEF LockOpening

\* The rollback of an opening.
LEMMA RollBackStep ==
    ASSUME Inv, RollBack, UNCHANGED <<wvars, held, made, chainvars, up>>,
           lndTxs' \subseteq Txs, \A t \in lndTxs' : t.kind = "channel"
    PROVE  Inv'
<1>1. lapsed' \in BOOLEAN
  BY Zenon DEF Inv, TypeOK, RollBack
<1>2. OpenTypes' /\ Openings'
  BY Zenon DEF RollBack, OpenReturns, OpenTypes, Openings
<1>q. QED BY <1>1, <1>2, OpenMoves, Zenon DEF RollBack

\* The funding transaction goes to lnd, or the stream fails before.
LEMMA PsbtFundStep ==
    ASSUME Inv, PsbtFund, UNCHANGED wvars
    PROVE  Inv'
<1>1. /\ lndTxs' \subseteq Txs /\ \A t \in lndTxs' : t.kind = "channel"
      /\ opc = "psbt"
  BY Zenon DEF Inv, TypeOK, Openings, PsbtFund
<1>2. CASE RollBack
  BY <1>1, <1>2, RollBackStep, Zenon DEF PsbtFund
<1>3. CASE /\ opc' = "finalized"
           /\ UNCHANGED <<statevars, ftx, active, oset, otx, lapsed, faults>>
  <2>1. UNCHANGED <<held, made, chainvars, up>>
    BY Zenon DEF PsbtFund
  <2>2. TypeOK'
    BY <1>1, <1>3, <2>1, Zenon DEF Inv, TypeOK, statevars, chainvars, wvars
  <2>3. Openings'
    BY <1>1, <1>3, Zenon DEF Inv, Openings
  <2>4. Promises'
    BY <1>3, <2>1, Unmoved, OthersKeep, Zenon DEF Inv, chainvars
  <2>q. QED BY <2>2, <2>3, <2>4, Zenon DEF Inv
<1>q. QED BY <1>2, <1>3, Zenon DEF PsbtFund

\* The recovery of openings moves them where the wallet says, in whole or in part.
LEMMA RecoveryMoves ==
    ASSUME Inv, RecoverOpeningChannelDeposits \/ RecoverOpeningFails
    PROVE  PoolTypes' /\ MovesTo(Opening, {"Deposited", "ChannelPublished"})
<1>1. /\ PoolTypes /\ OtherTypes /\ ftx' = ftx /\ Opening \subseteq Deposits
      /\ {"Deposited", "ChannelPublished"} \subseteq States
  BY TypesAre, Names, Zenon
  DEF Inv, Types, PoolTypes, Opening, RecoverOpeningChannelDeposits, RecoverOpeningFails
<1>2. CASE RecoverOpeningChannelDeposits
  <2>1. \A d \in Deposits : Resolved[d] \in {"Deposited", "ChannelPublished"}
    BY Zenon DEF Resolved
  <2>q. QED BY <1>1, <1>2, <2>1, MovedMoves, Zenon
    DEF RecoverOpeningChannelDeposits, OtherTypes
<1>3. CASE RecoverOpeningFails
  <2>. PICK K \in {{}, {d \in Opening : Unspent(d)}} :
         /\ dep' = [d \in Deposits |-> IF d \in K THEN "Deposited" ELSE dep[d]]
         /\ dbDep' = [d \in Deposits |->
                        IF d \in K THEN "Deposited" ELSE dbDep[d]]
         /\ dbTx' = [d \in Deposits |-> IF d \in K THEN ftx[d] ELSE dbTx[d]]
    BY <1>3, Zenon DEF RecoverOpeningFails
  <2>1. K \subseteq Opening
    OBVIOUS
  <2>2. active' = active /\ faults' \in 0 .. MaxFaults
    BY <1>1, <1>3, PoolAssumption DEF RecoverOpeningFails, Fault, PoolTypes
  <2>3. PoolTypes'
    BY <1>1, <2>2, Zenon DEF PoolTypes, OtherTypes
  <2>4. MovesTo(Opening, {"Deposited", "ChannelPublished"})
    BY <1>1, <2>1, Zenon DEF MovesTo
  <2>q. QED BY <2>3, <2>4, Zenon
<1>q. QED BY <1>2, <1>3, Zenon

\* What the recovery of OpeningChannel deposits does to the rest.
LEMMA RecoveryStep ==
    ASSUME Inv, RecoverOpeningChannelDeposits \/ RecoverOpeningFails, OpenReturns,
           UNCHANGED <<wvars, held, made, chainvars, up, lndTxs>>, lapsed' \in BOOLEAN
    PROVE  Inv'
<1>1. PoolTypes' /\ MovesTo(Opening, {"Deposited", "ChannelPublished"})
  BY RecoveryMoves, Zenon
<1>2. /\ ftx' = ftx /\ Opening \subseteq Deposits
      /\ "Withdrawing" \notin {"Deposited", "ChannelPublished"}
      /\ "Withdrawn" \notin {"Deposited", "ChannelPublished"}
  BY Zenon DEF Inv, TypeOK, Opening, RecoverOpeningChannelDeposits, RecoverOpeningFails
<1>3. OpenTypes' /\ Openings'
  BY Zenon DEF Inv, TypeOK, OpenReturns, OpenTypes, Openings
<1>q. QED BY <1>1, <1>2, <1>3, MoveStep, Zenon

\* The stream of an opening fails: roll back, or recover when lnd has finalized.
LEMMA StreamFailsStep ==
    ASSUME Inv, StreamFails, UNCHANGED wvars
    PROVE  Inv'
<1>1. lndTxs' \subseteq Txs /\ \A t \in lndTxs' : t.kind = "channel"
  BY Zenon DEF Inv, TypeOK, Openings, StreamFails
<1>2. CASE RollBack
  BY <1>1, <1>2, RollBackStep, Zenon DEF StreamFails
<1>3. CASE /\ OpenReturns
           /\ \/ RecoverOpeningChannelDeposits /\ UNCHANGED lapsed
              \/ RecoverOpeningFails
  <2>1. lapsed' \in BOOLEAN
    BY <1>3, Zenon DEF Inv, TypeOK, RecoverOpeningFails
  <2>q. QED BY <1>3, <2>1, RecoveryStep, Zenon DEF StreamFails
<1>q. QED BY <1>2, <1>3, Zenon DEF StreamFails

\* lnd reports the channel as pending.
LEMMA ChanPendingStep ==
    ASSUME Inv, ChanPending, UNCHANGED wvars
    PROVE  Inv'
<1>1. lapsed' \in BOOLEAN
  BY Zenon DEF Inv, TypeOK, ChanPending
<1>2. OpenTypes' /\ Openings'
  BY Zenon DEF Inv, TypeOK, ChanPending, OpenReturns, OpenTypes, Openings
<1>q. QED BY <1>1, <1>2, OpenMoves, Zenon DEF ChanPending

\* The opening manager recovers after a restart.
LEMMA RecoverOpeningStep ==
    ASSUME Inv, RecoverOpening, UNCHANGED wvars
    PROVE  Inv'
<1>1. lapsed' \in BOOLEAN
  BY Zenon DEF Inv, TypeOK, RecoverOpening
<1>q. QED BY <1>1, RecoveryStep, Zenon DEF RecoverOpening

\* lnd publishes a funding transaction.
LEMMA LndPublishesStep ==
    ASSUME Inv, NEW t \in lndTxs, LndPublishes(t), UNCHANGED wvars
    PROVE  Inv'
<1>1. t \in Txs /\ t.kind = "channel"
  BY Zenon DEF Inv, TypeOK, Openings
<1>2. /\ UNCHANGED <<depvars, made, up, lapsed, opc, oset, otx, faults>>
      /\ lndTxs' \subseteq lndTxs
      /\ bcast' \in {bcast, bcast \cup {t}} /\ pool' \subseteq pool \cup bcast'
      /\ UNCHANGED <<mined, deep>>
  BY Zenon DEF LndPublishes, Publishes, chainvars
<1>3. TypeOK'
  BY <1>1, <1>2 DEF Inv, TypeOK, depvars, statevars, wvars
<1>4. Openings'
  BY <1>2, Zenon DEF Inv, Openings
<1>5. Promises'
  BY <1>1, <1>2, Unmoved, OthersKeep, Zenon DEF Inv, depvars
<1>q. QED BY <1>3, <1>4, <1>5, Zenon DEF Inv

-----------------------------------------------------------------------------
(* The withdrawal manager. *)

\* Before a request, no other withdrawal shares part of its inputs: an unspent
\* deposit is in none, and the deposits of a fee bump reference one with exactly
\* these inputs.
LEMMA RequestAlone ==
    ASSUME Inv, NEW D \in SUBSET Deposits,
           \/ AllActive(D, "Deposited")
           \/ AllActive(D, "Withdrawing") /\ SameCluster(D),
           NEW t \in bcast, t.kind = "withdraw", NEW d \in D, d \in t.ins
    PROVE  t.ins = D
<1>1. CASE AllActive(D, "Deposited")
  BY <1>1, Zenon DEF AllActive, Fresh, Unspent
<1>2. CASE SameCluster(D)
  <2>1. ftx[d] # NoTx /\ ftx[d].ins = D
    BY <1>2, Zenon DEF SameCluster
  <2>2. Withdraws(ftx[d], d)
    BY <2>1, Zenon DEF Inv, Promises, References
  <2>q. QED BY <2>1, <2>2, Zenon DEF Withdraws, Inv, Promises, SameInputs
<1>q. QED BY <1>1, <1>2, Zenon

\* A withdrawal is requested.
LEMMA WithdrawRequestStep ==
    ASSUME Inv, NEW D \in SUBSET Deposits, WithdrawRequest(D), UNCHANGED ovars
    PROVE  Inv'
<1>1. Fresh \subseteq Deposits /\ D # {}
  BY Zenon DEF Inv, TypeOK, Fresh, WithdrawRequest, AllActive
<1>2. made' \in 1 .. MaxTx /\ made' = made + 1
  BY PoolAssumption DEF Inv, TypeOK, WithdrawRequest
<1>3. WithdrawalAddress(D) \in 0 .. MaxTx
  <2>1. First(D) \in Deposits
    BY <1>1, FirstIn, Zenon
  <2>2. ftx[First(D)].addr \in 0 .. MaxTx
    BY <2>1, PoolAssumption DEF Inv, TypeOK, Txs, NoTx
  <2>q. QED BY <1>2, <2>2 DEF WithdrawalAddress
<1>4. wtx' \in Txs /\ wtx'.kind = "withdraw" /\ wtx'.ins = D
  BY <1>1, <1>2, <1>3, Zenon DEF WithdrawRequest, Txs
<1>5. bump' \in BOOLEAN
  BY Zenon DEF WithdrawRequest
<1>6. TypeOK'
  <2>1. made' \in 0 .. MaxTx /\ active' \subseteq Deposits
    BY <1>1, <1>2 DEF WithdrawRequest
  <2>2. wpc' = "sign" /\ wtx' \in Txs \cup {NoTx} /\ wset' \subseteq Deposits
    BY <1>4, Zenon DEF WithdrawRequest
  <2>3. unstored = {} /\ unstored' = unstored
    BY Zenon DEF Inv, Promises, Request, WithdrawRequest
  <2>q. QED BY <1>5, <2>1, <2>2, <2>3, Zenon
    DEF Inv, TypeOK, WithdrawRequest, statevars, chainvars, ovars
<1>7. Openings'
  BY Zenon DEF Inv, Openings, ovars
<1>8. Request'
  <2>1. wpc' = "sign" /\ wset' = D /\ bcast' = bcast
    BY Zenon DEF WithdrawRequest, chainvars
  <2>2. \A t \in bcast : t.kind = "withdraw" /\ t.ins \cap D # {} => t.ins = D
    BY RequestAlone DEF WithdrawRequest
  <2>3. unstored' = {}
    BY Zenon DEF Inv, Promises, Request, WithdrawRequest
  <2>q. QED BY <1>4, <2>1, <2>2, <2>3, Zenon DEF Request
<1>9. References' /\ WithdrawnIsConfirmed'
  BY Unmoved, StatesKept, Zenon DEF Inv, Promises, WithdrawRequest, chainvars
<1>10. SameInputs' /\ Watched' /\ (republish \subseteq bcast)'
  BY SameInputsKept, WatchedKept, Zenon DEF Inv, Promises, WithdrawRequest, chainvars
<1>q. QED BY <1>6, <1>7, <1>8, <1>9, <1>10, Zenon DEF Inv, Promises

\* What a step of a request that leaves deposits and monitors alone keeps.
LEMMA RequestStep ==
    ASSUME Inv, UNCHANGED <<statevars, ftx, active, made, mined, deep, up, lapsed,
                            republish, monitors, ovars>>,
           \A d \in Deposits : rows'[d] = "done" => rows[d] = "done",
           rows' \in [Deposits -> {"none", "open", "done"}],
           bcast \subseteq bcast', bcast' \subseteq Txs, pool' \subseteq bcast',
           faults' \in 0 .. MaxFaults,
           RequestTypes', Request', SameInputs'
    PROVE  Inv'
<1>1. TypeOK'
  BY Zenon DEF Inv, TypeOK, RequestTypes, statevars, ovars
<1>2. Openings'
  BY Zenon DEF Inv, Openings, ovars
<1>3. References' /\ WithdrawnIsConfirmed'
  BY Unmoved, StatesKept, Zenon DEF Inv, Promises
<1>4. Watched' /\ (republish \subseteq bcast)'
  BY WatchedKept, Zenon DEF Inv, Promises
<1>q. QED BY <1>1, <1>2, <1>3, <1>4, Zenon DEF Inv, Promises

\* The end of a request.
LEMMA WithdrawIdleTypes ==
    ASSUME WithdrawIdle
    PROVE  /\ Request' /\ wpc' = "idle" /\ wtx' \in Txs \cup {NoTx}
           /\ bump' \in BOOLEAN /\ wset' = {} /\ unstored' = {}
<1>1. bump' \in BOOLEAN
  BY Zenon DEF WithdrawIdle
<1>q. QED BY <1>1, Zenon DEF WithdrawIdle, Request

\* The deposits of a request are held for the signing, or a hold is refused.
LEMMA HoldStep ==
    ASSUME Inv, HoldActiveDeposits, UNCHANGED ovars
    PROVE  Inv'
<1>1. RequestTypes' /\ Request'
  <2>1. CASE held' = wset /\ Goto("publish")
    BY <2>1, Zenon
    DEF Goto, Inv, TypeOK, Promises, RequestTypes, Request, HoldActiveDeposits, chainvars
  <2>2. CASE WithdrawIdle /\ UNCHANGED held
    BY <2>2, WithdrawIdleTypes, Zenon DEF Inv, TypeOK, RequestTypes
  <2>q. QED BY <2>1, <2>2, Zenon DEF HoldActiveDeposits
<1>2. SameInputs'
  BY SameInputsKept, Zenon DEF Inv, Promises, HoldActiveDeposits, chainvars
<1>q. QED BY <1>1, <1>2, RequestStep, Zenon
  DEF HoldActiveDeposits, chainvars, Inv, TypeOK

\* The transaction of a request joins the withdrawals with the same inputs.
LEMMA PublishKeepsInputs ==
    ASSUME Inv, wpc = "publish", bcast' \subseteq bcast \cup {wtx}
    PROVE  SameInputs'
<1>1. /\ wtx.ins = wset
      /\ \A t \in bcast : t.kind = "withdraw" /\ t.ins \cap wset # {} => t.ins = wset
  BY Zenon DEF Inv, Promises, Request
<1>q. QED BY <1>1, Zenon DEF Inv, Promises, SameInputs

\* The transaction of a request is published, refused, or fails.
LEMMA PublishStep ==
    ASSUME Inv, PublishFinalizedWithdrawalTx, UNCHANGED ovars
    PROVE  Inv'
<1>1. wpc = "publish" /\ wtx \in Txs /\ wtx.kind = "withdraw" /\ wtx.ins = wset
  BY Zenon DEF PublishFinalizedWithdrawalTx, Inv, Promises, Request
<1>2. /\ bcast' \in {bcast, bcast \cup {wtx}} /\ pool' \subseteq pool \cup bcast'
      /\ UNCHANGED <<mined, deep>> /\ faults' \in 0 .. MaxFaults
  BY PoolAssumption DEF PublishFinalizedWithdrawalTx, Publishes, PublishRefused,
     PublishFails, Fault, chainvars, Inv, TypeOK
<1>3. SameInputs'
  BY <1>1, <1>2, PublishKeepsInputs, Zenon
<1>4. RequestTypes' /\ Request'
  <2>1. CASE /\ Publishes(wtx) /\ Goto(IF bump THEN "attach" ELSE "watch")
             /\ UNCHANGED held
    <3>1. wtx \in bcast' /\ wpc' \in {"attach", "watch"}
      BY <2>1, Zenon DEF Publishes, Goto
    <3>q. QED BY <1>1, <2>1, <3>1, Zenon
      DEF Goto, Inv, TypeOK, Promises, RequestTypes, Request
  <2>2. CASE WithdrawReturns
    BY <2>2, WithdrawIdleTypes, Zenon DEF WithdrawReturns, Release, RequestTypes
  <2>q. QED BY <2>1, <2>2, Zenon DEF PublishFinalizedWithdrawalTx
<1>5. /\ bcast \subseteq bcast' /\ bcast' \subseteq Txs /\ pool' \subseteq bcast'
      /\ UNCHANGED <<statevars, ftx, active, made, up, lapsed, republish, monitors,
                     rows>>
  BY <1>1, <1>2, Zenon DEF PublishFinalizedWithdrawalTx, Inv, TypeOK
<1>q. QED BY <1>2, <1>3, <1>4, <1>5, RequestStep, Zenon DEF Inv, TypeOK

\* The withdrawal is stored and its monitor started, or one of them fails.
LEMMA HandleWithdrawalStep ==
    ASSUME Inv, HandleWithdrawal, UNCHANGED ovars
    PROVE  Inv'
<1>1. /\ wtx \in bcast /\ wtx \in Txs /\ wtx.kind = "withdraw" /\ wtx.ins = wset
      /\ wset # {} /\ wpc = "watch"
  BY Zenon DEF HandleWithdrawal, Inv, Promises, Request, Txs
<1>2. /\ UNCHANGED <<statevars, ftx, active, made, chainvars, up, lapsed, republish>>
      /\ faults' \in 0 .. MaxFaults
  BY PoolAssumption DEF HandleWithdrawal, Fault, Inv, TypeOK
<1>3. /\ rows' \in [Deposits -> {"none", "open", "done"}]
      /\ \A d \in Deposits : rows'[d] = "done" => rows[d] = "done"
  BY Zenon DEF HandleWithdrawal, CreateWithdrawal, Inv, TypeOK
<1>4. CASE Watch
  <2>1. monitors' = monitors \cup {Monitor(wset, wtx)}
        /\ wpc' = "attach" /\ UNCHANGED <<wset, wtx, bump, unstored, held>>
    BY <1>4, Zenon DEF Watch, Goto
  <2>2. TypeOK'
    <3>1. Monitor(wset, wtx) \in [ds : (SUBSET Deposits) \ {{}}, tx : Txs,
                                  spender : Txs \cup {NoTx},
                                  at : {"spend", "conf", "record"}]
      BY <1>1, Zenon DEF Monitor, Inv, TypeOK
    <3>q. QED BY <1>2, <1>3, <2>1, <3>1, Zenon
      DEF Inv, TypeOK, statevars, chainvars, ovars
  <2>3. Openings'
    BY Zenon DEF Inv, Openings, ovars
  <2>4. Request' /\ SameInputs' /\ (republish \subseteq bcast)'
    BY <1>1, <1>2, <2>1, SameInputsKept, Zenon DEF Inv, Promises, Request, chainvars
  <2>5. References' /\ WithdrawnIsConfirmed'
    BY <1>2, <1>3, Unmoved, StatesKept, Zenon DEF Inv, Promises, chainvars
  <2>6. Watched'
    BY <1>1, <1>2, <2>1 DEF Inv, Promises, Watched, Monitor, chainvars
  <2>q. QED BY <2>2, <2>3, <2>4, <2>5, <2>6, Zenon DEF Inv, Promises
<1>5. CASE WithdrawReturns /\ UNCHANGED monitors
  <2>1. RequestTypes' /\ Request'
    BY <1>5, WithdrawIdleTypes, Zenon DEF WithdrawReturns, Release, RequestTypes
  <2>2. SameInputs'
    BY <1>2, SameInputsKept, Zenon DEF Inv, Promises, chainvars
  <2>q. QED BY <1>2, <1>3, <1>5, <2>1, <2>2, RequestStep, Zenon DEF chainvars, Inv, TypeOK
<1>q. QED BY <1>4, <1>5, Zenon DEF HandleWithdrawal

\* The deposits reference the transaction and move to Withdrawing, in whole or in
\* part.
LEMMA AttachStep ==
    ASSUME Inv, AttachWithdrawal, UNCHANGED ovars
    PROVE  Inv'
<1>1. /\ wtx \in bcast /\ wtx \in Txs /\ wtx.kind = "withdraw" /\ wtx.ins = wset
      /\ wset \subseteq Deposits /\ unstored = {}
  BY Zenon DEF AttachWithdrawal, Inv, TypeOK, Promises, Request
<1>2. /\ ftx' = [d \in Deposits |-> IF d \in wset THEN wtx ELSE ftx[d]]
      /\ republish' \subseteq republish \cup {wtx}
      /\ UNCHANGED <<made, chainvars, up, lapsed, monitors, rows>>
  BY Zenon DEF AttachWithdrawal
<1>3. ftx' \in [Deposits -> Txs \cup {NoTx}]
  BY <1>1, <1>2, Zenon DEF Inv, TypeOK
<1>4. PoolTypes' /\ MovesTo(wset, {"Withdrawing"})
  <2>1. PoolTypes /\ "Withdrawing" \in States
    BY TypesAre, Names, Zenon DEF Inv, Types
  <2>q. QED BY <1>1, <1>3, <2>1, TransitionMoves, Zenon DEF AttachWithdrawal
<1>5. RequestTypes' /\ Request'
  <2>1. CASE /\ wpc' = "store" /\ unstored' = wset
             /\ UNCHANGED <<wset, wtx, bump, held>>
    BY <1>1, <1>2, <2>1, Zenon DEF Inv, TypeOK, RequestTypes, Request, chainvars
  <2>2. CASE WithdrawReturns
    BY <2>2, WithdrawIdleTypes, Zenon DEF WithdrawReturns, Release, RequestTypes
  <2>q. QED BY <2>1, <2>2, Zenon DEF AttachWithdrawal
<1>6. TypeOK'
  BY <1>1, <1>2, <1>3, <1>4, <1>5, Zenon
  DEF Inv, TypeOK, PoolTypes, RequestTypes, chainvars, ovars
<1>7. Openings'
  BY Zenon DEF Inv, Openings, ovars
<1>8. References'
  BY <1>1, <1>2, <1>4 DEF Inv, Promises, References, Withdraws, MovesTo, chainvars, NoTx
<1>9. WithdrawnIsConfirmed'
  BY <1>2, <1>4, Zenon
  DEF Inv, Promises, WithdrawnIsConfirmed, SpentBy, MovesTo, chainvars
<1>10. SameInputs' /\ Watched' /\ (republish \subseteq bcast)'
  BY <1>1, <1>2, SameInputsKept, WatchedKept, Zenon DEF Inv, Promises, chainvars
<1>q. QED BY <1>5, <1>6, <1>7, <1>8, <1>9, <1>10, Zenon DEF Inv, Promises

\* One deposit of the request is stored, or that fails.
LEMMA StoreDepositStep ==
    ASSUME Inv, StoreDeposit, UNCHANGED ovars
    PROVE  Inv'
<1>. DEFINE d == First(unstored)
<1>1. /\ UNCHANGED <<dep, ftx, active, made, chainvars, up, lapsed, republish,
                     monitors, rows>>
      /\ faults' \in 0 .. MaxFaults
  BY PoolAssumption DEF StoreDeposit, Fault, Inv, TypeOK
<1>2. /\ \A e \in Deposits : \/ dbDep'[e] = dbDep[e] /\ dbTx'[e] = dbTx[e]
                             \/ dbDep'[e] = dep[e] /\ dbTx'[e] = ftx[e]
      /\ dbDep' \in [Deposits -> States]
      /\ dbTx' \in [Deposits -> Txs \cup {NoTx}]
  BY DEF StoreDeposit, Inv, TypeOK
<1>3. RequestTypes' /\ Request'
  <2>1. CASE unstored' = unstored \ {d} /\ UNCHANGED <<wpc, wset, wtx, bump, held>>
    <3>1. wpc = "store"
      BY Zenon DEF StoreDeposit
    <3>q. QED BY <1>1, <2>1, <3>1, Zenon
      DEF Inv, TypeOK, Promises, RequestTypes, Request, chainvars
  <2>2. CASE WithdrawReturns
    BY <2>2, WithdrawIdleTypes, Zenon DEF WithdrawReturns, Release, RequestTypes
  <2>q. QED BY <2>1, <2>2, Zenon DEF StoreDeposit
<1>4. TypeOK'
  BY <1>1, <1>2, <1>3, Zenon DEF Inv, TypeOK, RequestTypes, chainvars, ovars
<1>5. Openings'
  BY Zenon DEF Inv, Openings, ovars
<1>6. References'
  BY <1>1, <1>2, Zenon DEF Inv, Promises, References, Withdraws, chainvars
<1>7. WithdrawnIsConfirmed'
  BY <1>1, <1>2, Zenon DEF Inv, Promises, WithdrawnIsConfirmed, SpentBy, chainvars
<1>8. SameInputs' /\ Watched' /\ (republish \subseteq bcast)'
  BY <1>1, SameInputsKept, WatchedKept, Zenon DEF Inv, Promises, chainvars
<1>q. QED BY <1>3, <1>4, <1>5, <1>6, <1>7, <1>8, Zenon DEF Inv, Promises

-----------------------------------------------------------------------------
(* The goroutines that watch withdrawals, and recovery. *)

\* What a step that changes monitors only, and not the deposits, keeps.
LEMMA MonitorsStep ==
    ASSUME Inv, UNCHANGED <<depvars, made, bcast, mined, deep, up, ovars, wpc, wset,
                            wtx, bump, unstored>>,
           pool' \subseteq bcast, lapsed' \in BOOLEAN, faults' \in 0 .. MaxFaults,
           MonitorTypes', Watched', republish' \subseteq bcast, WithdrawnIsConfirmed'
    PROVE  Inv'
<1>1. TypeOK'
  BY ZenonT(30) DEF Inv, TypeOK, MonitorTypes, depvars, statevars, ovars
<1>2. Openings'
  BY Zenon DEF Inv, Openings, ovars
<1>3. References'
  BY Zenon DEF Inv, Promises, References, Withdraws, depvars, statevars
<1>4. Request' /\ SameInputs' /\ (republish \subseteq bcast)'
  BY RequestKept, SameInputsKept, Zenon DEF Inv, Promises
<1>q. QED BY <1>1, <1>2, <1>3, <1>4, Zenon DEF Inv, Promises

\* What is said of Withdrawn depends on the deposits, the rows and the chain.
LEMMA ConfirmedKept ==
    ASSUME WithdrawnIsConfirmed, UNCHANGED <<statevars, deep, rows>>
    PROVE  WithdrawnIsConfirmed'
BY Zenon DEF WithdrawnIsConfirmed, SpentBy, statevars

\* The spend of the first deposit is seen, or the subscription fails.
LEMMA SpendSeenStep ==
    ASSUME Inv, NEW m \in monitors, SpendSeen(m), UNCHANGED ovars
    PROVE  Inv'
<1>1. /\ UNCHANGED <<depvars, made, chainvars, up, wpc, wset, wtx, bump, unstored,
                     republish, rows>>
      /\ m.at = "spend"
  BY Zenon DEF SpendSeen
<1>2. lapsed' \in BOOLEAN
  <2>1. CASE UNCHANGED lapsed
    BY <2>1, Zenon DEF Inv, TypeOK
  <2>2. CASE GivesUp(m)
    BY <2>2, Zenon DEF GivesUp
  <2>q. QED BY <2>1, <2>2, Zenon DEF SpendSeen
<1>3. faults' \in 0 .. MaxFaults
  <2>1. UNCHANGED faults \/ Fault
    BY Zenon DEF SpendSeen, GivesUp
  <2>q. QED BY <2>1, PoolAssumption DEF Fault, Inv, TypeOK
<1>4. MonitorTypes' /\ Watched'
  <2>1. ASSUME NEW t \in mined, First(m.ds) \in t.ins,
               Becomes(m, [m EXCEPT !.spender = t, !.at = "conf"])
        PROVE  MonitorTypes' /\ Watched'
    <3>. DEFINE n == [m EXCEPT !.spender = t, !.at = "conf"]
    <3>1. t \in bcast /\ t \in Txs
      BY Zenon DEF Inv, TypeOK
    <3>2. m \in [ds : (SUBSET Deposits) \ {{}}, tx : Txs, spender : Txs \cup {NoTx},
                 at : {"spend", "conf", "record"}]
      BY Zenon DEF Inv, TypeOK
    <3>3. /\ n \in [ds : (SUBSET Deposits) \ {{}}, tx : Txs, spender : Txs \cup {NoTx},
                    at : {"spend", "conf", "record"}]
          /\ n.ds = m.ds /\ n.tx = m.tx /\ n.spender = t /\ n.at = "conf"
      BY <3>1, <3>2, Zenon
    <3>4. monitors' \subseteq monitors \cup {n}
      BY <2>1, Zenon DEF Becomes
    <3>. HIDE DEF n
    <3>5. MonitorTypes'
      BY <1>1, <3>3, <3>4, Zenon DEF Inv, TypeOK, MonitorTypes
    <3>6. Watched'
      BY <1>1, <2>1, <3>1, <3>3, <3>4, Zenon DEF Inv, Promises, Watched, chainvars
    <3>q. QED BY <3>5, <3>6, Zenon
  <2>2. ASSUME GivesUp(m)
        PROVE  MonitorTypes' /\ Watched'
    BY <1>1, <2>2, WatchedKept, Zenon
    DEF GivesUp, Inv, TypeOK, Promises, MonitorTypes, chainvars
  <2>q. QED BY <2>1, <2>2, Zenon DEF SpendSeen
<1>5. WithdrawnIsConfirmed' /\ republish' \subseteq bcast /\ pool' \subseteq bcast
  BY <1>1, ConfirmedKept, Zenon DEF Inv, TypeOK, Promises, depvars, chainvars
<1>q. QED BY <1>1, <1>2, <1>3, <1>4, <1>5, MonitorsStep, Zenon DEF chainvars

\* The deposits of a monitor are inputs of the withdrawal that spends the first of
\* them.
LEMMA SpenderSpendsAll ==
    ASSUME Inv, NEW m \in monitors, m.at # "spend", m.spender.kind = "withdraw"
    PROVE  m.ds \subseteq m.spender.ins
<1>1. m.ds \subseteq Deposits /\ m.ds # {}
  BY Zenon DEF Inv, TypeOK
<1>2. First(m.ds) \in m.ds
  BY <1>1, FirstIn, Zenon
<1>3. /\ m.tx \in bcast /\ m.tx.kind = "withdraw" /\ m.ds \subseteq m.tx.ins
      /\ m.spender \in bcast /\ First(m.ds) \in m.spender.ins
  BY Zenon DEF Inv, Promises, Watched
<1>4. m.spender.ins = m.tx.ins
  BY <1>2, <1>3, Zenon DEF Inv, Promises, SameInputs
<1>q. QED BY <1>3, <1>4, Zenon

\* The spender is deep: the deposits move to Withdrawn, in whole or in part.
LEMMA ConfirmedStep ==
    ASSUME Inv, NEW m \in monitors, m.at = "conf",
           m.spender \in deep, PaysWithdrawal(m.spender, m),
           Becomes(m, [m EXCEPT !.at = "record"]), UNCHANGED ftx,
           \/ TransitionDeposits(m.ds, "OnWithdrawn", "Withdrawn")
           \/ TransitionDepositsFails(m.ds, "OnWithdrawn", "Withdrawn"),
           lapsed' \in BOOLEAN,
           UNCHANGED <<held, made, chainvars, up, wpc, wset, wtx, bump, unstored,
                       republish, rows, ovars>>
    PROVE  Inv'
<1>. DEFINE n == [m EXCEPT !.at = "record"]
            Mons == [ds : (SUBSET Deposits) \ {{}}, tx : Txs,
                     spender : Txs \cup {NoTx}, at : {"spend", "conf", "record"}]
<1>1. m \in Mons
  BY Zenon DEF Inv, TypeOK
<1>2. /\ n \in Mons /\ n.ds = m.ds /\ n.tx = m.tx /\ n.spender = m.spender
      /\ n.at = "record"
  BY <1>1, Zenon
<1>3. monitors' \subseteq monitors \cup {n}
  BY Zenon DEF Becomes
<1>. HIDE DEF n
<1>4. /\ m.spender.kind = "withdraw" /\ m.ds \subseteq m.spender.ins
      /\ m.ds \subseteq Deposits
  <2>1. m.spender.kind = "withdraw"
    BY Zenon DEF PaysWithdrawal
  <2>q. QED BY <1>1, <2>1, SpenderSpendsAll, Zenon
<1>5. PoolTypes' /\ MovesTo(m.ds, {"Withdrawn"})
  <2>1. PoolTypes /\ "Withdrawn" \in States
    BY TypesAre, Names, Zenon DEF Inv, Types
  <2>2. ftx' \in [Deposits -> Txs \cup {NoTx}]
    BY Zenon DEF Inv, TypeOK
  <2>q. QED BY <1>4, <2>1, <2>2, TransitionMoves, Zenon
<1>6. TypeOK'
  <2>1. monitors' \subseteq Mons
    BY <1>2, <1>3, Zenon DEF Inv, TypeOK
  <2>q. QED BY <1>5, <2>1, Zenon DEF Inv, TypeOK, PoolTypes, chainvars, ovars
<1>7. Openings'
  BY Zenon DEF Inv, Openings, ovars
<1>8. References'
  BY <1>5 DEF Inv, Promises, References, Withdraws, MovesTo, chainvars
<1>9. WithdrawnIsConfirmed'
  <2>1. \A d \in m.ds : SpentBy(d, "withdraw", deep)
    BY <1>4, Zenon DEF SpentBy
  <2>q. QED BY <1>5, <2>1, Zenon
    DEF Inv, Promises, WithdrawnIsConfirmed, MovesTo, chainvars
<1>10. Watched'
  BY <1>2, <1>3, <1>4, Zenon DEF Inv, Promises, Watched, chainvars
<1>11. Request' /\ SameInputs' /\ (republish \subseteq bcast)'
  BY RequestKept, SameInputsKept, Zenon DEF Inv, Promises, chainvars
<1>q. QED BY <1>6, <1>7, <1>8, <1>9, <1>10, <1>11, Zenon DEF Inv, Promises

\* The confirmations are seen, or the subscription fails.
LEMMA ConfirmationSeenStep ==
    ASSUME Inv, NEW m \in monitors, ConfirmationSeen(m), UNCHANGED ovars
    PROVE  Inv'
<1>1. /\ UNCHANGED <<held, made, chainvars, up, wpc, wset, wtx, bump, unstored,
                     republish, rows>>
      /\ m.at = "conf"
  BY Zenon DEF ConfirmationSeen
<1>2. CASE /\ m.spender \in deep /\ PaysWithdrawal(m.spender, m)
           /\ Becomes(m, [m EXCEPT !.at = "record"])
           /\ UNCHANGED ftx
           /\ \/ /\ TransitionDeposits(m.ds, "OnWithdrawn", "Withdrawn")
                 /\ UNCHANGED lapsed
              \/ /\ TransitionDepositsFails(m.ds, "OnWithdrawn", "Withdrawn")
                 /\ lapsed' = TRUE
  <2>1. lapsed' \in BOOLEAN
    BY <1>2, Zenon DEF Inv, TypeOK
  <2>q. QED BY <1>1, <1>2, <2>1, ConfirmedStep, Zenon
<1>3. CASE GivesUp(m) /\ UNCHANGED <<statevars, ftx, active>>
  <2>1. lapsed' \in BOOLEAN /\ monitors' \subseteq monitors
    BY <1>3, Zenon DEF GivesUp
  <2>2. faults' \in 0 .. MaxFaults
    BY <1>3, PoolAssumption DEF GivesUp, Fault, Inv, TypeOK
  <2>3. MonitorTypes' /\ Watched'
    BY <1>1, <2>1, WatchedKept, Zenon DEF Inv, TypeOK, Promises, MonitorTypes, chainvars
  <2>4. WithdrawnIsConfirmed' /\ republish' \subseteq bcast /\ pool' \subseteq bcast
    BY <1>1, <1>3, ConfirmedKept, Zenon DEF Inv, TypeOK, Promises, chainvars
  <2>q. QED BY <1>1, <1>3, <2>1, <2>2, <2>3, <2>4, MonitorsStep, Zenon
    DEF chainvars, depvars
<1>q. QED BY <1>2, <1>3, Zenon DEF ConfirmationSeen

\* The withdrawal is recorded as done.
LEMMA RecordStep ==
    ASSUME Inv, NEW m \in monitors, RecordWithdrawal(m), UNCHANGED ovars
    PROVE  Inv'
<1>1. /\ UNCHANGED <<depvars, made, chainvars, up, lapsed, wpc, wset, wtx, bump,
                     unstored>>
      /\ monitors' \subseteq monitors /\ republish' \subseteq republish
      /\ m.at = "record" /\ faults' \in 0 .. MaxFaults
  BY PoolAssumption DEF RecordWithdrawal, Fault, Inv, TypeOK
<1>2. /\ rows' \in [Deposits -> {"none", "open", "done"}]
      /\ \A d \in Deposits : rows'[d] = "done" => rows[d] = "done" \/ d \in m.ds
  BY Zenon DEF RecordWithdrawal, Inv, TypeOK
<1>3. m.spender \in deep /\ m.spender.kind = "withdraw" /\ m.ds \subseteq m.spender.ins
  BY <1>1, SpenderSpendsAll, Zenon DEF Inv, Promises, Watched
<1>4. WithdrawnIsConfirmed'
  BY <1>1, <1>2, <1>3, Zenon
  DEF Inv, Promises, WithdrawnIsConfirmed, SpentBy, depvars, statevars, chainvars
<1>5. MonitorTypes' /\ Watched'
  BY <1>1, <1>2, WatchedKept, Zenon DEF Inv, TypeOK, Promises, MonitorTypes, chainvars
<1>6. republish' \subseteq bcast /\ pool' \subseteq bcast /\ lapsed' \in BOOLEAN
  BY <1>1, Zenon DEF Inv, TypeOK, Promises, chainvars
<1>q. QED BY <1>1, <1>4, <1>5, <1>6, MonitorsStep, Zenon DEF chainvars

\* The withdrawals are published again on a block.
LEMMA RepublishStep ==
    ASSUME Inv, RepublishWithdrawals, UNCHANGED ovars
    PROVE  Inv'
<1>1. /\ UNCHANGED <<depvars, made, bcast, mined, deep, up, lapsed, wvars>>
      /\ pool' \subseteq pool \cup republish /\ faults' \in 0 .. MaxFaults
  BY PoolAssumption DEF RepublishWithdrawals, Fault, Inv, TypeOK
<1>2. MonitorTypes' /\ Watched'
  BY <1>1, WatchedKept, Zenon DEF Inv, TypeOK, Promises, MonitorTypes, wvars
<1>3. WithdrawnIsConfirmed'
  BY <1>1, ConfirmedKept, Zenon DEF Inv, Promises, depvars, wvars
<1>4. republish' \subseteq bcast /\ pool' \subseteq bcast /\ lapsed' \in BOOLEAN
  BY <1>1, Zenon DEF Inv, TypeOK, Promises, wvars
<1>q. QED BY <1>1, <1>2, <1>3, <1>4, MonitorsStep, Zenon DEF wvars

\* The deposits that are recovered in one group are inputs of a broadcast
\* withdrawal.
LEMMA GroupsSound ==
    ASSUME Inv, NEW t \in Groups
    PROVE  /\ t \in bcast /\ t \in Txs /\ t.kind = "withdraw"
           /\ GroupOf(t) # {} /\ GroupOf(t) \subseteq t.ins
           /\ GroupOf(t) \subseteq Deposits
<1>1. active \subseteq Deposits
  BY Zenon DEF Inv, TypeOK
<1>2. PICK d \in active : dep[d] = "Withdrawing" /\ ftx[d] = t /\ t # NoTx
  BY Zenon DEF Groups
<1>3. t \in bcast /\ t.kind = "withdraw"
  BY <1>1, <1>2, Zenon DEF Inv, Promises, References, Withdraws
<1>4. t \in Txs
  BY <1>3, Zenon DEF Inv, TypeOK
<1>5. GroupOf(t) \subseteq Deposits /\ GroupOf(t) # {}
  BY <1>1, <1>2, Zenon DEF GroupOf
<1>6. GroupOf(t) \subseteq t.ins
  BY <1>1, <1>2, Zenon DEF GroupOf, Inv, Promises, References, Withdraws
<1>q. QED BY <1>3, <1>4, <1>5, <1>6, Zenon

\* recoverWithdrawals watches and republishes the withdrawals of the stored deposits.
LEMMA RecoverStep ==
    ASSUME Inv, RecoverWithdrawals, UNCHANGED ovars
    PROVE  Inv'
<1>. DEFINE Mons == [ds : (SUBSET Deposits) \ {{}}, tx : Txs,
                     spender : Txs \cup {NoTx}, at : {"spend", "conf", "record"}]
<1>1. /\ UNCHANGED <<depvars, made, bcast, mined, deep, up, lapsed, faults, wset, wtx,
                     bump, unstored, rows>>
      /\ wpc = "recover" /\ wpc' = "idle" /\ pool' \subseteq pool \cup Groups
      /\ republish' = Groups
      /\ monitors' = {Monitor(GroupOf(t), t) : t \in Groups}
  BY Zenon DEF RecoverWithdrawals
<1>2. Groups \subseteq bcast /\ Groups \subseteq Txs
  BY GroupsSound, Zenon
<1>3. \A m \in monitors' : /\ m \in Mons /\ m.at = "spend" /\ m.tx \in bcast
                           /\ m.tx.kind = "withdraw" /\ m.ds \subseteq m.tx.ins
  <2>. SUFFICES ASSUME NEW t \in Groups
                PROVE  LET m == Monitor(GroupOf(t), t)
                       IN  /\ m \in Mons /\ m.at = "spend" /\ m.tx \in bcast
                           /\ m.tx.kind = "withdraw" /\ m.ds \subseteq m.tx.ins
    BY <1>1, Zenon
  <2>q. QED BY GroupsSound, Zenon DEF Monitor
<1>4. TypeOK'
  <2>1. MonitorTypes'
    BY <1>1, <1>2, <1>3, Zenon DEF Inv, TypeOK, MonitorTypes
  <2>2. RequestTypes' /\ ChainTypes'
    BY <1>1, <1>2, Zenon DEF Inv, TypeOK, RequestTypes, ChainTypes, depvars
  <2>q. QED BY <1>1, <2>1, <2>2, Zenon DEF Inv, TypeOK, MonitorTypes, RequestTypes,
        ChainTypes, depvars, statevars, ovars
<1>5. Openings'
  BY Zenon DEF Inv, Openings, ovars
<1>6. References'
  BY <1>1, Zenon DEF Inv, Promises, References, Withdraws, depvars, statevars
<1>7. WithdrawnIsConfirmed'
  BY <1>1, ConfirmedKept, Zenon DEF Inv, Promises, depvars
<1>8. Request'
  BY <1>1, Zenon DEF Inv, Promises, Request
<1>9. Watched' /\ SameInputs' /\ (republish \subseteq bcast)'
  BY <1>1, <1>2, <1>3, SameInputsKept, Zenon DEF Inv, Promises, Watched
<1>q. QED BY <1>4, <1>5, <1>6, <1>7, <1>8, <1>9, Zenon DEF Inv, Promises

-----------------------------------------------------------------------------
(* Stops, restarts, and the theorems. *)

\* A stop loses the requests and the monitors.
LEMMA StopStep == ASSUME Inv, Stop PROVE Inv'
<1>1. /\ UNCHANGED <<depvars, made, chainvars, lapsed, rows, lndTxs>>
      /\ wpc' = "recover" /\ wset' = {} /\ wtx' = NoTx /\ unstored' = {}
      /\ republish' = {} /\ monitors' = {}
      /\ opc' = "recover" /\ oset' = {} /\ otx' = NoTx
  BY Zenon DEF Stop, WithdrawStops, OpenStops
<1>2. bump' \in BOOLEAN /\ up' \in BOOLEAN
  BY Zenon DEF Stop, WithdrawStops
<1>3. faults' \in 0 .. MaxFaults
  BY PoolAssumption DEF Stop, Fault, Inv, TypeOK
<1>4. TypeOK'
  BY <1>1, <1>2, <1>3, Zenon DEF Inv, TypeOK, depvars, statevars, chainvars
<1>5. Openings'
  BY <1>1, Zenon DEF Inv, Openings
<1>6. References'
  BY <1>1, Zenon DEF Inv, Promises, References, Withdraws, depvars, statevars, chainvars
<1>7. WithdrawnIsConfirmed'
  BY <1>1, ConfirmedKept, Zenon DEF Inv, Promises, depvars, chainvars
<1>8. Request' /\ Watched' /\ SameInputs' /\ (republish \subseteq bcast)'
  BY <1>1, SameInputsKept, Zenon DEF Inv, Promises, Request, Watched, chainvars
<1>q. QED BY <1>4, <1>5, <1>6, <1>7, <1>8, Zenon DEF Inv, Promises

\* A restart reads the deposits from the store.
LEMMA RestartStep == ASSUME Inv, Restart PROVE Inv'
<1>1. /\ UNCHANGED <<dbDep, dbTx, made, chainvars, faults, wvars, ovars>>
      /\ dep' = dbDep /\ ftx' = dbTx /\ active' \subseteq Deposits /\ held' = {}
  BY Zenon DEF Restart, RecoverDeposits
<1>2. up' \in BOOLEAN /\ lapsed' \in BOOLEAN
  BY Zenon DEF Restart, RecoverDeposits
<1>3. TypeOK'
  BY <1>1, <1>2, Zenon DEF Inv, TypeOK, chainvars, wvars, ovars
<1>4. Openings'
  BY <1>1, Zenon DEF Inv, Openings, ovars
<1>5. References'
  BY <1>1, Zenon DEF Inv, Promises, References, Withdraws, chainvars
<1>6. WithdrawnIsConfirmed'
  BY <1>1, Zenon DEF Inv, Promises, WithdrawnIsConfirmed, SpentBy, chainvars, wvars
<1>7. Request' /\ Watched' /\ SameInputs' /\ (republish \subseteq bcast)'
  BY <1>1, RequestKept, WatchedKept, SameInputsKept, Zenon
  DEF Inv, Promises, chainvars, wvars
<1>q. QED BY <1>3, <1>4, <1>5, <1>6, <1>7, Zenon DEF Inv, Promises

\* The daemon starts with deposits that nobody spends.
LEMMA InitInv == Init => Inv
<1>. SUFFICES ASSUME Init PROVE Inv
  OBVIOUS
<1>1. "Deposited" \in States
  BY Names, Zenon
<1>2. up \in BOOLEAN /\ lapsed \in BOOLEAN /\ bump \in BOOLEAN
  BY Zenon DEF Init, PoolInit, WithdrawInit
<1>3. 0 \in 0 .. MaxTx /\ 0 \in 0 .. MaxFaults
  BY PoolAssumption
<1>4. TypeOK
  BY <1>1, <1>2, <1>3, Zenon DEF Init, PoolInit, WithdrawInit, OpenInit, TypeOK
<1>5. Openings /\ References
  BY Zenon DEF Init, PoolInit, OpenInit, Openings, References
<1>6. Request /\ Watched /\ SameInputs /\ republish \subseteq bcast
  BY Zenon DEF Init, PoolInit, WithdrawInit, Request, Watched, SameInputs
<1>7. WithdrawnIsConfirmed
  BY Zenon DEF Init, PoolInit, WithdrawInit, WithdrawnIsConfirmed
<1>q. QED BY <1>4, <1>5, <1>6, <1>7, Zenon DEF Inv, Promises

\* Nothing changes.
LEMMA StutterInv == ASSUME Inv, UNCHANGED vars PROVE Inv'
<1>1. TypeOK'
  BY ZenonT(30) DEF Inv, TypeOK, vars, depvars, statevars, chainvars, wvars, ovars
<1>2. Openings'
  BY Zenon DEF Inv, Openings, vars, ovars
<1>3. Promises'
  BY Unmoved, OthersKeep, Zenon DEF Inv, vars, depvars, chainvars
<1>q. QED BY <1>1, <1>2, <1>3, Zenon DEF Inv

\* Every step of the managers, of the chain and of the other users keeps the
\* invariant.
LEMMA NextInv == Inv /\ [Next]_vars => Inv'
<1>. SUFFICES ASSUME Inv, [Next]_vars PROVE Inv'
  OBVIOUS
<1>1. CASE PoolStep /\ UNCHANGED <<wvars, ovars>>
  BY <1>1, ChainStep, ReconcileStep, OtherStep, Zenon DEF PoolStep
<1>2. CASE WithdrawNext /\ UNCHANGED ovars
  <2>1. CASE WithdrawStep
    BY <1>2, <2>1, HoldStep, PublishStep, HandleWithdrawalStep, AttachStep,
       StoreDepositStep, Zenon DEF WithdrawStep
  <2>2. CASE MonitorStep
    BY <1>2, <2>2, SpendSeenStep, ConfirmationSeenStep, RecordStep, Zenon
      DEF MonitorStep
  <2>q. QED BY <1>2, <2>1, <2>2, WithdrawRequestStep, RepublishStep, RecoverStep, Zenon
    DEF WithdrawNext
<1>3. CASE OpenNext /\ UNCHANGED wvars
  BY <1>3, OpenRequestStep, LockOpeningStep, PsbtFundStep, StreamFailsStep,
     ChanPendingStep, RecoverOpeningStep, LndPublishesStep, Zenon DEF OpenNext, OpenStep
<1>4. CASE Stop \/ Restart
  BY <1>4, StopStep, RestartStep, Zenon
<1>5. CASE UNCHANGED vars
  BY <1>5, StutterInv, Zenon
<1>q. QED BY <1>1, <1>2, <1>3, <1>4, <1>5, Zenon DEF Next

\* The invariant holds in every state of every behaviour.
LEMMA InvHolds == Spec => []Inv
BY InitInv, NextInv, PTL DEF Spec

\* Every variable has its type, for any number of deposits and transactions.
THEOREM TypeCorrect == Spec => []TypeOK
<1>1. Inv => TypeOK
  BY Zenon DEF Inv
<1>q. QED BY <1>1, InvHolds, PTL

\* A deposit is Withdrawn, and its withdrawal recorded as done, only when a
\* transaction that withdraws it is deep: handleWithdrawal looks at the first deposit
\* of the withdrawal only, and moves all of them.
THEOREM WithdrawnSound == Spec => []WithdrawnIsConfirmed
<1>1. Inv => WithdrawnIsConfirmed
  BY Zenon DEF Inv, Promises
<1>q. QED BY <1>1, InvHolds, PTL

\* Whenever the daemon stops, recoverWithdrawals finds for each deposit that is
\* stored as Withdrawing a broadcast transaction that spends it.
THEOREM Recoverable == Spec => []WithdrawingIsRecoverable
<1>1. Inv => WithdrawingIsRecoverable
  BY Zenon DEF Inv, Promises, References, Withdraws, WithdrawingIsRecoverable
<1>q. QED BY <1>1, InvHolds, PTL

\* Withdrawals that share a deposit have the same inputs, whatever fee bumps, failed
\* stores and restarts come between them.
THEOREM InputsShared == Spec => []SameInputs
<1>1. Inv => SameInputs
  BY Zenon DEF Inv, Promises
<1>q. QED BY <1>1, InvHolds, PTL
=============================================================================
