--------------------------- MODULE DepositSpenders ---------------------------
(***************************************************************************)
(* The withdrawal manager and the channel opening manager at work on the   *)
(* same deposits, with stops and restarts of the daemon.                   *)
(***************************************************************************)
EXTENDS Withdraw, OpenChannel

vars == <<depvars, made, chainvars, up, lapsed, faults, wvars, ovars>>

Init == PoolInit /\ WithdrawInit /\ OpenInit

Stop ==
    /\ up
    /\ Fault
    /\ up' = FALSE
    /\ WithdrawStops /\ OpenStops
    /\ UNCHANGED <<depvars, made, chainvars, lapsed>>

Restart ==
    /\ ~ up
    /\ up' = TRUE
    /\ RecoverDeposits
    /\ UNCHANGED <<dbDep, dbTx, made, chainvars, faults, wvars, ovars>>

Next ==
    \/ PoolStep /\ UNCHANGED <<wvars, ovars>>
    \/ WithdrawNext /\ UNCHANGED ovars
    \/ OpenNext /\ UNCHANGED wvars
    \/ Stop \/ Restart

Spec == Init /\ [][Next]_vars

(***************************************************************************)
(* The goroutines are scheduled; blocks arrive, and a transaction in the   *)
(* pool is mined and stays so; the daemon is restarted.                    *)
(***************************************************************************)
FairSpec ==
    /\ Spec
    /\ WF_vars((WithdrawStep \/ RecoverWithdrawals) /\ UNCHANGED ovars)
    /\ WF_vars(MonitorStep /\ UNCHANGED ovars)
    /\ SF_vars(RepublishWithdrawals /\ UNCHANGED ovars)
    /\ WF_vars((OpenStep \/ RecoverOpening) /\ UNCHANGED wvars)
    /\ WF_vars(Restart)
    /\ WF_vars((\E t \in pool : Mine(t) \/ Deepen(t)) /\ UNCHANGED <<wvars, ovars>>)

-----------------------------------------------------------------------------
\* Every variable has its type.
TypeOK ==
    /\ dep \in [Deposits -> States] /\ dbDep \in [Deposits -> States]
    /\ ftx \in [Deposits -> Txs \cup {NoTx}]
    /\ dbTx \in [Deposits -> Txs \cup {NoTx}]
    /\ active \subseteq Deposits /\ held \subseteq Deposits
    /\ made \in 0 .. MaxTx
    /\ pool \subseteq bcast /\ mined \subseteq bcast /\ deep \subseteq mined
    /\ bcast \subseteq Txs /\ lndTxs \subseteq Txs
    /\ up \in BOOLEAN /\ lapsed \in BOOLEAN /\ faults \in 0 .. MaxFaults
    /\ wpc \in {"recover", "idle", "sign", "publish", "watch", "attach", "store"}
    /\ wtx \in Txs \cup {NoTx} /\ bump \in BOOLEAN
    /\ wset \subseteq Deposits /\ unstored \subseteq wset
    /\ republish \subseteq Txs
    /\ monitors \subseteq [ds : (SUBSET Deposits) \ {{}}, tx : Txs,
                           spender : Txs \cup {NoTx},
                           at : {"spend", "conf", "record"}]
    /\ rows \in [Deposits -> {"none", "open", "done"}]
    /\ opc \in {"recover", "idle", "lock", "psbt", "finalized"}
    /\ oset \subseteq Deposits /\ otx \in Txs \cup {NoTx}

SpentBy(d, kind, T) == \E t \in T : t.kind = kind /\ d \in t.ins

\* A deposit is Withdrawn, and its withdrawal recorded as done, only when a
\* transaction that withdraws it is MinConfs deep (handleWithdrawal).
WithdrawnIsConfirmed ==
    \A d \in Deposits :
        "Withdrawn" \in {dep[d], dbDep[d]} \/ rows[d] = "done"
        => SpentBy(d, "withdraw", deep)

\* Whenever the daemon stops, a deposit that is stored as Withdrawing has a
\* stored transaction that spends it and that was broadcast, so that
\* recoverWithdrawals passes over none (the nil check there never skips).
WithdrawingIsRecoverable ==
    \A d \in Deposits :
        dbDep[d] = "Withdrawing" => dbTx[d] \in bcast /\ d \in dbTx[d].ins

\* Withdrawals that share a deposit have the same inputs: a fee bump keeps the
\* shape of the transaction, and a deposit with a published withdrawal that was
\* not stored is not selected again.
SameInputs ==
    \A t, u \in bcast :
        t.kind = "withdraw" /\ u.kind = "withdraw" /\ t.ins \cap u.ins # {}
        => t.ins = u.ins

\* A funding transaction competes with the withdrawal of d.
Outraced(d) ==
    \E t \in bcast : t.kind = "channel" /\ t.ins \cap ftx[d].ins # {}

\* The monitor of d waits for the confirmations of a version that a reorganisation
\* took back and that another version replaced.
Misled(d) ==
    \E m \in monitors :
        d \in m.ds /\ m.at = "conf" /\ Conflict(m.spender, mined)

\* A withdrawal under way completes, unless its monitor gave up on an error or
\* was misled, or a channel was funded with its inputs; after a restart it is
\* watched again.
WithdrawalCompletes ==
    \A d \in Deposits :
        dep[d] = "Withdrawing" ~>
            dep[d] = "Withdrawn" \/ lapsed \/ Outraced(d) \/ Misled(d)

\* No deposit stays in OpeningChannel, unless an error was only logged.
OpeningEnds ==
    \A d \in Deposits :
        dep[d] = "OpeningChannel" ~> dep[d] # "OpeningChannel" \/ lapsed
=============================================================================
