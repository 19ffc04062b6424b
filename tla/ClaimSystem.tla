---------------------------- MODULE ClaimSystem ----------------------------
(***************************************************************************)
(* The claim side of a provider: claim runs, the reaper and the startup    *)
(* reconciler over one receipt store and one chain, with processes that    *)
(* are killed and started again.                                           *)
(*                                                                         *)
(* The daemon (the GUI hosts it in its own process) runs the startup       *)
(* reconciler, then the reaper, and the claimers in DaemonClaimers.  The   *)
(* other claimers and reapers are CLI processes.                           *)
(***************************************************************************)
EXTENDS Settlement, Reaper, InflightReconciler

CONSTANTS
    DaemonClaimers,
    Daemon,             \* the daemon's reaper
    StartRows,          \* how the rows may be when the history starts
    MempoolBounded,     \* is a transaction gone from the pool after the grace?
    MaxDaemonCrashes,   \* bound
    MaxCliCrashes       \* bound

ASSUME SystemAssumption ==
    /\ DaemonClaimers \subseteq Claimers
    /\ StartRows \subseteq {"pending_sign", "sign_failed", "claimable"}
    /\ MempoolBounded \in BOOLEAN
    /\ MaxDaemonCrashes \in Nat /\ MaxCliCrashes \in Nat

VARIABLES daemonCrashes, cliCrashes

crashVars == <<daemonCrashes, cliCrashes>>
vars == <<db, chainVars, claimLock, run, reaper, inflight, crashVars>>

TypeOK ==
    /\ db \in [Uuids -> Row]
    /\ ChainTypeOK /\ SettlementTypeOK /\ ReaperTypeOK /\ InflightTypeOK
    /\ daemonCrashes \in Nat /\ cliCrashes \in Nat

\* Rows the signing side leaves behind.
PendingRow == [NoRow EXCEPT !.stored = TRUE]

StartRow(kind) ==
    CASE kind = "pending_sign" -> PendingRow
      [] kind = "sign_failed"  -> [PendingRow EXCEPT
                                      !.sign_attempts = 1,
                                      !.last_error_code = "SIGN_REJECTED",
                                      !.last_attempt_at = "recent"]
      [] kind = "claimable"    -> [PendingRow EXCEPT !.signed = TRUE]

\* The history starts with a daemon that has been up for a while.
Init ==
    /\ db \in [Uuids -> {StartRow(kind) : kind \in StartRows}]
    /\ ChainInit /\ SettlementInit /\ ReaperInit
    /\ inflight = Pass("done")
    /\ daemonCrashes = 0 /\ cliCrashes = 0

-----------------------------------------------------------------------------
\* The receipt poller delivers a signature (see SignPipeline).
PollerSigns(u) ==
    /\ db' = mark_signed(db, u)
    /\ UNCHANGED <<chainVars, claimLock, run, reaper, inflight, crashVars>>

\* _SETTLE_GRACE_SECONDS have passed since the last attempt on u.
AttemptAges(u) ==
    /\ db[u].last_attempt_at = "recent"
    /\ MempoolBounded => \A tx \in mempool : u \notin tx.batch
    /\ db' = [db EXCEPT ![u].last_attempt_at = "old"]
    /\ UNCHANGED <<chainVars, claimLock, run, reaper, inflight, crashVars>>

\* _REORG_LOOKBACK_SECONDS have passed since u was claimed.
ClaimAges(u) ==
    /\ db[u].claimed_at = "recent"
    /\ db' = [db EXCEPT ![u].claimed_at = "old"]
    /\ UNCHANGED <<chainVars, claimLock, run, reaper, inflight, crashVars>>

Chain ==
    /\ ChainNext
    /\ UNCHANGED <<db, claimLock, run, reaper, inflight, crashVars>>

Claim(c) ==
    /\ AcquireLock(c) \/ RunStep(c)
    /\ UNCHANGED <<reaper, inflight, crashVars>>

\* _init_receipt_submitter starts the reaper after the startup pass.
Reap(r) ==
    /\ r = Daemon => inflight.pc = "done"
    /\ ReaperStep(r)
    /\ UNCHANGED <<claimLock, run, inflight, crashVars>>

Reconcile ==
    /\ InflightStep
    /\ UNCHANGED <<claimLock, run, reaper, crashVars>>

CliCrash(c) ==
    /\ c \notin DaemonClaimers /\ run[c].pc # "idle"
    /\ cliCrashes < MaxCliCrashes
    /\ cliCrashes' = cliCrashes + 1
    /\ KillRun(c)
    /\ UNCHANGED <<db, chainVars, reaper, inflight, daemonCrashes>>

\* The daemon dies and is started again.
DaemonCrash ==
    /\ daemonCrashes < MaxDaemonCrashes
    /\ daemonCrashes' = daemonCrashes + 1
    /\ run' = [c \in Claimers |->
                  IF c \in DaemonClaimers THEN Idle ELSE run[c]]
    /\ claimLock' = IF claimLock \in DaemonClaimers THEN NULL ELSE claimLock
    /\ reaper' = [r \in Reapers |->
                     IF r = Daemon THEN NewTick ELSE reaper[r]]
    /\ inflight' = Pass("list")
    /\ UNCHANGED <<db, chainVars, cliCrashes>>

Next ==
    \/ \E u \in Uuids : PollerSigns(u) \/ AttemptAges(u) \/ ClaimAges(u)
    \/ Chain
    \/ \E c \in Claimers : Claim(c) \/ CliCrash(c)
    \/ \E r \in Reapers : Reap(r)
    \/ Reconcile
    \/ DaemonCrash

Spec == Init /\ [][Next]_vars
=============================================================================
