-------------------------- MODULE ClaimProperties --------------------------
(***************************************************************************)
(* What the claim side promises.  The invariants that hold whatever the    *)
(* chain does come first, then those that need the assumptions each        *)
(* comment names (the .cfg files set them), then liveness.                 *)
(***************************************************************************)
EXTENDS ClaimSystem

-----------------------------------------------------------------------------
(* Claim runs exclude each other.                                          *)

\* Whoever is in a claim run holds claim.lock, so no two processes run
\* claim_all at once, through kills and restarts (claim_lock.py,
\* acquire_claim_lock).
ClaimMutex == \A c \in Claimers : ~At(c, "idle") => claimLock = c

\* What the contract has accepted and not paid, or paid and taken back.
Disputed == retracted \cup UNION {m.skipped : m \in mined}

\* What the contract has ever paid or accepted.
Accepted == NonceUsed \cup Disputed

\* The columns of a claim agree: a row has a claim date exactly when it has
\* the hash of the claim, whichever of the seven writers of these columns
\* came last (mark_claimed, revert_claimed, mark_external_with_block,
\* revert_external_mark, each guarded by one column and writing both).
RowConsistent ==
    \A u \in Uuids : db[u].claimed_at = NULL <=> db[u].claim_tx_hash = NULL

\* Only a claim settled elsewhere carries a reconcile block, so the finality
\* pass never looks at a row that a run claimed (mark_external_with_block,
\* revert_external_mark, revert_claimed, which leaves the block alone).
\* Needs a single reaper.
BlockIsExternal ==
    \A u \in Uuids :
        db[u].reconcile_block_number # NULL => db[u].claim_tx_hash = External

\* A well-signed receipt that the gateway never rejected is charged one claim
\* attempt for each mined and reverted transaction that held it, at most, and
\* is locked only after MAX_CLAIM_ATTEMPTS of them.  Timeouts, unreachable
\* RPCs and an empty gas wallet spend none of the budget, however they
\* interleave with crashes (mark_claim_failed,
\* counts_against_retry_budget).  Needs MaxReorgs = 0.
RevertedWith(u) == {m \in mined : ~m.ok /\ u \in m.tx.batch}

BudgetIsEarned ==
    \A u \in Uuids \ Corrupt :
        db[u].sign_attempts = 0 =>
            /\ db[u].claim_attempts <= Cardinality(RevertedWith(u))
            /\ db[u].locked => db[u].claim_attempts >= MAX_CLAIM_ATTEMPTS

\* A row the store calls claimed was paid by the contract, through any mix of
\* claim runs, reaper passes, startup passes and crashes.  The two exceptions
\* are those the reaper is there for: the transaction whose hash the row
\* carries succeeded and left this receipt out (settlement.py: "silently
\* skipped on-chain"), or a block with its payment was taken back.
ClaimedIsSettled ==
    \A u \in Uuids : db[u].claimed_at # NULL =>
        \/ u \in NonceUsed \cup retracted
        \/ \E m \in mined : m.tx = db[u].claim_tx_hash /\ u \in m.skipped

\* A row parked as CLAIM_TX_TIMEOUT is out of every claim run's reach, so it
\* keeps the breadcrumb the reaper finds it by (unclaimed,
\* list_timed_out_claims, clear_claim_tx_pending).
TimeoutIsTracked ==
    \A u \in Uuids :
        /\ db[u].claimed_at = NULL /\ ~db[u].locked
        /\ db[u].last_error_code = "CLAIM_TX_TIMEOUT"
        => db[u].claim_tx_pending # NULL

\* What the operator sees of the store and the chain is a history that
\* ClaimLifecycle allows (StoredReceipt.view over every write of claim runs,
\* reaper and startup pass).  With single-receipt retries it needs a payer
\* whose signatures the run can check.
Promise == INSTANCE ClaimLifecycle
              WITH status   <- [u \in Uuids |-> view(db[u])],
                   settled  <- Accepted,
                   disputed <- Disputed

ImplementsLifecycle == Promise!Lifecycle

\* A CLI run that is killed with a transaction that may be on its way leaves
\* the hash of that transaction in every row of its batch, and the rows
\* unsettled: recovery starts from that breadcrumb (_submit_batch: "persist
\* the breadcrumb BEFORE broadcast so a crash here is recoverable").
KillLeavesBreadcrumb ==
    [][\A c \in Claimers :
         CliCrash(c) /\ run[c].pc \in {"broadcast", "wait", "record"} =>
            \A u \in run[c].batch :
               /\ db'[u].claim_tx_pending = run[c].tx
               /\ db'[u].claimed_at = NULL /\ ~db'[u].locked]_vars

-----------------------------------------------------------------------------
(* Default runs that are not killed, with a bounded mempool.               *)

\* As long as a transaction may still be mined, each receipt in it has the
\* breadcrumb that recovery starts from, or is settled or given up
\* (_submit_batch: the order of SetPending, broadcast and ClearPending).
BreadcrumbCoversMempool ==
    \A tx \in mempool : \A u \in tx.batch :
        \/ db[u].claim_tx_pending # NULL
        \/ db[u].claimed_at # NULL
        \/ db[u].locked

\* A receipt is never submitted again while another transaction that holds
\* it may still be mined (ReceiptStore.unclaimed: "would double-submit").
NoResubmission ==
    \A c \in Claimers : At(c, "broadcast") =>
        \A tx \in mempool :
            tx # run[c].tx => tx.batch \cap run[c].batch = {}

\* No transaction pays gas for a receipt that another transaction of ours
\* has already settled: a mined batch pays what it holds, but for receipts
\* that somebody else settled.  Needs a contract that does not skip.
NoWastedGas ==
    \A m \in mined : m.ok => m.tx.batch \ m.paid \subseteq outOfBand

\* A run that ends for want of batches has seen every receipt the store still
\* offers it (claim_all: "one bad receipt can't block unrelated ones").
RunDrainsQueue ==
    [][\A c \in Claimers :
         (NoMoreBatches(c) /\ run[c].only = NULL) =>
            unclaimed(db, run[c].mode = "retryable") \subseteq run[c].seen]_vars

-----------------------------------------------------------------------------
(* Liveness.  A thread that holds the lock is scheduled; the reaper's task *)
(* ticks for ever and, now and then, the RPC endpoint answers everything a *)
(* pass asks; the grace period of an attempt passes; a transaction does    *)
(* not stay in the mempool for ever.                                       *)

LiveSpec ==
    /\ Spec
    /\ \A c \in Claimers : WF_vars(Claim(c) /\ ~At(c, "idle"))
    /\ \A r \in Reapers :
          /\ WF_vars(Reap(r))
          /\ SF_vars(CheckTimeoutsAnswered(r)
                       /\ UNCHANGED <<claimLock, run, inflight, crashVars>>)
          /\ SF_vars(CheckReorgsAnswered(r)
                       /\ UNCHANGED <<claimLock, run, inflight, crashVars>>)
    /\ \A u \in Uuids : WF_vars(AttemptAges(u))
    /\ WF_vars(Reconcile)
    /\ WF_vars(Chain /\ mempool' \subseteq mempool /\ mempool' # mempool)

\* Every run lets go of the lock: no batch is looked at twice in one run, so
\* the loop of claim_all ends.
RunTerminates == \A c \in Claimers : ~At(c, "idle") ~> claimLock # c

\* A timed-out claim that has its breadcrumb is resolved by the reaper: the
\* row is claimed, or goes back into the queue.
TimedOut(u) ==
    /\ db[u].last_error_code = "CLAIM_TX_TIMEOUT" /\ db[u].claimed_at = NULL
    /\ db[u].claim_tx_pending # NULL /\ ~db[u].locked

TimeoutResolved == \A u \in Uuids : TimedOut(u) ~> ~TimedOut(u)

\* A claim that turns out unfounded (the contract skipped the receipt, or a
\* reorganisation took the payment back) does not stay on the books: inside
\* the lookback the reaper takes it back.
Unfounded(u) ==
    db[u].claimed_at = "recent" /\ db[u].claim_tx_hash # External
       /\ u \notin NonceUsed

UnfoundedClaimReturns == \A u \in Uuids : Unfounded(u) ~> ~Unfounded(u)
=============================================================================
