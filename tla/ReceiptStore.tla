---------------------------- MODULE ReceiptStore ----------------------------
(***************************************************************************)
(* The SQLite table signed_receipts (app/payment/receipt_store.py), shared *)
(* by every process of a provider: the daemon, the GUI and the CLI.        *)
(*                                                                         *)
(* The connection is in autocommit mode, so every statement is one atomic  *)
(* step.  A statement is an operator from the table before it to the table *)
(* after it: the conjuncts of its WHERE clause guard the rows it rewrites. *)
(* A query is the set of the uuids it returns.                             *)
(***************************************************************************)
EXTENDS Naturals, FiniteSets, Reasons

CONSTANTS
    Uuids,              \* receipts, numbered in created_at order
    NULL,               \* SQL NULL
    External,           \* the synthetic hash of a claim settled elsewhere
    MAX_SIGN_ATTEMPTS,
    MAX_CLAIM_ATTEMPTS

VARIABLE db             \* db[u] is the row of receipt u

\* A claimBatch transaction.  Signing is deterministic, so a transaction is
\* its own hash: the account nonce it is signed for and the batch it pays.
ClaimTx == [nonce : Nat, batch : SUBSET Uuids]

ASSUME StoreAssumption ==
    /\ Uuids \subseteq Nat
    /\ MAX_SIGN_ATTEMPTS \in Nat /\ MAX_CLAIM_ATTEMPTS \in Nat
    /\ NULL # External
    /\ NULL \notin ClaimTx /\ External \notin ClaimTx
    /\ NULL \notin ALL_CODES /\ NULL \notin Nat
    /\ NULL \notin {"recent", "old"}

\* Wall-clock columns keep only what the queries ask of them: whether the
\* claim is inside the reorg lookback, whether the attempt is past the grace.
Age == {"recent", "old"}

Row == [stored                 : BOOLEAN,
        signed                 : BOOLEAN,
        claimed_at             : Age \cup {NULL},
        claim_tx_hash          : ClaimTx \cup {External, NULL},
        sign_attempts          : Nat,
        claim_attempts         : Nat,
        last_error_code        : ALL_CODES \cup {NULL},
        last_attempt_at        : Age \cup {NULL},
        locked                 : BOOLEAN,
        transient_attempts     : Nat,
        reconcile_block_number : Nat \cup {NULL},
        claim_tx_pending       : ClaimTx \cup {NULL}]

NoRow == [stored |-> FALSE, signed |-> FALSE, claimed_at |-> NULL,
          claim_tx_hash |-> NULL, sign_attempts |-> 0, claim_attempts |-> 0,
          last_error_code |-> NULL, last_attempt_at |-> NULL,
          locked |-> FALSE, transient_attempts |-> 0,
          reconcile_block_number |-> NULL, claim_tx_pending |-> NULL]

-----------------------------------------------------------------------------
(* Signing side.                                                           *)

store_unsigned(t, u) ==
    IF t[u].stored THEN t ELSE [t EXCEPT ![u] = [NoRow EXCEPT !.stored = TRUE]]

mark_signed(t, u) ==
    IF t[u].stored /\ ~t[u].signed
    THEN [t EXCEPT ![u].signed = TRUE, ![u].transient_attempts = 0]
    ELSE t

mark_transient_attempt(t, u) ==
    IF /\ t[u].stored /\ t[u].claimed_at = NULL
       /\ ~t[u].signed /\ ~t[u].locked
    THEN [t EXCEPT ![u].transient_attempts = @ + 1,
                   ![u].last_attempt_at = "recent"]
    ELSE t

\* Mutant: the reason is stored as the API words it.
MarkSignFailedRaw(t, u, code) ==
    IF t[u].stored /\ ~t[u].signed
    THEN [t EXCEPT ![u].last_error_code = "unknown request"]
    ELSE t

mark_sign_failed(t, u, code) ==
    LET counts == counts_against_retry_budget(code)
        spent  == t[u].sign_attempts + (IF counts THEN 1 ELSE 0)
    IN  IF /\ t[u].stored /\ t[u].claimed_at = NULL
           /\ ~t[u].signed /\ ~t[u].locked
        THEN [t EXCEPT ![u].sign_attempts = spent,
                       ![u].last_error_code = code,
                       ![u].last_attempt_at = "recent",
                       ![u].locked = counts /\ spent >= MAX_SIGN_ATTEMPTS]
        ELSE t

\* The two statements of escalate_transient_budget_exhausted.
transient_budget_exhausted(t, threshold) ==
    {u \in Uuids : /\ t[u].stored /\ ~t[u].signed
                   /\ t[u].claimed_at = NULL /\ ~t[u].locked
                   /\ t[u].last_error_code = NULL
                   /\ t[u].transient_attempts >= threshold}

stamp_escalated(t, us, code) ==
    [u \in Uuids |->
        IF u \in us
        THEN [t[u] EXCEPT !.last_error_code = code,
                          !.last_attempt_at = "recent"]
        ELSE t[u]]

\* Mutant: an attempt is compared that a row never had.
UnsignedTried(t) ==
    {u \in Uuids : t[u].stored /\ ~t[u].signed /\ t[u].last_attempt_at = "old"}

\* The backoff window of a row that was never retried, or not tried lately,
\* is over; "recent" is an attempt inside its window.
unsigned_ready(t) ==
    {u \in Uuids : /\ t[u].stored /\ ~t[u].signed
                   /\ t[u].claimed_at = NULL /\ ~t[u].locked
                   /\ t[u].last_error_code = NULL
                   /\ \/ t[u].last_attempt_at # "recent"
                      \/ t[u].transient_attempts = 0}

-----------------------------------------------------------------------------
(* Claiming side: the statements.                                          *)

mark_claimed(t, us, hash) ==
    [u \in Uuids |->
        IF u \in us /\ t[u].claimed_at = NULL
        THEN [t[u] EXCEPT !.claimed_at = "recent",
                          !.claim_tx_hash = hash,
                          !.last_error_code = NULL]
        ELSE t[u]]

mark_claim_failed(t, us, code) ==
    [u \in Uuids |->
        LET counts == counts_against_retry_budget(code)
            spent  == t[u].claim_attempts + (IF counts THEN 1 ELSE 0)
        IN  IF u \in us /\ t[u].claimed_at = NULL /\ ~t[u].locked
            THEN [t[u] EXCEPT !.claim_attempts = spent,
                              !.last_error_code = code,
                              !.last_attempt_at = "recent",
                              !.locked = counts /\ spent >= MAX_CLAIM_ATTEMPTS]
            ELSE t[u]]

clear_error(t, u) ==
    IF ~t[u].locked THEN [t EXCEPT ![u].last_error_code = NULL] ELSE t

lock(t, u) ==
    IF t[u].claimed_at = NULL /\ ~t[u].locked
    THEN [t EXCEPT ![u].locked = TRUE, ![u].last_attempt_at = "recent"]
    ELSE t

revert_claimed(t, u) ==
    IF t[u].claimed_at # NULL /\ ~t[u].locked
    THEN [t EXCEPT ![u].claimed_at = NULL, ![u].claim_tx_hash = NULL,
                   ![u].last_error_code = NULL]
    ELSE t

\* Mutant: the mark drops the breadcrumb.
MarkExternalWithoutBreadcrumb(t, us, block) ==
    [u \in Uuids |->
        IF u \in us /\ t[u].claimed_at = NULL
        THEN [t[u] EXCEPT !.claimed_at = "recent",
                          !.claim_tx_hash = External,
                          !.reconcile_block_number = block,
                          !.claim_tx_pending = NULL]
        ELSE t[u]]

mark_external_with_block(t, us, block) ==
    [u \in Uuids |->
        IF u \in us /\ t[u].claimed_at = NULL
        THEN [t[u] EXCEPT !.claimed_at = "recent",
                          !.claim_tx_hash = External,
                          !.reconcile_block_number = block]
        ELSE t[u]]

\* Mutant: the block of the mark stays.
RevertMarkKeepingBlock(t, u) ==
    IF t[u].claim_tx_hash = External /\ ~t[u].locked
    THEN [t EXCEPT ![u].claimed_at = NULL, ![u].claim_tx_hash = NULL,
                   ![u].last_error_code = "CLAIM_TX_TIMEOUT",
                   ![u].last_attempt_at = "recent"]
    ELSE t

revert_external_mark(t, u) ==
    IF t[u].claim_tx_hash = External /\ ~t[u].locked
    THEN [t EXCEPT ![u].claimed_at = NULL, ![u].claim_tx_hash = NULL,
                   ![u].reconcile_block_number = NULL,
                   ![u].last_error_code = "CLAIM_TX_TIMEOUT",
                   ![u].last_attempt_at = "recent"]
    ELSE t

\* Mutant: a placeholder instead of the hash.
SetPendingPlaceholder(t, us, tx) ==
    [u \in Uuids |->
        IF u \in us THEN [t[u] EXCEPT !.claim_tx_pending = External] ELSE t[u]]

\* Mutant: an earlier attempt's hash is kept.
SetPendingOnce(t, us, tx) ==
    [u \in Uuids |->
        IF u \in us /\ t[u].claimed_at = NULL /\ ~t[u].locked
           /\ t[u].claim_tx_pending = NULL
        THEN [t[u] EXCEPT !.claim_tx_pending = tx]
        ELSE t[u]]

set_claim_tx_pending(t, us, tx) ==
    [u \in Uuids |->
        IF u \in us /\ t[u].claimed_at = NULL /\ ~t[u].locked
        THEN [t[u] EXCEPT !.claim_tx_pending = tx]
        ELSE t[u]]

clear_claim_tx_pending(t, u) == [t EXCEPT ![u].claim_tx_pending = NULL]

reset_claim_attempts(t, u) ==
    IF t[u].claimed_at = NULL /\ ~t[u].locked
    THEN [t EXCEPT ![u].claim_attempts = 0]
    ELSE t

-----------------------------------------------------------------------------
(* Claiming side: the queries.                                             *)

\* ORDER BY created_at ASC LIMIT n.
Oldest(S, n) == {u \in S : Cardinality({v \in S : v < u}) < n}

\* Mutant: failed receipts are picked up whether asked for or not.
UnclaimedWithErrors(t, include_retryable) ==
    {u \in Uuids : t[u].claimed_at = NULL /\ t[u].signed /\ ~t[u].locked}

unclaimed(t, include_retryable) ==
    {u \in Uuids : /\ t[u].claimed_at = NULL /\ t[u].signed /\ ~t[u].locked
                   /\ \/ t[u].last_error_code = NULL
                      \/ /\ include_retryable
                         /\ t[u].last_error_code # "CLAIM_TX_TIMEOUT"}

\* StoredReceipt.view of one row.
view(r) ==
    CASE r.claimed_at # NULL -> "claimed"
      [] r.claimed_at = NULL /\ r.locked -> "failed_terminal"
      [] r.claimed_at = NULL /\ ~r.locked /\ r.signed ->
            IF r.last_error_code \in CLAIM_CODES
            THEN "failed_retryable" ELSE "claimable"
      [] r.claimed_at = NULL /\ ~r.locked /\ ~r.signed ->
            IF r.last_error_code \in SIGN_CODES
            THEN "failed_retryable" ELSE "pending_sign"

\* Mutant: the lookback is compared the wrong way round.
ListLongClaimed(t) ==
    {u \in Uuids : t[u].claimed_at = "old" /\ t[u].claim_tx_hash # External}

list_recently_claimed(t) ==
    {u \in Uuids : t[u].claimed_at = "recent" /\ t[u].claim_tx_hash # External}

\* Mutants: no grace period; only unreachable RPCs are looked at.
ListTimedOutAtOnce(t) ==
    {u \in Uuids : /\ t[u].claimed_at = NULL /\ ~t[u].locked
                   /\ t[u].claim_tx_pending # NULL
                   /\ t[u].last_error_code \in
                         {"CLAIM_TX_TIMEOUT", "CLAIM_RPC_UNREACHABLE"}}

ListUnreachable(t) ==
    {u \in Uuids : /\ t[u].claimed_at = NULL /\ ~t[u].locked
                   /\ t[u].claim_tx_pending # NULL
                   /\ t[u].last_error_code = "CLAIM_RPC_UNREACHABLE"
                   /\ t[u].last_attempt_at = "old"}

list_timed_out_claims(t) ==
    {u \in Uuids : /\ t[u].claimed_at = NULL /\ ~t[u].locked
                   /\ t[u].claim_tx_pending # NULL
                   /\ t[u].last_error_code \in
                         {"CLAIM_TX_TIMEOUT", "CLAIM_RPC_UNREACHABLE"}
                   /\ t[u].last_attempt_at = "old"}

list_pending_external_unfinalized(t, current_block, finality_blocks) ==
    {u \in Uuids : /\ t[u].claim_tx_hash = External
                   /\ t[u].claimed_at # NULL
                   /\ t[u].reconcile_block_number # NULL
                   /\ t[u].reconcile_block_number + finality_blocks
                         >= current_block + 1}

list_inflight(t) ==
    {u \in Uuids : /\ t[u].claim_tx_pending # NULL
                   /\ t[u].claimed_at = NULL /\ ~t[u].locked}
=============================================================================
