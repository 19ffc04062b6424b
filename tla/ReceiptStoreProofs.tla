------------------------- MODULE ReceiptStoreProofs -------------------------
(***************************************************************************)
(* What every statement of ReceiptStore preserves, whatever rows it is     *)
(* applied to.                                                             *)
(***************************************************************************)
EXTENDS ReceiptStore, TLAPS

Table == [Uuids -> Row]

\* The claim side's statements keep the table well typed.
LEMMA MarkClaimedType ==
    ASSUME NEW t \in Table, NEW us, NEW hash \in ClaimTx \cup {External}
    PROVE  mark_claimed(t, us, hash) \in Table
BY DEF Table, Row, mark_claimed, Age

LEMMA MarkClaimFailedType ==
    ASSUME NEW t \in Table, NEW us, NEW code \in ALL_CODES
    PROVE  mark_claim_failed(t, us, code) \in Table
<1> DEFINE counts == counts_against_retry_budget(code)
           spent(u) == t[u].claim_attempts + (IF counts THEN 1 ELSE 0)
           last(u)  == counts /\ spent(u) >= MAX_CLAIM_ATTEMPTS
           failed(u) == [t[u] EXCEPT !.claim_attempts = spent(u),
                                     !.last_error_code = code,
                                     !.last_attempt_at = "recent",
                                     !.locked = last(u)]
<1>1. ASSUME NEW u \in Uuids
      PROVE  spent(u) \in Nat /\ last(u) \in BOOLEAN
  BY DEF Table, Row
<1>2. ASSUME NEW u \in Uuids
      PROVE  failed(u) \in Row
  <2> HIDE DEF counts, spent, last
  <2> QED BY <1>1 DEF Table, Row, Age
<1>3. mark_claim_failed(t, us, code) =
         [u \in Uuids |-> IF u \in us /\ t[u].claimed_at = NULL /\ ~t[u].locked
                          THEN failed(u) ELSE t[u]]
  BY DEF mark_claim_failed
<1> HIDE DEF failed
<1> QED BY <1>2, <1>3 DEF Table

LEMMA ClearErrorType ==
    ASSUME NEW t \in Table, NEW u \in Uuids
    PROVE  clear_error(t, u) \in Table
BY DEF Table, Row, clear_error

LEMMA LockType ==
    ASSUME NEW t \in Table, NEW u \in Uuids
    PROVE  lock(t, u) \in Table
<1> DEFINE row == [t[u] EXCEPT !.locked = TRUE,
                          !.last_attempt_at = "recent"]
<1>1. row \in Row
  BY DEF Table, Row, Age
<1>2. [t EXCEPT ![u].locked = TRUE,
                ![u].last_attempt_at = "recent"] = [t EXCEPT ![u] = row]
  BY DEF Table
<1> HIDE DEF row
<1> QED BY <1>1, <1>2 DEF Table, lock

LEMMA RevertClaimedType ==
    ASSUME NEW t \in Table, NEW u \in Uuids
    PROVE  revert_claimed(t, u) \in Table
<1> DEFINE row == [t[u] EXCEPT !.claimed_at = NULL,
                          !.claim_tx_hash = NULL,
                          !.last_error_code = NULL]
<1>1. row \in Row
  BY DEF Table, Row
<1>2. [t EXCEPT ![u].claimed_at = NULL,
                ![u].claim_tx_hash = NULL,
                ![u].last_error_code = NULL] = [t EXCEPT ![u] = row]
  BY DEF Table
<1> HIDE DEF row
<1> QED BY <1>1, <1>2 DEF Table, revert_claimed

LEMMA MarkExternalType ==
    ASSUME NEW t \in Table, NEW us, NEW block \in Nat
    PROVE  mark_external_with_block(t, us, block) \in Table
BY DEF Table, Row, mark_external_with_block, Age

LEMMA RevertMarkType ==
    ASSUME NEW t \in Table, NEW u \in Uuids
    PROVE  revert_external_mark(t, u) \in Table
<1> DEFINE row == [t[u] EXCEPT !.claimed_at = NULL,
                          !.claim_tx_hash = NULL,
                          !.reconcile_block_number = NULL,
                          !.last_error_code = "CLAIM_TX_TIMEOUT",
                          !.last_attempt_at = "recent"]
<1>1. row \in Row
  BY DEF Table, Row, ALL_CODES, CLAIM_CODES, Age
<1>2. [t EXCEPT ![u].claimed_at = NULL,
                ![u].claim_tx_hash = NULL,
                ![u].reconcile_block_number = NULL,
                ![u].last_error_code = "CLAIM_TX_TIMEOUT",
                ![u].last_attempt_at = "recent"] = [t EXCEPT ![u] = row]
  BY DEF Table
<1> HIDE DEF row
<1> QED BY <1>1, <1>2 DEF Table, revert_external_mark

LEMMA SetPendingType ==
    ASSUME NEW t \in Table, NEW us, NEW tx \in ClaimTx
    PROVE  set_claim_tx_pending(t, us, tx) \in Table
BY DEF Table, Row, set_claim_tx_pending

LEMMA ClearPendingType ==
    ASSUME NEW t \in Table, NEW u \in Uuids
    PROVE  clear_claim_tx_pending(t, u) \in Table
BY DEF Table, Row, clear_claim_tx_pending

LEMMA ResetAttemptsType ==
    ASSUME NEW t \in Table, NEW u \in Uuids
    PROVE  reset_claim_attempts(t, u) \in Table
BY DEF Table, Row, reset_claim_attempts

LEMMA MarkSignedType ==
    ASSUME NEW t \in Table, NEW u \in Uuids
    PROVE  mark_signed(t, u) \in Table
<1> DEFINE row == [t[u] EXCEPT !.signed = TRUE,
                          !.transient_attempts = 0]
<1>1. row \in Row
  BY DEF Table, Row
<1>2. [t EXCEPT ![u].signed = TRUE,
                ![u].transient_attempts = 0] = [t EXCEPT ![u] = row]
  BY DEF Table
<1> HIDE DEF row
<1> QED BY <1>1, <1>2 DEF Table, mark_signed

-----------------------------------------------------------------------------
(* What the statements do to the columns of a claim.                       *)

\* s agrees with t on which rows are claimed, and by which transactions.
KeepsClaim(t, s) ==
    \A u \in Uuids :
        /\ s[u].claimed_at = NULL <=> t[u].claimed_at = NULL
        /\ s[u].claim_tx_hash = t[u].claim_tx_hash

LEMMA MarkClaimFailedKeeps ==
    ASSUME NEW t \in Table, NEW us, NEW code
    PROVE  KeepsClaim(t, mark_claim_failed(t, us, code))
<1> DEFINE counts == counts_against_retry_budget(code)
           spent(u) == t[u].claim_attempts + (IF counts THEN 1 ELSE 0)
           last(u)  == counts /\ spent(u) >= MAX_CLAIM_ATTEMPTS
           failed(u) == [t[u] EXCEPT !.claim_attempts = spent(u),
                                     !.last_error_code = code,
                                     !.last_attempt_at = "recent",
                                     !.locked = last(u)]
<1>1. ASSUME NEW u \in Uuids
      PROVE  /\ failed(u).claimed_at = t[u].claimed_at
             /\ failed(u).claim_tx_hash = t[u].claim_tx_hash
  <2> HIDE DEF spent, last
  <2> QED BY DEF Table, Row
<1>2. mark_claim_failed(t, us, code) =
         [u \in Uuids |-> IF u \in us /\ t[u].claimed_at = NULL /\ ~t[u].locked
                          THEN failed(u) ELSE t[u]]
  BY DEF mark_claim_failed
<1> HIDE DEF failed
<1> QED BY <1>1, <1>2 DEF KeepsClaim

\* A claim statement writes both columns of a row that is not claimed.
LEMMA MarkClaimedColumns ==
    ASSUME NEW t \in Table, NEW us, NEW hash, NEW u \in Uuids
    PROVE  LET row == mark_claimed(t, us, hash)[u] IN
           IF u \in us /\ t[u].claimed_at = NULL
           THEN row.claimed_at = "recent" /\ row.claim_tx_hash = hash
           ELSE row = t[u]
BY DEF mark_claimed, Table, Row

LEMMA MarkExternalColumns ==
    ASSUME NEW t \in Table, NEW us, NEW block, NEW u \in Uuids
    PROVE  LET row == mark_external_with_block(t, us, block)[u] IN
           IF u \in us /\ t[u].claimed_at = NULL
           THEN row.claimed_at = "recent" /\ row.claim_tx_hash = External
           ELSE row = t[u]
BY DEF mark_external_with_block, Table, Row

\* Taking a claim back clears both, in the one row that is named.
LEMMA RevertColumns ==
    ASSUME NEW t \in Table, NEW v \in Uuids, NEW u \in Uuids,
           NEW s \in {revert_claimed(t, v), revert_external_mark(t, v)}
    PROVE  \/ s[u] = t[u]
           \/ u = v /\ s[u].claimed_at = NULL /\ s[u].claim_tx_hash = NULL
BY DEF revert_claimed, revert_external_mark, Table, Row
-----------------------------------------------------------------------------
(* What the statements do to each column, for the proofs that follow a row *)
(* from one statement to the next.  The columns are taken in groups.       *)

SameClaim(r, s) ==
    r.claimed_at = s.claimed_at /\ r.claim_tx_hash = s.claim_tx_hash
SameFlight(r, s) ==
    /\ r.claim_tx_pending = s.claim_tx_pending
    /\ r.reconcile_block_number = s.reconcile_block_number
SameSigning(r, s) ==
    /\ r.stored = s.stored /\ r.signed = s.signed
    /\ r.sign_attempts = s.sign_attempts
SameBudget(r, s) ==
    r.claim_attempts = s.claim_attempts /\ r.locked = s.locked

LEMMA MarkClaimedRow ==
    ASSUME NEW t \in Table, NEW us, NEW hash, NEW u \in Uuids
    PROVE  LET row == mark_claimed(t, us, hash)[u] IN
           IF u \in us /\ t[u].claimed_at = NULL
           THEN /\ row.claimed_at = "recent" /\ row.claim_tx_hash = hash
                /\ row.last_error_code = NULL
                /\ row.last_attempt_at = t[u].last_attempt_at
                /\ SameFlight(row, t[u]) /\ SameSigning(row, t[u])
                /\ SameBudget(row, t[u])
           ELSE row = t[u]
BY DEF mark_claimed, Table, Row, SameFlight, SameSigning, SameBudget

LEMMA MarkExternalRow ==
    ASSUME NEW t \in Table, NEW us, NEW block, NEW u \in Uuids
    PROVE  LET row == mark_external_with_block(t, us, block)[u] IN
           IF u \in us /\ t[u].claimed_at = NULL
           THEN /\ row.claimed_at = "recent" /\ row.claim_tx_hash = External
                /\ row.reconcile_block_number = block
                /\ row.claim_tx_pending = t[u].claim_tx_pending
                /\ row.last_error_code = t[u].last_error_code
                /\ row.last_attempt_at = t[u].last_attempt_at
                /\ SameSigning(row, t[u]) /\ SameBudget(row, t[u])
           ELSE row = t[u]
BY DEF mark_external_with_block, Table, Row, SameSigning, SameBudget

LEMMA MarkClaimFailedRow ==
    ASSUME NEW t \in Table, NEW us, NEW code, NEW u \in Uuids
    PROVE  LET row    == mark_claim_failed(t, us, code)[u]
               counts == counts_against_retry_budget(code)
               spent  == t[u].claim_attempts + (IF counts THEN 1 ELSE 0)
           IN  IF u \in us /\ t[u].claimed_at = NULL /\ ~t[u].locked
               THEN /\ row.last_error_code = code
                    /\ row.last_attempt_at = "recent"
                    /\ row.claim_attempts = spent
                    /\ row.locked = (counts /\ spent >= MAX_CLAIM_ATTEMPTS)
                    /\ SameClaim(row, t[u]) /\ SameFlight(row, t[u])
                    /\ SameSigning(row, t[u])
               ELSE row = t[u]
<1> DEFINE counts == counts_against_retry_budget(code)
           spent  == t[u].claim_attempts + (IF counts THEN 1 ELSE 0)
           last   == counts /\ spent >= MAX_CLAIM_ATTEMPTS
           failed == [t[u] EXCEPT !.claim_attempts = spent,
                                  !.last_error_code = code,
                                  !.last_attempt_at = "recent",
                                  !.locked = last]
<1>1. mark_claim_failed(t, us, code)[u] =
         IF u \in us /\ t[u].claimed_at = NULL /\ ~t[u].locked
         THEN failed ELSE t[u]
  BY DEF mark_claim_failed
<1>2. /\ failed.last_error_code = code /\ failed.last_attempt_at = "recent"
      /\ failed.claim_attempts = spent /\ failed.locked = last
      /\ SameClaim(failed, t[u]) /\ SameFlight(failed, t[u])
      /\ SameSigning(failed, t[u])
  <2> HIDE DEF spent, last
  <2> QED BY DEF Table, Row, SameClaim, SameFlight, SameSigning
<1> HIDE DEF failed
<1> QED BY <1>1, <1>2

\* A failure that is not the receipt's own spends nothing and locks nothing.
LEMMA TransientFailedRow ==
    ASSUME NEW t \in Table, NEW us, NEW code \in TRANSIENT_CODES, NEW u \in Uuids
    PROVE  LET row == mark_claim_failed(t, us, code)[u] IN
           IF u \in us /\ t[u].claimed_at = NULL /\ ~t[u].locked
           THEN /\ row.last_error_code = code /\ ~row.locked
                /\ row.claim_attempts = t[u].claim_attempts
                /\ row.sign_attempts = t[u].sign_attempts
           ELSE row = t[u]
<1> DEFINE failed == [t[u] EXCEPT !.claim_attempts = t[u].claim_attempts,
                                  !.last_error_code = code,
                                  !.last_attempt_at = "recent",
                                  !.locked = FALSE]
<1>1. ~counts_against_retry_budget(code)
  BY DEF counts_against_retry_budget
<1>2. t[u].claim_attempts + 0 = t[u].claim_attempts
  BY DEF Table, Row
<1>3. mark_claim_failed(t, us, code)[u] =
         IF u \in us /\ t[u].claimed_at = NULL /\ ~t[u].locked
         THEN failed ELSE t[u]
  BY <1>1, <1>2 DEF mark_claim_failed
<1>4. /\ failed.last_error_code = code /\ ~failed.locked
      /\ failed.claim_attempts = t[u].claim_attempts
      /\ failed.sign_attempts = t[u].sign_attempts
  BY DEF Table, Row
<1> HIDE DEF failed
<1> QED BY <1>3, <1>4

\* A revert is charged, and locks the receipt when it was the last attempt.
LEMMA RevertedRow ==
    ASSUME NEW t \in Table, NEW us, NEW u \in us \cap Uuids,
           t[u].claimed_at = NULL, ~t[u].locked
    PROVE  LET row == mark_claim_failed(t, us, "CLAIM_REVERTED")[u] IN
           /\ row.last_error_code = "CLAIM_REVERTED"
           /\ row.claim_attempts = t[u].claim_attempts + 1
           /\ row.locked <=> t[u].claim_attempts + 1 >= MAX_CLAIM_ATTEMPTS
<1> DEFINE counts == counts_against_retry_budget("CLAIM_REVERTED")
           spent  == t[u].claim_attempts + (IF counts THEN 1 ELSE 0)
           last   == counts /\ spent >= MAX_CLAIM_ATTEMPTS
<1>1. counts
  BY DEF counts_against_retry_budget, TRANSIENT_CODES
<1>2. spent = t[u].claim_attempts + 1 /\ (last <=> spent >= MAX_CLAIM_ATTEMPTS)
  BY <1>1
<1>3. LET row == mark_claim_failed(t, us, "CLAIM_REVERTED")[u] IN
      /\ row.last_error_code = "CLAIM_REVERTED"
      /\ row.claim_attempts = spent /\ row.locked = last
  BY MarkClaimFailedRow
<1> HIDE DEF spent, last
<1> QED BY <1>2, <1>3

LEMMA ClearErrorRow ==
    ASSUME NEW t \in Table, NEW v \in Uuids, NEW u \in Uuids
    PROVE  LET row == clear_error(t, v)[u] IN
           IF u = v /\ ~t[u].locked
           THEN /\ row.last_error_code = NULL
                /\ row.last_attempt_at = t[u].last_attempt_at
                /\ SameClaim(row, t[u]) /\ SameFlight(row, t[u])
                /\ SameSigning(row, t[u]) /\ SameBudget(row, t[u])
           ELSE row = t[u]
BY DEF clear_error, Table, Row, SameClaim, SameFlight, SameSigning, SameBudget

LEMMA LockRow ==
    ASSUME NEW t \in Table, NEW v \in Uuids, NEW u \in Uuids
    PROVE  LET row == lock(t, v)[u] IN
           IF u = v /\ t[u].claimed_at = NULL /\ ~t[u].locked
           THEN /\ row.locked /\ row.claim_attempts = t[u].claim_attempts
                /\ row.last_error_code = t[u].last_error_code
                /\ SameClaim(row, t[u]) /\ SameFlight(row, t[u])
                /\ SameSigning(row, t[u])
           ELSE row = t[u]
BY DEF lock, Table, Row, SameClaim, SameFlight, SameSigning

LEMMA RevertClaimedRow ==
    ASSUME NEW t \in Table, NEW v \in Uuids, NEW u \in Uuids
    PROVE  LET row == revert_claimed(t, v)[u] IN
           IF u = v /\ t[u].claimed_at # NULL /\ ~t[u].locked
           THEN /\ row.claimed_at = NULL /\ row.claim_tx_hash = NULL
                /\ row.last_error_code = NULL
                /\ row.last_attempt_at = t[u].last_attempt_at
                /\ SameFlight(row, t[u]) /\ SameSigning(row, t[u])
                /\ SameBudget(row, t[u])
           ELSE row = t[u]
BY DEF revert_claimed, Table, Row, SameFlight, SameSigning, SameBudget

LEMMA RevertMarkRow ==
    ASSUME NEW t \in Table, NEW v \in Uuids, NEW u \in Uuids
    PROVE  LET row == revert_external_mark(t, v)[u] IN
           IF u = v /\ t[u].claim_tx_hash = External /\ ~t[u].locked
           THEN /\ row.claimed_at = NULL /\ row.claim_tx_hash = NULL
                /\ row.reconcile_block_number = NULL
                /\ row.claim_tx_pending = t[u].claim_tx_pending
                /\ row.last_error_code = "CLAIM_TX_TIMEOUT"
                /\ SameSigning(row, t[u]) /\ SameBudget(row, t[u])
           ELSE row = t[u]
BY DEF revert_external_mark, Table, Row, SameSigning, SameBudget

LEMMA SetPendingRow ==
    ASSUME NEW t \in Table, NEW us, NEW tx, NEW u \in Uuids
    PROVE  LET row == set_claim_tx_pending(t, us, tx)[u] IN
           IF u \in us /\ t[u].claimed_at = NULL /\ ~t[u].locked
           THEN /\ row.claim_tx_pending = tx
                /\ row.reconcile_block_number = t[u].reconcile_block_number
                /\ row.last_error_code = t[u].last_error_code
                /\ row.last_attempt_at = t[u].last_attempt_at
                /\ SameClaim(row, t[u]) /\ SameSigning(row, t[u])
                /\ SameBudget(row, t[u])
           ELSE row = t[u]
BY DEF set_claim_tx_pending, Table, Row, SameClaim, SameSigning, SameBudget

LEMMA ClearPendingRow ==
    ASSUME NEW t \in Table, NEW v \in Uuids, NEW u \in Uuids
    PROVE  LET row == clear_claim_tx_pending(t, v)[u] IN
           IF u = v
           THEN /\ row.claim_tx_pending = NULL
                /\ row.reconcile_block_number = t[u].reconcile_block_number
                /\ row.last_error_code = t[u].last_error_code
                /\ row.last_attempt_at = t[u].last_attempt_at
                /\ SameClaim(row, t[u]) /\ SameSigning(row, t[u])
                /\ SameBudget(row, t[u])
           ELSE row = t[u]
BY DEF clear_claim_tx_pending, Table, Row, SameClaim, SameSigning, SameBudget

LEMMA ResetAttemptsRow ==
    ASSUME NEW t \in Table, NEW v \in Uuids, NEW u \in Uuids
    PROVE  LET row == reset_claim_attempts(t, v)[u] IN
           IF u = v /\ t[u].claimed_at = NULL /\ ~t[u].locked
           THEN /\ row.claim_attempts = 0 /\ row.locked = t[u].locked
                /\ row.last_error_code = t[u].last_error_code
                /\ row.last_attempt_at = t[u].last_attempt_at
                /\ SameClaim(row, t[u]) /\ SameFlight(row, t[u])
                /\ SameSigning(row, t[u])
           ELSE row = t[u]
BY DEF reset_claim_attempts, Table, Row, SameClaim, SameFlight, SameSigning

LEMMA MarkSignedRow ==
    ASSUME NEW t \in Table, NEW v \in Uuids, NEW u \in Uuids
    PROVE  LET row == mark_signed(t, v)[u] IN
           IF u = v /\ t[u].stored /\ ~t[u].signed
           THEN /\ row.signed /\ row.stored = t[u].stored
                /\ row.sign_attempts = t[u].sign_attempts
                /\ row.last_error_code = t[u].last_error_code
                /\ row.last_attempt_at = t[u].last_attempt_at
                /\ SameClaim(row, t[u]) /\ SameFlight(row, t[u])
                /\ SameBudget(row, t[u])
           ELSE row = t[u]
BY DEF mark_signed, Table, Row, SameClaim, SameFlight, SameBudget
-----------------------------------------------------------------------------
(* The statements of the signing side: they keep the table well typed, and *)
(* none forgets a receipt or a signature.                                  *)

\* A row is there, and signed, exactly when it was.
KeepsSigned(t, s) ==
    \A u \in Uuids : s[u].stored = t[u].stored /\ s[u].signed = t[u].signed

LEMMA StoreUnsignedRow ==
    ASSUME NEW t \in Table, NEW v \in Uuids
    PROVE  LET s == store_unsigned(t, v) IN
           /\ s \in Table
           /\ s[v].stored /\ (t[v].stored => s[v] = t[v])
           /\ \A u \in Uuids \ {v} : s[u] = t[u]
<1> DEFINE new == [NoRow EXCEPT !.stored = TRUE]
<1>1. new \in Row /\ new.stored
  BY DEF NoRow, Row
<1> HIDE DEF new
<1>2. store_unsigned(t, v) = IF t[v].stored THEN t ELSE [t EXCEPT ![v] = new]
  BY DEF store_unsigned, new
<1> QED BY <1>1, <1>2 DEF Table

LEMMA TransientAttemptRow ==
    ASSUME NEW t \in Table, NEW v \in Uuids
    PROVE  LET s == mark_transient_attempt(t, v) IN
           s \in Table /\ KeepsSigned(t, s)
<1> DEFINE n   == t[v].transient_attempts + 1
           row == [t[v] EXCEPT !.transient_attempts = n,
                               !.last_attempt_at = "recent"]
<1>1. n \in Nat
  BY DEF Table, Row
<1>2. \/ mark_transient_attempt(t, v) = t
      \/ mark_transient_attempt(t, v) = [t EXCEPT ![v] = row]
  BY DEF mark_transient_attempt, Table
<1>3. row \in Row /\ row.stored = t[v].stored /\ row.signed = t[v].signed
  <2> HIDE DEF n
  <2> QED BY <1>1 DEF Table, Row, Age
<1> HIDE DEF row
<1> QED BY <1>2, <1>3 DEF Table, KeepsSigned

LEMMA SignFailedRow ==
    ASSUME NEW t \in Table, NEW v \in Uuids, NEW code \in ALL_CODES
    PROVE  LET s == mark_sign_failed(t, v, code) IN
           s \in Table /\ KeepsSigned(t, s)
<1> DEFINE counts == counts_against_retry_budget(code)
           spent  == t[v].sign_attempts + (IF counts THEN 1 ELSE 0)
           last   == counts /\ spent >= MAX_SIGN_ATTEMPTS
           row    == [t[v] EXCEPT !.sign_attempts = spent,
                                  !.last_error_code = code,
                                  !.last_attempt_at = "recent",
                                  !.locked = last]
<1>1. spent \in Nat /\ last \in BOOLEAN
  BY DEF Table, Row
<1>2. \/ mark_sign_failed(t, v, code) = t
      \/ mark_sign_failed(t, v, code) = [t EXCEPT ![v] = row]
  BY DEF mark_sign_failed, Table
<1>3. row \in Row /\ row.stored = t[v].stored /\ row.signed = t[v].signed
  <2> HIDE DEF counts, spent, last
  <2> QED BY <1>1 DEF Table, Row, Age
<1> HIDE DEF row
<1> QED BY <1>2, <1>3 DEF Table, KeepsSigned

LEMMA StampEscalatedRow ==
    ASSUME NEW t \in Table, NEW us, NEW code \in ALL_CODES
    PROVE  LET s == stamp_escalated(t, us, code) IN
           s \in Table /\ KeepsSigned(t, s)
BY DEF Table, Row, Age, stamp_escalated, KeepsSigned

=============================================================================
