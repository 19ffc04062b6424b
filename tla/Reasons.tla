------------------------------ MODULE Reasons ------------------------------
(***************************************************************************)
(* The failure codes of app/payment/reasons.py.  A code is the value of    *)
(* last_error_code of a receipt row, which is NULL without one.            *)
(***************************************************************************)

\* Codes stamped while a receipt is waiting for the gateway's signature.
\* The rejections the coordination API words differently but that the code
\* treats alike are one value, SIGN_REJECTED.
SIGN_CODES == {"SIGN_REJECTED", "SIGN_REJECTED_CLOCK_SKEW",
               "SIGN_TRANSIENT_BUDGET_EXHAUSTED", "SIGN_VERIFY_FAILED"}

\* Codes stamped by a claim run.
CLAIM_CODES == {"CLAIM_REVERTED", "CLAIM_RPC_UNREACHABLE",
                "CLAIM_TX_TIMEOUT", "CLAIM_INSUFFICIENT_GAS"}

ALL_CODES == SIGN_CODES \cup CLAIM_CODES

\* Mutant: a timeout is charged to the receipt.
TransientWithoutTimeout == {"SIGN_REJECTED_CLOCK_SKEW",
                            "CLAIM_RPC_UNREACHABLE", "CLAIM_INSUFFICIENT_GAS"}

\* Codes retried for ever: they never count against an attempt budget.
TRANSIENT_CODES == {"SIGN_REJECTED_CLOCK_SKEW", "CLAIM_RPC_UNREACHABLE",
                    "CLAIM_TX_TIMEOUT", "CLAIM_INSUFFICIENT_GAS"}

counts_against_retry_budget(code) == code \notin TRANSIENT_CODES
=============================================================================
