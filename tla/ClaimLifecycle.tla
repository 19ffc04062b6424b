--------------------------- MODULE ClaimLifecycle ---------------------------
(***************************************************************************)
(* What the operator of a provider is promised about each receipt, in the  *)
(* words of StoredReceipt.view: a receipt is called claimed only once the  *)
(* contract has paid it or accepted a batch with it, and this is taken     *)
(* back only if that acceptance left it unpaid, or did not last.  A        *)
(* receipt given up as "failed_terminal" changes only if it turns out to   *)
(* have been paid.                                                         *)
(***************************************************************************)
CONSTANT Uuids

VARIABLES
    status,             \* status[u] is the view of receipt u
    settled,            \* receipts the contract has ever paid or accepted
    disputed            \* those it left unpaid, or whose block was taken back

Open == {"claimable", "failed_retryable"}

LifecycleInit ==
    /\ status \in [Uuids -> {"pending_sign"} \cup Open]
    /\ settled = {} /\ disputed = {}

Settle ==
    /\ \E S, D \in SUBSET Uuids :
          /\ settled' = settled \cup S
          /\ disputed' = disputed \cup D /\ disputed' \subseteq settled'
    /\ UNCHANGED status

\* The receipts of S move from an Open status to the one given.
Becomes(S, from, to) ==
    /\ \A u \in S : status[u] \in from
    /\ status' = [u \in Uuids |-> IF u \in S THEN to ELSE status[u]]
    /\ UNCHANGED <<settled, disputed>>

Sign(u) == Becomes({u}, {"pending_sign", "failed_retryable"}, "claimable")

Claimed(S) == S \subseteq settled /\ Becomes(S, Open \cup {"failed_terminal"}, "claimed")

\* A claim that was not paid after all is open again.
TakeBack(u) ==
    /\ u \in disputed
    /\ \E to \in Open : Becomes({u}, {"claimed"}, to)

Requeue(u) == Becomes({u}, {"failed_retryable"}, "claimable")

\* A failed batch: the receipts of T have no attempt left.
Fail(S, T) ==
    /\ \A u \in S \cup T : status[u] \in Open
    /\ status' = [u \in Uuids |-> IF u \in T THEN "failed_terminal"
                                  ELSE IF u \in S THEN "failed_retryable"
                                  ELSE status[u]]
    /\ UNCHANGED <<settled, disputed>>

LifecycleNext ==
    \/ Settle
    \/ \E u \in Uuids : Sign(u) \/ Requeue(u) \/ TakeBack(u)
    \/ \E S \in SUBSET Uuids :
          Claimed(S) \/ (\E T \in SUBSET Uuids : Fail(S, T))

Lifecycle == LifecycleInit /\ [][LifecycleNext]_<<status, settled, disputed>>
=============================================================================
