------------------------------ MODULE MCClaim ------------------------------
(* ClaimSystem on small instances; the .cfg files give the constants. *)
EXTENDS ClaimProperties, TLC

\* Processes that all are CLI processes, or none of which is killed, are
\* interchangeable.  Receipts are not: the queue orders them.
ClaimerSymmetry == Permutations(Claimers)
=============================================================================
