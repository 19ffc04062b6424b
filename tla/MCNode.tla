------------------------------- MODULE MCNode -------------------------------
(* NodeLifecycle on small instances; the .cfg files give the constants. *)
EXTENDS NodeLifecycle

\* Bound: a history is followed up to the first overlap of two run loops, after
\* which the properties ask nothing of it.
UpToOverlap == ~overlapped
=============================================================================
