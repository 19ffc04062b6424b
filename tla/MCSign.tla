------------------------------- MODULE MCSign -------------------------------
(* SignPipeline on small instances; the .cfg files give the constants. *)
EXTENDS SignPipeline
=============================================================================
