------------------------------- MODULE MCHome -------------------------------
(* NodeHome on small instances; the .cfg files give the constants.          *)
EXTENDS NodeHome
=============================================================================
