------------------------------ MODULE MCProxy ------------------------------
(* ProxyConnections on small instances; the .cfg files give the constants. *)
EXTENDS ProxyConnections
=============================================================================
