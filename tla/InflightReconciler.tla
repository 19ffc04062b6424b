------------------------ MODULE InflightReconciler -------------------------
(***************************************************************************)
(* The one-shot pass a starting daemon makes over rows whose breadcrumb    *)
(* says a transaction may be in flight (app/payment/                       *)
(* inflight_reconciler.py).  It does not take claim.lock either.           *)
(***************************************************************************)
EXTENDS EscrowChain

VARIABLE inflight       \* the progress of the pass

InflightPc == {"list", "landed", "clearLanded", "unused", "reset", "done"}

\* landed pairs a receipt with the breadcrumb it had when it was listed.
Inflight == [pc     : InflightPc,
             landed : SUBSET [uuid : Uuids, hash : ClaimTx],
             todo   : SUBSET Uuids,
             unused : SUBSET Uuids]

Pass(pc) == [pc |-> pc, landed |-> {}, todo |-> {}, unused |-> {}]

InflightTypeOK == inflight \in Inflight

InflightCheck ==
    /\ inflight.pc = "list"
    /\ \E landed \in SUBSET (list_inflight(db) \cap NonceUsed),
          unused \in SUBSET (list_inflight(db) \ NonceUsed) :
          inflight' = [pc     |-> IF landed # {} THEN "landed"
                                 ELSE IF unused # {} THEN "unused"
                                 ELSE "done",
                       landed |-> {[uuid |-> u, hash |-> db[u].claim_tx_pending] :
                                      u \in landed},
                       todo   |-> {},
                       unused |-> unused]
    /\ UNCHANGED <<db, chainVars>>

\* Rows of one transaction are marked by one statement ...
InflightMark ==
    /\ inflight.pc = "landed"
    /\ \E hash \in {e.hash : e \in inflight.landed} :
          LET us == {e.uuid : e \in {f \in inflight.landed : f.hash = hash}} IN
          /\ db' = mark_claimed(db, us, hash)
          /\ inflight' = [inflight EXCEPT
                !.pc = "clearLanded", !.todo = us,
                !.landed = {e \in @ : e.hash # hash}]
    /\ UNCHANGED chainVars

\* ... and lose their breadcrumbs one by one.
InflightClearLanded ==
    /\ inflight.pc = "clearLanded"
    /\ \E u \in Oldest(inflight.todo, 1) :
          LET left == inflight.todo \ {u} IN
          /\ db' = clear_claim_tx_pending(db, u)
          /\ inflight' = [inflight EXCEPT
                !.todo = left,
                !.pc = IF left # {} THEN "clearLanded"
                       ELSE IF inflight.landed # {} THEN "landed"
                       ELSE IF inflight.unused # {} THEN "unused"
                       ELSE "done"]
    /\ UNCHANGED chainVars

InflightClearUnused ==
    /\ inflight.pc = "unused"
    /\ \E u \in Oldest(inflight.unused, 1) :
          db' = clear_claim_tx_pending(db, u)
    /\ inflight' = [inflight EXCEPT !.pc = "reset"]
    /\ UNCHANGED chainVars

InflightResetAttempts ==
    /\ inflight.pc = "reset"
    /\ \E u \in Oldest(inflight.unused, 1) :
          LET left == inflight.unused \ {u} IN
          /\ db' = reset_claim_attempts(db, u)
          /\ inflight' = [inflight EXCEPT
                !.unused = left,
                !.pc = IF left # {} THEN "unused" ELSE "done"]
    /\ UNCHANGED chainVars

InflightStep ==
    \/ InflightCheck \/ InflightMark \/ InflightClearLanded
    \/ InflightClearUnused \/ InflightResetAttempts
=============================================================================
