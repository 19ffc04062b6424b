------------------------------- MODULE Reaper -------------------------------
(***************************************************************************)
(* The claim reaper (app/payment/reaper.py).  The daemon runs a tick when  *)
(* it starts and one every interval after that; the CLI runs a single tick *)
(* on request.  Neither takes claim.lock.                                  *)
(*                                                                         *)
(* A tick has three passes.  Each lists rows and asks the chain about      *)
(* them, then writes its verdicts one statement at a time: what it writes  *)
(* may be stale by then.                                                   *)
(***************************************************************************)
EXTENDS EscrowChain

CONSTANT
    Reapers             \* the processes that run reaper ticks

VARIABLE reaper         \* reaper[r] is the progress of r's tick

ReaperPc == {"timeouts", "landed", "dropped", "finality", "flipped",
             "reorgs", "reverted"}

\* todo and landed are verdicts still to be written, block the height the
\* first pass read with them.
ReaperState == [pc     : ReaperPc,
                landed : SUBSET Uuids,
                todo   : SUBSET Uuids,
                block  : Nat \cup {NULL}]

NewTick == [pc |-> "timeouts", landed |-> {}, todo |-> {}, block |-> NULL]

ReaperTypeOK == reaper \in [Reapers -> ReaperState]

ReaperInit == reaper = [r \in Reapers |-> NewTick]

In(r, pc) == reaper[r].pc = pc
Continue(r, tick) == reaper' = [reaper EXCEPT ![r] = tick]

-----------------------------------------------------------------------------
(* Pass 1: timed-out claims.                                               *)

\* isNonceUsed is asked for each row; an RPC error leaves the row out.
\* block_number may fail on its own.
TimeoutVerdicts(r, landed, dropped, block) ==
    /\ In(r, "timeouts")
    /\ Continue(r, [pc     |-> IF landed # {} THEN "landed"
                               ELSE IF dropped # {} THEN "dropped"
                               ELSE "finality",
                    landed |-> landed,
                    todo   |-> dropped,
                    block  |-> IF landed # {} THEN block ELSE NULL])
    /\ UNCHANGED <<db, chainVars>>

CheckTimeouts(r) ==
    \E landed \in SUBSET (list_timed_out_claims(db) \cap NonceUsed),
       dropped \in SUBSET (list_timed_out_claims(db) \ NonceUsed),
       block \in {head, NULL} :
          TimeoutVerdicts(r, landed, dropped, block)

\* The RPC answered every question of the pass.
CheckTimeoutsAnswered(r) ==
    TimeoutVerdicts(r, list_timed_out_claims(db) \cap NonceUsed,
                       list_timed_out_claims(db) \ NonceUsed, head)

MarkLanded(r) ==
    /\ In(r, "landed")
    /\ db' = IF reaper[r].block = NULL
             THEN mark_claimed(db, reaper[r].landed, External)
             ELSE mark_external_with_block(db, reaper[r].landed,
                                           reaper[r].block)
    /\ Continue(r, [reaper[r] EXCEPT
                       !.pc = IF reaper[r].todo # {} THEN "dropped" ELSE "finality",
                       !.landed = {}, !.block = NULL])
    /\ UNCHANGED chainVars

\* The verdict on u is written; after the last one the next pass starts.
Written(r, u, next) ==
    LET left == reaper[r].todo \ {u} IN
    Continue(r, [reaper[r] EXCEPT !.todo = left,
                                  !.pc = IF left # {} THEN @ ELSE next])

ClearDropped(r) ==
    /\ In(r, "dropped")
    /\ \E u \in Oldest(reaper[r].todo, 1) :
          db' = clear_error(db, u) /\ Written(r, u, "finality")
    /\ UNCHANGED chainVars

-----------------------------------------------------------------------------
(* Pass 2: rows marked external that are still inside the finality soak.   *)

\* The rows the chain says are unused are the verdicts of this pass.
UnusedVerdicts(r, unused, write, next) ==
    /\ Continue(r, [reaper[r] EXCEPT
                       !.pc = IF unused # {} THEN write ELSE next,
                       !.todo = unused])
    /\ UNCHANGED <<db, chainVars>>

Flipped == list_pending_external_unfinalized(db, head, FINALITY_BLOCKS)
              \ NonceUsed

CheckFinality(r) ==
    /\ In(r, "finality")
    /\ \E flipped \in SUBSET Flipped :
          UnusedVerdicts(r, flipped, "flipped", "reorgs")

RevertFlipped(r) ==
    /\ In(r, "flipped")
    /\ \E u \in Oldest(reaper[r].todo, 1) :
          db' = revert_external_mark(db, u) /\ Written(r, u, "reorgs")
    /\ UNCHANGED chainVars

-----------------------------------------------------------------------------
(* Pass 3: rows claimed lately whose nonce is not used (any more).         *)

\* Mutant: isNonceUsed is read the wrong way round.
CheckReorgsInverted(r) ==
    /\ In(r, "reorgs")
    /\ \E used \in SUBSET (list_recently_claimed(db) \cap NonceUsed) :
          UnusedVerdicts(r, used, "reverted", "timeouts")

CheckReorgs(r) ==
    /\ In(r, "reorgs")
    /\ \E unused \in SUBSET (list_recently_claimed(db) \ NonceUsed) :
          UnusedVerdicts(r, unused, "reverted", "timeouts")

CheckReorgsAnswered(r) ==
    /\ In(r, "reorgs")
    /\ UnusedVerdicts(r, list_recently_claimed(db) \ NonceUsed,
                      "reverted", "timeouts")

RevertUnused(r) ==
    /\ In(r, "reverted")
    /\ \E u \in Oldest(reaper[r].todo, 1) :
          db' = revert_claimed(db, u) /\ Written(r, u, "timeouts")
    /\ UNCHANGED chainVars

ReaperStep(r) ==
    \/ CheckTimeouts(r) \/ MarkLanded(r) \/ ClearDropped(r)
    \/ CheckFinality(r) \/ RevertFlipped(r)
    \/ CheckReorgs(r) \/ RevertUnused(r)
=============================================================================
