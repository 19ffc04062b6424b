----------------------------- MODULE Settlement -----------------------------
(***************************************************************************)
(* A claim run: claim_all and _submit_batch of app/payment/settlement.py   *)
(* under claim.lock (app/payment/claim_lock.py).  Its callers are the      *)
(* daemon's auto-claim monitor, the GUI's background claim tasks and the   *)
(* CLI; each is a claimer.                                                 *)
(*                                                                         *)
(* A step of a run is what happens between two points where another        *)
(* process can interfere: one SQL statement, one RPC answer.               *)
(***************************************************************************)
EXTENDS EscrowChain

CONSTANTS
    Claimers,
    Modes,              \* the kinds of run claimers start
    CLAIM_BATCH_SIZE,
    PayerKnown          \* is GATEWAY_PAYER_ADDRESS configured?

ASSUME SettlementAssumption ==
    /\ Modes \subseteq {"default", "retryable", "only"}
    /\ CLAIM_BATCH_SIZE \in Nat \ {0}
    /\ PayerKnown \in BOOLEAN
    /\ NULL \notin Claimers

VARIABLES
    claimLock,          \* the holder of claim.lock, or NULL
    run                 \* run[c] is the progress of claimer c

StopCodes == {"CLAIM_RPC_UNREACHABLE", "CLAIM_INSUFFICIENT_GAS"}
\* Mutants: a breadcrumb is cleared although its transaction may be pending.
ClearingTimeout == {"CLAIM_REVERTED", "CLAIM_INSUFFICIENT_GAS",
                    "CLAIM_TX_TIMEOUT"}
ClearingUnreachable == {"CLAIM_REVERTED", "CLAIM_INSUFFICIENT_GAS",
                        "CLAIM_RPC_UNREACHABLE"}

ClearingCodes == {"CLAIM_REVERTED", "CLAIM_INSUFFICIENT_GAS"}

RunPc == {"idle", "reconcile", "external", "next", "drop", "lock", "build",
          "pending", "broadcast", "wait", "record", "clear", "stop"}

\* batch is the kept batch being submitted, todo what is left of the loop the
\* run is in, only the receipt a single-receipt retry names.
Run == [pc     : RunPc,
        mode   : {"default", "retryable", "only"},
        only   : Uuids \cup {NULL},
        seen   : SUBSET Uuids,
        batch  : SUBSET Uuids,
        todo   : SUBSET Uuids,
        tx     : ClaimTx \cup {NULL},
        result : CLAIM_CODES \cup {"OK"}]

Idle == [pc |-> "idle", mode |-> "default", only |-> NULL, seen |-> {},
         batch |-> {}, todo |-> {}, tx |-> NULL, result |-> "OK"]

SettlementTypeOK ==
    /\ claimLock \in Claimers \cup {NULL}
    /\ run \in [Claimers -> Run]

SettlementInit ==
    /\ claimLock = NULL
    /\ run = [c \in Claimers |-> Idle]

At(c, pc) == run[c].pc = pc
Proceed(c, r) == run' = [run EXCEPT ![c] = r]
Goto(c, pc) == Proceed(c, [run[c] EXCEPT !.pc = pc])

First(S) == Oldest(S, 1)

\* A run that is done with its batch forgets it.
Leave(r, pc) == [r EXCEPT !.pc = pc, !.batch = {}, !.todo = {},
                          !.tx = NULL, !.result = "OK"]
-----------------------------------------------------------------------------
\* Mutant: the lock is taken from its holder.
AcquireHeldLock(c) ==
    /\ At(c, "idle")
    /\ Proceed(c, [Idle EXCEPT !.pc = "reconcile"])
    /\ claimLock' = c
    /\ UNCHANGED <<db, chainVars>>

\* acquire_claim_lock succeeds.  Against a held lock it raises ClaimLockHeld
\* and the caller gives up, which changes nothing.  A single-receipt retry
\* is refused for a receipt that is locked.
AcquireLock(c) ==
    /\ At(c, "idle") /\ claimLock = NULL
    /\ \E mode \in Modes :
          \E only \in IF mode = "only"
                      THEN {u \in Uuids : db[u].stored /\ ~db[u].locked}
                      ELSE {NULL} :
             Proceed(c, [Idle EXCEPT !.pc = "reconcile", !.mode = mode,
                                     !.only = only])
    /\ claimLock' = c
    /\ UNCHANGED <<db, chainVars>>

ReleaseLock(c) ==
    /\ At(c, "stop")
    /\ claimLock' = NULL
    /\ Proceed(c, Idle)
    /\ UNCHANGED <<db, chainVars>>

\* _reconcile_already_claimed asks the chain about the head of the queue; an
\* unreachable RPC or a failing call leaves receipts out of the answer.
ReconcileCheck(c) ==
    /\ At(c, "reconcile")
    /\ \E already \in SUBSET (Oldest(unclaimed(db, TRUE), CLAIM_BATCH_SIZE)
                                \cap NonceUsed) :
          Proceed(c, [run[c] EXCEPT
                         !.todo = already,
                         !.pc = IF already = {} THEN "next" ELSE "external"])
    /\ UNCHANGED <<db, claimLock, chainVars>>

ReconcileMark(c) ==
    /\ At(c, "external")
    /\ db' = mark_claimed(db, run[c].todo, External)
    /\ Proceed(c, [run[c] EXCEPT !.pc = "next", !.todo = {}])
    /\ UNCHANGED <<claimLock, chainVars>>

\* _next_batch, before what this run has already seen is stripped from it.
Picked(c) ==
    IF run[c].mode = "only"
    THEN {u \in {run[c].only} :
             view(db[u]) \in {"claimable", "failed_retryable"}}
    ELSE Oldest(unclaimed(db, run[c].mode = "retryable"), CLAIM_BATCH_SIZE)

\* _verify_signatures_locally: without a known payer nothing is dropped.
Dropped(batch) ==
    {u \in batch : PayerKnown /\ (~db[u].signed \/ u \in Corrupt)}

\* Mutant: receipts this run has seen are not stripped.
NextBatchUnstripped(c) ==
    /\ At(c, "next") /\ Picked(c) # {}
    /\ Proceed(c, [run[c] EXCEPT !.seen = @ \cup Picked(c), !.batch = Picked(c),
                                 !.pc = "build"])
    /\ UNCHANGED <<db, claimLock, chainVars>>

NextBatch(c) ==
    /\ At(c, "next")
    /\ LET batch == Picked(c) \ run[c].seen
           bad   == Dropped(batch)
       IN  /\ batch # {}
           /\ Proceed(c, [run[c] EXCEPT
                             !.seen  = @ \cup batch,
                             !.batch = batch \ bad,
                             !.todo  = bad,
                             !.pc    = IF bad # {} THEN "drop" ELSE "build"])
    /\ UNCHANGED <<db, claimLock, chainVars>>

NoMoreBatches(c) ==
    /\ At(c, "next")
    /\ Picked(c) \subseteq run[c].seen
    /\ Goto(c, "stop")
    /\ UNCHANGED <<db, claimLock, chainVars>>

\* _drop_corrupt_signatures: two statements for each receipt.
DropCorrupt(c) ==
    /\ At(c, "drop")
    /\ db' = mark_claim_failed(db, First(run[c].todo), "SIGN_VERIFY_FAILED")
    /\ Goto(c, "lock")
    /\ UNCHANGED <<claimLock, chainVars>>

LockCorrupt(c) ==
    /\ At(c, "lock")
    /\ \E u \in First(run[c].todo) :
          LET left == run[c].todo \ {u} IN
          /\ db' = lock(db, u)
          /\ Proceed(c, [run[c] EXCEPT
                            !.todo = left,
                            !.pc = IF left # {} THEN "drop"
                                   ELSE IF run[c].batch = {} THEN "next"
                                   ELSE "build"])
    /\ UNCHANGED <<claimLock, chainVars>>

\* _build_and_sign: the RPC answers, is unreachable, or a call raises and the
\* run is abandoned (as it also is when a receipt of the batch is unsigned).
BuildTx(c) ==
    /\ At(c, "build")
    /\ \A u \in run[c].batch : db[u].signed
    /\ Proceed(c, [run[c] EXCEPT
                      !.pc = "pending",
                      !.tx = [nonce |-> txCount, batch |-> run[c].batch]])
    /\ UNCHANGED <<db, claimLock, chainVars>>

BuildUnreachable(c) ==
    /\ At(c, "build")
    /\ db' = mark_claim_failed(db, run[c].batch, "CLAIM_RPC_UNREACHABLE")
    /\ Proceed(c, Leave(run[c], "stop"))
    /\ UNCHANGED <<claimLock, chainVars>>

BuildRaises(c) ==
    /\ At(c, "build")
    /\ Proceed(c, Leave(run[c], "stop"))
    /\ UNCHANGED <<db, claimLock, chainVars>>

\* The breadcrumb is on disk before the broadcast.
SetPending(c) ==
    /\ At(c, "pending")
    /\ db' = set_claim_tx_pending(db, run[c].batch, run[c].tx)
    /\ Goto(c, "broadcast")
    /\ UNCHANGED <<claimLock, chainVars>>

\* send_raw_transaction is accepted, or refused as already known: wait.
BroadcastAccepted(c) ==
    /\ At(c, "broadcast")
    /\ run[c].tx.nonce = txCount
    /\ mempool' = Admit(run[c].tx)
    /\ Goto(c, "wait")
    /\ UNCHANGED <<db, claimLock, mined, txCount, outOfBand, retracted, head,
                   emptyBlocks, reorgs>>

BroadcastNoFunds(c) ==
    /\ At(c, "broadcast")
    /\ Proceed(c, [run[c] EXCEPT !.pc = "record",
                                 !.result = "CLAIM_INSUFFICIENT_GAS"])
    /\ UNCHANGED <<db, claimLock, chainVars>>

\* Any other error: refused by the node (stale nonce, underpriced), never
\* sent, or sent and the answer lost.
BroadcastFails(c) ==
    /\ At(c, "broadcast")
    /\ Proceed(c, [run[c] EXCEPT !.pc = "record",
                                 !.result = "CLAIM_RPC_UNREACHABLE"])
    /\ \/ UNCHANGED mempool
       \/ run[c].tx.nonce = txCount /\ mempool' = Admit(run[c].tx)
    /\ UNCHANGED <<db, claimLock, mined, txCount, outOfBand, retracted, head,
                   emptyBlocks, reorgs>>

WaitOutcome(c, result) ==
    /\ At(c, "wait")
    /\ Proceed(c, [run[c] EXCEPT !.pc = "record", !.result = result])
    /\ UNCHANGED <<db, claimLock, chainVars>>

\* Mutant: the status in the receipt is not looked at.
WaitMined(c) == (\E ok \in BOOLEAN : Executed(run[c].tx, ok)) /\ WaitOutcome(c, "OK")

WaitConfirmed(c) == Executed(run[c].tx, TRUE) /\ WaitOutcome(c, "OK")
WaitReverted(c) == Executed(run[c].tx, FALSE) /\ WaitOutcome(c, "CLAIM_REVERTED")
WaitTimesOut(c) == WaitOutcome(c, "CLAIM_TX_TIMEOUT")

AfterBatch(result) == IF result \in StopCodes THEN "stop" ELSE "next"

\* The result is written, then the breadcrumbs that are no longer needed are
\* cleared receipt by receipt.
RecordResult(c) ==
    /\ At(c, "record")
    /\ LET result == run[c].result
           clears == result = "OK" \/ result \in ClearingCodes
       IN  /\ db' = IF result = "OK"
                    THEN mark_claimed(db, run[c].batch, run[c].tx)
                    ELSE mark_claim_failed(db, run[c].batch, result)
           /\ Proceed(c, IF clears
                         THEN [run[c] EXCEPT !.pc = "clear", !.todo = run[c].batch]
                         ELSE Leave(run[c], AfterBatch(result)))
    /\ UNCHANGED <<claimLock, chainVars>>

ClearPending(c) ==
    /\ At(c, "clear")
    /\ \E u \in First(run[c].todo) :
          LET left == run[c].todo \ {u} IN
          /\ db' = clear_claim_tx_pending(db, u)
          /\ Proceed(c, IF left # {}
                        THEN [run[c] EXCEPT !.todo = left]
                        ELSE Leave(run[c], AfterBatch(run[c].result)))
    /\ UNCHANGED <<claimLock, chainVars>>

RunStep(c) ==
    \/ ReconcileCheck(c) \/ ReconcileMark(c)
    \/ NextBatch(c) \/ NoMoreBatches(c) \/ DropCorrupt(c) \/ LockCorrupt(c)
    \/ BuildTx(c) \/ BuildUnreachable(c) \/ BuildRaises(c) \/ SetPending(c)
    \/ BroadcastAccepted(c) \/ BroadcastNoFunds(c) \/ BroadcastFails(c)
    \/ WaitConfirmed(c) \/ WaitReverted(c) \/ WaitTimesOut(c)
    \/ RecordResult(c) \/ ClearPending(c) \/ ReleaseLock(c)

\* The process dies: its run is lost and the kernel drops its lock.
KillRun(c) ==
    /\ Proceed(c, Idle)
    /\ claimLock' = IF claimLock = c THEN NULL ELSE claimLock
=============================================================================
