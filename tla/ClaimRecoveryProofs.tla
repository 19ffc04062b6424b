------------------------ MODULE ClaimRecoveryProofs ------------------------
(***************************************************************************)
(* Theorems about what happens to a receipt between the broadcast of its   *)
(* claim and its settlement: blocks, breadcrumbs, transactions that may    *)
(* still be mined, and the budget of attempts.  Each holds for every value *)
(* of the constants that satisfies the assumption it names.                *)
(***************************************************************************)
EXTENDS ClaimSystemProofs

-----------------------------------------------------------------------------
(* Only a claim settled elsewhere carries a block.  What makes this hold   *)
(* is that the rows a reaper is about to take back had no block when it    *)
(* listed them, and that nobody but a reaper gives them one.               *)

RevertsBlockless ==
    \A r \in Reapers : In(r, "reverted") =>
        \A u \in reaper[r].todo : db[u].reconcile_block_number = NULL

BlockInv == RowConsistent /\ BlockIsExternal /\ RevertsBlockless

OneReaper == \A q, r \in Reapers : q = r

\* Claim runs never write a block, and write the columns of a claim only in
\* rows that are not claimed.
LEMMA RunStepBlocks ==
    ASSUME TypeInv, NEW c \in Claimers, AcquireLock(c) \/ RunStep(c), NEW u \in Uuids
    PROVE  /\ db'[u].reconcile_block_number = db[u].reconcile_block_number
           /\ SameClaim(db'[u], db[u]) \/ db[u].claimed_at = NULL
<1>r. db \in Table /\ First(run[c].todo) \in SUBSET Uuids
  BY RunTypes
<1> USE DEF SameClaim, SameFlight
<1>1. CASE UNCHANGED db
  BY <1>1
<1>2. ASSUME NEW us, NEW hash, db' = mark_claimed(db, us, hash)
      PROVE  /\ db'[u].reconcile_block_number = db[u].reconcile_block_number
             /\ SameClaim(db'[u], db[u]) \/ db[u].claimed_at = NULL
  BY <1>2, <1>r, MarkClaimedRow
<1>3. ASSUME NEW us, NEW code, db' = mark_claim_failed(db, us, code)
      PROVE  /\ db'[u].reconcile_block_number = db[u].reconcile_block_number
             /\ SameClaim(db'[u], db[u])
  BY <1>3, <1>r, MarkClaimFailedRow
<1>4. CASE LockCorrupt(c)
  <2>1. PICK v \in Uuids : db' = lock(db, v)
    BY <1>4, LockCorruptMoves
  <2> QED BY <1>r, <2>1, LockRow
<1>5. CASE SetPending(c)
  BY <1>5, <1>r, SetPendingMoves, SetPendingRow
<1>6. CASE ClearPending(c)
  <2>1. PICK v \in Uuids : db' = clear_claim_tx_pending(db, v)
    BY <1>6, ClearPendingMoves
  <2> QED BY <1>r, <2>1, ClearPendingRow
<1>7. CASE RecordResult(c) \/ ReconcileMark(c) \/ DropCorrupt(c) \/ BuildUnreachable(c)
  BY <1>2, <1>3, <1>7
     DEF RecordResult, ReconcileMark, DropCorrupt, BuildUnreachable
<1> QED
  BY <1>1, <1>4, <1>5, <1>6, <1>7
     DEF RunStep, AcquireLock, ReconcileCheck, NextBatch, NoMoreBatches,
         BuildTx, BuildRaises, BroadcastAccepted, BroadcastNoFunds,
         BroadcastFails, WaitConfirmed, WaitReverted, WaitTimesOut,
         WaitOutcome, ReleaseLock

LEMMA ReaperStepBlock ==
    ASSUME OneReaper, TypeInv, BlockInv, NEW r \in Reapers, ReaperStep(r)
    PROVE  BlockIsExternal' /\ RevertsBlockless'
<1>o. \A q \in Reapers : q = r
  BY DEF OneReaper
<1>r. /\ db \in Table
      /\ \A u \in Uuids : /\ db[u].claimed_at = NULL <=> db[u].claim_tx_hash = NULL
                          /\ db[u].reconcile_block_number # NULL
                                => db[u].claim_tx_hash = External
  BY ReaperTypes DEF BlockInv, RowConsistent, BlockIsExternal
<1> USE DEF BlockIsExternal, RevertsBlockless, SameClaim, SameFlight
<1>1. CASE CheckTimeouts(r) \/ CheckFinality(r)
  <2>1. UNCHANGED db /\ reaper'[r].pc # "reverted"
    BY <1>1, CheckTimeoutsTicks, CheckFinalityTicks DEF Ticked
  <2> QED BY <1>o, <1>r, <2>1 DEF In
<1>2. CASE CheckReorgs(r)
  <2>1. /\ UNCHANGED db
        /\ \A u \in reaper'[r].todo : u \in Uuids /\ db[u].claim_tx_hash # External
    BY <1>2, CheckReorgsTicks DEF Ticked, list_recently_claimed
  <2> QED BY <1>o, <1>r, <2>1
<1>3. CASE MarkLanded(r)
  <2>1. reaper'[r].pc # "reverted"
    BY <1>3, MarkLandedTicks DEF Ticked
  <2>2. ASSUME NEW u \in Uuids
        PROVE  db'[u].reconcile_block_number # NULL => db'[u].claim_tx_hash = External
    BY <1>3, <1>r, MarkLandedTicks, MarkClaimedRow, MarkExternalRow, StoreAssumption
  <2> QED BY <1>o, <2>1, <2>2 DEF In
<1>4. CASE ClearDropped(r)
  <2>1. reaper'[r].pc # "reverted"
    BY <1>4, ClearDroppedTicks DEF Ticked
  <2>2. ASSUME NEW u \in Uuids
        PROVE  /\ db'[u].reconcile_block_number = db[u].reconcile_block_number
               /\ db'[u].claim_tx_hash = db[u].claim_tx_hash
    <3>1. PICK v \in Uuids : db' = clear_error(db, v)
      BY <1>4, ClearDroppedTicks
    <3> QED BY <1>r, <3>1, ClearErrorRow
  <2> QED BY <1>o, <1>r, <2>1, <2>2 DEF In
<1>5. CASE RevertFlipped(r)
  <2>1. reaper'[r].pc # "reverted"
    BY <1>5, RevertFlippedTicks DEF Ticked
  <2>2. ASSUME NEW u \in Uuids
        PROVE  db'[u].reconcile_block_number # NULL => db'[u].claim_tx_hash = External
    <3>1. PICK v \in Uuids : db' = revert_external_mark(db, v)
      BY <1>5, RevertFlippedTicks
    <3> QED BY <1>r, <3>1, RevertMarkRow
  <2> QED BY <1>o, <2>1, <2>2 DEF In
<1>6. CASE RevertUnused(r)
  <2>1. PICK v \in Uuids :
           /\ v \in reaper[r].todo /\ db' = revert_claimed(db, v)
           /\ reaper'[r].todo = reaper[r].todo \ {v}
    BY <1>6, RevertUnusedTicks DEF Ticked
  <2>2. \A u \in reaper[r].todo : u \in Uuids /\ db[u].reconcile_block_number = NULL
    BY <1>6, RevertUnusedTicks, ReaperTypes DEF BlockInv
  <2>3. ASSUME NEW u \in Uuids
        PROVE  /\ db'[u].reconcile_block_number = db[u].reconcile_block_number
               /\ u # v => db'[u] = db[u]
    BY <1>r, <2>1, RevertClaimedRow
  <2> QED BY <1>o, <1>r, <2>1, <2>2, <2>3
<1> QED BY <1>1, <1>2, <1>3, <1>4, <1>5, <1>6 DEF ReaperStep

\* The startup pass, too, writes neither a block nor a claimed row.
LEMMA InflightStepBlocks ==
    ASSUME TypeInv, InflightStep, NEW u \in Uuids
    PROVE  /\ db'[u].reconcile_block_number = db[u].reconcile_block_number
           /\ SameClaim(db'[u], db[u]) \/ db[u].claimed_at = NULL
<1>r. /\ db \in Table
      /\ Oldest(inflight.todo, 1) \in SUBSET Uuids
      /\ Oldest(inflight.unused, 1) \in SUBSET Uuids
  BY OldestSubset DEF TypeInv, TypeOK, InflightTypeOK, Inflight, Table
<1> USE DEF SameClaim, SameFlight
<1>1. CASE InflightCheck
  BY <1>1 DEF InflightCheck
<1>2. CASE InflightMark
  <2>1. PICK us, hash : db' = mark_claimed(db, us, hash)
    BY <1>2 DEF InflightMark
  <2> QED BY <1>r, <2>1, MarkClaimedRow
<1>3. CASE InflightClearLanded \/ InflightClearUnused
  <2>1. PICK v \in Uuids : db' = clear_claim_tx_pending(db, v)
    BY <1>3, <1>r DEF InflightClearLanded, InflightClearUnused
  <2> QED BY <1>r, <2>1, ClearPendingRow
<1>4. CASE InflightResetAttempts
  BY <1>4, <1>r, ResetAttemptsRow DEF InflightResetAttempts
<1> QED BY <1>1, <1>2, <1>3, <1>4 DEF InflightStep

LEMMA StepBlock ==
    ASSUME OneReaper
    PROVE  TypeInv /\ BlockInv /\ [Next]_vars => BlockInv'
<1> SUFFICES ASSUME TypeInv, BlockInv, [Next]_vars PROVE BlockInv'
  OBVIOUS
<1>r. RowConsistent'
  BY StepRowConsistent DEF BlockInv
<1>q. \A u \in Uuids : /\ db[u].claimed_at = NULL <=> db[u].claim_tx_hash = NULL
                       /\ db[u].reconcile_block_number # NULL
                             => db[u].claim_tx_hash = External
  BY DEF BlockInv, RowConsistent, BlockIsExternal
<1>t. \A r \in Reapers : reaper[r].todo \in SUBSET Uuids
  BY ReaperTypes
<1>k. ASSUME \A u \in Uuids :
                /\ db'[u].reconcile_block_number = db[u].reconcile_block_number
                /\ \/ db'[u].claim_tx_hash = db[u].claim_tx_hash
                   \/ db[u].claimed_at = NULL,
             \A r \in Reapers : reaper'[r] = reaper[r] \/ reaper'[r] = NewTick
      PROVE  BlockInv'
  <2>1. BlockIsExternal'
    BY <1>k, <1>q, StoreAssumption DEF BlockIsExternal
  <2>2. RevertsBlockless'
    BY <1>k, <1>t DEF BlockInv, RevertsBlockless, In, NewTick
  <2> QED BY <1>r, <2>1, <2>2 DEF BlockInv
<1>1. ASSUME NEW u \in Uuids, PollerSigns(u) \/ AttemptAges(u) \/ ClaimAges(u)
      PROVE  BlockInv'
  <2>1. UNCHANGED reaper
    BY <1>1 DEF PollerSigns, AttemptAges, ClaimAges
  <2> QED BY <1>1, <1>k, <2>1, AgingRows DEF SameFlight
<1>2. ASSUME NEW c \in Claimers, Claim(c)
      PROVE  BlockInv'
  BY <1>2, <1>k, RunStepBlocks DEF Claim, SameClaim
<1>3. CASE Reconcile
  BY <1>3, <1>k, InflightStepBlocks DEF Reconcile, SameClaim
<1>4. ASSUME NEW r \in Reapers, Reap(r)
      PROVE  BlockInv'
  BY <1>4, <1>r, ReaperStepBlock DEF Reap, BlockInv
<1>5. CASE DaemonCrash
  BY <1>5, <1>k DEF DaemonCrash
<1>6. CASE UNCHANGED <<db, reaper>>
  BY <1>6, <1>k
<1> QED BY <1>1, <1>2, <1>3, <1>4, <1>5, <1>6 DEF Next, Chain, CliCrash, vars

LEMMA InitBlock == Init => BlockInv
<1> SUFFICES ASSUME Init PROVE BlockInv
  OBVIOUS
<1>1. ASSUME NEW kind \in StartRows
      PROVE  LET row == StartRow(kind) IN
             /\ row.claimed_at = NULL /\ row.claim_tx_hash = NULL
             /\ row.reconcile_block_number = NULL
  BY SystemAssumption DEF StartRow, PendingRow, NoRow
<1> QED BY <1>1 DEF Init, ReaperInit, NewTick, In, BlockInv, RowConsistent,
       BlockIsExternal, RevertsBlockless

\* With one reaper, only a row marked as settled elsewhere carries a block, so
\* the finality pass never looks at a row that a claim run settled: whatever
\* the runs, the startup pass, crashes and reorganisations do.  Two reapers
\* can break it: one takes back the claim that the other has just marked with
\* its block, and revert_claimed leaves the block alone.
THEOREM BlocksAreExternal ==
    ASSUME OneReaper
    PROVE  Spec => []BlockIsExternal
<1>1. TypeInv /\ BlockInv /\ [Next]_vars => BlockInv'
  BY StepBlock
<1>2. BlockInv => BlockIsExternal
  BY DEF BlockInv
<1> QED BY <1>1, <1>2, InitType, StepType, InitBlock, PTL DEF Spec

-----------------------------------------------------------------------------
(* A claim whose outcome is unknown keeps its breadcrumb.  A breadcrumb is *)
(* cleared by the run that left it, in the rows of the batch it has in     *)
(* hand; so the invariant follows the rows in hand from the moment they    *)
(* are picked, and shows that no such row can come to be in doubt.         *)

Undisturbed == OneReaper /\ Modes \subseteq {"default"} /\ MaxDaemonCrashes = 0

\* The codes the reaper's first pass looks for.
InDoubt(u) == db[u].last_error_code \in {"CLAIM_TX_TIMEOUT", "CLAIM_RPC_UNREACHABLE"}

Unrecorded == {"drop", "lock", "build", "pending", "broadcast", "wait", "record"}

\* The rows a run may still write: those of its batch until the result is
\* recorded, and those of the loop that drops or clears.
Holds(r, u) ==
    \/ r.pc \in Unrecorded /\ u \in r.batch
    \/ r.pc \in {"drop", "lock", "clear"} /\ u \in r.todo

\* u is none of the reaper's business.
Free(u) ==
    /\ ~InDoubt(u) /\ db[u].claim_tx_hash # External
    /\ \A r \in Reapers : u \notin reaper[r].landed

HandOK(c) ==
    /\ \A u \in Uuids : Holds(run[c], u) => Free(u)
    /\ run[c].pc \in Unrecorded =>
          \A u \in run[c].batch : db[u].claimed_at = NULL /\ ~db[u].locked
    /\ run[c].pc \in {"broadcast", "wait", "record"} =>
          \A u \in run[c].batch : db[u].claim_tx_pending = run[c].tx
    /\ run[c].pc \in {"broadcast", "wait", "record"} => run[c].tx \in ClaimTx
    /\ run[c].pc \in {"drop", "lock"} => run[c].batch \cap run[c].todo = {}
    /\ run[c].mode = "default"

HandInv == \A c \in Claimers : HandOK(c)

\* What a reaper is about to write.
VerdictInv ==
    \A r \in Reapers :
        /\ ~In(r, "landed") => reaper[r].landed = {}
        /\ \A u \in reaper[r].landed :
              /\ db[u].claim_tx_pending # NULL
              /\ InDoubt(u) \/ db[u].claimed_at # NULL
        /\ In(r, "flipped") =>
              \A u \in reaper[r].todo : db[u].reconcile_block_number # NULL

BlockTracked ==
    \A u \in Uuids :
        db[u].reconcile_block_number # NULL => db[u].claim_tx_pending # NULL

TrackInv ==
    /\ HandInv /\ VerdictInv /\ BlockTracked /\ TimeoutIsTracked
    /\ inflight.pc = "done"

\* All that the rows' part of the invariant asks of a step.
RowKept(u) ==
    /\ db'[u].reconcile_block_number = db[u].reconcile_block_number
    /\ \/ db[u].claim_tx_pending = NULL \/ Free(u)
       \/ db'[u].claim_tx_pending # NULL
    /\ (InDoubt(u) \/ db[u].claimed_at # NULL) /\ ~Free(u)
          => InDoubt(u)' \/ db'[u].claimed_at # NULL
    /\ \/ db'[u].claimed_at # NULL \/ db'[u].locked
       \/ db'[u].last_error_code # "CLAIM_TX_TIMEOUT"
       \/ db'[u].claim_tx_pending # NULL

LEMMA RowsKept ==
    ASSUME TypeInv, BlockInv, TrackInv, \A u \in Uuids : RowKept(u),
           UNCHANGED reaper
    PROVE  VerdictInv' /\ BlockTracked' /\ TimeoutIsTracked'
<1>1. \A r \in Reapers : \A u \in reaper[r].landed : u \in Uuids /\ ~Free(u)
  BY ReaperTypes DEF Free
<1>2. \A r \in Reapers : reaper[r].todo \in SUBSET Uuids
  BY ReaperTypes
<1>3. VerdictInv'
  BY <1>1, <1>2 DEF RowKept, TrackInv, VerdictInv, In
<1>4. \A u \in Uuids : db[u].reconcile_block_number # NULL => ~Free(u)
  BY DEF BlockInv, BlockIsExternal, Free
<1>5. BlockTracked'
  BY <1>4 DEF RowKept, TrackInv, BlockTracked
<1>6. TimeoutIsTracked'
  BY DEF RowKept, TimeoutIsTracked
<1> QED BY <1>3, <1>5, <1>6

LEMMA IdleHandOK ==
    ASSUME NEW c \in Claimers, At(c, "idle"), run[c].mode = "default"
    PROVE  HandOK(c)
BY DEF HandOK, Holds, Unrecorded, At

\* The rows default runs pick up are nobody else's.
LEMMA PickedFree ==
    ASSUME TypeInv, BlockInv, TrackInv, NEW c \in Claimers, NEW u \in Picked(c)
    PROVE  /\ u \in Uuids /\ Free(u)
           /\ db[u].claimed_at = NULL /\ ~db[u].locked /\ db[u].signed
           /\ db[u].last_error_code = NULL
<1>1. run[c].mode = "default"
  BY DEF TrackInv, HandInv, HandOK
<1>2. /\ u \in Uuids /\ db[u].claimed_at = NULL /\ ~db[u].locked
      /\ db[u].signed /\ db[u].last_error_code = NULL
  BY <1>1 DEF Picked, Oldest, unclaimed
<1>3. ~InDoubt(u)
  BY <1>2, StoreAssumption DEF InDoubt, ALL_CODES, CLAIM_CODES
<1>4. Free(u)
  BY <1>2, <1>3, StoreAssumption
     DEF Free, BlockInv, RowConsistent, TrackInv, VerdictInv
<1> QED BY <1>2, <1>4

LEMMA UnchangedRowKept ==
    ASSUME TrackInv, NEW u \in Uuids, db'[u] = db[u]
    PROVE  RowKept(u)
BY DEF RowKept, InDoubt, TrackInv, TimeoutIsTracked

LEMMA RunStepTracks ==
    ASSUME TypeInv, BlockInv, TrackInv, Modes \subseteq {"default"},
           NEW c \in Claimers, AcquireLock(c) \/ RunStep(c), UNCHANGED reaper
    PROVE  HandOK(c)' /\ \A u \in Uuids : RowKept(u)
<1>h. HandOK(c)
  BY DEF TrackInv, HandInv
<1>r. /\ db \in Table /\ run[c].batch \in SUBSET Uuids
      /\ run[c].todo \in SUBSET Uuids
  BY RunTypes
<1>k. UNCHANGED db => \A u \in Uuids : RowKept(u)
  BY UnchangedRowKept
<1>f. UNCHANGED db => \A u \in Uuids : Free(u)' <=> Free(u)
  BY DEF Free, InDoubt
\* Steps that write no row.
<1>1. CASE AcquireLock(c) \/ ReleaseLock(c)
  <2>1. /\ UNCHANGED db /\ run'[c].mode = "default" /\ run'[c].batch = {}
        /\ run'[c].todo = {} /\ run'[c].pc \in {"reconcile", "idle"}
    <3>1. CASE AcquireLock(c)
      BY <3>1, AcquireLockMoves
    <3>2. CASE ReleaseLock(c)
      BY <3>2, ReleaseLockMoves DEF Idle
    <3> QED BY <1>1, <3>1, <3>2
  <2> QED BY <1>k, <2>1 DEF HandOK, Holds, Unrecorded
<1>2. CASE ReconcileCheck(c) \/ NoMoreBatches(c) \/ BuildRaises(c)
  <2>1. /\ UNCHANGED db /\ run'[c].mode = run[c].mode
        /\ run'[c].pc \in {"next", "external", "stop"}
    BY <1>2, ReconcileCheckMoves, NoMoreBatchesMoves, BuildRaisesMoves
       DEF Stepped, Left, Moved
  <2> QED BY <1>h, <1>k, <2>1 DEF HandOK, Holds, Unrecorded
<1>3. CASE NextBatch(c)
  <2> DEFINE batch == Picked(c) \ run[c].seen
             bad   == Dropped(batch)
  <2>1. /\ UNCHANGED db /\ run'[c].mode = run[c].mode
        /\ run'[c].batch = batch \ bad /\ run'[c].todo = bad
        /\ run'[c].pc \in {"drop", "build"}
    BY <1>3, NextBatchMoves DEF Moved
  <2>2. bad \subseteq batch /\ batch \subseteq Picked(c)
    BY DEF Dropped
  <2> HIDE DEF batch, bad
  <2> QED BY <1>h, <1>k, <1>f, <2>1, <2>2, PickedFree
         DEF HandOK, Holds, Unrecorded
<1>4. CASE BuildTx(c)
  <2>1. /\ UNCHANGED db /\ run'[c].mode = run[c].mode /\ At(c, "build")
        /\ run'[c].batch = run[c].batch /\ run'[c].pc = "pending"
    BY <1>4, BuildTxMoves DEF Moved
  <2> QED BY <1>h, <1>k, <1>f, <2>1 DEF HandOK, Holds, Unrecorded, At
<1>5. CASE \/ BroadcastAccepted(c) \/ BroadcastNoFunds(c) \/ BroadcastFails(c)
           \/ WaitConfirmed(c) \/ WaitReverted(c) \/ WaitTimesOut(c)
  <2>1. /\ UNCHANGED db /\ run'[c].mode = run[c].mode
        /\ At(c, "broadcast") \/ At(c, "wait")
        /\ run'[c].batch = run[c].batch /\ run'[c].pc \in {"wait", "record"}
        /\ run'[c].tx = run[c].tx
    BY <1>5, BroadcastMoves, WaitMoves DEF Stepped, Moved
  <2> QED BY <1>h, <1>k, <1>f, <2>1 DEF HandOK, Holds, Unrecorded, At
\* Steps that write rows.
<1>6. CASE ReconcileMark(c)
  <2>1. /\ db' = mark_claimed(db, run[c].todo, External)
        /\ run'[c].mode = run[c].mode /\ run'[c].pc = "next"
    BY <1>6, ReconcileMarkMoves DEF Stepped, Moved
  <2>2. HandOK(c)'
    BY <1>h, <2>1 DEF HandOK, Holds, Unrecorded
  <2>3. ASSUME NEW u \in Uuids
        PROVE  RowKept(u)
    BY <1>r, <2>1, MarkClaimedRow, UnchangedRowKept, StoreAssumption
       DEF RowKept, InDoubt, SameFlight
  <2> QED BY <2>2, <2>3
<1>7. CASE DropCorrupt(c)
  <2>1. /\ db' = mark_claim_failed(db, First(run[c].todo), "SIGN_VERIFY_FAILED")
        /\ run'[c].mode = run[c].mode /\ run'[c].pc = "lock" /\ At(c, "drop")
        /\ run'[c].batch = run[c].batch /\ run'[c].todo = run[c].todo
    BY <1>7, DropCorruptMoves DEF Stepped, Moved
  <2>2. First(run[c].todo) \subseteq run[c].todo
    BY DEF First, Oldest
  <2>3. ASSUME NEW u \in Uuids
        PROVE  \/ db'[u] = db[u]
               \/ /\ u \in run[c].todo /\ u \notin run[c].batch /\ Free(u)
                  /\ db'[u].last_error_code = "SIGN_VERIFY_FAILED"
                  /\ SameClaim(db'[u], db[u]) /\ SameFlight(db'[u], db[u])
    BY <1>h, <1>r, <2>1, <2>2, MarkClaimFailedRow DEF HandOK, Holds, At
  <2>4. HandOK(c)'
    <3>1. \A u \in Uuids : Free(u) => Free(u)'
      BY <2>3 DEF Free, InDoubt, SameClaim
    <3>2. \A u \in run[c].batch : db'[u] = db[u]
      BY <1>r, <2>3
    <3> QED BY <1>h, <2>1, <3>1, <3>2 DEF HandOK, Holds, Unrecorded, At
  <2>5. ASSUME NEW u \in Uuids
        PROVE  RowKept(u)
    BY <2>3, UnchangedRowKept DEF RowKept, SameFlight
  <2> QED BY <2>4, <2>5
<1>8. CASE LockCorrupt(c)
  <2>1. PICK v \in run[c].todo, pc \in {"drop", "next", "build"} :
           /\ v \in Uuids /\ db' = lock(db, v) /\ At(c, "lock")
           /\ run'[c].mode = run[c].mode /\ run'[c].pc = pc
           /\ run'[c].batch = run[c].batch /\ run'[c].todo = run[c].todo \ {v}
    BY <1>8, LockCorruptMoves DEF Stepped, Moved
  <2>2. v \notin run[c].batch /\ Free(v)
    BY <1>h, <2>1 DEF HandOK, Holds, At
  <2>3. ASSUME NEW u \in Uuids
        PROVE  \/ db'[u] = db[u]
               \/ /\ u = v /\ db'[u].locked
                  /\ db'[u].last_error_code = db[u].last_error_code
                  /\ SameClaim(db'[u], db[u]) /\ SameFlight(db'[u], db[u])
    BY <1>r, <2>1, LockRow
  <2>4. HandOK(c)'
    <3>1. \A u \in Uuids : Free(u) => Free(u)'
      BY <2>2, <2>3 DEF Free, InDoubt, SameClaim
    <3>2. \A u \in run[c].batch : db'[u] = db[u]
      BY <1>r, <2>2, <2>3
    <3> QED BY <1>h, <2>1, <3>1, <3>2 DEF HandOK, Holds, Unrecorded, At
  <2>5. ASSUME NEW u \in Uuids
        PROVE  RowKept(u)
    BY <2>2, <2>3, UnchangedRowKept DEF RowKept, SameFlight
  <2> QED BY <2>4, <2>5
<1>9. CASE BuildUnreachable(c)
  <2>1. /\ db' = mark_claim_failed(db, run[c].batch, "CLAIM_RPC_UNREACHABLE")
        /\ run'[c].mode = run[c].mode /\ run'[c].pc = "stop" /\ At(c, "build")
    BY <1>9, BuildUnreachableMoves DEF Left, Moved
  <2>2. HandOK(c)'
    BY <1>h, <2>1 DEF HandOK, Holds, Unrecorded
  <2>3. ASSUME NEW u \in Uuids
        PROVE  RowKept(u)
    BY <1>h, <1>r, <2>1, MarkClaimFailedRow, UnchangedRowKept
       DEF RowKept, HandOK, Holds, Unrecorded, At, SameFlight
  <2> QED BY <2>2, <2>3
<1>10. CASE SetPending(c)
  <2>1. /\ db' = set_claim_tx_pending(db, run[c].batch, run[c].tx)
        /\ run[c].tx \in ClaimTx /\ run[c].tx # NULL /\ At(c, "pending")
        /\ run'[c].mode = run[c].mode /\ run'[c].pc = "broadcast"
        /\ run'[c].batch = run[c].batch /\ run'[c].tx = run[c].tx
    BY <1>10, SetPendingMoves, StoreAssumption DEF Stepped, Moved
  <2>2. ASSUME NEW u \in Uuids
        PROVE  /\ SameClaim(db'[u], db[u]) /\ db'[u].locked = db[u].locked
               /\ db'[u].last_error_code = db[u].last_error_code
               /\ db'[u].reconcile_block_number = db[u].reconcile_block_number
               /\ db[u].claim_tx_pending # NULL => db'[u].claim_tx_pending # NULL
               /\ u \in run[c].batch => db'[u].claim_tx_pending = run[c].tx
    BY <1>h, <1>r, <2>1, SetPendingRow
       DEF HandOK, Unrecorded, At, SameClaim, SameBudget
  <2>3. HandOK(c)'
    BY <1>h, <1>r, <2>1, <2>2
       DEF HandOK, Holds, Unrecorded, At, Free, InDoubt, SameClaim
  <2>4. ASSUME NEW u \in Uuids
        PROVE  RowKept(u)
    BY <2>2 DEF RowKept, InDoubt, SameClaim, TrackInv, TimeoutIsTracked
  <2> QED BY <2>3, <2>4
<1>11. CASE RecordResult(c)
  <2>1. At(c, "record") /\ run[c].tx # External /\ run[c].tx # NULL
    BY <1>11, RecordResultMoves, StoreAssumption
  <2>2. \A u \in run[c].batch :
           /\ u \in Uuids /\ Free(u) /\ db[u].claimed_at = NULL /\ ~db[u].locked
           /\ db[u].claim_tx_pending # NULL
    BY <1>h, <1>r, <2>1, StoreAssumption DEF HandOK, Holds, Unrecorded, At
  <2>3. CASE run[c].result = "OK"
    <3>1. /\ db' = mark_claimed(db, run[c].batch, run[c].tx)
          /\ run'[c].mode = run[c].mode /\ run'[c].pc = "clear"
          /\ run'[c].todo = run[c].batch
      BY <1>11, <2>3, RecordResultMoves DEF Stepped, Moved
    <3>2. ASSUME NEW u \in Uuids
          PROVE  \/ db'[u] = db[u] /\ u \notin run[c].batch
                 \/ /\ u \in run[c].batch
                    /\ db'[u].claimed_at = "recent"
                    /\ db'[u].claim_tx_hash = run[c].tx
                    /\ db'[u].last_error_code = NULL
                    /\ SameFlight(db'[u], db[u])
      BY <1>r, <2>2, <3>1, MarkClaimedRow
    <3>3. HandOK(c)'
      BY <1>h, <2>1, <2>2, <3>1, <3>2, StoreAssumption
         DEF HandOK, Holds, Unrecorded, Free, InDoubt, ALL_CODES, CLAIM_CODES
    <3>4. ASSUME NEW u \in Uuids
          PROVE  RowKept(u)
      BY <3>2, UnchangedRowKept, StoreAssumption DEF RowKept, SameFlight
    <3> QED BY <3>3, <3>4
  <2>4. CASE run[c].result # "OK"
    <3>1. /\ db' = mark_claim_failed(db, run[c].batch, run[c].result)
          /\ run'[c].mode = run[c].mode /\ run'[c].pc \in {"clear", "next", "stop"}
          /\ run'[c].pc = "clear" =>
                /\ run'[c].todo = run[c].batch
                /\ run[c].result \in {"CLAIM_REVERTED", "CLAIM_INSUFFICIENT_GAS"}
      BY <1>11, <2>4, RecordResultMoves DEF Stepped, Left, Moved
    <3>2. ASSUME NEW u \in Uuids
          PROVE  \/ db'[u] = db[u] /\ u \notin run[c].batch
                 \/ /\ u \in run[c].batch
                    /\ db'[u].last_error_code = run[c].result
                    /\ SameClaim(db'[u], db[u]) /\ SameFlight(db'[u], db[u])
      BY <1>r, <2>2, <3>1, MarkClaimFailedRow
    <3>3. HandOK(c)'
      BY <1>h, <2>2, <3>1, <3>2
         DEF HandOK, Holds, Unrecorded, Free, InDoubt, SameClaim
    <3>4. ASSUME NEW u \in Uuids
          PROVE  RowKept(u)
      BY <2>2, <3>2, UnchangedRowKept DEF RowKept, SameFlight
    <3> QED BY <3>3, <3>4
  <2> QED BY <2>3, <2>4
<1>12. CASE ClearPending(c)
  <2>1. PICK v \in run[c].todo :
           /\ v \in Uuids /\ db' = clear_claim_tx_pending(db, v) /\ At(c, "clear")
           /\ run'[c].mode = run[c].mode /\ run'[c].pc \in {"clear", "next", "stop"}
           /\ run'[c].pc = "clear" => run'[c].todo = run[c].todo \ {v}
    BY <1>12, ClearPendingMoves DEF Stepped, Left, Moved
  <2>2. Free(v)
    BY <1>h, <2>1 DEF HandOK, Holds, At
  <2>3. ASSUME NEW u \in Uuids
        PROVE  /\ SameClaim(db'[u], db[u])
               /\ db'[u].last_error_code = db[u].last_error_code
               /\ db'[u].reconcile_block_number = db[u].reconcile_block_number
               /\ u # v => db'[u] = db[u]
    BY <1>r, <2>1, ClearPendingRow DEF SameClaim
  <2>4. HandOK(c)'
    BY <1>h, <1>r, <2>1, <2>3
       DEF HandOK, Holds, Unrecorded, At, Free, InDoubt, SameClaim
  <2>5. ASSUME NEW u \in Uuids
        PROVE  RowKept(u)
    BY <2>2, <2>3, UnchangedRowKept DEF RowKept, InDoubt, Free
  <2> QED BY <2>4, <2>5
<1> QED BY <1>1, <1>2, <1>3, <1>4, <1>5, <1>6, <1>7, <1>8, <1>9, <1>10,
           <1>11, <1>12 DEF RunStep

\* What the rows in hand need of everybody else's steps.
FreeKept(u) ==
    Free(u) =>
        /\ Free(u)'
        /\ db[u].claimed_at = NULL /\ ~db[u].locked
              => db'[u].claimed_at = NULL /\ ~db'[u].locked
        /\ db'[u].claim_tx_pending = db[u].claim_tx_pending

LEMMA HandsKept ==
    ASSUME TypeInv, TrackInv, \A u \in Uuids : FreeKept(u),
           \A c \in Claimers : run'[c] = run[c] \/ run'[c] = Idle
    PROVE  HandInv'
<1> SUFFICES ASSUME NEW c \in Claimers PROVE HandOK(c)'
  BY DEF HandInv
<1>1. CASE run'[c] = Idle
  BY <1>1 DEF HandOK, Holds, Unrecorded, Idle
<1>2. CASE run'[c] = run[c]
  <2>1. HandOK(c) /\ run[c].batch \in SUBSET Uuids
    BY RunTypes DEF TrackInv, HandInv
  <2>2. \A u \in Uuids : Holds(run[c], u) => Free(u)' /\ FreeKept(u)
    BY <2>1 DEF HandOK, FreeKept
  <2>3. {"broadcast", "wait", "record"} \subseteq Unrecorded
    BY DEF Unrecorded
  <2> QED BY <1>2, <2>1, <2>2, <2>3 DEF HandOK, Holds, FreeKept
<1> QED BY <1>1, <1>2

LEMMA ReaperStepTracks ==
    ASSUME OneReaper, TypeInv, BlockInv, TrackInv,
           NEW r \in Reapers, ReaperStep(r)
    PROVE  /\ \A u \in Uuids : FreeKept(u)
           /\ VerdictInv' /\ BlockTracked' /\ TimeoutIsTracked'
<1>o. \A q \in Reapers : q = r
  BY DEF OneReaper
<1>r. /\ db \in Table
      /\ reaper[r].landed \in SUBSET Uuids /\ reaper[r].todo \in SUBSET Uuids
  BY ReaperTypes
<1>v. /\ reaper[r].pc # "landed" => reaper[r].landed = {}
      /\ \A u \in reaper[r].landed :
            /\ db[u].claim_tx_pending # NULL
            /\ InDoubt(u) \/ db[u].claimed_at # NULL
      /\ reaper[r].pc = "flipped" =>
            \A u \in reaper[r].todo : db[u].reconcile_block_number # NULL
  BY DEF TrackInv, VerdictInv, In
<1>t. BlockTracked /\ TimeoutIsTracked
  BY DEF TrackInv
\* A step that leaves the breadcrumbs and drops its landed rows.
<1>k. ASSUME \A u \in Uuids : db'[u].claim_tx_pending = db[u].claim_tx_pending,
             \A u \in Uuids : \/ db'[u].reconcile_block_number = NULL
                              \/ db[u].claim_tx_pending # NULL
                              \/ db[u].reconcile_block_number # NULL,
             \A u \in Uuids : \/ db'[u].last_error_code # "CLAIM_TX_TIMEOUT"
                              \/ db'[u].claimed_at # NULL \/ db'[u].locked
                              \/ db[u].claim_tx_pending # NULL
      PROVE  BlockTracked' /\ TimeoutIsTracked'
  BY <1>k, <1>t DEF BlockTracked, TimeoutIsTracked
<1>q. UNCHANGED db => BlockTracked' /\ TimeoutIsTracked'
  BY <1>t DEF BlockTracked, TimeoutIsTracked
<1>1. CASE CheckTimeouts(r)
  <2>1. /\ UNCHANGED db /\ reaper'[r].pc \in {"landed", "dropped", "finality"}
        /\ reaper'[r].pc # "landed" => reaper'[r].landed = {}
        /\ reaper'[r].landed \subseteq list_timed_out_claims(db)
    BY <1>1, CheckTimeoutsTicks DEF Ticked
  <2>2. \A u \in list_timed_out_claims(db) : InDoubt(u) /\ db[u].claim_tx_pending # NULL
    BY DEF list_timed_out_claims, InDoubt
  <2>3. \A u \in Uuids : FreeKept(u)
    BY <1>o, <2>1, <2>2 DEF FreeKept, Free, InDoubt
  <2>4. VerdictInv'
    BY <1>o, <2>1, <2>2 DEF VerdictInv, In, InDoubt
  <2> QED BY <1>q, <2>1, <2>3, <2>4
<1>2. CASE CheckReorgs(r)
  <2>1. /\ UNCHANGED db /\ reaper'[r].pc \in {"reverted", "timeouts"}
        /\ reaper'[r].landed = {}
    BY <1>2, <1>v, CheckReorgsTicks DEF Ticked, In
  <2>2. \A u \in Uuids : FreeKept(u)
    BY <1>o, <2>1 DEF FreeKept, Free, InDoubt
  <2>3. VerdictInv'
    BY <1>o, <2>1 DEF VerdictInv, In
  <2> QED BY <1>q, <2>1, <2>2, <2>3
<1>3. CASE CheckFinality(r)
  <2>1. /\ UNCHANGED db /\ reaper'[r].pc \in {"flipped", "reorgs"}
        /\ reaper'[r].landed = {} /\ reaper'[r].todo \subseteq Flipped
    BY <1>3, <1>v, CheckFinalityTicks DEF Ticked, In
  <2>2. \A u \in Uuids : FreeKept(u)
    BY <1>o, <2>1 DEF FreeKept, Free, InDoubt
  <2>3. VerdictInv'
    BY <1>o, <2>1 DEF VerdictInv, In, Flipped, list_pending_external_unfinalized
  <2> QED BY <1>q, <2>1, <2>2, <2>3
<1>4. CASE MarkLanded(r)
  <2>1. /\ reaper'[r].pc \in {"dropped", "finality"} /\ reaper'[r].landed = {}
    BY <1>4, MarkLandedTicks DEF Ticked
  <2>2. ASSUME NEW u \in Uuids
        PROVE  /\ db'[u].claim_tx_pending = db[u].claim_tx_pending
               /\ \/ db'[u] = db[u] \/ u \in reaper[r].landed
               /\ \/ db'[u] = db[u] \/ db'[u].claimed_at # NULL
    BY <1>4, <1>r, MarkLandedTicks, MarkClaimedRow, MarkExternalRow,
       StoreAssumption DEF SameFlight
  <2>3. \A u \in Uuids : FreeKept(u)
    BY <1>o, <2>1, <2>2 DEF FreeKept, Free, InDoubt
  <2>4. VerdictInv'
    BY <1>o, <2>1 DEF VerdictInv, In
  <2> QED BY <1>k, <1>t, <1>v, <2>2, <2>3, <2>4 DEF TimeoutIsTracked
<1>5. CASE ClearDropped(r)
  <2>1. PICK v \in Uuids : db' = clear_error(db, v)
    BY <1>5, ClearDroppedTicks
  <2>2. /\ reaper'[r].pc \in {"dropped", "finality"} /\ reaper'[r].landed = {}
    BY <1>5, <1>v, ClearDroppedTicks DEF Ticked, In
  <2>3. ASSUME NEW u \in Uuids
        PROVE  /\ SameClaim(db'[u], db[u]) /\ SameFlight(db'[u], db[u])
               /\ SameBudget(db'[u], db[u])
               /\ db'[u].last_error_code \in {db[u].last_error_code, NULL}
    BY <1>r, <2>1, ClearErrorRow DEF SameClaim, SameFlight, SameBudget
  <2>4. \A u \in Uuids : FreeKept(u)
    BY <1>o, <2>2, <2>3, StoreAssumption
       DEF FreeKept, Free, InDoubt, SameClaim, SameFlight, SameBudget,
           ALL_CODES, CLAIM_CODES
  <2>5. VerdictInv'
    BY <1>o, <2>2 DEF VerdictInv, In
  <2>6. BlockTracked' /\ TimeoutIsTracked'
    BY <1>t, <2>3, StoreAssumption
       DEF BlockTracked, TimeoutIsTracked, SameClaim, SameFlight, SameBudget,
           ALL_CODES, CLAIM_CODES
  <2> QED BY <2>4, <2>5, <2>6
<1>6. CASE RevertFlipped(r)
  <2>1. PICK v \in Uuids :
           /\ v \in reaper[r].todo /\ db' = revert_external_mark(db, v)
           /\ reaper'[r].pc \in {"flipped", "reorgs"} /\ reaper'[r].landed = {}
           /\ reaper'[r].todo = reaper[r].todo \ {v}
           /\ reaper[r].pc = "flipped"
    BY <1>6, <1>v, RevertFlippedTicks DEF Ticked, In
  <2>2. db[v].claim_tx_pending # NULL
    BY <1>t, <1>v, <2>1 DEF BlockTracked
  <2>3. ASSUME NEW u \in Uuids
        PROVE  \/ db'[u] = db[u]
               \/ /\ u = v /\ db[u].claim_tx_hash = External
                  /\ db'[u].reconcile_block_number = NULL
                  /\ db'[u].claim_tx_pending = db[u].claim_tx_pending
    BY <1>r, <2>1, RevertMarkRow
  <2>4. \A u \in Uuids : FreeKept(u)
    BY <1>o, <2>1, <2>3 DEF FreeKept, Free, InDoubt
  <2>5. VerdictInv'
    BY <1>o, <1>r, <1>v, <2>1, <2>3 DEF VerdictInv, In
  <2>6. BlockTracked' /\ TimeoutIsTracked'
    BY <1>t, <2>2, <2>3 DEF BlockTracked, TimeoutIsTracked
  <2> QED BY <2>4, <2>5, <2>6
<1>7. CASE RevertUnused(r)
  <2>1. PICK v \in Uuids : db' = revert_claimed(db, v)
    BY <1>7, RevertUnusedTicks
  <2>2. /\ reaper'[r].pc \in {"reverted", "timeouts"} /\ reaper'[r].landed = {}
    BY <1>7, <1>v, RevertUnusedTicks DEF Ticked, In
  <2>3. ASSUME NEW u \in Uuids
        PROVE  \/ db'[u] = db[u]
               \/ /\ db'[u].claimed_at = NULL /\ db'[u].claim_tx_hash = NULL
                  /\ db'[u].last_error_code = NULL
                  /\ SameFlight(db'[u], db[u]) /\ SameBudget(db'[u], db[u])
    BY <1>r, <2>1, RevertClaimedRow
  <2>4. \A u \in Uuids : FreeKept(u)
    BY <1>o, <2>2, <2>3, StoreAssumption
       DEF FreeKept, Free, InDoubt, SameFlight, SameBudget, ALL_CODES, CLAIM_CODES
  <2>5. VerdictInv'
    BY <1>o, <2>2 DEF VerdictInv, In
  <2>6. BlockTracked' /\ TimeoutIsTracked'
    BY <1>t, <2>3, StoreAssumption
       DEF BlockTracked, TimeoutIsTracked, SameFlight, ALL_CODES, CLAIM_CODES
  <2> QED BY <2>4, <2>5, <2>6
<1> QED BY <1>1, <1>2, <1>3, <1>4, <1>5, <1>6, <1>7 DEF ReaperStep

LEMMA AgingTracks ==
    ASSUME TypeInv, TrackInv, NEW v \in Uuids,
           PollerSigns(v) \/ AttemptAges(v) \/ ClaimAges(v)
    PROVE  \A u \in Uuids : RowKept(u) /\ FreeKept(u)
<1>1. UNCHANGED reaper
  BY DEF PollerSigns, AttemptAges, ClaimAges
<1>2. ASSUME NEW u \in Uuids
      PROVE  RowKept(u)
  BY AgingRows DEF RowKept, SameFlight, SameBudget, InDoubt, TrackInv,
     TimeoutIsTracked
<1>3. ASSUME NEW u \in Uuids
      PROVE  FreeKept(u)
  BY <1>1, AgingRows DEF FreeKept, Free, InDoubt, SameFlight, SameBudget
<1> QED BY <1>2, <1>3

LEMMA StepTracks ==
    ASSUME Undisturbed
    PROVE  TypeInv /\ ClaimMutex /\ BlockInv /\ TrackInv /\ [Next]_vars
              => TrackInv'
<1> SUFFICES ASSUME TypeInv, ClaimMutex, BlockInv, TrackInv, [Next]_vars
             PROVE  TrackInv'
  OBVIOUS
<1>u. OneReaper /\ Modes \subseteq {"default"} /\ MaxDaemonCrashes = 0
  BY DEF Undisturbed
<1>k. UNCHANGED db => \A u \in Uuids : RowKept(u)
  BY UnchangedRowKept
<1>f. UNCHANGED <<db, reaper>> => \A u \in Uuids : FreeKept(u)
  BY DEF FreeKept, Free, InDoubt
<1>1. ASSUME NEW u \in Uuids, PollerSigns(u) \/ AttemptAges(u) \/ ClaimAges(u)
      PROVE  TrackInv'
  <2>1. UNCHANGED <<run, reaper, inflight>>
    BY <1>1 DEF PollerSigns, AttemptAges, ClaimAges
  <2> QED BY <1>1, <2>1, AgingTracks, RowsKept, HandsKept DEF TrackInv
<1>2. ASSUME NEW c \in Claimers, Claim(c)
      PROVE  TrackInv'
  <2>1. UNCHANGED <<reaper, inflight>> /\ (AcquireLock(c) \/ RunStep(c))
    BY <1>2 DEF Claim
  <2>2. HandOK(c)' /\ \A u \in Uuids : RowKept(u)
    BY <1>u, <2>1, RunStepTracks
  <2>3. ASSUME NEW d \in Claimers, d # c
        PROVE  HandOK(d)'
    <3>1. run'[d] = run[d] /\ run[d].pc = "idle" /\ HandOK(d)
      BY <2>1, <2>3, OthersIdle DEF At, TrackInv, HandInv
    <3> QED BY <3>1 DEF HandOK, Holds, Unrecorded
  <2>4. HandInv'
    BY <2>2, <2>3 DEF HandInv
  <2> QED BY <2>1, <2>2, <2>4, RowsKept DEF TrackInv
<1>3. ASSUME NEW r \in Reapers, Reap(r)
      PROVE  TrackInv'
  <2>1. UNCHANGED <<run, inflight>> /\ ReaperStep(r)
    BY <1>3 DEF Reap
  <2> QED BY <1>u, <2>1, ReaperStepTracks, HandsKept DEF TrackInv
<1>4. ASSUME NEW c \in Claimers, CliCrash(c)
      PROVE  TrackInv'
  <2>1. /\ UNCHANGED <<db, reaper, inflight>>
        /\ \A d \in Claimers : run'[d] = run[d] \/ run'[d] = Idle
    BY <1>4, RunTypes DEF CliCrash, KillRun, Proceed
  <2> QED BY <1>f, <1>k, <2>1, RowsKept, HandsKept DEF TrackInv
<1>5. CASE UNCHANGED <<db, run, reaper, inflight>>
  BY <1>f, <1>k, <1>5, RowsKept, HandsKept DEF TrackInv
<1>6. ~Reconcile
  BY DEF Reconcile, InflightStep, InflightCheck, InflightMark,
     InflightClearLanded, InflightClearUnused, InflightResetAttempts, TrackInv
<1>7. ~DaemonCrash
  BY <1>u DEF DaemonCrash, TypeInv, TypeOK
<1> QED BY <1>1, <1>2, <1>3, <1>4, <1>5, <1>6, <1>7 DEF Next, Chain, vars

LEMMA InitTracks == Init => TrackInv
<1> SUFFICES ASSUME Init PROVE TrackInv
  OBVIOUS
<1>1. ASSUME NEW kind \in StartRows
      PROVE  LET row == StartRow(kind) IN
             /\ row.reconcile_block_number = NULL
             /\ row.last_error_code # "CLAIM_TX_TIMEOUT"
  BY SystemAssumption, StoreAssumption
     DEF StartRow, PendingRow, NoRow, ALL_CODES, CLAIM_CODES
<1>2. HandInv
  BY DEF Init, SettlementInit, Idle, HandInv, HandOK, Holds, Unrecorded
<1>3. VerdictInv
  BY DEF Init, ReaperInit, NewTick, VerdictInv, In
<1>4. BlockTracked /\ TimeoutIsTracked
  BY <1>1 DEF Init, BlockTracked, TimeoutIsTracked
<1>5. inflight.pc = "done"
  BY DEF Init, Pass
<1> QED BY <1>2, <1>3, <1>4, <1>5 DEF TrackInv

\* With one reaper, default claim runs and a daemon that stays up, a row
\* parked as CLAIM_TX_TIMEOUT has the breadcrumb the reaper finds it by:
\* however many runs follow each other, whichever CLI process is killed at
\* whatever point, whatever the chain executes, skips or takes back, and
\* however stale the reaper's verdicts are when it writes them
\* (clear_claim_tx_pending, list_timed_out_claims, revert_external_mark).
THEOREM TimeoutsAreTracked ==
    ASSUME Undisturbed
    PROVE  Spec => []TimeoutIsTracked
<1>1. TypeInv /\ BlockInv /\ [Next]_vars => BlockInv'
  BY StepBlock DEF Undisturbed
<1>2. TypeInv /\ ClaimMutex /\ BlockInv /\ TrackInv /\ [Next]_vars => TrackInv'
  BY StepTracks
<1>3. TrackInv => TimeoutIsTracked
  BY DEF TrackInv
<1> QED BY <1>1, <1>2, <1>3, InitType, StepType, InitMutex, StepMutex,
           InitBlock, InitTracks, PTL DEF Spec

\* Whenever a CLI run is killed with a transaction that may be on its way,
\* each receipt of it is left with that transaction's hash as its breadcrumb:
\* not with none, nor with the hash of an earlier attempt.  With one reaper,
\* default runs and a daemon that stays up this holds for any number of runs
\* and kills, for a contract that skips, for a chain that is reorganised and
\* for a mempool that keeps a transaction for ever (_submit_batch: SetPending
\* before the broadcast, ClearPending only after the record).
THEOREM KillsLeaveBreadcrumb ==
    ASSUME Undisturbed
    PROVE  Spec => KillLeavesBreadcrumb
<1>1. TypeInv /\ BlockInv /\ [Next]_vars => BlockInv'
  BY StepBlock DEF Undisturbed
<1>2. TypeInv /\ ClaimMutex /\ BlockInv /\ TrackInv /\ [Next]_vars => TrackInv'
  BY StepTracks
<1>3. ASSUME TypeInv, TrackInv, NEW c \in Claimers, CliCrash(c),
             run[c].pc \in {"broadcast", "wait", "record"},
             NEW u \in run[c].batch
      PROVE  /\ db'[u].claim_tx_pending = run[c].tx
             /\ db'[u].claimed_at = NULL /\ ~db'[u].locked
  <2>1. HandOK(c) /\ db' = db
    BY <1>3 DEF TrackInv, HandInv, CliCrash
  <2> QED BY <1>3, <2>1 DEF HandOK, Unrecorded
<1>4. TypeInv /\ TrackInv /\ [Next]_vars =>
         [\A c \in Claimers :
            CliCrash(c) /\ run[c].pc \in {"broadcast", "wait", "record"} =>
               \A u \in run[c].batch :
                  /\ db'[u].claim_tx_pending = run[c].tx
                  /\ db'[u].claimed_at = NULL /\ ~db'[u].locked]_vars
  BY <1>3
<1> QED BY <1>1, <1>2, <1>4, InitType, StepType, InitMutex, StepMutex,
           InitBlock, InitTracks, PTL DEF Spec, KillLeavesBreadcrumb

-----------------------------------------------------------------------------
(* No receipt is submitted twice, and none is paid for twice.  On top of   *)
(* the above, the invariant says for every transaction that is or was in   *)
(* the mempool who knows about each of its receipts: the store, which      *)
(* calls it claimed; the run that waits for the transaction; or the        *)
(* reaper, which finds the row in doubt with its breadcrumb.               *)

Settling == Undisturbed /\ ~MaySkip /\ MaxReorgs = 0 /\ MaxCliCrashes = 0 /\ MempoolBounded

\* c has broadcast tx and will write down what became of it.
Awaits(c, tx) ==
    /\ run[c].tx = tx
    /\ \/ At(c, "wait")
       \/ At(c, "record") /\ run[c].result # "CLAIM_INSUFFICIENT_GAS"

AwaitsFor(tx, u) == \E c \in Claimers : Awaits(c, tx) /\ u \in run[c].batch

Tracked(u) == InDoubt(u) /\ db[u].claim_tx_pending # NULL

Covered(tx, u) ==
    db[u].claimed_at # NULL \/ AwaitsFor(tx, u) \/ Tracked(u)

\* ... and the grace period of the attempt has not passed.
CoveredLately(tx, u) ==
    \/ db[u].claimed_at # NULL \/ AwaitsFor(tx, u)
    \/ Tracked(u) /\ db[u].last_attempt_at = "recent"

Nonces ==
    /\ \A t \in mempool : t.nonce = txCount
    /\ \A m \in mined : m.tx.nonce < txCount /\ (~m.ok => m.paid = {})
    /\ \A m, n \in mined : m.tx.nonce = n.tx.nonce => m = n

MempoolCovered == \A t \in mempool : \A u \in t.batch : CoveredLately(t, u)

PaidCovered == \A m \in mined : \A u \in m.paid : Covered(m.tx, u)

Unpaid(u) == \A m \in mined : u \notin m.paid

MempoolUnpaid == \A t \in mempool : \A u \in t.batch : Unpaid(u)

\* What the reaper is about to put back into the queue was not paid.
DroppedUnpaid ==
    \A r \in Reapers : In(r, "landed") \/ In(r, "dropped") =>
        \A u \in reaper[r].todo :
            \/ db[u].claimed_at # NULL
            \/ InDoubt(u) /\ db[u].last_attempt_at = "old" /\ Unpaid(u)

RevertsExecuted ==
    \A c \in Claimers : At(c, "record") /\ run[c].result = "CLAIM_REVERTED"
        => Executed(run[c].tx, FALSE)

\* The passes for reorganisations find nothing.
NothingTakenBack == \A r \in Reapers : ~In(r, "flipped") /\ ~In(r, "reverted")

\* The contract has paid whatever it accepted.
NothingDisputed == retracted = {} /\ \A m \in mined : m.skipped = {}

GasInv ==
    /\ Nonces /\ MempoolCovered /\ PaidCovered /\ MempoolUnpaid
    /\ DroppedUnpaid /\ RevertsExecuted /\ NothingTakenBack /\ NoWastedGas
    /\ NothingDisputed

\* A claim run writes the rows it has in hand, and claims others.
LEMMA RunWrites ==
    ASSUME TypeInv, NEW c \in Claimers, AcquireLock(c) \/ RunStep(c), NEW u \in Uuids
    PROVE  db'[u] = db[u] \/ Holds(run[c], u) \/ db'[u].claimed_at # NULL
<1>r. db \in Table
  BY RunTypes
<1>1. CASE UNCHANGED db
  BY <1>1
<1>2. CASE ReconcileMark(c)
  BY <1>2, <1>r, ReconcileMarkMoves, MarkClaimedRow, StoreAssumption
<1>3. CASE DropCorrupt(c)
  <2>1. First(run[c].todo) \subseteq run[c].todo
    BY DEF First, Oldest
  <2> QED BY <1>3, <1>r, <2>1, DropCorruptMoves, MarkClaimFailedRow DEF Holds, At
<1>4. CASE LockCorrupt(c)
  <2>1. PICK v \in Uuids : v \in run[c].todo /\ db' = lock(db, v) /\ At(c, "lock")
    BY <1>4, LockCorruptMoves
  <2> QED BY <1>r, <2>1, LockRow DEF Holds, At
<1>5. CASE BuildUnreachable(c)
  BY <1>5, <1>r, BuildUnreachableMoves, MarkClaimFailedRow DEF Holds, At, Unrecorded
<1>6. CASE SetPending(c)
  BY <1>6, <1>r, SetPendingMoves, SetPendingRow DEF Holds, At, Unrecorded
<1>7. CASE RecordResult(c)
  <2>1. /\ At(c, "record")
        /\ \/ db' = mark_claimed(db, run[c].batch, run[c].tx)
           \/ db' = mark_claim_failed(db, run[c].batch, run[c].result)
    BY <1>7, RecordResultMoves
  <2>2. db'[u] = db[u] \/ u \in run[c].batch
    BY <1>r, <2>1, MarkClaimedRow, MarkClaimFailedRow
  <2> QED BY <2>1, <2>2 DEF Holds, At, Unrecorded
<1>8. CASE ClearPending(c)
  <2>1. PICK v \in Uuids : /\ v \in run[c].todo /\ At(c, "clear")
                           /\ db' = clear_claim_tx_pending(db, v)
    BY <1>8, ClearPendingMoves
  <2> QED BY <1>r, <2>1, ClearPendingRow DEF Holds, At
<1> QED
  BY <1>1, <1>2, <1>3, <1>4, <1>5, <1>6, <1>7, <1>8
     DEF RunStep, AcquireLock, ReconcileCheck, NextBatch, NoMoreBatches,
         BuildTx, BuildRaises, BroadcastAccepted, BroadcastNoFunds,
         BroadcastFails, WaitConfirmed, WaitReverted, WaitTimesOut,
         WaitOutcome, ReleaseLock

\* While a run is at pc, nobody awaits a transaction but the run itself.
LEMMA OnlyRunAwaits ==
    ASSUME TypeInv, ClaimMutex, NEW c \in Claimers, AcquireLock(c) \/ RunStep(c),
           NEW tx, NEW u, AwaitsFor(tx, u)
    PROVE  Awaits(c, tx) /\ u \in run[c].batch
BY OthersIdle DEF AwaitsFor, Awaits, At

\* A step of a run leaves a receipt of tx covered, unless it writes down that
\* tx was reverted.
LEMMA RunStepCovers ==
    ASSUME TypeInv, ClaimMutex, BlockInv, TrackInv,
           NEW c \in Claimers, AcquireLock(c) \/ RunStep(c),
           NEW tx, NEW u \in Uuids,
           ~(RecordResult(c) /\ run[c].result = "CLAIM_REVERTED" /\ run[c].tx = tx)
    PROVE  /\ Covered(tx, u) => Covered(tx, u)'
           /\ CoveredLately(tx, u) => CoveredLately(tx, u)'
<1>h. HandOK(c) /\ db \in Table
  BY RunTypes DEF TrackInv, HandInv
<1>c. db[u].claimed_at # NULL => db'[u].claimed_at # NULL
  BY RunStepBlocks DEF SameClaim
<1>1. CASE db[u].claimed_at # NULL
  BY <1>1, <1>c DEF Covered, CoveredLately
<1>2. CASE Tracked(u)
  <2>1. ~Holds(run[c], u)
    BY <1>h, <1>2 DEF HandOK, Free, Tracked
  <2>2. db'[u] = db[u] \/ db'[u].claimed_at # NULL
    BY <2>1, RunWrites
  <2>3. db'[u] = db[u] => Tracked(u)'
    BY <1>2 DEF Tracked, InDoubt
  <2>4. Covered(tx, u)'
    BY <2>2, <2>3 DEF Covered
  <2>5. CASE db[u].last_attempt_at = "recent"
    BY <2>2, <2>3, <2>4, <2>5 DEF CoveredLately
  <2>6. CASE db[u].last_attempt_at # "recent"
    <3>1. ASSUME AwaitsFor(tx, u) PROVE FALSE
      BY <3>1, <2>1, OnlyRunAwaits DEF Awaits, At, Holds, Unrecorded
    <3>2. CASE db[u].claimed_at # NULL
      BY <1>c, <2>4, <3>2 DEF CoveredLately
    <3> QED BY <2>4, <2>6, <3>1, <3>2 DEF CoveredLately
  <2> QED BY <2>4, <2>5, <2>6
<1>3. CASE AwaitsFor(tx, u)
  <2>1. Awaits(c, tx) /\ u \in run[c].batch
    BY <1>3, OnlyRunAwaits
  <2>2. CASE At(c, "wait")
    <3>1. PICK result \in {"OK", "CLAIM_REVERTED", "CLAIM_TX_TIMEOUT"} :
             Moved(c, "record", run[c].batch, run[c].todo, run[c].tx, result)
      BY <2>2, WaitMoves
         DEF RunStep, At, AcquireLock, ReconcileCheck, ReconcileMark, NextBatch,
             NoMoreBatches, DropCorrupt, LockCorrupt, BuildTx, BuildUnreachable,
             BuildRaises, SetPending, BroadcastAccepted, BroadcastNoFunds,
             BroadcastFails, RecordResult, ClearPending, ReleaseLock
    <3>2. AwaitsFor(tx, u)'
      BY <2>1, <3>1 DEF AwaitsFor, Awaits, At, Moved
    <3> QED BY <3>2 DEF Covered, CoveredLately
  <2>3. CASE At(c, "record")
    <3>1. RecordResult(c)
      BY <2>3
         DEF RunStep, At, AcquireLock, ReconcileCheck, ReconcileMark, NextBatch,
             NoMoreBatches, DropCorrupt, LockCorrupt, BuildTx, BuildUnreachable,
             BuildRaises, SetPending, BroadcastAccepted, BroadcastNoFunds,
             BroadcastFails, WaitConfirmed, WaitReverted, WaitTimesOut,
             WaitOutcome, ClearPending, ReleaseLock
    <3>2. /\ db[u].claimed_at = NULL /\ ~db[u].locked
          /\ db[u].claim_tx_pending # NULL
      BY <1>h, <2>1, <2>3, StoreAssumption DEF HandOK, Unrecorded, At
    <3>3. \/ db' = mark_claimed(db, run[c].batch, run[c].tx)
          \/ /\ run[c].result \in {"CLAIM_TX_TIMEOUT", "CLAIM_RPC_UNREACHABLE"}
             /\ db' = mark_claim_failed(db, run[c].batch, run[c].result)
      BY <2>1, <2>3, <3>1, RecordResultMoves DEF Awaits, At
    <3>4. CASE db' = mark_claimed(db, run[c].batch, run[c].tx)
      <4>1. db'[u].claimed_at # NULL
        BY <1>h, <2>1, <3>2, <3>4, MarkClaimedRow, StoreAssumption
      <4> QED BY <4>1 DEF Covered, CoveredLately
    <3>5. CASE /\ run[c].result \in {"CLAIM_TX_TIMEOUT", "CLAIM_RPC_UNREACHABLE"}
               /\ db' = mark_claim_failed(db, run[c].batch, run[c].result)
      <4>1. Tracked(u)' /\ db'[u].last_attempt_at = "recent"
        BY <1>h, <2>1, <3>2, <3>5, MarkClaimFailedRow
           DEF Tracked, InDoubt, SameFlight
      <4> QED BY <4>1 DEF Covered, CoveredLately
    <3> QED BY <3>3, <3>4, <3>5
  <2> QED BY <2>1, <2>2, <2>3 DEF Awaits
<1> QED BY <1>1, <1>2, <1>3 DEF Covered, CoveredLately

LEMMA AwaitedFree ==
    ASSUME TypeInv, TrackInv, NEW tx, NEW u, AwaitsFor(tx, u)
    PROVE  /\ u \in Uuids /\ Free(u) /\ db[u].claimed_at = NULL
           /\ db[u].claim_tx_pending # NULL
<1>1. PICK c \in Claimers : Awaits(c, tx) /\ u \in run[c].batch
  BY DEF AwaitsFor
<1>2. HandOK(c) /\ run[c].batch \in SUBSET Uuids
  BY RunTypes DEF TrackInv, HandInv
<1> QED BY <1>1, <1>2, StoreAssumption DEF HandOK, Holds, Unrecorded, Awaits, At

\* The mempool holds one nonce, so mining a transaction empties it.
LEMMA ExecuteGas ==
    ASSUME TypeInv, TrackInv, GasInv, UNCHANGED <<db, run, reaper>>,
           NEW tx \in mempool, NEW ok \in BOOLEAN, NEW skipped \in SUBSET tx.batch,
           ok => skipped \subseteq NonceUsed, ~ok => skipped = tx.batch,
           Execute(tx, ok, tx.batch \ skipped)
    PROVE  GasInv'
<1> DEFINE paid == tx.batch \ skipped
           left == IF ok THEN tx.batch \ (paid \cup NonceUsed) ELSE {}
           new == [tx |-> tx, ok |-> ok, paid |-> paid, height |-> head + 1,
                   skipped |-> left]
<1>1. /\ mined' = mined \cup {new} /\ txCount' = txCount + 1
      /\ mempool' = {t \in mempool : t.nonce # tx.nonce}
      /\ outOfBand' = outOfBand /\ retracted' = retracted /\ tx.nonce = txCount
  BY DEF Execute
<1>2. /\ new.tx = tx /\ new.ok = ok /\ new.paid = paid
      /\ new.skipped = {}
  <2>1. left = {}
    OBVIOUS
  <2> QED BY <2>1
<1>t. /\ txCount \in Nat /\ tx.batch \in SUBSET Uuids
      /\ \A m \in mined : m.tx.nonce \in Nat
      /\ \A r \in Reapers : reaper[r].todo \in SUBSET Uuids
  BY ReaperTypes DEF TypeInv, TypeOK, ChainTypeOK, ClaimTx, Mined
<1> HIDE DEF left, new
<1>3. mempool' = {}
  BY <1>1 DEF GasInv, Nonces
<1>4. Nonces'
  BY <1>1, <1>2, <1>3, <1>t DEF GasInv, Nonces
<1>5. MempoolCovered' /\ MempoolUnpaid'
  BY <1>3 DEF MempoolCovered, MempoolUnpaid
<1>c. \A t, u : /\ AwaitsFor(t, u)' <=> AwaitsFor(t, u)
                /\ Tracked(u)' <=> Tracked(u)
  BY DEF AwaitsFor, Awaits, At, Tracked, InDoubt
<1>6. PaidCovered'
  <2>1. \A u \in paid : Covered(tx, u)
    BY DEF GasInv, MempoolCovered, Covered, CoveredLately
  <2>2. \A m \in mined : \A u \in m.paid : Covered(m.tx, u)
    BY DEF GasInv, PaidCovered
  <2>3. \A m \in mined' : \A u \in m.paid : Covered(m.tx, u)
    BY <1>1, <1>2, <2>1, <2>2
  <2> QED BY <1>c, <2>3 DEF PaidCovered, Covered
<1>7. DroppedUnpaid'
  <2> SUFFICES ASSUME NEW r \in Reapers, In(r, "landed") \/ In(r, "dropped"),
                      NEW u \in reaper[r].todo, db[u].claimed_at = NULL
               PROVE  InDoubt(u) /\ db[u].last_attempt_at = "old" /\ Unpaid(u)'
    BY DEF DroppedUnpaid, In, InDoubt
  <2>1. InDoubt(u) /\ db[u].last_attempt_at = "old" /\ Unpaid(u)
    BY DEF GasInv, DroppedUnpaid
  <2>2. u \notin tx.batch
    <3>1. ~AwaitsFor(tx, u)
      BY <2>1, AwaitedFree DEF Free
    <3> QED BY <2>1, <3>1 DEF GasInv, MempoolCovered, CoveredLately
  <2> QED BY <1>1, <1>2, <2>1, <2>2 DEF Unpaid
<1>8. RevertsExecuted' /\ NothingTakenBack'
  BY <1>1 DEF GasInv, RevertsExecuted, NothingTakenBack, Executed, At, In
<1>9. NoWastedGas'
  <2>1. ok => tx.batch \ paid \subseteq outOfBand
    BY DEF GasInv, MempoolUnpaid, Unpaid, NonceUsed
  <2> QED BY <1>1, <1>2, <2>1 DEF GasInv, NoWastedGas
<1>10. NothingDisputed'
  BY <1>1, <1>2 DEF GasInv, NothingDisputed
<1> QED BY <1>4, <1>5, <1>6, <1>7, <1>8, <1>9, <1>10 DEF GasInv

LEMMA ChainStepGas ==
    ASSUME TypeInv, TrackInv, GasInv, ~MaySkip, MaxReorgs = 0,
           UNCHANGED <<db, run, reaper>>, ChainNext
    PROVE  GasInv'
<1>k. ASSUME mempool' \subseteq mempool, mined' = mined, txCount' = txCount,
             outOfBand \subseteq outOfBand', retracted' = retracted
      PROVE  GasInv'
  <2>1. \A t, u : /\ AwaitsFor(t, u)' <=> AwaitsFor(t, u)
                  /\ Tracked(u)' <=> Tracked(u)
                  /\ Unpaid(u)' <=> Unpaid(u)
                  /\ InDoubt(u)' <=> InDoubt(u)
    BY <1>k DEF AwaitsFor, Awaits, At, Tracked, InDoubt, Unpaid
  <2>2. Nonces' /\ MempoolUnpaid' /\ NoWastedGas' /\ NothingDisputed'
    BY <1>k, <2>1 DEF GasInv, Nonces, MempoolUnpaid, NoWastedGas, NothingDisputed
  <2>3. MempoolCovered' /\ PaidCovered'
    BY <1>k, <2>1
       DEF GasInv, MempoolCovered, PaidCovered, Covered, CoveredLately
  <2>4. DroppedUnpaid' /\ RevertsExecuted' /\ NothingTakenBack'
    BY <1>k, <2>1
       DEF GasInv, DroppedUnpaid, RevertsExecuted, NothingTakenBack, Executed, At, In
  <2> QED BY <2>2, <2>3, <2>4 DEF GasInv
<1>1. ASSUME NEW tx \in mempool, MineOk(tx)
      PROVE  GasInv'
  <2>1. PICK skipped \in SUBSET tx.batch :
           skipped \subseteq NonceUsed /\ Execute(tx, TRUE, tx.batch \ skipped)
    BY <1>1 DEF MineOk
  <2> QED BY <2>1, ExecuteGas
<1>2. ASSUME NEW tx \in mempool, MineReverted(tx)
      PROVE  GasInv'
  <2>1. tx.batch \ tx.batch = {} /\ Execute(tx, FALSE, {})
    BY <1>2 DEF MineReverted
  <2> QED BY <2>1, ExecuteGas
<1>3. ASSUME NEW tx \in mempool, Evict(tx)
      PROVE  GasInv'
  BY <1>3, <1>k DEF Evict
<1>4. ASSUME NEW u \in Uuids, SettleOutOfBand(u)
      PROVE  GasInv'
  BY <1>4, <1>k DEF SettleOutOfBand
<1>5. CASE EmptyBlock
  BY <1>5, <1>k DEF EmptyBlock
<1>6. ASSUME NEW m \in mined, Reorg(m)
      PROVE  FALSE
  BY <1>6 DEF Reorg, TypeInv, TypeOK, ChainTypeOK
<1> QED BY <1>1, <1>2, <1>3, <1>4, <1>5, <1>6 DEF ChainNext

\* A run is about to record a revert only if the chain said so.
LEMMA RunStepReverts ==
    ASSUME TypeInv, NEW c \in Claimers, AcquireLock(c) \/ RunStep(c),
           run'[c].pc = "record", run'[c].result = "CLAIM_REVERTED"
    PROVE  /\ At(c, "wait") /\ UNCHANGED <<db, chainVars>>
           /\ Executed(run[c].tx, FALSE)
           /\ run'[c].tx = run[c].tx /\ run'[c].batch = run[c].batch
<1>1. CASE WaitConfirmed(c) \/ WaitReverted(c) \/ WaitTimesOut(c)
  BY <1>1, WaitMoves DEF Moved
<1>2. CASE BroadcastAccepted(c) \/ BroadcastNoFunds(c) \/ BroadcastFails(c)
  BY <1>2, BroadcastMoves DEF Stepped, Moved
<1>3. CASE AcquireLock(c) \/ ReleaseLock(c)
  BY <1>3, AcquireLockMoves, ReleaseLockMoves DEF Idle
<1>4. CASE ReconcileCheck(c) \/ ReconcileMark(c)
  BY <1>4, ReconcileCheckMoves, ReconcileMarkMoves DEF Stepped, Moved
<1>5. CASE NextBatch(c) \/ NoMoreBatches(c) \/ DropCorrupt(c) \/ LockCorrupt(c)
  BY <1>5, NextBatchMoves, NoMoreBatchesMoves, DropCorruptMoves, LockCorruptMoves
     DEF Stepped, Moved
<1>6. CASE BuildTx(c) \/ BuildUnreachable(c) \/ BuildRaises(c) \/ SetPending(c)
  BY <1>6, BuildTxMoves, BuildUnreachableMoves, BuildRaisesMoves, SetPendingMoves
     DEF Stepped, Left, Moved
<1>7. CASE RecordResult(c) \/ ClearPending(c)
  BY <1>7, RecordResultMoves, ClearPendingMoves DEF Stepped, Left, Moved
<1> QED BY <1>1, <1>2, <1>3, <1>4, <1>5, <1>6, <1>7 DEF RunStep

LEMMA RunStepGas ==
    ASSUME TypeInv, ClaimMutex, BlockInv, TrackInv, PaidInv, GasInv,
           UNCHANGED reaper, NEW c \in Claimers, AcquireLock(c) \/ RunStep(c)
    PROVE  GasInv'
<1>h. HandOK(c) /\ run[c].batch \in SUBSET Uuids
  BY RunTypes DEF TrackInv, HandInv
<1>s. UNCHANGED <<mined, txCount, outOfBand, retracted>>
  BY RunStepChain
<1>b. run[c].pc = "broadcast" => run[c].tx.batch = run[c].batch
  BY DEF PaidInv, RunIsPaid, UsesTx
\* A transaction recorded as reverted was mined and paid nothing.
<1>v. ASSUME RecordResult(c), run[c].result = "CLAIM_REVERTED"
      PROVE  run[c].tx \notin mempool /\ \A m \in mined : m.tx = run[c].tx => m.paid = {}
  <2>1. PICK m \in mined : m.tx = run[c].tx /\ m.ok = FALSE
    BY <1>v DEF RecordResult, GasInv, RevertsExecuted, Executed
  <2>2. m.tx.nonce \in Nat /\ txCount \in Nat
    BY DEF TypeInv, TypeOK, ChainTypeOK, Mined, ClaimTx
  <2> QED BY <2>1, <2>2 DEF GasInv, Nonces
<1>1. Nonces' /\ NoWastedGas' /\ NothingTakenBack' /\ NothingDisputed'
  BY <1>s, RunStepChain
     DEF GasInv, Nonces, NoWastedGas, NothingTakenBack, NothingDisputed, Admit, In
<1>2. MempoolCovered'
  <2> SUFFICES ASSUME NEW t \in mempool', NEW u \in t.batch
               PROVE  CoveredLately(t, u)'
    BY DEF MempoolCovered
  <2>1. CASE t \in mempool
    <3>1. t # run[c].tx \/ ~(RecordResult(c) /\ run[c].result = "CLAIM_REVERTED")
      BY <1>v, <2>1
    <3>2. u \in Uuids /\ CoveredLately(t, u)
      BY <2>1 DEF TypeInv, TypeOK, ChainTypeOK, ClaimTx, GasInv, MempoolCovered
    <3> QED BY <3>1, <3>2, RunStepCovers
  <2>2. CASE t \notin mempool
    <3>1. /\ At(c, "broadcast") /\ t = run[c].tx
          /\ run'[c].tx = run[c].tx /\ run'[c].batch = run[c].batch
          /\ \/ run'[c].pc = "wait"
             \/ /\ run'[c].pc = "record"
                /\ run'[c].result = "CLAIM_RPC_UNREACHABLE"
      BY <2>2, RunStepChain DEF Admit
    <3>2. AwaitsFor(t, u)'
      BY <1>b, <3>1 DEF AwaitsFor, Awaits, At
    <3> QED BY <3>2 DEF CoveredLately
  <2> QED BY <2>1, <2>2
<1>3. PaidCovered'
  <2> SUFFICES ASSUME NEW m \in mined, NEW u \in m.paid
               PROVE  Covered(m.tx, u)'
    BY <1>s DEF PaidCovered
  <2>1. m.tx # run[c].tx \/ ~(RecordResult(c) /\ run[c].result = "CLAIM_REVERTED")
    BY <1>v
  <2>2. u \in Uuids /\ Covered(m.tx, u)
    BY DEF TypeInv, TypeOK, ChainTypeOK, Mined, GasInv, PaidCovered
  <2> QED BY <2>1, <2>2, RunStepCovers
<1>4. MempoolUnpaid'
  <2> SUFFICES ASSUME NEW t \in mempool', NEW u \in t.batch
               PROVE  Unpaid(u)
    BY <1>s DEF MempoolUnpaid, Unpaid
  <2>1. CASE t \in mempool
    BY <2>1 DEF GasInv, MempoolUnpaid
  <2>2. CASE t \notin mempool
    <3>1. At(c, "broadcast") /\ t = run[c].tx
      BY <2>2, RunStepChain DEF Admit
    <3>2. u \in Uuids /\ Free(u) /\ db[u].claimed_at = NULL
      BY <1>b, <1>h, <3>1 DEF HandOK, Holds, Unrecorded, At
    <3>3. \A tx : ~AwaitsFor(tx, u)
      BY <3>1, OnlyRunAwaits DEF Awaits, At
    <3>4. \A tx : ~Covered(tx, u)
      BY <3>2, <3>3 DEF Covered, Tracked, Free
    <3> QED BY <3>4 DEF GasInv, PaidCovered, Unpaid
  <2> QED BY <2>1, <2>2
<1>5. DroppedUnpaid'
  <2> SUFFICES ASSUME NEW r \in Reapers, In(r, "landed") \/ In(r, "dropped"),
                      NEW u \in reaper[r].todo
               PROVE  \/ db'[u].claimed_at # NULL
                      \/ InDoubt(u)' /\ db'[u].last_attempt_at = "old" /\ Unpaid(u)
    BY <1>s DEF DroppedUnpaid, In, Unpaid
  <2>1. u \in Uuids
    BY ReaperTypes
  <2>2. CASE db[u].claimed_at # NULL
    BY <2>1, <2>2, RunStepBlocks DEF SameClaim
  <2>3. CASE InDoubt(u) /\ db[u].last_attempt_at = "old" /\ Unpaid(u)
    <3>1. db'[u] = db[u] \/ db'[u].claimed_at # NULL
      BY <1>h, <2>1, <2>3, RunWrites DEF HandOK, Free
    <3> QED BY <2>3, <3>1 DEF InDoubt
  <2> QED BY <2>2, <2>3 DEF GasInv, DroppedUnpaid
<1>6. RevertsExecuted'
  <2> SUFFICES ASSUME NEW d \in Claimers, run'[d].pc = "record",
                      run'[d].result = "CLAIM_REVERTED"
               PROVE  Executed(run'[d].tx, FALSE)
    BY <1>s DEF RevertsExecuted, At, Executed
  <2>1. d = c
    BY OthersIdle DEF At
  <2> QED BY <2>1, RunStepReverts
<1> QED BY <1>1, <1>2, <1>3, <1>4, <1>5, <1>6 DEF GasInv

LEMMA ReaperStepGas ==
    ASSUME OneReaper, TypeInv, PaidInv, GasInv, UNCHANGED run,
           NEW r \in Reapers, ReaperStep(r)
    PROVE  GasInv'
<1>o. \A q \in Reapers : q = r
  BY DEF OneReaper
<1>r. /\ db \in Table
      /\ reaper[r].landed \in SUBSET Uuids /\ reaper[r].todo \in SUBSET Uuids
  BY ReaperTypes
<1>n. ~In(r, "flipped") /\ ~In(r, "reverted")
  BY DEF GasInv, NothingTakenBack
<1>s. UNCHANGED <<mempool, mined, txCount, outOfBand, retracted>>
  BY CheckTimeoutsTicks, MarkLandedTicks, ClearDroppedTicks, CheckFinalityTicks,
     CheckReorgsTicks, <1>n DEF ReaperStep, RevertFlipped, RevertUnused, chainVars
<1>a. \A t, u : AwaitsFor(t, u)' <=> AwaitsFor(t, u)
  BY DEF AwaitsFor, Awaits, At
<1>1. /\ Nonces' /\ MempoolUnpaid' /\ NoWastedGas' /\ RevertsExecuted'
      /\ NothingDisputed'
  BY <1>s DEF GasInv, Nonces, MempoolUnpaid, Unpaid, NoWastedGas,
     RevertsExecuted, NothingDisputed, Executed, At
\* A row that is claimed is paid for.
<1>p. \A u \in Uuids : db[u].claimed_at # NULL => u \in NonceUsed
  BY DEF PaidInv, ClaimedIsSettled, GasInv, NothingDisputed
\* The rows stay, or are claimed, or are rows nothing was paid for.
<1>k. ASSUME \A u \in Uuids :
                \/ db'[u] = db[u] \/ db'[u].claimed_at # NULL
                \/ /\ db[u].claimed_at = NULL
                   /\ db[u].last_attempt_at = "old" /\ Unpaid(u)
      PROVE  MempoolCovered' /\ PaidCovered'
  <2>1. \A t \in mempool : t.batch \in SUBSET Uuids
    BY DEF TypeInv, TypeOK, ChainTypeOK, ClaimTx
  <2>2. \A m \in mined : m.paid \in SUBSET Uuids
    BY DEF TypeInv, TypeOK, ChainTypeOK, Mined
  <2>3. \A u \in Uuids : db'[u] = db[u] => (Tracked(u)' <=> Tracked(u))
    BY DEF Tracked, InDoubt
  <2>4. MempoolCovered'
    BY <1>a, <1>k, <1>s, <2>1, <2>3 DEF GasInv, MempoolCovered, CoveredLately
  <2>5. PaidCovered'
    BY <1>a, <1>k, <1>s, <2>2, <2>3 DEF GasInv, PaidCovered, Covered, Unpaid
  <2> QED BY <2>4, <2>5
<1>d. ASSUME reaper'[r].pc \notin {"landed", "dropped"}
      PROVE  DroppedUnpaid'
  BY <1>d, <1>o DEF DroppedUnpaid, In
<1>f. ASSUME reaper'[r].pc \notin {"flipped", "reverted"}
      PROVE  NothingTakenBack'
  BY <1>f, <1>o DEF NothingTakenBack, In
<1>2. CASE CheckTimeouts(r)
  <2>1. /\ UNCHANGED db /\ reaper'[r].pc \in {"landed", "dropped", "finality"}
        /\ reaper'[r].todo \subseteq list_timed_out_claims(db) \ NonceUsed
    BY <1>2, CheckTimeoutsTicks DEF Ticked
  <2>2. DroppedUnpaid'
    BY <1>o, <1>s, <2>1
       DEF DroppedUnpaid, list_timed_out_claims, InDoubt, Unpaid, NonceUsed
  <2> QED BY <1>1, <1>k, <1>f, <2>1, <2>2 DEF GasInv
<1>3. CASE CheckFinality(r)
  <2>1. Flipped = {}
    BY <1>p DEF Flipped, list_pending_external_unfinalized
  <2>2. UNCHANGED db /\ reaper'[r].pc = "reorgs"
    BY <1>3, <2>1, CheckFinalityTicks DEF Ticked
  <2> QED BY <1>1, <1>k, <1>d, <1>f, <2>2 DEF GasInv
<1>4. CASE CheckReorgs(r)
  <2>1. list_recently_claimed(db) \ NonceUsed = {}
    BY <1>p, StoreAssumption DEF list_recently_claimed
  <2>2. UNCHANGED db /\ reaper'[r].pc = "timeouts"
    BY <1>4, <2>1, CheckReorgsTicks DEF Ticked
  <2> QED BY <1>1, <1>k, <1>d, <1>f, <2>2 DEF GasInv
<1>5. CASE MarkLanded(r)
  <2>1. /\ reaper'[r].pc \in {"dropped", "finality"} /\ In(r, "landed")
        /\ reaper'[r].todo = reaper[r].todo
    BY <1>5, MarkLandedTicks DEF Ticked
  <2>2. ASSUME NEW u \in Uuids
        PROVE  db'[u] = db[u] \/ db'[u].claimed_at # NULL
    BY <1>5, <1>r, MarkLandedTicks, MarkClaimedRow, MarkExternalRow, StoreAssumption
  <2>3. DroppedUnpaid'
    BY <1>o, <1>r, <1>s, <2>1, <2>2 DEF GasInv, DroppedUnpaid, InDoubt, Unpaid, In
  <2> QED BY <1>1, <1>k, <1>f, <2>1, <2>2, <2>3 DEF GasInv
<1>6. CASE ClearDropped(r)
  <2>1. PICK v \in Uuids :
           /\ v \in reaper[r].todo /\ db' = clear_error(db, v) /\ In(r, "dropped")
           /\ reaper'[r].pc \in {"dropped", "finality"}
           /\ reaper'[r].todo = reaper[r].todo \ {v}
    BY <1>6, ClearDroppedTicks DEF Ticked
  <2>2. ASSUME NEW u \in Uuids
        PROVE  /\ u # v => db'[u] = db[u]
               /\ db'[u].claimed_at = db[u].claimed_at
    BY <1>r, <2>1, ClearErrorRow DEF SameClaim
  <2>3. \/ db[v].claimed_at # NULL
        \/ db[v].last_attempt_at = "old" /\ Unpaid(v)
    BY <2>1 DEF GasInv, DroppedUnpaid
  <2>4. DroppedUnpaid'
    BY <1>o, <1>r, <1>s, <2>1, <2>2 DEF GasInv, DroppedUnpaid, InDoubt, Unpaid, In
  <2>5. MempoolCovered' /\ PaidCovered'
    BY <1>k, <2>2, <2>3
  <2> QED BY <1>1, <1>f, <2>1, <2>4, <2>5 DEF GasInv
<1> QED BY <1>2, <1>3, <1>4, <1>5, <1>6, <1>n
       DEF ReaperStep, RevertFlipped, RevertUnused

\* A signature arrives or time passes: an attempt ages only when its
\* transaction has left the mempool.
LEMMA AgingGas ==
    ASSUME TypeInv, GasInv, MempoolBounded, NEW v \in Uuids,
           PollerSigns(v) \/ AttemptAges(v) \/ ClaimAges(v)
    PROVE  GasInv'
<1>s. UNCHANGED <<mempool, mined, txCount, outOfBand, retracted, run, reaper>>
  BY DEF PollerSigns, AttemptAges, ClaimAges, chainVars
<1>r. db \in Table
  BY DEF TypeInv, TypeOK, Table
<1>a. \A t, u : AwaitsFor(t, u)' <=> AwaitsFor(t, u)
  BY <1>s DEF AwaitsFor, Awaits, At
<1>t. /\ \A t \in mempool : t.batch \in SUBSET Uuids
      /\ \A m \in mined : m.paid \in SUBSET Uuids
      /\ \A r \in Reapers : reaper[r].todo \in SUBSET Uuids
  BY ReaperTypes DEF TypeInv, TypeOK, ChainTypeOK, ClaimTx, Mined
<1>c. ASSUME NEW u \in Uuids
      PROVE  /\ db'[u].claimed_at = NULL <=> db[u].claimed_at = NULL
             /\ Tracked(u)' <=> Tracked(u)
             /\ InDoubt(u)' <=> InDoubt(u)
  BY AgingRows DEF Tracked, InDoubt, SameFlight
<1>l. ASSUME NEW u \in Uuids
      PROVE  \/ db'[u].last_attempt_at = db[u].last_attempt_at
             \/ /\ db[u].last_attempt_at = "recent" /\ db'[u].last_attempt_at = "old"
                /\ \A t \in mempool : u \notin t.batch
  <2>1. CASE PollerSigns(v)
    BY <1>r, <2>1, MarkSignedRow DEF PollerSigns
  <2>2. CASE AttemptAges(v)
    BY <1>r, <2>2 DEF AttemptAges, Table, Row
  <2>3. CASE ClaimAges(v)
    BY <1>r, <2>3 DEF ClaimAges, Table, Row
  <2> QED BY <2>1, <2>2, <2>3
<1>1. /\ Nonces' /\ MempoolUnpaid' /\ NoWastedGas' /\ RevertsExecuted'
      /\ NothingTakenBack' /\ NothingDisputed'
  BY <1>s DEF GasInv, Nonces, MempoolUnpaid, Unpaid, NoWastedGas,
     RevertsExecuted, Executed, At, NothingTakenBack, NothingDisputed, In
<1>2. MempoolCovered'
  BY <1>s, <1>a, <1>t, <1>c, <1>l DEF GasInv, MempoolCovered, CoveredLately
<1>3. PaidCovered'
  BY <1>s, <1>a, <1>t, <1>c DEF GasInv, PaidCovered, Covered
<1>4. DroppedUnpaid'
  BY <1>s, <1>t, <1>c, <1>l DEF GasInv, DroppedUnpaid, Unpaid, In
<1> QED BY <1>1, <1>2, <1>3, <1>4 DEF GasInv

\* What holds at every step of a settling system.
SettlingInv == TypeInv /\ ClaimMutex /\ BlockInv /\ TrackInv /\ PaidInv /\ GasInv

LEMMA StepGas ==
    ASSUME Settling
    PROVE  SettlingInv /\ [Next]_vars => GasInv'
<1> SUFFICES ASSUME SettlingInv, [Next]_vars PROVE GasInv'
  OBVIOUS
<1>u. /\ OneReaper /\ MaxDaemonCrashes = 0 /\ ~MaySkip /\ MaxReorgs = 0
      /\ MaxCliCrashes = 0 /\ MempoolBounded
  BY DEF Settling, Undisturbed
<1> USE DEF SettlingInv
<1>1. ASSUME NEW u \in Uuids, PollerSigns(u) \/ AttemptAges(u) \/ ClaimAges(u)
      PROVE  GasInv'
  BY <1>1, <1>u, AgingGas
<1>2. CASE Chain
  BY <1>2, <1>u, ChainStepGas DEF Chain
<1>3. ASSUME NEW c \in Claimers, Claim(c)
      PROVE  GasInv'
  BY <1>3, RunStepGas DEF Claim
<1>4. ASSUME NEW r \in Reapers, Reap(r)
      PROVE  GasInv'
  BY <1>4, <1>u, ReaperStepGas DEF Reap
<1>5. ASSUME NEW c \in Claimers, CliCrash(c)
      PROVE  FALSE
  BY <1>5, <1>u DEF CliCrash, TypeInv, TypeOK
<1>6. ~Reconcile /\ ~DaemonCrash
  BY <1>u DEF Reconcile, InflightStep, InflightCheck, InflightMark,
     InflightClearLanded, InflightClearUnused, InflightResetAttempts,
     DaemonCrash, TrackInv, TypeInv, TypeOK
<1>7. CASE UNCHANGED vars
  BY <1>7 DEF vars, chainVars, GasInv, Nonces, MempoolCovered, CoveredLately,
     PaidCovered, Covered, AwaitsFor, Awaits, At, Tracked, InDoubt,
     MempoolUnpaid, Unpaid, DroppedUnpaid, In, RevertsExecuted, Executed,
     NothingTakenBack, NothingDisputed, NoWastedGas
<1> QED BY <1>1, <1>2, <1>3, <1>4, <1>5, <1>6, <1>7 DEF Next

LEMMA InitGas == Init => GasInv
<1> SUFFICES ASSUME Init PROVE GasInv
  OBVIOUS
<1>1. mempool = {} /\ mined = {} /\ retracted = {}
  BY DEF Init, ChainInit
<1>2. \A c \in Claimers : run[c].pc = "idle"
  BY DEF Init, SettlementInit, Idle
<1>3. \A r \in Reapers : reaper[r].pc = "timeouts"
  BY DEF Init, ReaperInit, NewTick
<1>4. /\ Nonces /\ MempoolCovered /\ PaidCovered /\ MempoolUnpaid /\ NoWastedGas
      /\ NothingDisputed
  BY <1>1 DEF Nonces, MempoolCovered, PaidCovered, MempoolUnpaid, NoWastedGas,
     NothingDisputed
<1>5. DroppedUnpaid /\ RevertsExecuted /\ NothingTakenBack
  BY <1>2, <1>3 DEF DroppedUnpaid, RevertsExecuted, NothingTakenBack, At, In
<1> QED BY <1>4, <1>5 DEF GasInv

LEMMA SettlingIsInvariant ==
    ASSUME Settling
    PROVE  Spec => []SettlingInv
<1>1. TypeInv /\ BlockInv /\ [Next]_vars => BlockInv'
  BY StepBlock DEF Settling, Undisturbed
<1>2. TypeInv /\ ClaimMutex /\ BlockInv /\ TrackInv /\ [Next]_vars => TrackInv'
  BY StepTracks DEF Settling
<1>3. TypeInv /\ PaidInv /\ [Next]_vars => PaidInv'
  BY StepPaid
<1>4. SettlingInv /\ [Next]_vars => SettlingInv'
  BY <1>1, <1>2, <1>3, StepType, StepMutex, StepGas DEF SettlingInv
<1>5. Init => SettlingInv
  BY InitType, InitMutex, InitBlock, InitTracks, InitPaid, InitGas DEF SettlingInv
<1> QED BY <1>4, <1>5, PTL DEF Spec

\* A run never broadcasts a receipt that another transaction in the mempool
\* holds, whoever sent that one and however its own run ended (unclaimed
\* leaves out CLAIM_TX_TIMEOUT: "would double-submit").
THEOREM NothingResubmitted ==
    ASSUME Settling
    PROVE  Spec => []NoResubmission
<1>1. ASSUME SettlingInv, NEW c \in Claimers, At(c, "broadcast"),
             NEW tx \in mempool, NEW u \in tx.batch \cap run[c].batch
      PROVE  FALSE
  <2>1. HandOK(c) /\ run[c].batch \in SUBSET Uuids
    BY <1>1, RunTypes DEF SettlingInv, TrackInv, HandInv
  <2>2. Free(u) /\ db[u].claimed_at = NULL
    BY <1>1, <2>1 DEF HandOK, Holds, Unrecorded, At
  <2>3. ~AwaitsFor(tx, u)
    BY <1>1 DEF SettlingInv, ClaimMutex, AwaitsFor, Awaits, At
  <2> QED BY <1>1, <2>2, <2>3
         DEF SettlingInv, GasInv, MempoolCovered, CoveredLately, Tracked, Free
<1>2. SettlingInv => NoResubmission
  BY <1>1 DEF NoResubmission
<1> QED BY <1>2, SettlingIsInvariant, PTL

\* A batch that is mined pays every receipt it holds, but for those that
\* somebody else has settled: no two of our transactions pay gas for one
\* receipt.
THEOREM GasNotWasted ==
    ASSUME Settling
    PROVE  Spec => []NoWastedGas
<1>1. SettlingInv => NoWastedGas
  BY DEF SettlingInv, GasInv
<1> QED BY <1>1, SettlingIsInvariant, PTL

-----------------------------------------------------------------------------
(* The attempt budget.  A receipt is clean if its signature is the payer's *)
(* and the gateway never rejected it; the invariant counts, for the run    *)
(* that waits for a transaction, the reverts that receipt had before.      *)

Clean(u) == u \notin Corrupt /\ db[u].sign_attempts = 0

OtherReverts(tx, u) == {m \in RevertedWith(u) : m.tx # tx}

\* What a run in progress may charge to a receipt.
ChargeOK(c) ==
    /\ run[c].pc \in UsesTx => run[c].tx.batch = run[c].batch
    /\ run[c].pc \in {"drop", "lock"} => \A u \in run[c].todo : ~Clean(u)
    /\ \/ At(c, "wait")
       \/ At(c, "record") /\ run[c].result = "CLAIM_REVERTED"
       => \A u \in run[c].batch : Clean(u) =>
             db[u].claim_attempts <= Cardinality(OtherReverts(run[c].tx, u))

MinedInv ==
    /\ IsFiniteSet(mined)
    /\ \A m \in mined : m.tx.nonce < txCount
    /\ \A c \in Claimers : At(c, "record") /\ run[c].result = "CLAIM_REVERTED"
          => Executed(run[c].tx, FALSE)

BudgetInv ==
    /\ MinedInv /\ BudgetIsEarned
    /\ \A u \in Uuids : Clean(u) => db[u].last_error_code \notin SIGN_CODES
    /\ \A c \in Claimers : ChargeOK(c)

\* A step that charges u nothing.
NotCharged(u) ==
    /\ db'[u].sign_attempts = db[u].sign_attempts
    /\ Clean(u) =>
          /\ db'[u].claim_attempts <= db[u].claim_attempts
          /\ db'[u].locked => db[u].locked /\ SameBudget(db'[u], db[u])
          /\ db'[u].last_error_code \in
                {db[u].last_error_code, NULL} \cup CLAIM_CODES

LEMMA RevertsCounted ==
    ASSUME IsFiniteSet(mined), NEW u
    PROVE  /\ IsFiniteSet(RevertedWith(u)) /\ Cardinality(RevertedWith(u)) \in Nat
           /\ \A tx : /\ IsFiniteSet(OtherReverts(tx, u))
                      /\ Cardinality(OtherReverts(tx, u)) \in Nat
<1>1. RevertedWith(u) \subseteq mined
  BY DEF RevertedWith
<1>2. IsFiniteSet(RevertedWith(u)) /\ Cardinality(RevertedWith(u)) \in Nat
  BY <1>1, FS_Subset, FS_CardinalityType
<1>3. ASSUME NEW tx
      PROVE  IsFiniteSet(OtherReverts(tx, u)) /\ Cardinality(OtherReverts(tx, u)) \in Nat
  <2>1. OtherReverts(tx, u) \subseteq RevertedWith(u)
    BY DEF OtherReverts
  <2> QED BY <1>2, <2>1, FS_Subset, FS_CardinalityType
<1> QED BY <1>2, <1>3

\* Mined transactions are never fewer, so the counts never fall.
LEMMA RevertsGrow ==
    ASSUME IsFiniteSet(mined), IsFiniteSet(mined'), mined \subseteq mined', NEW u
    PROVE  /\ Cardinality(RevertedWith(u)) <= Cardinality(RevertedWith(u)')
           /\ \A tx : Cardinality(OtherReverts(tx, u))
                         <= Cardinality(OtherReverts(tx, u)')
<1>1. RevertedWith(u) \subseteq RevertedWith(u)' /\ RevertedWith(u)' \subseteq mined'
  BY DEF RevertedWith
<1>2. IsFiniteSet(RevertedWith(u)')
  BY <1>1, FS_Subset
<1>3. Cardinality(RevertedWith(u)) <= Cardinality(RevertedWith(u)')
  BY <1>1, <1>2, FS_Subset
<1>4. ASSUME NEW CONSTANT tx
      PROVE  Cardinality(OtherReverts(tx, u)) <= Cardinality(OtherReverts(tx, u)')
  <2>1. /\ OtherReverts(tx, u) \subseteq OtherReverts(tx, u)'
        /\ OtherReverts(tx, u)' \subseteq RevertedWith(u)'
    BY <1>1 DEF OtherReverts
  <2>2. IsFiniteSet(OtherReverts(tx, u)')
    BY <1>2, <2>1, FS_Subset
  <2> QED BY <2>1, <2>2, FS_Subset
<1> QED BY <1>3, <1>4

\* Only a recorded revert is charged to a clean receipt.
LEMMA RunNotCharged ==
    ASSUME TypeInv, NEW c \in Claimers, ChargeOK(c), AcquireLock(c) \/ RunStep(c),
           ~(RecordResult(c) /\ run[c].result = "CLAIM_REVERTED"), NEW u \in Uuids
    PROVE  NotCharged(u)
<1>r. /\ db \in Table /\ db[u].claim_attempts \in Nat
      /\ run[c].todo \in SUBSET Uuids
  BY RunTypes DEF Table, Row
<1> USE DEF NotCharged, SameBudget, SameSigning
<1>1. CASE UNCHANGED db
  BY <1>1, <1>r
<1>2. ASSUME NEW us, NEW hash, db' = mark_claimed(db, us, hash)
      PROVE  NotCharged(u)
  BY <1>2, <1>r, MarkClaimedRow
<1>3. ASSUME NEW us, NEW code \in CLAIM_CODES \ {"CLAIM_REVERTED"},
             db' = mark_claim_failed(db, us, code)
      PROVE  NotCharged(u)
  <2>1. code \in TRANSIENT_CODES
    BY <1>3 DEF TRANSIENT_CODES, CLAIM_CODES
  <2> QED BY <1>3, <1>r, <2>1, TransientFailedRow
<1>4. CASE DropCorrupt(c)
  <2>1. First(run[c].todo) \subseteq run[c].todo
    BY DEF First, Oldest
  <2>2. At(c, "drop") /\ db' = mark_claim_failed(db, First(run[c].todo), "SIGN_VERIFY_FAILED")
    BY <1>4, DropCorruptMoves
  <2>3. Clean(u) => u \notin First(run[c].todo)
    BY <2>1, <2>2 DEF ChargeOK, At
  <2> QED BY <1>r, <2>2, <2>3, MarkClaimFailedRow
<1>5. CASE LockCorrupt(c)
  <2>1. PICK v \in Uuids : v \in run[c].todo /\ db' = lock(db, v) /\ At(c, "lock")
    BY <1>5, LockCorruptMoves
  <2>2. Clean(u) => u # v
    BY <2>1 DEF ChargeOK, At
  <2> QED BY <1>r, <2>1, <2>2, LockRow
<1>6. CASE SetPending(c)
  BY <1>6, <1>r, SetPendingMoves, SetPendingRow
<1>7. CASE ClearPending(c)
  <2>1. PICK v \in Uuids : db' = clear_claim_tx_pending(db, v)
    BY <1>7, ClearPendingMoves
  <2> QED BY <1>r, <2>1, ClearPendingRow
<1>8. CASE RecordResult(c) \/ ReconcileMark(c) \/ BuildUnreachable(c)
  <2>1. CASE ReconcileMark(c)
    BY <1>2, <2>1, ReconcileMarkMoves
  <2>2. CASE BuildUnreachable(c)
    BY <1>3, <2>2, BuildUnreachableMoves DEF CLAIM_CODES
  <2>3. CASE RecordResult(c)
    BY <1>2, <1>3, <2>3, RecordResultMoves DEF CLAIM_CODES
  <2> QED BY <1>8, <2>1, <2>2, <2>3
<1> QED
  BY <1>1, <1>4, <1>5, <1>6, <1>7, <1>8
     DEF RunStep, AcquireLock, ReconcileCheck, NextBatch, NoMoreBatches,
         BuildTx, BuildRaises, BroadcastAccepted, BroadcastNoFunds,
         BroadcastFails, WaitConfirmed, WaitReverted, WaitTimesOut,
         WaitOutcome, ReleaseLock

LEMMA ReaperNotCharged ==
    ASSUME TypeInv, NEW r \in Reapers, ReaperStep(r), NEW u \in Uuids
    PROVE  NotCharged(u)
<1>r. db \in Table /\ db[u].claim_attempts \in Nat
  BY ReaperTypes DEF Table, Row
<1> USE DEF NotCharged, SameBudget, SameSigning
<1>1. CASE CheckTimeouts(r) \/ CheckFinality(r) \/ CheckReorgs(r)
  BY <1>1, <1>r, CheckTimeoutsTicks, CheckFinalityTicks, CheckReorgsTicks
<1>2. CASE MarkLanded(r)
  BY <1>2, <1>r, MarkLandedTicks, MarkClaimedRow, MarkExternalRow
<1>3. CASE ClearDropped(r)
  <2>1. PICK v \in Uuids : db' = clear_error(db, v)
    BY <1>3, ClearDroppedTicks
  <2> QED BY <1>r, <2>1, ClearErrorRow
<1>4. CASE RevertFlipped(r)
  <2>1. PICK v \in Uuids : db' = revert_external_mark(db, v)
    BY <1>4, RevertFlippedTicks
  <2> QED BY <1>r, <2>1, RevertMarkRow DEF CLAIM_CODES
<1>5. CASE RevertUnused(r)
  <2>1. PICK v \in Uuids : db' = revert_claimed(db, v)
    BY <1>5, RevertUnusedTicks
  <2> QED BY <1>r, <2>1, RevertClaimedRow
<1> QED BY <1>1, <1>2, <1>3, <1>4, <1>5 DEF ReaperStep

LEMMA InflightNotCharged ==
    ASSUME TypeInv, InflightStep, NEW u \in Uuids
    PROVE  NotCharged(u)
<1>r. /\ db \in Table /\ db[u].claim_attempts \in Nat
      /\ Oldest(inflight.todo, 1) \in SUBSET Uuids
      /\ Oldest(inflight.unused, 1) \in SUBSET Uuids
  BY OldestSubset DEF TypeInv, TypeOK, InflightTypeOK, Inflight, Table, Row
<1> USE DEF NotCharged, SameBudget, SameSigning
<1>1. CASE InflightCheck
  BY <1>1, <1>r DEF InflightCheck
<1>2. CASE InflightMark
  <2>1. PICK us, hash : db' = mark_claimed(db, us, hash)
    BY <1>2 DEF InflightMark
  <2> QED BY <1>r, <2>1, MarkClaimedRow
<1>3. CASE InflightClearLanded \/ InflightClearUnused
  <2>1. PICK v \in Uuids : db' = clear_claim_tx_pending(db, v)
    BY <1>3, <1>r DEF InflightClearLanded, InflightClearUnused
  <2> QED BY <1>r, <2>1, ClearPendingRow
<1>4. CASE InflightResetAttempts
  <2>1. PICK v \in Uuids : db' = reset_claim_attempts(db, v)
    BY <1>4, <1>r DEF InflightResetAttempts
  <2> QED BY <1>r, <2>1, ResetAttemptsRow
<1> QED BY <1>1, <1>2, <1>3, <1>4 DEF InflightStep

\* A step that charges nothing keeps what is said of the rows, and of every
\* run that does not move.
LEMMA NothingCharged ==
    ASSUME TypeInv, TypeInv', BudgetInv, \A u \in Uuids : NotCharged(u),
           IsFiniteSet(mined'), mined \subseteq mined'
    PROVE  /\ BudgetIsEarned'
           /\ \A u \in Uuids : Clean(u)' => db'[u].last_error_code \notin SIGN_CODES
           /\ \A c \in Claimers : run'[c] = run[c] => ChargeOK(c)'
<1>t. \A u \in Uuids : db[u].claim_attempts \in Nat /\ db'[u].claim_attempts \in Nat
  BY DEF TypeInv, TypeOK, Row
<1>c. \A u \in Uuids : Clean(u)' <=> Clean(u)
  BY DEF NotCharged, Clean
<1>m. IsFiniteSet(mined)
  BY DEF BudgetInv, MinedInv
<1>1. BudgetIsEarned'
  <2> SUFFICES ASSUME NEW u \in Uuids, Clean(u)
               PROVE  /\ db'[u].claim_attempts <= Cardinality(RevertedWith(u)')
                      /\ db'[u].locked => db'[u].claim_attempts >= MAX_CLAIM_ATTEMPTS
    BY <1>c DEF BudgetIsEarned, Clean
  <2>1. /\ db[u].claim_attempts <= Cardinality(RevertedWith(u))
        /\ db[u].locked => db[u].claim_attempts >= MAX_CLAIM_ATTEMPTS
    BY DEF BudgetInv, BudgetIsEarned, Clean
  <2>2. Cardinality(RevertedWith(u)) <= Cardinality(RevertedWith(u)')
    BY <1>m, RevertsGrow
  <2>3. Cardinality(RevertedWith(u)) \in Nat /\ Cardinality(RevertedWith(u)') \in Nat
    <3>1. RevertedWith(u)' \subseteq mined'
      BY DEF RevertedWith
    <3> QED BY <1>m, <3>1, RevertsCounted, FS_Subset, FS_CardinalityType
  <2> QED BY <1>t, <2>1, <2>2, <2>3 DEF NotCharged, SameBudget
<1>2. ASSUME NEW u \in Uuids, Clean(u)'
      PROVE  db'[u].last_error_code \notin SIGN_CODES
  BY <1>2, <1>c, StoreAssumption
     DEF NotCharged, BudgetInv, ALL_CODES, SIGN_CODES, CLAIM_CODES
<1>3. ASSUME NEW c \in Claimers, run'[c] = run[c]
      PROVE  ChargeOK(c)'
  <2>1. ChargeOK(c) /\ run[c].batch \in SUBSET Uuids /\ run[c].todo \in SUBSET Uuids
    BY RunTypes DEF BudgetInv
  <2>2. ASSUME NEW u \in Uuids
        PROVE  /\ Cardinality(OtherReverts(run[c].tx, u)) \in Nat
               /\ Cardinality(OtherReverts(run[c].tx, u)') \in Nat
               /\ Cardinality(OtherReverts(run[c].tx, u))
                     <= Cardinality(OtherReverts(run[c].tx, u)')
    <3> DEFINE tx == run[c].tx
    <3>1. tx' = tx
      BY <1>3
    <3>2. /\ OtherReverts(tx, u) \subseteq OtherReverts(tx, u)'
          /\ OtherReverts(tx, u)' \subseteq mined'
      BY <3>1 DEF OtherReverts, RevertedWith
    <3>3. IsFiniteSet(OtherReverts(tx, u)')
      BY <3>2, FS_Subset
    <3>4. Cardinality(OtherReverts(tx, u)') \in Nat
      BY <3>3, FS_CardinalityType
    <3> QED BY <1>m, <3>2, <3>3, <3>4, RevertsCounted, FS_Subset
  <2>3. run[c]'.pc \in UsesTx => run[c]'.tx.batch = run[c]'.batch
    BY <1>3, <2>1 DEF ChargeOK
  <2>4. run[c]'.pc \in {"drop", "lock"} => \A u \in run[c]'.todo : ~Clean(u)'
    BY <1>3, <1>c, <2>1 DEF ChargeOK
  <2>5. ASSUME At(c, "wait")' \/ (At(c, "record")' /\ run[c]'.result = "CLAIM_REVERTED"),
               NEW u \in run'[c].batch, Clean(u)'
        PROVE  db'[u].claim_attempts <= Cardinality(OtherReverts(run[c].tx, u)')
    <3>1. u \in Uuids /\ Clean(u)
      BY <1>3, <1>c, <2>1, <2>5
    <3>2. db[u].claim_attempts <= Cardinality(OtherReverts(run[c].tx, u))
      BY <1>3, <2>1, <2>5, <3>1 DEF ChargeOK, At
    <3> QED BY <1>t, <2>2, <3>1, <3>2 DEF NotCharged
  <2> QED BY <2>3, <2>4, <2>5 DEF ChargeOK
<1> QED BY <1>1, <1>2, <1>3

\* What a run may charge next, after each of its steps.
LEMMA RunStepCharge ==
    ASSUME TypeInv, BudgetInv, NEW c \in Claimers, AcquireLock(c) \/ RunStep(c)
    PROVE  ChargeOK(c)'
<1>h. ChargeOK(c) /\ run[c].batch \in SUBSET Uuids /\ run[c].todo \in SUBSET Uuids
  BY RunTypes DEF BudgetInv
<1>q. ASSUME run'[c].pc \notin UsesTx \cup {"drop", "lock"}
      PROVE  ChargeOK(c)'
  BY <1>q DEF ChargeOK, UsesTx, At
<1>c. ASSUME ~RecordResult(c)
      PROVE  \A u \in Uuids : Clean(u)' <=> Clean(u)
  BY <1>c, <1>h, RunNotCharged DEF NotCharged, Clean
\* A run with a transaction that is not yet waited for.
<1>u. ASSUME run'[c].pc \in UsesTx, run'[c].tx.batch = run'[c].batch,
             run'[c].pc # "wait", ~(run'[c].pc = "record" /\ run'[c].result = "CLAIM_REVERTED")
      PROVE  ChargeOK(c)'
  BY <1>u DEF ChargeOK, UsesTx, At
<1>1. CASE AcquireLock(c) \/ ReleaseLock(c)
  BY <1>1, <1>q, AcquireLockMoves, ReleaseLockMoves DEF Idle, UsesTx
<1>2. CASE ReconcileCheck(c) \/ ReconcileMark(c) \/ NoMoreBatches(c)
  BY <1>2, <1>q, ReconcileCheckMoves, ReconcileMarkMoves, NoMoreBatchesMoves
     DEF Stepped, Moved, UsesTx
<1>3. CASE BuildUnreachable(c) \/ BuildRaises(c) \/ RecordResult(c) \/ ClearPending(c)
  BY <1>3, <1>q, BuildUnreachableMoves, BuildRaisesMoves, RecordResultMoves,
     ClearPendingMoves DEF Stepped, Left, Moved, UsesTx
<1>4. CASE NextBatch(c)
  <2> DEFINE bad == Dropped(Picked(c) \ run[c].seen)
  <2>1. /\ UNCHANGED db /\ run'[c].pc \in {"drop", "build"} /\ run'[c].todo = bad
    BY <1>4, NextBatchMoves DEF Moved
  <2>2. ASSUME NEW u \in bad
        PROVE  ~Clean(u)
    <3>1. u \in Picked(c) /\ (~db[u].signed \/ u \in Corrupt)
      BY DEF Dropped
    <3> QED BY <3>1, UnsignedPicked DEF BudgetInv, Clean
  <2>3. \A u \in bad : ~Clean(u)'
    BY <2>1, <2>2 DEF Clean
  <2> HIDE DEF bad
  <2> QED BY <2>1, <2>3 DEF ChargeOK, UsesTx, At
<1>5. CASE DropCorrupt(c) \/ LockCorrupt(c)
  <2>1. /\ run[c].pc \in {"drop", "lock"} /\ ~RecordResult(c)
        /\ run'[c].pc \in {"lock", "drop", "next", "build"}
        /\ run'[c].todo \subseteq run[c].todo
    BY <1>5, DropCorruptMoves, LockCorruptMoves
       DEF Stepped, Moved, At, RecordResult
  <2>2. \A u \in run[c].todo : ~Clean(u)'
    BY <1>c, <1>h, <2>1 DEF ChargeOK
  <2> QED BY <2>1, <2>2 DEF ChargeOK, UsesTx, At
<1>6. CASE BuildTx(c)
  <2>1. /\ run'[c].pc = "pending" /\ run'[c].batch = run[c].batch
        /\ run'[c].tx = [nonce |-> txCount, batch |-> run[c].batch]
    BY <1>6, BuildTxMoves DEF Moved
  <2>2. run'[c].tx.batch = run'[c].batch
    BY <2>1
  <2> QED BY <1>u, <2>1, <2>2 DEF UsesTx
<1>7. CASE SetPending(c)
  BY <1>7, <1>h, <1>u, SetPendingMoves DEF Stepped, Moved, UsesTx, ChargeOK, At
<1>8. CASE BroadcastAccepted(c) \/ BroadcastNoFunds(c) \/ BroadcastFails(c)
  <2>1. /\ At(c, "broadcast") /\ UNCHANGED <<db, mined>>
        /\ run'[c].batch = run[c].batch /\ run'[c].tx = run[c].tx
        /\ run[c].tx.batch = run[c].batch
        /\ \/ run'[c].pc = "wait" /\ run[c].tx.nonce = txCount
           \/ run'[c].pc = "record" /\ run'[c].result # "CLAIM_REVERTED"
    BY <1>8, <1>h, BroadcastMoves DEF Stepped, Moved, ChargeOK, UsesTx, At
  <2>2. CASE run'[c].pc = "record"
    BY <1>u, <2>1, <2>2 DEF UsesTx
  <2>3. CASE run'[c].pc = "wait"
    <3>1. \A m \in mined : m.tx.nonce < txCount /\ m.tx.nonce \in Nat /\ txCount \in Nat
      BY DEF BudgetInv, MinedInv, TypeInv, TypeOK, ChainTypeOK, Mined, ClaimTx
    <3>2. \A u : OtherReverts(run[c].tx, u) = RevertedWith(u)
      BY <2>1, <2>3, <3>1 DEF OtherReverts, RevertedWith
    <3>3. \A u : OtherReverts(run[c].tx, u)' = OtherReverts(run[c].tx, u)
      BY <2>1 DEF OtherReverts, RevertedWith
    <3>4. \A u \in run[c].batch : Clean(u) =>
             db[u].claim_attempts <= Cardinality(OtherReverts(run[c].tx, u)')
      BY <1>h, <3>2, <3>3 DEF BudgetInv, BudgetIsEarned, Clean
    <3>5. \A u \in run'[c].batch : Clean(u)' =>
             db'[u].claim_attempts <= Cardinality(OtherReverts(run[c].tx, u)')
      BY <2>1, <3>4 DEF Clean
    <3> QED BY <2>1, <2>3, <3>5 DEF ChargeOK, UsesTx, At
  <2> QED BY <2>1, <2>2, <2>3
<1>9. CASE WaitConfirmed(c) \/ WaitReverted(c) \/ WaitTimesOut(c)
  <2>1. /\ At(c, "wait") /\ UNCHANGED <<db, mined>> /\ run'[c].pc = "record"
        /\ run'[c].batch = run[c].batch /\ run'[c].tx = run[c].tx
    BY <1>9, WaitMoves DEF Moved, chainVars
  <2>2. \A u : OtherReverts(run[c].tx, u)' = OtherReverts(run[c].tx, u)
    BY <2>1 DEF OtherReverts, RevertedWith
  <2>3. \A u \in run[c].batch : Clean(u) =>
             db[u].claim_attempts <= Cardinality(OtherReverts(run[c].tx, u)')
    BY <1>h, <2>1, <2>2 DEF ChargeOK, At
  <2>4. \A u \in run'[c].batch : Clean(u)' =>
             db'[u].claim_attempts <= Cardinality(OtherReverts(run[c].tx, u)')
    BY <2>1, <2>3 DEF Clean
  <2> QED BY <1>h, <2>1, <2>4 DEF ChargeOK, UsesTx, At
<1> QED BY <1>1, <1>2, <1>3, <1>4, <1>5, <1>6, <1>7, <1>8, <1>9 DEF RunStep

\* A recorded revert charges one attempt, which the reverted transaction has
\* earned.
LEMMA RevertCharges ==
    ASSUME TypeInv, BudgetInv, NEW c \in Claimers, RecordResult(c),
           run[c].result = "CLAIM_REVERTED"
    PROVE  /\ BudgetIsEarned'
           /\ \A u \in Uuids : Clean(u)' => db'[u].last_error_code \notin SIGN_CODES
<1>1. /\ At(c, "record") /\ UNCHANGED chainVars /\ db \in Table
      /\ db' = mark_claim_failed(db, run[c].batch, "CLAIM_REVERTED")
  BY RecordResultMoves, RunTypes
<1>2. PICK m \in mined : m.tx = run[c].tx /\ ~m.ok
  BY <1>1 DEF BudgetInv, MinedInv, Executed
<1>3. IsFiniteSet(mined) /\ UNCHANGED mined
  BY <1>1 DEF BudgetInv, MinedInv, chainVars
<1>4. \A u \in Uuids : RevertedWith(u)' = RevertedWith(u)
  BY <1>3 DEF RevertedWith
<1>c. counts_against_retry_budget("CLAIM_REVERTED") = TRUE
  BY DEF counts_against_retry_budget, TRANSIENT_CODES
<1>5. ASSUME NEW u \in Uuids, Clean(u)'
      PROVE  /\ db'[u].claim_attempts <= Cardinality(RevertedWith(u))
             /\ db'[u].locked => db'[u].claim_attempts >= MAX_CLAIM_ATTEMPTS
             /\ db'[u].last_error_code \notin SIGN_CODES
  <2>1. db'[u].sign_attempts = db[u].sign_attempts
    BY <1>1, MarkClaimFailedRow DEF SameSigning
  <2>2. /\ Clean(u) /\ db[u].claim_attempts \in Nat
        /\ db[u].claim_attempts <= Cardinality(RevertedWith(u))
        /\ db[u].locked => db[u].claim_attempts >= MAX_CLAIM_ATTEMPTS
        /\ db[u].last_error_code \notin SIGN_CODES
    BY <1>1, <1>5, <2>1 DEF Clean, BudgetInv, BudgetIsEarned, Table, Row
  <2>3. CASE u \in run[c].batch /\ db[u].claimed_at = NULL /\ ~db[u].locked
    <3>1. db[u].claim_attempts <= Cardinality(OtherReverts(run[c].tx, u))
      BY <1>1, <2>2, <2>3 DEF BudgetInv, ChargeOK
    <3>2. m \in RevertedWith(u) /\ m \notin OtherReverts(run[c].tx, u)
      BY <1>1, <1>2, <2>3 DEF BudgetInv, ChargeOK, UsesTx, At, RevertedWith, OtherReverts
    <3>3. Cardinality(OtherReverts(run[c].tx, u) \cup {m})
             = Cardinality(OtherReverts(run[c].tx, u)) + 1
      BY <1>3, <3>2, RevertsCounted, FS_AddElement
    <3>4. OtherReverts(run[c].tx, u) \cup {m} \subseteq RevertedWith(u)
      BY <3>2 DEF OtherReverts
    <3>5. Cardinality(OtherReverts(run[c].tx, u) \cup {m}) <= Cardinality(RevertedWith(u))
      BY <1>3, <3>4, RevertsCounted, FS_Subset
    <3>6. /\ Cardinality(OtherReverts(run[c].tx, u)) \in Nat
          /\ Cardinality(RevertedWith(u)) \in Nat
      BY <1>3, RevertsCounted
    <3>7. /\ db'[u].claim_attempts = db[u].claim_attempts + 1
          /\ db'[u].locked => db[u].claim_attempts + 1 >= MAX_CLAIM_ATTEMPTS
          /\ db'[u].last_error_code = "CLAIM_REVERTED"
      BY <1>1, <1>c, <2>3, RevertedRow
    <3> QED BY <2>2, <3>1, <3>3, <3>5, <3>6, <3>7 DEF SIGN_CODES
  <2>4. CASE ~(u \in run[c].batch /\ db[u].claimed_at = NULL /\ ~db[u].locked)
    <3>1. db'[u] = db[u]
      BY <1>1, <2>4, MarkClaimFailedRow
    <3> QED BY <2>2, <3>1
  <2> QED BY <2>3, <2>4
<1>6. BudgetIsEarned'
  BY <1>4, <1>5 DEF BudgetIsEarned, Clean
<1> QED BY <1>5, <1>6

\* Without reorganisations a mined transaction stays mined.
LEMMA ChainStepMined ==
    ASSUME TypeInv, BudgetInv, MaxReorgs = 0, ChainNext
    PROVE  /\ IsFiniteSet(mined') /\ mined \subseteq mined'
           /\ \A m \in mined' : m.tx.nonce < txCount'
<1>i. /\ IsFiniteSet(mined) /\ \A m \in mined : m.tx.nonce < txCount
      /\ txCount \in Nat /\ \A m \in mined : m.tx.nonce \in Nat
  BY DEF BudgetInv, MinedInv, TypeInv, TypeOK, ChainTypeOK, Mined, ClaimTx
<1>1. ASSUME NEW tx \in mempool, NEW ok, NEW paid, Execute(tx, ok, paid)
      PROVE  /\ IsFiniteSet(mined') /\ mined \subseteq mined'
             /\ \A m \in mined' : m.tx.nonce < txCount'
  <2> DEFINE new == [tx |-> tx, ok |-> ok, paid |-> paid, height |-> head + 1,
                     skipped |-> IF ok THEN tx.batch \ (paid \cup NonceUsed)
                                 ELSE {}]
  <2>1. /\ mined' = mined \cup {new} /\ txCount' = txCount + 1
        /\ new.tx.nonce = txCount
    BY <1>1 DEF Execute
  <2> HIDE DEF new
  <2>2. IsFiniteSet(mined')
    BY <1>i, <2>1, FS_AddElement
  <2>3. \A m \in mined' : m.tx.nonce < txCount'
    BY <1>i, <2>1
  <2> QED BY <2>1, <2>2, <2>3
<1>2. ASSUME NEW tx \in mempool, MineOk(tx) \/ MineReverted(tx)
      PROVE  \E ok, paid : Execute(tx, ok, paid)
  BY <1>2 DEF MineOk, MineReverted
<1>3. CASE UNCHANGED <<mined, txCount>>
  BY <1>i, <1>3
<1>4. ASSUME NEW m \in mined, Reorg(m)
      PROVE  FALSE
  BY <1>4 DEF Reorg, TypeInv, TypeOK, ChainTypeOK
<1> QED BY <1>1, <1>2, <1>3, <1>4 DEF ChainNext, Evict, SettleOutOfBand, EmptyBlock

LEMMA StepMined ==
    ASSUME TypeInv, ClaimMutex, BudgetInv, MaxReorgs = 0, [Next]_vars
    PROVE  MinedInv' /\ mined \subseteq mined'
<1>i. MinedInv
  BY DEF BudgetInv
<1>k. ASSUME mined \subseteq mined', IsFiniteSet(mined'),
             \A m \in mined' : m.tx.nonce < txCount',
             \A c \in Claimers : run'[c] = run[c] \/ run'[c] = Idle
      PROVE  MinedInv' /\ mined \subseteq mined'
  BY <1>i, <1>k DEF MinedInv, Executed, At, Idle
<1>1. ASSUME NEW c \in Claimers, Claim(c)
      PROVE  MinedInv' /\ mined \subseteq mined'
  <2>1. AcquireLock(c) \/ RunStep(c)
    BY <1>1 DEF Claim
  <2>2. UNCHANGED <<mined, txCount>>
    BY <2>1, RunStepChain
  <2>3. ASSUME NEW d \in Claimers, run'[d].pc = "record",
               run'[d].result = "CLAIM_REVERTED"
        PROVE  Executed(run'[d].tx, FALSE)
    <3>1. d = c
      BY <2>1, <2>3, OthersIdle DEF At
    <3> QED BY <2>1, <2>3, <3>1, RunStepReverts
  <2> QED BY <1>i, <2>2, <2>3 DEF MinedInv, At, Executed
<1>2. CASE Chain
  BY <1>2, <1>k, ChainStepMined DEF Chain
<1>3. CASE UNCHANGED <<mined, txCount, run>>
  BY <1>i, <1>3, <1>k DEF MinedInv
<1>4. ASSUME NEW c \in Claimers, CliCrash(c)
      PROVE  MinedInv' /\ mined \subseteq mined'
  <2>1. \A d \in Claimers : run'[d] = run[d] \/ run'[d] = Idle
    BY <1>4, RunTypes DEF CliCrash, KillRun, Proceed
  <2> QED BY <1>4, <1>i, <1>k, <2>1 DEF MinedInv, CliCrash, chainVars
<1>5. CASE DaemonCrash
  BY <1>5, <1>i, <1>k DEF MinedInv, DaemonCrash, chainVars
<1>6. ASSUME NEW r \in Reapers, Reap(r)
      PROVE  UNCHANGED <<mined, txCount, run>>
  BY <1>6 DEF Reap, ReaperStep, CheckTimeouts, TimeoutVerdicts, MarkLanded,
     ClearDropped, CheckFinality, RevertFlipped, CheckReorgs, RevertUnused,
     UnusedVerdicts, chainVars
<1>7. Reconcile => UNCHANGED <<mined, txCount, run>>
  BY DEF Reconcile, InflightStep, InflightCheck, InflightMark,
     InflightClearLanded, InflightClearUnused, InflightResetAttempts, chainVars
<1> QED BY <1>1, <1>2, <1>3, <1>4, <1>5, <1>6, <1>7
       DEF Next, PollerSigns, AttemptAges, ClaimAges, vars, chainVars

LEMMA StepBudget ==
    ASSUME MaxReorgs = 0
    PROVE  TypeInv /\ ClaimMutex /\ BudgetInv /\ [Next]_vars => BudgetInv'
<1> SUFFICES ASSUME TypeInv, ClaimMutex, BudgetInv, [Next]_vars PROVE BudgetInv'
  OBVIOUS
<1>t. TypeInv'
  BY StepType
<1>m. MinedInv' /\ mined \subseteq mined' /\ IsFiniteSet(mined')
  BY StepMined DEF MinedInv
<1>i. ASSUME NEW c \in Claimers, run'[c] = Idle
      PROVE  ChargeOK(c)'
  BY <1>i DEF ChargeOK, Idle, UsesTx, At
<1>k. ASSUME \A u \in Uuids : NotCharged(u),
             \A c \in Claimers : \/ run'[c] = run[c] \/ run'[c] = Idle
                                 \/ ChargeOK(c)'
      PROVE  BudgetInv'
  <2>1. /\ BudgetIsEarned'
        /\ \A u \in Uuids : Clean(u)' => db'[u].last_error_code \notin SIGN_CODES
        /\ \A c \in Claimers : run'[c] = run[c] => ChargeOK(c)'
    BY <1>k, <1>m, <1>t, NothingCharged
  <2>2. \A c \in Claimers : ChargeOK(c)'
    BY <1>i, <1>k, <2>1
  <2> QED BY <1>m, <2>1, <2>2 DEF BudgetInv
<1>u. UNCHANGED db => \A u \in Uuids : NotCharged(u)
  <2>1. \A u \in Uuids : db[u].claim_attempts \in Nat
    BY DEF TypeInv, TypeOK, Row
  <2> QED BY <2>1 DEF NotCharged, SameBudget
<1>1. ASSUME NEW v \in Uuids, PollerSigns(v) \/ AttemptAges(v) \/ ClaimAges(v)
      PROVE  BudgetInv'
  <2>1. \A u \in Uuids : db[u].claim_attempts \in Nat
    BY DEF TypeInv, TypeOK, Row
  <2>2. \A u \in Uuids : NotCharged(u)
    BY <1>1, <2>1, AgingRows DEF NotCharged, SameBudget
  <2> QED BY <1>1, <1>k, <2>2 DEF PollerSigns, AttemptAges, ClaimAges
<1>2. ASSUME NEW c \in Claimers, Claim(c)
      PROVE  BudgetInv'
  <2>1. AcquireLock(c) \/ RunStep(c)
    BY <1>2 DEF Claim
  <2>2. ChargeOK(c) /\ ChargeOK(c)'
    BY <2>1, RunStepCharge DEF BudgetInv
  <2>3. \A d \in Claimers \ {c} : run'[d] = run[d] /\ At(d, "idle")
    BY <2>1, OthersIdle
  <2>4. CASE ~(RecordResult(c) /\ run[c].result = "CLAIM_REVERTED")
    BY <1>k, <2>1, <2>2, <2>3, <2>4, RunNotCharged
  <2>5. CASE RecordResult(c) /\ run[c].result = "CLAIM_REVERTED"
    <3>1. \A d \in Claimers \ {c} : ChargeOK(d)'
      BY <2>3 DEF ChargeOK, UsesTx, At
    <3> QED BY <1>m, <2>2, <2>5, <3>1, RevertCharges DEF BudgetInv
  <2> QED BY <2>4, <2>5
<1>3. ASSUME NEW r \in Reapers, Reap(r)
      PROVE  BudgetInv'
  BY <1>3, <1>k, ReaperNotCharged DEF Reap
<1>4. CASE Reconcile
  BY <1>4, <1>k, InflightNotCharged DEF Reconcile
<1>5. ASSUME NEW c \in Claimers, CliCrash(c)
      PROVE  BudgetInv'
  <2>1. \A d \in Claimers : run'[d] = run[d] \/ run'[d] = Idle
    BY <1>5, RunTypes DEF CliCrash, KillRun, Proceed
  <2> QED BY <1>5, <1>k, <1>u, <2>1 DEF CliCrash
<1>6. CASE DaemonCrash
  BY <1>6, <1>k, <1>u DEF DaemonCrash
<1>7. CASE UNCHANGED <<db, run>>
  BY <1>7, <1>k, <1>u
<1> QED BY <1>1, <1>2, <1>3, <1>4, <1>5, <1>6, <1>7 DEF Next, Chain, vars

LEMMA InitBudget == Init => BudgetInv
<1> SUFFICES ASSUME Init PROVE BudgetInv
  OBVIOUS
<1>1. ASSUME NEW kind \in StartRows
      PROVE  LET row == StartRow(kind) IN
             /\ row.claim_attempts = 0 /\ ~row.locked
             /\ row.sign_attempts = 0 => row.last_error_code = NULL
  BY SystemAssumption DEF StartRow, PendingRow, NoRow
<1>2. ASSUME NEW u \in Uuids
      PROVE  /\ db[u].claim_attempts = 0 /\ ~db[u].locked
             /\ db[u].sign_attempts = 0 => db[u].last_error_code = NULL
  BY <1>1 DEF Init
<1>3. mined = {} /\ \A c \in Claimers : run[c].pc = "idle"
  BY DEF Init, ChainInit, SettlementInit, Idle
<1>4. MinedInv
  BY <1>3, FS_EmptySet DEF MinedInv, At
<1>5. BudgetIsEarned
  <2>1. \A u : Cardinality(RevertedWith(u)) \in Nat
    BY <1>4, RevertsCounted DEF MinedInv
  <2>2. \A u \in Uuids : 0 <= Cardinality(RevertedWith(u))
    BY <2>1
  <2> QED BY <1>2, <2>2 DEF BudgetIsEarned
<1>6. \A u \in Uuids : Clean(u) => db[u].last_error_code \notin SIGN_CODES
  BY <1>2, StoreAssumption DEF Clean, ALL_CODES
<1>7. \A c \in Claimers : ChargeOK(c)
  BY <1>3 DEF ChargeOK, UsesTx, At
<1> QED BY <1>4, <1>5, <1>6, <1>7 DEF BudgetInv

\* On a chain that takes nothing back, a well-signed receipt that the gateway
\* never rejected is charged no more claim attempts than transactions holding
\* it were mined and reverted, and is given up only after MAX_CLAIM_ATTEMPTS
\* of them: in every mode, through kills and restarts of every process
\* (mark_claim_failed, counts_against_retry_budget, reset_claim_attempts).
THEOREM BudgetsAreEarned ==
    ASSUME MaxReorgs = 0
    PROVE  Spec => []BudgetIsEarned
<1>1. TypeInv /\ ClaimMutex /\ BudgetInv /\ [Next]_vars => BudgetInv'
  BY StepBudget
<1>2. BudgetInv => BudgetIsEarned
  BY DEF BudgetInv
<1> QED BY <1>1, <1>2, InitType, StepType, InitMutex, StepMutex, InitBudget,
           PTL DEF Spec
=============================================================================
