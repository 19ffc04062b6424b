-------------------------- MODULE ClaimSystemProofs --------------------------
(***************************************************************************)
(* Theorems about ClaimSystem, for every value of its constants: types,    *)
(* mutual exclusion, what a claim rests on, and that it implements         *)
(* ClaimLifecycle.                                                         *)
(***************************************************************************)
EXTENDS ClaimProperties, ReceiptStoreProofs, FiniteSetTheorems

-----------------------------------------------------------------------------
(* Type correctness.  A run that is about to use its transaction has one,  *)
(* and a single-receipt retry names a receipt.                             *)

UsesTx == {"pending", "broadcast", "wait", "record"}

WellFormed(r) ==
    /\ r.pc \in UsesTx => r.tx \in ClaimTx
    /\ r.mode = "only" => r.only \in Uuids

RunsWellFormed == \A c \in Claimers : WellFormed(run[c])

TypeInv == TypeOK /\ RunsWellFormed

LEMMA OldestSubset ==
    ASSUME NEW S \in SUBSET Uuids, NEW n
    PROVE  Oldest(S, n) \in SUBSET S
BY DEF Oldest

\* A claimer that proceeds to a well-formed state keeps the runs well formed.
LEMMA ProceedType ==
    ASSUME TypeInv, NEW c \in Claimers, NEW r \in Run,
           WellFormed(r), Proceed(c, r)
    PROVE  run' \in [Claimers -> Run] /\ RunsWellFormed'
BY DEF TypeInv, TypeOK, SettlementTypeOK, RunsWellFormed, Proceed

\* A run that leaves its batch is well formed at any pc that needs none.
LEMMA LeaveType ==
    ASSUME NEW r \in Run, WellFormed(r), NEW pc \in {"next", "stop"}
    PROVE  Leave(r, pc) \in Run /\ WellFormed(Leave(r, pc))
BY DEF Leave, Run, RunPc, UsesTx, WellFormed

LEMMA IdleType == Idle \in Run /\ WellFormed(Idle)
BY DEF Idle, Run, RunPc, UsesTx, WellFormed

LEMMA PickedType ==
    ASSUME TypeInv, NEW c \in Claimers
    PROVE  Picked(c) \in SUBSET Uuids
<1>1. run[c] \in Run /\ WellFormed(run[c])
  BY DEF TypeInv, TypeOK, SettlementTypeOK, RunsWellFormed
<1>2. unclaimed(db, run[c].mode = "retryable") \in SUBSET Uuids
  BY DEF unclaimed
<1> QED BY <1>1, <1>2, OldestSubset DEF Picked, WellFormed

\* One step of a claim run keeps the types.
LEMMA RunStepType ==
    ASSUME TypeInv, NEW c \in Claimers, AcquireLock(c) \/ RunStep(c)
    PROVE  db' \in Table /\ ChainTypeOK' /\ SettlementTypeOK' /\ RunsWellFormed'
<1> DEFINE Good(r) == r \in Run /\ WellFormed(r)
<1>r. /\ Good(run[c])
      /\ run \in [Claimers -> Run]
      /\ db \in Table /\ ChainTypeOK
      /\ claimLock \in Claimers \cup {NULL}
  BY DEF TypeInv, TypeOK, SettlementTypeOK, RunsWellFormed, Table
<1>k. UNCHANGED chainVars => ChainTypeOK'
  BY <1>r DEF chainVars, ChainTypeOK
<1>p. ASSUME NEW r, Good(r), Proceed(c, r)
      PROVE  run' \in [Claimers -> Run] /\ RunsWellFormed'
  BY <1>p, ProceedType
<1>q. Picked(c) \in SUBSET Uuids
  BY PickedType
<1>f. First(run[c].todo) \in SUBSET Uuids
  BY <1>r, OldestSubset DEF First, Run
<1>1. CASE AcquireLock(c)
  <2>1. PICK mode \in Modes, only \in Uuids \cup {NULL} :
           /\ mode = "only" => only \in Uuids
           /\ Proceed(c, [Idle EXCEPT !.pc = "reconcile", !.mode = mode,
                                      !.only = only])
    BY <1>1 DEF AcquireLock
  <2>2. Good([Idle EXCEPT !.pc = "reconcile", !.mode = mode, !.only = only])
    BY <2>1, SettlementAssumption DEF Idle, Run, RunPc, UsesTx, WellFormed
  <2> HIDE DEF Good
  <2> QED BY <1>1, <1>r, <1>k, <1>p, <2>1, <2>2
         DEF AcquireLock, SettlementTypeOK
<1>2. CASE ReleaseLock(c)
  BY <1>2, <1>r, <1>k, <1>p, IdleType DEF ReleaseLock, SettlementTypeOK
<1>3. CASE ReconcileCheck(c)
  <2>1. PICK already \in SUBSET Uuids :
           Proceed(c, [run[c] EXCEPT
              !.todo = already,
              !.pc = IF already = {} THEN "next" ELSE "external"])
    BY <1>3, OldestSubset DEF ReconcileCheck, unclaimed
  <2>2. Good([run[c] EXCEPT
           !.todo = already,
           !.pc = IF already = {} THEN "next" ELSE "external"])
    BY <1>r DEF Run, RunPc, UsesTx, WellFormed
  <2> HIDE DEF Good
  <2> QED BY <1>3, <1>r, <1>k, <1>p, <2>1, <2>2
         DEF ReconcileCheck, SettlementTypeOK
<1>4. CASE ReconcileMark(c)
  <2>1. Good([run[c] EXCEPT !.pc = "next", !.todo = {}])
    BY <1>r DEF Run, RunPc, UsesTx, WellFormed
  <2> HIDE DEF Good
  <2> QED BY <1>4, <1>r, <1>k, <1>p, <2>1, MarkClaimedType
         DEF ReconcileMark, SettlementTypeOK
<1>5. CASE NextBatch(c)
  <2> DEFINE batch == Picked(c) \ run[c].seen
             bad   == Dropped(batch)
             next  == [run[c] EXCEPT
                         !.seen  = @ \cup batch,
                         !.batch = batch \ bad,
                         !.todo  = bad,
                         !.pc    = IF bad # {} THEN "drop" ELSE "build"]
  <2>1. batch \in SUBSET Uuids /\ bad \in SUBSET Uuids
    BY <1>q DEF Dropped
  <2>2. Good(next)
    <3> HIDE DEF batch, bad
    <3> QED BY <1>r, <2>1 DEF Run, RunPc, UsesTx, WellFormed
  <2>3. Proceed(c, next)
    BY <1>5 DEF NextBatch
  <2> HIDE DEF Good, next
  <2> QED BY <1>5, <1>r, <1>k, <1>p, <2>2, <2>3
         DEF NextBatch, SettlementTypeOK
<1>6. CASE NoMoreBatches(c) \/ BuildRaises(c) \/ BuildUnreachable(c)
  <2>1. Good([run[c] EXCEPT !.pc = "stop"])
    BY <1>r DEF Run, RunPc, UsesTx, WellFormed
  <2>2. Good(Leave(run[c], "stop"))
    BY <1>r, LeaveType
  <2>3. mark_claim_failed(db, run[c].batch, "CLAIM_RPC_UNREACHABLE") \in Table
    BY <1>r, MarkClaimFailedType DEF ALL_CODES, CLAIM_CODES
  <2> HIDE DEF Good
  <2> QED BY <1>6, <1>r, <1>k, <1>p, <2>1, <2>2, <2>3
         DEF NoMoreBatches, BuildRaises, BuildUnreachable, Goto,
             SettlementTypeOK
<1>7. CASE DropCorrupt(c)
  <2>1. Good([run[c] EXCEPT !.pc = "lock"])
    BY <1>r DEF Run, RunPc, UsesTx, WellFormed
  <2>2. mark_claim_failed(db, First(run[c].todo), "SIGN_VERIFY_FAILED") \in Table
    BY <1>r, MarkClaimFailedType DEF ALL_CODES, SIGN_CODES
  <2> HIDE DEF Good
  <2> QED BY <1>7, <1>r, <1>k, <1>p, <2>1, <2>2
         DEF DropCorrupt, Goto, SettlementTypeOK
<1>8. CASE LockCorrupt(c)
  <2>1. PICK u \in First(run[c].todo) :
           /\ db' = lock(db, u)
           /\ Proceed(c, [run[c] EXCEPT
                 !.todo = run[c].todo \ {u},
                 !.pc = IF run[c].todo \ {u} # {} THEN "drop"
                        ELSE IF run[c].batch = {} THEN "next"
                        ELSE "build"])
    BY <1>8 DEF LockCorrupt
  <2>2. Good([run[c] EXCEPT
           !.todo = run[c].todo \ {u},
           !.pc = IF run[c].todo \ {u} # {} THEN "drop"
                  ELSE IF run[c].batch = {} THEN "next"
                  ELSE "build"])
    BY <1>r DEF Run, RunPc, UsesTx, WellFormed
  <2> HIDE DEF Good
  <2> QED BY <1>8, <1>f, <1>r, <1>k, <1>p, <2>1, <2>2, LockType
         DEF LockCorrupt, SettlementTypeOK
<1>9. CASE BuildTx(c)
  <2> DEFINE tx == [nonce |-> txCount, batch |-> run[c].batch]
             next == [run[c] EXCEPT !.pc = "pending", !.tx = tx]
  <2>1. tx \in ClaimTx
    BY <1>r DEF ClaimTx, ChainTypeOK, Run
  <2>2. Good(next)
    <3> HIDE DEF tx
    <3> QED BY <1>r, <2>1 DEF Run, RunPc, WellFormed
  <2>3. Proceed(c, next)
    BY <1>9 DEF BuildTx
  <2> HIDE DEF Good, next
  <2> QED BY <1>9, <1>r, <1>k, <1>p, <2>2, <2>3 DEF BuildTx, SettlementTypeOK
<1>10. CASE SetPending(c)
  <2>1. Good([run[c] EXCEPT !.pc = "broadcast"]) /\ run[c].tx \in ClaimTx
    BY <1>10, <1>r DEF SetPending, At, Run, RunPc, UsesTx, WellFormed
  <2> HIDE DEF Good
  <2> QED BY <1>10, <1>r, <1>k, <1>p, <2>1, SetPendingType
         DEF SetPending, Goto, SettlementTypeOK
<1>11. CASE BroadcastAccepted(c) \/ BroadcastFails(c) \/ BroadcastNoFunds(c)
  <2>1. /\ Good([run[c] EXCEPT !.pc = "wait"])
        /\ Good([run[c] EXCEPT !.pc = "record",
                               !.result = "CLAIM_RPC_UNREACHABLE"])
        /\ Good([run[c] EXCEPT !.pc = "record",
                               !.result = "CLAIM_INSUFFICIENT_GAS"])
        /\ run[c].tx \in ClaimTx
    BY <1>11, <1>r DEF BroadcastAccepted, BroadcastFails, BroadcastNoFunds,
       At, Run, RunPc, UsesTx, WellFormed, CLAIM_CODES
  <2>2. Admit(run[c].tx) \subseteq ClaimTx
    BY <1>r, <2>1 DEF Admit, ChainTypeOK
  <2>3. ChainTypeOK'
    BY <1>11, <1>r, <1>k, <2>2
       DEF BroadcastAccepted, BroadcastFails, BroadcastNoFunds, ChainTypeOK
  <2> HIDE DEF Good
  <2> QED BY <1>11, <1>r, <1>p, <2>1, <2>3
         DEF BroadcastAccepted, BroadcastFails, BroadcastNoFunds, Goto,
             SettlementTypeOK
<1>12. CASE WaitConfirmed(c) \/ WaitReverted(c) \/ WaitTimesOut(c)
  <2>1. PICK result \in CLAIM_CODES \cup {"OK"} : WaitOutcome(c, result)
    BY <1>12 DEF WaitConfirmed, WaitReverted, WaitTimesOut, CLAIM_CODES
  <2>2. Good([run[c] EXCEPT !.pc = "record", !.result = result])
    BY <1>r, <2>1 DEF WaitOutcome, At, Run, RunPc, UsesTx, WellFormed
  <2> HIDE DEF Good
  <2> QED BY <1>r, <1>k, <1>p, <2>1, <2>2 DEF WaitOutcome, SettlementTypeOK
<1>13. CASE RecordResult(c)
  <2> DEFINE result == run[c].result
             kept == [run[c] EXCEPT !.pc = "clear", !.todo = run[c].batch]
             left == Leave(run[c], AfterBatch(result))
  <2>1. result \in CLAIM_CODES \cup {"OK"} /\ run[c].tx \in ClaimTx
    BY <1>13, <1>r DEF RecordResult, At, Run, UsesTx, WellFormed
  <2>2. Good(kept)
    BY <1>r DEF Run, RunPc, UsesTx, WellFormed
  <2>3. Good(left)
    BY <1>r, LeaveType DEF AfterBatch
  <2>4. Proceed(c, kept) \/ Proceed(c, left)
    BY <1>13 DEF RecordResult
  <2>5. db' \in Table
    BY <1>13, <1>r, <2>1, MarkClaimedType, MarkClaimFailedType
       DEF RecordResult, ALL_CODES
  <2> HIDE DEF Good, kept, left
  <2> QED BY <1>13, <1>r, <1>k, <1>p, <2>2, <2>3, <2>4, <2>5
         DEF RecordResult, SettlementTypeOK
<1>14. CASE ClearPending(c)
  <2>1. PICK u \in First(run[c].todo) :
           /\ db' = clear_claim_tx_pending(db, u)
           /\ \/ Proceed(c, [run[c] EXCEPT !.todo = run[c].todo \ {u}])
              \/ Proceed(c, Leave(run[c], AfterBatch(run[c].result)))
    BY <1>14 DEF ClearPending
  <2>2. Good([run[c] EXCEPT !.todo = run[c].todo \ {u}])
    BY <1>r DEF Run, WellFormed
  <2>3. Good(Leave(run[c], AfterBatch(run[c].result)))
    BY <1>r, LeaveType DEF AfterBatch
  <2> HIDE DEF Good
  <2> QED BY <1>14, <1>f, <1>r, <1>k, <1>p, <2>1, <2>2, <2>3, ClearPendingType
         DEF ClearPending, SettlementTypeOK
<1> QED
  BY <1>1, <1>2, <1>3, <1>4, <1>5, <1>6, <1>7, <1>8, <1>9, <1>10, <1>11,
     <1>12, <1>13, <1>14 DEF RunStep

\* One step of the chain keeps its types.
LEMMA ChainStepType ==
    ASSUME ChainTypeOK, ChainNext
    PROVE  ChainTypeOK'
<1>1. ASSUME NEW tx \in mempool, NEW ok \in BOOLEAN, NEW paid \in SUBSET Uuids,
             Execute(tx, ok, paid)
      PROVE  ChainTypeOK'
  <2> DEFINE skipped == IF ok THEN tx.batch \ (paid \cup NonceUsed) ELSE {}
             new == [tx |-> tx, ok |-> ok, paid |-> paid, height |-> head + 1,
                     skipped |-> skipped]
  <2>1. tx \in ClaimTx /\ tx.batch \in SUBSET Uuids
    BY DEF ChainTypeOK, ClaimTx
  <2>2. skipped \in SUBSET Uuids
    BY <2>1
  <2>3. new \in Mined
    <3> HIDE DEF skipped
    <3> QED BY <2>1, <2>2 DEF ChainTypeOK, Mined
  <2>4. mined' = mined \cup {new}
    BY <1>1 DEF Execute
  <2> HIDE DEF new
  <2> QED BY <1>1, <2>3, <2>4 DEF Execute, ChainTypeOK
<1>2. CASE \E tx \in mempool : MineOk(tx)
  <2>1. PICK tx \in mempool :
           \E skipped \in SUBSET tx.batch : Execute(tx, TRUE, tx.batch \ skipped)
    BY <1>2 DEF MineOk
  <2>2. tx.batch \in SUBSET Uuids
    BY DEF ChainTypeOK, ClaimTx
  <2> QED BY <1>1, <2>1, <2>2
<1>3. CASE \E tx \in mempool : MineReverted(tx)
  BY <1>1, <1>3 DEF MineReverted
<1>4. CASE \E tx \in mempool : Evict(tx)
  BY <1>4 DEF Evict, ChainTypeOK
<1>5. CASE \E u \in Uuids : SettleOutOfBand(u)
  BY <1>5 DEF SettleOutOfBand, ChainTypeOK
<1>6. CASE EmptyBlock
  BY <1>6 DEF EmptyBlock, ChainTypeOK
<1>7. CASE \E m \in mined : Reorg(m)
  <2>1. PICK m \in mined : Reorg(m)
    BY <1>7
  <2>2. /\ m.tx \in ClaimTx /\ m.tx.nonce \in Nat
        /\ m.paid \in SUBSET Uuids /\ m.skipped \in SUBSET Uuids
    BY DEF ChainTypeOK, Mined, ClaimTx
  <2>3. txCount - 1 \in Nat
    BY <2>1, <2>2 DEF Reorg, ChainTypeOK
  <2>4. Admit(m.tx) \subseteq ClaimTx
    BY <2>2 DEF Admit, ChainTypeOK
  <2> QED BY <2>1, <2>2, <2>3, <2>4 DEF Reorg, ChainTypeOK
<1> QED BY <1>2, <1>3, <1>4, <1>5, <1>6, <1>7 DEF ChainNext

\* One step of a reaper keeps the types.
LEMMA ReaperStepType ==
    ASSUME TypeInv, NEW r \in Reapers, ReaperStep(r)
    PROVE  db' \in Table /\ ChainTypeOK' /\ ReaperTypeOK'
<1>r. /\ reaper[r] \in ReaperState
      /\ reaper \in [Reapers -> ReaperState]
      /\ db \in Table /\ ChainTypeOK
  BY DEF TypeInv, TypeOK, ReaperTypeOK, Table
<1>k. UNCHANGED chainVars => ChainTypeOK'
  BY <1>r DEF chainVars, ChainTypeOK
<1>c. ASSUME NEW tick \in ReaperState, Continue(r, tick)
      PROVE  ReaperTypeOK'
  BY <1>c, <1>r DEF Continue, ReaperTypeOK
<1>w. ASSUME NEW u, NEW next \in ReaperPc, Written(r, u, next)
      PROVE  ReaperTypeOK'
  <2> DEFINE left == reaper[r].todo \ {u}
             tick == [reaper[r] EXCEPT
                         !.todo = left,
                         !.pc = IF left # {} THEN @ ELSE next]
  <2>1. left \in SUBSET Uuids
    BY <1>r DEF ReaperState
  <2>2. tick \in ReaperState
    <3> HIDE DEF left
    <3> QED BY <1>r, <2>1 DEF ReaperState
  <2>3. Continue(r, tick)
    BY <1>w DEF Written
  <2> HIDE DEF tick
  <2> QED BY <1>c, <2>2, <2>3
<1>v. ASSUME NEW unused \in SUBSET Uuids, NEW write \in ReaperPc,
             NEW next \in ReaperPc, UnusedVerdicts(r, unused, write, next)
      PROVE  db' \in Table /\ ChainTypeOK' /\ ReaperTypeOK'
  <2> DEFINE tick == [reaper[r] EXCEPT
                         !.pc = IF unused # {} THEN write ELSE next,
                         !.todo = unused]
  <2>1. tick \in ReaperState
    BY <1>r DEF ReaperState
  <2>2. Continue(r, tick) /\ UNCHANGED <<db, chainVars>>
    BY <1>v DEF UnusedVerdicts
  <2> HIDE DEF tick
  <2> QED BY <1>c, <1>k, <1>r, <2>1, <2>2
<1>o. Oldest(reaper[r].todo, 1) \in SUBSET Uuids
  BY <1>r, OldestSubset DEF ReaperState
<1>1. CASE CheckTimeouts(r)
  <2>1. PICK landed \in SUBSET Uuids, dropped \in SUBSET Uuids,
             block \in {head, NULL} : TimeoutVerdicts(r, landed, dropped, block)
    BY <1>1 DEF CheckTimeouts, list_timed_out_claims
  <2> DEFINE tick == [pc     |-> IF landed # {} THEN "landed"
                                 ELSE IF dropped # {} THEN "dropped"
                                 ELSE "finality",
                      landed |-> landed,
                      todo   |-> dropped,
                      block  |-> IF landed # {} THEN block ELSE NULL]
  <2>2. tick \in ReaperState
    BY <1>r DEF ReaperState, ReaperPc, ChainTypeOK
  <2>3. Continue(r, tick) /\ UNCHANGED <<db, chainVars>>
    BY <2>1 DEF TimeoutVerdicts
  <2> HIDE DEF tick
  <2> QED BY <1>c, <1>k, <1>r, <2>2, <2>3
<1>2. CASE MarkLanded(r)
  <2> DEFINE tick == [reaper[r] EXCEPT
                !.pc = IF reaper[r].todo # {} THEN "dropped" ELSE "finality",
                !.landed = {}, !.block = NULL]
  <2>1. tick \in ReaperState
    BY <1>r DEF ReaperState, ReaperPc
  <2>2. Continue(r, tick) /\ UNCHANGED chainVars
    BY <1>2 DEF MarkLanded
  <2>3. db' \in Table
    BY <1>2, <1>r, MarkClaimedType, MarkExternalType DEF MarkLanded, ReaperState
  <2> HIDE DEF tick
  <2> QED BY <1>c, <1>k, <2>1, <2>2, <2>3
<1>3. CASE ClearDropped(r)
  BY <1>3, <1>r, <1>k, <1>o, <1>w, ClearErrorType DEF ClearDropped, ReaperPc
<1>4. CASE CheckFinality(r)
  BY <1>4, <1>v DEF CheckFinality, Flipped, ReaperPc,
     list_pending_external_unfinalized
<1>5. CASE RevertFlipped(r)
  BY <1>5, <1>r, <1>k, <1>o, <1>w, RevertMarkType DEF RevertFlipped, ReaperPc
<1>6. CASE CheckReorgs(r)
  BY <1>6, <1>v DEF CheckReorgs, ReaperPc, list_recently_claimed
<1>7. CASE RevertUnused(r)
  BY <1>7, <1>r, <1>k, <1>o, <1>w, RevertClaimedType DEF RevertUnused, ReaperPc
<1> QED BY <1>1, <1>2, <1>3, <1>4, <1>5, <1>6, <1>7 DEF ReaperStep

\* One step of the startup pass keeps the types.
LEMMA InflightStepType ==
    ASSUME TypeInv, InflightStep
    PROVE  db' \in Table /\ ChainTypeOK' /\ InflightTypeOK'
<1>r. inflight \in Inflight /\ db \in Table /\ ChainTypeOK
  BY DEF TypeInv, TypeOK, InflightTypeOK, Table
<1>k. UNCHANGED chainVars => ChainTypeOK'
  BY <1>r DEF chainVars, ChainTypeOK
<1>o. /\ Oldest(inflight.todo, 1) \in SUBSET Uuids
      /\ Oldest(inflight.unused, 1) \in SUBSET Uuids
  BY <1>r, OldestSubset DEF Inflight
<1>1. CASE InflightCheck
  <2>1. PICK landed \in SUBSET list_inflight(db), unused \in SUBSET Uuids :
           inflight' = [pc |-> IF landed # {} THEN "landed"
                               ELSE IF unused # {} THEN "unused"
                               ELSE "done",
                        landed |-> {[uuid |-> u, hash |-> db[u].claim_tx_pending] :
                                      u \in landed},
                        todo   |-> {},
                        unused |-> unused]
    BY <1>1 DEF InflightCheck, list_inflight
  <2> DEFINE listed == {[uuid |-> u, hash |-> db[u].claim_tx_pending] : u \in landed}
  <2>2. ASSUME NEW u \in landed
        PROVE  u \in Uuids /\ db[u].claim_tx_pending \in ClaimTx
    BY <1>r DEF list_inflight, Table, Row
  <2>3. listed \subseteq [uuid : Uuids, hash : ClaimTx]
    BY <2>2
  <2>4. inflight' \in Inflight
    <3> HIDE DEF listed
    <3> QED BY <2>1, <2>3 DEF Inflight, InflightPc, listed
  <2> QED BY <1>1, <1>k, <1>r, <2>4 DEF InflightCheck, InflightTypeOK
<1>2. CASE InflightMark
  <2>1. PICK hash \in {e.hash : e \in inflight.landed} :
           LET us == {e.uuid : e \in {f \in inflight.landed : f.hash = hash}} IN
           /\ db' = mark_claimed(db, us, hash)
           /\ inflight' = [inflight EXCEPT
                 !.pc = "clearLanded", !.todo = us,
                 !.landed = {e \in inflight.landed : e.hash # hash}]
    BY <1>2 DEF InflightMark
  <2> DEFINE us == {e.uuid : e \in {f \in inflight.landed : f.hash = hash}}
             rest == {e \in inflight.landed : e.hash # hash}
  <2>2. hash \in ClaimTx
    BY <1>r DEF Inflight
  <2>3. us \in SUBSET Uuids
    BY <1>r DEF Inflight
  <2>4. rest \in SUBSET [uuid : Uuids, hash : ClaimTx]
    BY <1>r DEF Inflight
  <2>5. inflight' \in Inflight
    <3> HIDE DEF us, rest
    <3> QED BY <1>r, <2>1, <2>3, <2>4 DEF Inflight, InflightPc, us, rest
  <2> QED BY <1>2, <1>k, <1>r, <2>1, <2>2, <2>5, MarkClaimedType
         DEF InflightMark, InflightTypeOK
<1>3. CASE InflightClearLanded
  <2>1. db' \in Table /\ UNCHANGED chainVars
    BY <1>3, <1>r, <1>o, ClearPendingType DEF InflightClearLanded
  <2>2. PICK u \in Uuids, pc \in InflightPc :
           inflight' = [inflight EXCEPT !.todo = inflight.todo \ {u}, !.pc = pc]
    <3>1. PICK u \in Uuids : inflight' = [inflight EXCEPT
             !.todo = inflight.todo \ {u},
             !.pc = IF inflight.todo \ {u} # {} THEN "clearLanded"
                    ELSE IF inflight.landed # {} THEN "landed"
                    ELSE IF inflight.unused # {} THEN "unused"
                    ELSE "done"]
      BY <1>3, <1>o DEF InflightClearLanded
    <3> DEFINE pc == IF inflight.todo \ {u} # {} THEN "clearLanded"
                     ELSE IF inflight.landed # {} THEN "landed"
                     ELSE IF inflight.unused # {} THEN "unused"
                     ELSE "done"
    <3>2. pc \in InflightPc
      BY DEF InflightPc
    <3>3. inflight' = [inflight EXCEPT !.todo = inflight.todo \ {u}, !.pc = pc]
      BY <3>1
    <3> HIDE DEF pc
    <3> QED BY <3>2, <3>3
  <2>3. inflight' \in Inflight
    BY <1>r, <2>2 DEF Inflight
  <2> QED BY <1>k, <2>1, <2>3 DEF InflightTypeOK
<1>4. CASE InflightClearUnused
  BY <1>4, <1>k, <1>r, <1>o, ClearPendingType
     DEF InflightClearUnused, InflightTypeOK, Inflight, InflightPc
<1>5. CASE InflightResetAttempts
  <2>1. db' \in Table /\ UNCHANGED chainVars
    BY <1>5, <1>r, <1>o, ResetAttemptsType DEF InflightResetAttempts
  <2>2. PICK u \in Uuids, pc \in InflightPc :
           inflight' = [inflight EXCEPT !.unused = inflight.unused \ {u}, !.pc = pc]
    <3>1. PICK u \in Uuids : inflight' = [inflight EXCEPT
             !.unused = inflight.unused \ {u},
             !.pc = IF inflight.unused \ {u} # {} THEN "unused" ELSE "done"]
      BY <1>5, <1>o DEF InflightResetAttempts
    <3> DEFINE pc == IF inflight.unused \ {u} # {} THEN "unused" ELSE "done"
    <3>2. pc \in InflightPc
      BY DEF InflightPc
    <3>3. inflight' = [inflight EXCEPT !.unused = inflight.unused \ {u}, !.pc = pc]
      BY <3>1
    <3> HIDE DEF pc
    <3> QED BY <3>2, <3>3
  <2>3. inflight' \in Inflight
    BY <1>r, <2>2 DEF Inflight
  <2> QED BY <1>k, <2>1, <2>3 DEF InflightTypeOK
<1> QED BY <1>1, <1>2, <1>3, <1>4, <1>5 DEF InflightStep

LEMMA InitType == Init => TypeInv
<1> SUFFICES ASSUME Init PROVE TypeInv
  OBVIOUS
<1>1. PendingRow \in Row
  BY DEF PendingRow, NoRow, Row
<1>2. \A kind \in StartRows : StartRow(kind) \in Row
  BY <1>1, SystemAssumption DEF StartRow, Row, ALL_CODES, SIGN_CODES, Age
<1>3. db \in Table
  BY <1>2 DEF Init, Table
<1>4. ChainTypeOK
  BY DEF Init, ChainInit, ChainTypeOK
<1>5. SettlementTypeOK /\ RunsWellFormed
  BY IdleType DEF Init, SettlementInit, SettlementTypeOK, RunsWellFormed
<1>6. ReaperTypeOK
  BY DEF Init, ReaperInit, NewTick, ReaperTypeOK, ReaperState, ReaperPc
<1>7. InflightTypeOK
  BY DEF Init, Pass, InflightTypeOK, Inflight, InflightPc
<1> QED BY <1>3, <1>4, <1>5, <1>6, <1>7 DEF TypeInv, TypeOK, Table, Init

LEMMA StepType == TypeInv /\ [Next]_vars => TypeInv'
<1> SUFFICES ASSUME TypeInv, [Next]_vars PROVE TypeInv'
  OBVIOUS
<1> USE DEF TypeInv, TypeOK, Table
<1>c. UNCHANGED chainVars => ChainTypeOK'
  BY DEF chainVars, ChainTypeOK
<1>s. UNCHANGED <<claimLock, run>> => SettlementTypeOK' /\ RunsWellFormed'
  BY DEF SettlementTypeOK, RunsWellFormed
<1>r. UNCHANGED reaper => ReaperTypeOK'
  BY DEF ReaperTypeOK
<1>i. UNCHANGED inflight => InflightTypeOK'
  BY DEF InflightTypeOK
<1>n. UNCHANGED crashVars => (daemonCrashes \in Nat /\ cliCrashes \in Nat)'
  BY DEF crashVars
<1>1. ASSUME NEW u \in Uuids, PollerSigns(u)
      PROVE  TypeInv'
  BY <1>1, <1>c, <1>s, <1>r, <1>i, <1>n, MarkSignedType DEF PollerSigns
<1>2. ASSUME NEW u \in Uuids, AttemptAges(u) \/ ClaimAges(u)
      PROVE  TypeInv'
  <2>1. db' \in Table
    BY <1>2 DEF AttemptAges, ClaimAges, Row, Age
  <2> QED BY <1>2, <2>1, <1>c, <1>s, <1>r, <1>i, <1>n DEF AttemptAges, ClaimAges
<1>3. CASE Chain
  BY <1>3, <1>s, <1>r, <1>i, <1>n, ChainStepType DEF Chain
<1>4. ASSUME NEW c \in Claimers, Claim(c)
      PROVE  TypeInv'
  BY <1>4, <1>r, <1>i, <1>n, RunStepType DEF Claim
<1>5. ASSUME NEW c \in Claimers, CliCrash(c)
      PROVE  TypeInv'
  <2>1. SettlementTypeOK' /\ RunsWellFormed'
    BY <1>5, IdleType, ProceedType DEF CliCrash, KillRun, SettlementTypeOK
  <2> QED BY <1>5, <2>1, <1>c, <1>r, <1>i DEF CliCrash
<1>6. ASSUME NEW r \in Reapers, Reap(r)
      PROVE  TypeInv'
  BY <1>6, <1>s, <1>i, <1>n, ReaperStepType DEF Reap
<1>7. CASE Reconcile
  BY <1>7, <1>s, <1>r, <1>n, InflightStepType DEF Reconcile
<1>8. CASE DaemonCrash
  <2>1. SettlementTypeOK' /\ RunsWellFormed'
    BY <1>8, IdleType DEF DaemonCrash, SettlementTypeOK, RunsWellFormed
  <2>2. ReaperTypeOK'
    BY <1>8 DEF DaemonCrash, ReaperTypeOK, NewTick, ReaperState, ReaperPc
  <2>3. InflightTypeOK'
    BY <1>8 DEF DaemonCrash, Pass, InflightTypeOK, Inflight, InflightPc
  <2> QED BY <1>8, <2>1, <2>2, <2>3, <1>c DEF DaemonCrash
<1>9. CASE UNCHANGED vars
  BY <1>9, <1>c, <1>s, <1>r, <1>i, <1>n DEF vars
<1> QED BY <1>1, <1>2, <1>3, <1>4, <1>5, <1>6, <1>7, <1>8, <1>9 DEF Next

\* Every variable of the claim side keeps its type: whatever claim runs,
\* reapers, the startup pass and crashes do to it, a row of the store is a
\* row of the schema (receipt_store.py), and its breadcrumb a transaction.
THEOREM TypeCorrect == Spec => []TypeOK
<1>1. Spec => []TypeInv
  BY InitType, StepType, PTL DEF Spec
<1>2. TypeInv => TypeOK
  BY DEF TypeInv
<1> QED BY <1>1, <1>2, PTL

-----------------------------------------------------------------------------
(* What each step of a claim run does to the run.                          *)

\* c moves on with this pc, batch, todo, transaction and result; the kind of
\* the run and the other claimers' runs stay.
Moved(c, pc, batch, todo, tx, result) ==
    /\ \A d \in Claimers \ {c} : run'[d] = run[d]
    /\ run'[c].pc = pc /\ run'[c].batch = batch /\ run'[c].todo = todo
    /\ run'[c].tx = tx /\ run'[c].result = result
    /\ run'[c].mode = run[c].mode /\ run'[c].only = run[c].only

\* c keeps its batch, its transaction and its result.
Stepped(c, pc, todo) ==
    Moved(c, pc, run[c].batch, todo, run[c].tx, run[c].result)

Left(c, pc) == Moved(c, pc, {}, {}, NULL, "OK")

LEMMA RunTypes ==
    ASSUME TypeInv, NEW c \in Claimers
    PROVE  /\ run \in [Claimers -> Run] /\ run[c] \in Run
           /\ run[c].batch \in SUBSET Uuids /\ run[c].todo \in SUBSET Uuids
           /\ First(run[c].todo) \in SUBSET Uuids
           /\ db \in Table
<1>1. run \in [Claimers -> Run] /\ run[c] \in Run /\ db \in Table
  BY DEF TypeInv, TypeOK, SettlementTypeOK, Table
<1>2. run[c].batch \in SUBSET Uuids /\ run[c].todo \in SUBSET Uuids
  BY <1>1 DEF Run
<1> QED BY <1>1, <1>2, OldestSubset DEF First

LEMMA GotoMoves ==
    ASSUME TypeInv, NEW c \in Claimers, NEW pc, Goto(c, pc)
    PROVE  Stepped(c, pc, run[c].todo)
BY RunTypes DEF Goto, Proceed, Stepped, Moved, Run

LEMMA LeaveMoves ==
    ASSUME TypeInv, NEW c \in Claimers, NEW pc, Proceed(c, Leave(run[c], pc))
    PROVE  Left(c, pc)
BY RunTypes DEF Proceed, Leave, Left, Moved, Run

\* Starting and ending a run.
LEMMA AcquireLockMoves ==
    ASSUME TypeInv, NEW c \in Claimers, AcquireLock(c)
    PROVE  /\ At(c, "idle") /\ claimLock = NULL
           /\ \A d \in Claimers \ {c} : run'[d] = run[d]
           /\ run'[c].pc = "reconcile" /\ run'[c].mode \in Modes
           /\ run'[c].batch = {} /\ run'[c].todo = {}
           /\ run'[c].mode = "only" => run'[c].only \in Uuids
           /\ UNCHANGED <<db, chainVars>>
BY RunTypes DEF AcquireLock, Proceed, Idle, Run

LEMMA ReleaseLockMoves ==
    ASSUME TypeInv, NEW c \in Claimers, ReleaseLock(c)
    PROVE  /\ At(c, "stop")
           /\ \A d \in Claimers \ {c} : run'[d] = run[d]
           /\ run'[c] = Idle
           /\ UNCHANGED <<db, chainVars>>
BY RunTypes DEF ReleaseLock, Proceed

\* Asking the chain, and believing it.
LEMMA ReconcileCheckMoves ==
    ASSUME TypeInv, NEW c \in Claimers, ReconcileCheck(c)
    PROVE  /\ At(c, "reconcile") /\ UNCHANGED <<db, chainVars>>
           /\ \E already \in SUBSET (unclaimed(db, TRUE) \cap NonceUsed) :
                 Stepped(c, IF already = {} THEN "next" ELSE "external", already)
<1> DEFINE next(already) ==
       [run[c] EXCEPT !.todo = already,
                      !.pc = IF already = {} THEN "next" ELSE "external"]
<1>1. PICK already \in SUBSET (unclaimed(db, TRUE) \cap NonceUsed) :
         Proceed(c, next(already))
  BY DEF ReconcileCheck, Oldest
<1>2. Stepped(c, IF already = {} THEN "next" ELSE "external", already)
  BY <1>1, RunTypes DEF Proceed, Stepped, Moved, Run
<1> QED BY <1>2 DEF ReconcileCheck

LEMMA ReconcileMarkMoves ==
    ASSUME TypeInv, NEW c \in Claimers, ReconcileMark(c)
    PROVE  /\ At(c, "external") /\ UNCHANGED chainVars
           /\ db' = mark_claimed(db, run[c].todo, External)
           /\ Stepped(c, "next", {})
BY RunTypes DEF ReconcileMark, Proceed, Stepped, Moved, Run

\* The batch.
LEMMA NextBatchMoves ==
    ASSUME TypeInv, NEW c \in Claimers, NextBatch(c)
    PROVE  LET batch == Picked(c) \ run[c].seen
               bad   == Dropped(batch)
           IN  /\ At(c, "next") /\ UNCHANGED <<db, chainVars>>
               /\ Moved(c, IF bad # {} THEN "drop" ELSE "build",
                        batch \ bad, bad, run[c].tx, run[c].result)
<1> DEFINE batch == Picked(c) \ run[c].seen
           bad   == Dropped(batch)
           next  == [run[c] EXCEPT
                       !.seen  = run[c].seen \cup batch,
                       !.batch = batch \ bad,
                       !.todo  = bad,
                       !.pc    = IF bad # {} THEN "drop" ELSE "build"]
<1>1. Proceed(c, next)
  BY RunTypes DEF NextBatch, Run
<1>2. Moved(c, IF bad # {} THEN "drop" ELSE "build",
            batch \ bad, bad, run[c].tx, run[c].result)
  <2> HIDE DEF batch, bad
  <2> QED BY <1>1, RunTypes DEF Proceed, Moved, Run
<1> QED BY <1>2 DEF NextBatch

LEMMA NoMoreBatchesMoves ==
    ASSUME TypeInv, NEW c \in Claimers, NoMoreBatches(c)
    PROVE  /\ At(c, "next") /\ UNCHANGED <<db, chainVars>>
           /\ Stepped(c, "stop", run[c].todo)
BY GotoMoves DEF NoMoreBatches

LEMMA DropCorruptMoves ==
    ASSUME TypeInv, NEW c \in Claimers, DropCorrupt(c)
    PROVE  /\ At(c, "drop") /\ UNCHANGED chainVars
           /\ db' = mark_claim_failed(db, First(run[c].todo), "SIGN_VERIFY_FAILED")
           /\ Stepped(c, "lock", run[c].todo)
BY GotoMoves DEF DropCorrupt

LEMMA LockCorruptMoves ==
    ASSUME TypeInv, NEW c \in Claimers, LockCorrupt(c)
    PROVE  /\ At(c, "lock") /\ UNCHANGED chainVars
           /\ \E u \in First(run[c].todo) :
                 /\ u \in Uuids /\ u \in run[c].todo /\ db' = lock(db, u)
                 /\ \E pc \in {"drop", "next", "build"} :
                       /\ Stepped(c, pc, run[c].todo \ {u})
                       /\ pc = "drop" <=> run[c].todo \ {u} # {}
                       /\ pc = "next" => run[c].batch = {}
<1> DEFINE pc(u) == IF run[c].todo \ {u} # {} THEN "drop"
                    ELSE IF run[c].batch = {} THEN "next" ELSE "build"
           next(u) == [run[c] EXCEPT !.todo = run[c].todo \ {u}, !.pc = pc(u)]
<1>1. PICK u \in First(run[c].todo) : db' = lock(db, u) /\ Proceed(c, next(u))
  BY DEF LockCorrupt
<1>2. /\ pc(u) \in {"drop", "next", "build"}
      /\ pc(u) = "drop" <=> run[c].todo \ {u} # {}
      /\ pc(u) = "next" => run[c].batch = {}
  OBVIOUS
<1>3. Stepped(c, pc(u), run[c].todo \ {u})
  <2> HIDE DEF pc
  <2> QED BY <1>1, RunTypes DEF Proceed, Stepped, Moved, Run, next
<1>4. u \in Uuids /\ u \in run[c].todo
  BY <1>1, RunTypes DEF First, Oldest
<1> HIDE DEF pc, next
<1> QED BY <1>1, <1>2, <1>3, <1>4 DEF LockCorrupt

\* The transaction.
LEMMA BuildTxMoves ==
    ASSUME TypeInv, NEW c \in Claimers, BuildTx(c)
    PROVE  /\ At(c, "build") /\ UNCHANGED <<db, chainVars>>
           /\ \A u \in run[c].batch : db[u].signed
           /\ Moved(c, "pending", run[c].batch, run[c].todo,
                    [nonce |-> txCount, batch |-> run[c].batch], run[c].result)
<1> DEFINE tx == [nonce |-> txCount, batch |-> run[c].batch]
<1>1. Proceed(c, [run[c] EXCEPT !.pc = "pending", !.tx = tx])
  BY DEF BuildTx
<1>2. Moved(c, "pending", run[c].batch, run[c].todo, tx, run[c].result)
  <2> HIDE DEF tx
  <2> QED BY <1>1, RunTypes DEF Proceed, Moved, Run
<1> QED BY <1>2 DEF BuildTx

LEMMA BuildUnreachableMoves ==
    ASSUME TypeInv, NEW c \in Claimers, BuildUnreachable(c)
    PROVE  /\ At(c, "build") /\ UNCHANGED chainVars
           /\ db' = mark_claim_failed(db, run[c].batch, "CLAIM_RPC_UNREACHABLE")
           /\ Left(c, "stop")
BY LeaveMoves DEF BuildUnreachable

LEMMA BuildRaisesMoves ==
    ASSUME TypeInv, NEW c \in Claimers, BuildRaises(c)
    PROVE  At(c, "build") /\ UNCHANGED <<db, chainVars>> /\ Left(c, "stop")
BY LeaveMoves DEF BuildRaises

LEMMA SetPendingMoves ==
    ASSUME TypeInv, NEW c \in Claimers, SetPending(c)
    PROVE  /\ At(c, "pending") /\ UNCHANGED chainVars
           /\ run[c].tx \in ClaimTx
           /\ db' = set_claim_tx_pending(db, run[c].batch, run[c].tx)
           /\ Stepped(c, "broadcast", run[c].todo)
BY GotoMoves DEF SetPending, TypeInv, RunsWellFormed, WellFormed, UsesTx, At

\* A broadcast leads to the wait, or to the record of a failure.
LEMMA BroadcastMoves ==
    ASSUME TypeInv, NEW c \in Claimers,
           BroadcastAccepted(c) \/ BroadcastNoFunds(c) \/ BroadcastFails(c)
    PROVE  /\ At(c, "broadcast") /\ run[c].tx \in ClaimTx
           /\ UNCHANGED <<db, mined, txCount, outOfBand, retracted, head,
                          emptyBlocks, reorgs>>
           /\ \/ mempool' = mempool
              \/ run[c].tx.nonce = txCount /\ mempool' = Admit(run[c].tx)
           /\ \/ Stepped(c, "wait", run[c].todo) /\ run[c].tx.nonce = txCount
              \/ /\ Moved(c, "record", run[c].batch, run[c].todo, run[c].tx,
                          "CLAIM_RPC_UNREACHABLE")
              \/ /\ Moved(c, "record", run[c].batch, run[c].todo, run[c].tx,
                          "CLAIM_INSUFFICIENT_GAS")
                 /\ mempool' = mempool
<1>1. run[c].tx \in ClaimTx
  BY DEF BroadcastAccepted, BroadcastNoFunds, BroadcastFails, TypeInv,
     RunsWellFormed, WellFormed, UsesTx, At
<1>2. ASSUME NEW result,
             Proceed(c, [run[c] EXCEPT !.pc = "record", !.result = result])
      PROVE  Moved(c, "record", run[c].batch, run[c].todo, run[c].tx, result)
  BY <1>2, RunTypes DEF Proceed, Moved, Run
<1>3. CASE BroadcastAccepted(c)
  BY <1>1, <1>3, GotoMoves DEF BroadcastAccepted
<1>4. CASE BroadcastNoFunds(c)
  BY <1>1, <1>2, <1>4 DEF BroadcastNoFunds, chainVars
<1>5. CASE BroadcastFails(c)
  BY <1>1, <1>2, <1>5 DEF BroadcastFails
<1> QED BY <1>3, <1>4, <1>5

LEMMA WaitMoves ==
    ASSUME TypeInv, NEW c \in Claimers,
           WaitConfirmed(c) \/ WaitReverted(c) \/ WaitTimesOut(c)
    PROVE  /\ At(c, "wait") /\ UNCHANGED <<db, chainVars>>
           /\ \E result \in {"OK", "CLAIM_REVERTED", "CLAIM_TX_TIMEOUT"} :
                 /\ Moved(c, "record", run[c].batch, run[c].todo, run[c].tx, result)
                 /\ result = "OK" => Executed(run[c].tx, TRUE)
                 /\ result = "CLAIM_REVERTED" => Executed(run[c].tx, FALSE)
<1>1. PICK result \in {"OK", "CLAIM_REVERTED", "CLAIM_TX_TIMEOUT"} :
         /\ WaitOutcome(c, result)
         /\ result = "OK" => Executed(run[c].tx, TRUE)
         /\ result = "CLAIM_REVERTED" => Executed(run[c].tx, FALSE)
  BY DEF WaitConfirmed, WaitReverted, WaitTimesOut
<1>2. Moved(c, "record", run[c].batch, run[c].todo, run[c].tx, result)
  BY <1>1, RunTypes DEF WaitOutcome, Proceed, Moved, Run
<1> QED BY <1>1, <1>2 DEF WaitOutcome

\* The result.
LEMMA RecordResultMoves ==
    ASSUME TypeInv, NEW c \in Claimers, RecordResult(c)
    PROVE  /\ At(c, "record") /\ UNCHANGED chainVars
           /\ run[c].tx \in ClaimTx
           /\ \/ /\ run[c].result = "OK"
                 /\ db' = mark_claimed(db, run[c].batch, run[c].tx)
                 /\ Stepped(c, "clear", run[c].batch)
              \/ /\ run[c].result \in {"CLAIM_REVERTED", "CLAIM_INSUFFICIENT_GAS"}
                 /\ db' = mark_claim_failed(db, run[c].batch, run[c].result)
                 /\ Stepped(c, "clear", run[c].batch)
              \/ /\ run[c].result \in {"CLAIM_TX_TIMEOUT", "CLAIM_RPC_UNREACHABLE"}
                 /\ db' = mark_claim_failed(db, run[c].batch, run[c].result)
                 /\ \E pc \in {"next", "stop"} : Left(c, pc)
<1>1. run[c].result \in CLAIM_CODES \cup {"OK"} /\ run[c].tx \in ClaimTx
  BY RunTypes DEF RecordResult, TypeInv, RunsWellFormed, WellFormed, UsesTx, At, Run
<1>2. ASSUME Proceed(c, [run[c] EXCEPT !.pc = "clear", !.todo = run[c].batch])
      PROVE  Stepped(c, "clear", run[c].batch)
  BY <1>2, RunTypes DEF Proceed, Stepped, Moved, Run
<1>3. AfterBatch(run[c].result) \in {"next", "stop"}
  BY DEF AfterBatch
<1> QED BY <1>1, <1>2, <1>3, LeaveMoves
       DEF RecordResult, ClearingCodes, CLAIM_CODES

LEMMA ClearPendingMoves ==
    ASSUME TypeInv, NEW c \in Claimers, ClearPending(c)
    PROVE  /\ At(c, "clear") /\ UNCHANGED chainVars
           /\ \E u \in run[c].todo :
                 /\ u \in Uuids /\ db' = clear_claim_tx_pending(db, u)
                 /\ \/ Stepped(c, "clear", run[c].todo \ {u})
                    \/ \E pc \in {"next", "stop"} : Left(c, pc)
<1>1. PICK u \in First(run[c].todo) :
         /\ db' = clear_claim_tx_pending(db, u)
         /\ \/ Proceed(c, [run[c] EXCEPT !.todo = run[c].todo \ {u}])
            \/ Proceed(c, Leave(run[c], AfterBatch(run[c].result)))
  BY DEF ClearPending
<1>2. u \in Uuids /\ u \in run[c].todo
  BY <1>1, RunTypes DEF First, Oldest
<1>3. Proceed(c, [run[c] EXCEPT !.todo = run[c].todo \ {u}])
         => Stepped(c, "clear", run[c].todo \ {u})
  BY RunTypes DEF ClearPending, At, Proceed, Stepped, Moved, Run
<1>4. AfterBatch(run[c].result) \in {"next", "stop"}
  BY DEF AfterBatch
<1> QED BY <1>1, <1>2, <1>3, <1>4, LeaveMoves DEF ClearPending

-----------------------------------------------------------------------------
(* What each step of a reaper does to its tick.                            *)

Ticked(r, pc, landed, todo) ==
    /\ \A q \in Reapers \ {r} : reaper'[q] = reaper[q]
    /\ reaper'[r].pc = pc
    /\ reaper'[r].landed = landed /\ reaper'[r].todo = todo

LEMMA ReaperTypes ==
    ASSUME TypeInv, NEW r \in Reapers
    PROVE  /\ reaper \in [Reapers -> ReaperState] /\ reaper[r] \in ReaperState
           /\ reaper[r].landed \in SUBSET Uuids /\ reaper[r].todo \in SUBSET Uuids
           /\ reaper[r].block \in Nat \cup {NULL}
           /\ db \in Table
BY DEF TypeInv, TypeOK, ReaperTypeOK, ReaperState, Table

LEMMA CheckTimeoutsTicks ==
    ASSUME TypeInv, NEW r \in Reapers, CheckTimeouts(r)
    PROVE  /\ In(r, "timeouts") /\ UNCHANGED <<db, chainVars>>
           /\ \E landed \in SUBSET (list_timed_out_claims(db) \cap NonceUsed),
                 dropped \in SUBSET (list_timed_out_claims(db) \ NonceUsed),
                 pc \in {"landed", "dropped", "finality"} :
                 /\ Ticked(r, pc, landed, dropped)
                 /\ pc = "landed" <=> landed # {}
                 /\ pc = "finality" => dropped = {}
<1>1. PICK landed \in SUBSET (list_timed_out_claims(db) \cap NonceUsed),
           dropped \in SUBSET (list_timed_out_claims(db) \ NonceUsed),
           block \in {head, NULL} : TimeoutVerdicts(r, landed, dropped, block)
  BY DEF CheckTimeouts
<1> DEFINE pc == IF landed # {} THEN "landed"
                 ELSE IF dropped # {} THEN "dropped" ELSE "finality"
<1>2. /\ pc \in {"landed", "dropped", "finality"}
      /\ pc = "landed" <=> landed # {}
      /\ pc = "finality" => dropped = {}
  OBVIOUS
<1>3. Ticked(r, pc, landed, dropped)
  <2>1. Continue(r, [pc |-> pc, landed |-> landed, todo |-> dropped,
                     block |-> IF landed # {} THEN block ELSE NULL])
    BY <1>1 DEF TimeoutVerdicts
  <2> HIDE DEF pc
  <2> QED BY <2>1, ReaperTypes DEF Continue, Ticked
<1> HIDE DEF pc
<1> QED BY <1>1, <1>2, <1>3 DEF TimeoutVerdicts

LEMMA MarkLandedTicks ==
    ASSUME TypeInv, NEW r \in Reapers, MarkLanded(r)
    PROVE  /\ In(r, "landed") /\ UNCHANGED chainVars
           /\ \/ db' = mark_claimed(db, reaper[r].landed, External)
              \/ \E block \in Nat :
                    db' = mark_external_with_block(db, reaper[r].landed, block)
           /\ \E pc \in {"dropped", "finality"} :
                 /\ Ticked(r, pc, {}, reaper[r].todo)
                 /\ pc = "finality" => reaper[r].todo = {}
<1> DEFINE pc == IF reaper[r].todo # {} THEN "dropped" ELSE "finality"
<1>1. pc \in {"dropped", "finality"} /\ (pc = "finality" => reaper[r].todo = {})
  OBVIOUS
<1>2. Ticked(r, pc, {}, reaper[r].todo)
  <2>1. Continue(r, [reaper[r] EXCEPT !.pc = pc, !.landed = {}, !.block = NULL])
    BY DEF MarkLanded
  <2> HIDE DEF pc
  <2> QED BY <2>1, ReaperTypes DEF Continue, Ticked, ReaperState
<1> HIDE DEF pc
<1> QED BY <1>1, <1>2, ReaperTypes DEF MarkLanded

\* The verdict on u is written; the pass goes on, or the next one starts.
Past(r, u, next) ==
    /\ u \in Uuids /\ u \in reaper[r].todo
    /\ \E pc \in {reaper[r].pc, next} :
          Ticked(r, pc, reaper[r].landed, reaper[r].todo \ {u})

LEMMA WrittenTicks ==
    ASSUME TypeInv, NEW r \in Reapers, NEW u \in Oldest(reaper[r].todo, 1),
           NEW next, Written(r, u, next)
    PROVE  Past(r, u, next)
<1> DEFINE pc == IF reaper[r].todo \ {u} # {} THEN reaper[r].pc ELSE next
<1>1. pc \in {reaper[r].pc, next}
  OBVIOUS
<1>2. Ticked(r, pc, reaper[r].landed, reaper[r].todo \ {u})
  <2>1. Continue(r, [reaper[r] EXCEPT !.todo = reaper[r].todo \ {u}, !.pc = pc])
    BY ReaperTypes DEF Written, ReaperState
  <2> HIDE DEF pc
  <2> QED BY <2>1, ReaperTypes DEF Continue, Ticked, ReaperState
<1>3. u \in Uuids /\ u \in reaper[r].todo
  BY ReaperTypes DEF Oldest
<1> HIDE DEF pc
<1> QED BY <1>1, <1>2, <1>3 DEF Past

LEMMA ClearDroppedTicks ==
    ASSUME TypeInv, NEW r \in Reapers, ClearDropped(r)
    PROVE  /\ In(r, "dropped") /\ UNCHANGED chainVars
           /\ \E u \in Uuids :
                 /\ u \in reaper[r].todo /\ db' = clear_error(db, u)
                 /\ \E pc \in {"dropped", "finality"} :
                       Ticked(r, pc, reaper[r].landed, reaper[r].todo \ {u})
<1>1. PICK u \in Oldest(reaper[r].todo, 1) :
         db' = clear_error(db, u) /\ Written(r, u, "finality")
  BY DEF ClearDropped
<1>2. In(r, "dropped") /\ reaper[r].pc = "dropped" /\ UNCHANGED chainVars
  BY DEF ClearDropped, In
<1>3. Past(r, u, "finality")
  BY <1>1, WrittenTicks
<1> QED BY <1>1, <1>2, <1>3 DEF Past

LEMMA VerdictTicks ==
    ASSUME TypeInv, NEW r \in Reapers, NEW unused, NEW write, NEW next,
           UnusedVerdicts(r, unused, write, next)
    PROVE  /\ UNCHANGED <<db, chainVars>>
           /\ \E pc \in {write, next} :
                 /\ Ticked(r, pc, reaper[r].landed, unused)
                 /\ pc = write => write = next \/ unused # {}
<1> DEFINE pc == IF unused # {} THEN write ELSE next
<1>1. pc \in {write, next} /\ (pc = write => write = next \/ unused # {})
  OBVIOUS
<1>2. Ticked(r, pc, reaper[r].landed, unused)
  <2>1. Continue(r, [reaper[r] EXCEPT !.pc = pc, !.todo = unused])
    BY DEF UnusedVerdicts
  <2> HIDE DEF pc
  <2> QED BY <2>1, ReaperTypes DEF Continue, Ticked, ReaperState
<1> HIDE DEF pc
<1> QED BY <1>1, <1>2 DEF UnusedVerdicts

LEMMA CheckFinalityTicks ==
    ASSUME TypeInv, NEW r \in Reapers, CheckFinality(r)
    PROVE  /\ In(r, "finality") /\ UNCHANGED <<db, chainVars>>
           /\ \E unused \in SUBSET Flipped, pc \in {"flipped", "reorgs"} :
                 /\ Ticked(r, pc, reaper[r].landed, unused)
                 /\ pc = "flipped" => unused # {}
BY VerdictTicks DEF CheckFinality

LEMMA RevertFlippedTicks ==
    ASSUME TypeInv, NEW r \in Reapers, RevertFlipped(r)
    PROVE  /\ In(r, "flipped") /\ UNCHANGED chainVars
           /\ \E u \in Uuids :
                 /\ u \in reaper[r].todo /\ db' = revert_external_mark(db, u)
                 /\ \E pc \in {"flipped", "reorgs"} :
                       Ticked(r, pc, reaper[r].landed, reaper[r].todo \ {u})
<1>1. PICK u \in Oldest(reaper[r].todo, 1) :
         db' = revert_external_mark(db, u) /\ Written(r, u, "reorgs")
  BY DEF RevertFlipped
<1>2. In(r, "flipped") /\ reaper[r].pc = "flipped" /\ UNCHANGED chainVars
  BY DEF RevertFlipped, In
<1>3. Past(r, u, "reorgs")
  BY <1>1, WrittenTicks
<1> QED BY <1>1, <1>2, <1>3 DEF Past

LEMMA CheckReorgsTicks ==
    ASSUME TypeInv, NEW r \in Reapers, CheckReorgs(r)
    PROVE  /\ In(r, "reorgs") /\ UNCHANGED <<db, chainVars>>
           /\ \E unused \in SUBSET (list_recently_claimed(db) \ NonceUsed),
                 pc \in {"reverted", "timeouts"} :
                 /\ Ticked(r, pc, reaper[r].landed, unused)
                 /\ pc = "reverted" => unused # {}
BY VerdictTicks DEF CheckReorgs

LEMMA RevertUnusedTicks ==
    ASSUME TypeInv, NEW r \in Reapers, RevertUnused(r)
    PROVE  /\ In(r, "reverted") /\ UNCHANGED chainVars
           /\ \E u \in Uuids :
                 /\ u \in reaper[r].todo /\ db' = revert_claimed(db, u)
                 /\ \E pc \in {"reverted", "timeouts"} :
                       Ticked(r, pc, reaper[r].landed, reaper[r].todo \ {u})
<1>1. PICK u \in Oldest(reaper[r].todo, 1) :
         db' = revert_claimed(db, u) /\ Written(r, u, "timeouts")
  BY DEF RevertUnused
<1>2. In(r, "reverted") /\ reaper[r].pc = "reverted" /\ UNCHANGED chainVars
  BY DEF RevertUnused, In
<1>3. Past(r, u, "timeouts")
  BY <1>1, WrittenTicks
<1> QED BY <1>1, <1>2, <1>3 DEF Past

-----------------------------------------------------------------------------
(* Mutual exclusion.                                                       *)

\* A step of a run that does not release the lock leaves it alone.
LEMMA RunStepKeepsLock ==
    ASSUME NEW c \in Claimers, RunStep(c)
    PROVE  /\ ~At(c, "idle")
           /\ \E r : /\ Proceed(c, r)
                    /\ \/ r = Idle /\ claimLock' = NULL
                       \/ UNCHANGED claimLock
BY DEF RunStep, ReconcileCheck, ReconcileMark, NextBatch, NoMoreBatches,
   DropCorrupt, LockCorrupt, BuildTx, BuildUnreachable, BuildRaises,
   SetPending, BroadcastAccepted, BroadcastNoFunds, BroadcastFails,
   WaitConfirmed, WaitReverted, WaitTimesOut, WaitOutcome, RecordResult,
   ClearPending, ReleaseLock, Goto, At

LEMMA StepMutex == TypeInv /\ ClaimMutex /\ [Next]_vars => ClaimMutex'
<1> SUFFICES ASSUME TypeInv, ClaimMutex, [Next]_vars PROVE ClaimMutex'
  OBVIOUS
<1> USE DEF ClaimMutex, At
<1>t. run \in [Claimers -> Run] /\ claimLock \in Claimers \cup {NULL}
  BY DEF TypeInv, TypeOK, SettlementTypeOK
<1>k. UNCHANGED <<claimLock, run>> => ClaimMutex'
  OBVIOUS
<1>1. ASSUME NEW c \in Claimers, AcquireLock(c)
      PROVE  ClaimMutex'
  <2>1. \A d \in Claimers : At(d, "idle")
    BY <1>1, SettlementAssumption DEF AcquireLock
  <2> QED BY <1>1, <1>t, <2>1 DEF AcquireLock, Proceed
<1>2. ASSUME NEW c \in Claimers, RunStep(c)
      PROVE  ClaimMutex'
  <2>1. PICK r : /\ ~At(c, "idle") /\ Proceed(c, r)
                 /\ \/ r = Idle /\ claimLock' = NULL
                    \/ UNCHANGED claimLock
    BY <1>2, RunStepKeepsLock
  <2>2. claimLock = c /\ \A d \in Claimers \ {c} : At(d, "idle")
    BY <2>1
  <2> QED BY <1>t, <2>1, <2>2 DEF Proceed, Idle
<1>3. ASSUME NEW c \in Claimers, CliCrash(c)
      PROVE  ClaimMutex'
  BY <1>3, <1>t DEF CliCrash, KillRun, Proceed, Idle
<1>4. CASE DaemonCrash
  BY <1>4, <1>t DEF DaemonCrash, Idle
<1> QED
  BY <1>1, <1>2, <1>3, <1>4, <1>k
     DEF Next, Claim, PollerSigns, AttemptAges, ClaimAges, Chain, Reap,
         Reconcile, vars

\* Whatever the claimers are and whoever of them is killed at whatever point,
\* a process inside claim_all holds claim.lock, so no two are inside
\* (claim_lock.py, acquire_claim_lock).
THEOREM Mutex == Spec => []ClaimMutex
<1>1. Init => ClaimMutex
  BY DEF Init, SettlementInit, ClaimMutex, At, Idle
<1>2. Spec => [](TypeInv /\ ClaimMutex)
  BY <1>1, InitType, StepType, StepMutex, PTL DEF Spec
<1> QED BY <1>2, PTL

-----------------------------------------------------------------------------
(* The claim columns agree.                                                *)

\* The only actions that write the claim columns.
ClaimWriter ==
    \/ \E c \in Claimers : \/ ReconcileMark(c)
                           \/ RecordResult(c) /\ run[c].result = "OK"
    \/ \E r \in Reapers : MarkLanded(r) \/ RevertFlipped(r) \/ RevertUnused(r)
    \/ InflightMark

LEMMA RunStepKeepsClaim ==
    ASSUME TypeInv, NEW c \in Claimers, AcquireLock(c) \/ RunStep(c)
    PROVE  KeepsClaim(db, db') \/ ClaimWriter
<1>r. run[c] \in Run /\ db \in Table
  BY DEF TypeInv, TypeOK, SettlementTypeOK, Table
<1>1. CASE UNCHANGED db
  BY <1>1 DEF KeepsClaim
<1>2. CASE ReconcileMark(c)
  BY <1>2 DEF ClaimWriter
<1>3. CASE RecordResult(c)
  BY <1>3, <1>r, MarkClaimFailedKeeps DEF RecordResult, ClaimWriter
<1>4. CASE DropCorrupt(c) \/ BuildUnreachable(c)
  BY <1>4, <1>r, MarkClaimFailedKeeps DEF DropCorrupt, BuildUnreachable
<1>5. CASE LockCorrupt(c)
  <2>1. PICK u : db' = lock(db, u)
    BY <1>5 DEF LockCorrupt
  <2> QED BY <2>1, <1>r DEF lock, KeepsClaim, Table, Row
<1>6. CASE SetPending(c)
  BY <1>6, <1>r DEF SetPending, set_claim_tx_pending, KeepsClaim, Table, Row
<1>7. CASE ClearPending(c)
  <2>1. PICK u : db' = clear_claim_tx_pending(db, u)
    BY <1>7 DEF ClearPending
  <2> QED BY <2>1, <1>r DEF clear_claim_tx_pending, KeepsClaim, Table, Row
<1> QED
  BY <1>1, <1>2, <1>3, <1>4, <1>5, <1>6, <1>7
     DEF RunStep, AcquireLock, ReconcileCheck, NextBatch, NoMoreBatches,
         BuildTx, BuildRaises, BroadcastAccepted, BroadcastNoFunds,
         BroadcastFails, WaitConfirmed, WaitReverted, WaitTimesOut,
         WaitOutcome, ReleaseLock

LEMMA ReaperStepKeepsClaim ==
    ASSUME TypeInv, NEW r \in Reapers, ReaperStep(r)
    PROVE  KeepsClaim(db, db') \/ ClaimWriter
<1>r. db \in Table
  BY DEF TypeInv, TypeOK, Table
<1>1. CASE UNCHANGED db
  BY <1>1 DEF KeepsClaim
<1>2. CASE ClearDropped(r)
  <2>1. PICK u : db' = clear_error(db, u)
    BY <1>2 DEF ClearDropped
  <2> QED BY <2>1, <1>r DEF clear_error, KeepsClaim, Table, Row
<1>3. CASE MarkLanded(r) \/ RevertFlipped(r) \/ RevertUnused(r)
  BY <1>3 DEF ClaimWriter
<1> QED
  BY <1>1, <1>2, <1>3
     DEF ReaperStep, CheckTimeouts, TimeoutVerdicts, CheckFinality,
         CheckReorgs, UnusedVerdicts

LEMMA InflightStepKeepsClaim ==
    ASSUME TypeInv, InflightStep
    PROVE  KeepsClaim(db, db') \/ ClaimWriter
<1>r. db \in Table
  BY DEF TypeInv, TypeOK, Table
<1>1. CASE InflightCheck
  BY <1>1 DEF InflightCheck, KeepsClaim
<1>2. CASE InflightClearLanded \/ InflightClearUnused
  <2>1. PICK u : db' = clear_claim_tx_pending(db, u)
    BY <1>2 DEF InflightClearLanded, InflightClearUnused
  <2> QED BY <2>1, <1>r DEF clear_claim_tx_pending, KeepsClaim, Table, Row
<1>3. CASE InflightResetAttempts
  <2>1. PICK u : db' = reset_claim_attempts(db, u)
    BY <1>3 DEF InflightResetAttempts
  <2> QED BY <2>1, <1>r DEF reset_claim_attempts, KeepsClaim, Table, Row
<1>4. CASE InflightMark
  BY <1>4 DEF ClaimWriter
<1> QED BY <1>1, <1>2, <1>3, <1>4 DEF InflightStep

LEMMA StepKeepsClaim ==
    ASSUME TypeInv, [Next]_vars
    PROVE  KeepsClaim(db, db') \/ ClaimWriter
<1>r. db \in Table
  BY DEF TypeInv, TypeOK, Table
<1>1. CASE UNCHANGED db
  BY <1>1 DEF KeepsClaim
<1>2. ASSUME NEW u \in Uuids, PollerSigns(u)
      PROVE  KeepsClaim(db, db')
  BY <1>2, <1>r DEF PollerSigns, mark_signed, KeepsClaim, Table, Row
<1>3. ASSUME NEW u \in Uuids, AttemptAges(u) \/ ClaimAges(u)
      PROVE  KeepsClaim(db, db')
  BY <1>3, <1>r, StoreAssumption
     DEF AttemptAges, ClaimAges, KeepsClaim, Table, Row
<1> QED
  BY <1>1, <1>2, <1>3, RunStepKeepsClaim, ReaperStepKeepsClaim,
     InflightStepKeepsClaim
     DEF Next, Claim, Chain, Reap, Reconcile, CliCrash, DaemonCrash, vars

\* A row is claimed with a transaction or the synthetic hash.
Claimed(u, us) ==
    \/ db'[u] = db[u]
    \/ /\ u \in us /\ db'[u].claimed_at = "recent"
       /\ db'[u].claim_tx_hash \in ClaimTx \cup {External}

LEMMA ReconcileMarkWrites ==
    ASSUME TypeInv, NEW c \in Claimers, ReconcileMark(c), NEW u \in Uuids
    PROVE  Claimed(u, run[c].todo)
BY MarkClaimedColumns DEF ReconcileMark, TypeInv, TypeOK, Table, Claimed

LEMMA RecordResultWrites ==
    ASSUME TypeInv, NEW c \in Claimers, RecordResult(c), run[c].result = "OK",
           NEW u \in Uuids
    PROVE  Claimed(u, run[c].batch)
<1>1. run[c].tx \in ClaimTx
  BY DEF RecordResult, At, TypeInv, RunsWellFormed, WellFormed, UsesTx
<1> QED
  BY <1>1, MarkClaimedColumns DEF RecordResult, TypeInv, TypeOK, Table, Claimed

LEMMA MarkLandedWrites ==
    ASSUME TypeInv, NEW r \in Reapers, MarkLanded(r), NEW u \in Uuids
    PROVE  Claimed(u, reaper[r].landed)
BY MarkClaimedColumns, MarkExternalColumns
   DEF MarkLanded, TypeInv, TypeOK, Table, Claimed

LEMMA InflightMarkWrites ==
    ASSUME TypeInv, InflightMark, NEW u \in Uuids
    PROVE  Claimed(u, {e.uuid : e \in inflight.landed})
<1>1. PICK hash \in {e.hash : e \in inflight.landed} :
         db' = mark_claimed(db,
                  {e.uuid : e \in {f \in inflight.landed : f.hash = hash}}, hash)
  BY DEF InflightMark
<1>2. hash \in ClaimTx
  BY DEF TypeInv, TypeOK, InflightTypeOK, Inflight
<1> DEFINE us == {e.uuid : e \in {f \in inflight.landed : f.hash = hash}}
<1>3. us \subseteq {e.uuid : e \in inflight.landed}
  OBVIOUS
<1> HIDE DEF us
<1> QED BY <1>1, <1>2, <1>3, MarkClaimedColumns
       DEF TypeInv, TypeOK, Table, Claimed, us

LEMMA RevertWrites ==
    ASSUME TypeInv, NEW r \in Reapers, RevertFlipped(r) \/ RevertUnused(r),
           NEW u \in Uuids
    PROVE  \/ db'[u] = db[u]
           \/ db'[u].claimed_at = NULL /\ db'[u].claim_tx_hash = NULL
<1>1. Oldest(reaper[r].todo, 1) \in SUBSET Uuids
  BY OldestSubset DEF TypeInv, TypeOK, ReaperTypeOK, ReaperState
<1>2. db \in Table
  BY DEF TypeInv, TypeOK, Table
<1>3. PICK v \in Uuids : db' \in {revert_claimed(db, v), revert_external_mark(db, v)}
  BY <1>1 DEF RevertFlipped, RevertUnused
<1> QED BY <1>2, <1>3, RevertColumns

LEMMA StepRowConsistent ==
    TypeInv /\ RowConsistent /\ [Next]_vars => RowConsistent'
<1> SUFFICES ASSUME TypeInv, RowConsistent, [Next]_vars PROVE RowConsistent'
  OBVIOUS
<1>1. CASE KeepsClaim(db, db')
  BY <1>1 DEF KeepsClaim, RowConsistent
<1>2. CASE ClaimWriter
  <2>1. ASSUME NEW u \in Uuids
        PROVE  \/ db'[u] = db[u]
               \/ /\ db'[u].claimed_at = "recent"
                  /\ db'[u].claim_tx_hash \in ClaimTx \cup {External}
               \/ db'[u].claimed_at = NULL /\ db'[u].claim_tx_hash = NULL
    BY <1>2, ReconcileMarkWrites, RecordResultWrites, MarkLandedWrites,
       InflightMarkWrites, RevertWrites DEF ClaimWriter, Claimed
  <2> QED BY <2>1, StoreAssumption DEF RowConsistent
<1> QED BY <1>1, <1>2, StepKeepsClaim

LEMMA InitRowConsistent == Init => RowConsistent
<1>1. ASSUME NEW kind \in StartRows
      PROVE  StartRow(kind).claimed_at = NULL /\ StartRow(kind).claim_tx_hash = NULL
  BY SystemAssumption DEF StartRow, PendingRow, NoRow
<1> QED BY <1>1 DEF Init, RowConsistent

\* A row has a claim date exactly when it has the hash of its claim, through
\* every interleaving of claim runs, any number of reapers, the startup pass,
\* crashes and reorganisations (mark_claimed, mark_external_with_block,
\* revert_claimed and revert_external_mark of receipt_store.py).
THEOREM RowsAgree == Spec => []RowConsistent
<1>1. Spec => [](TypeInv /\ RowConsistent)
  BY InitRowConsistent, InitType, StepType, StepRowConsistent, PTL DEF Spec
<1> QED BY <1>1, PTL

-----------------------------------------------------------------------------
(* What the store calls claimed was paid.  ClaimedIsSettled is not         *)
(* inductive: a writer marks rows on the strength of an answer it got some *)
(* steps before, so the invariant follows each such answer from the step   *)
(* that got it to the step that writes.                                    *)

\* Paid, or paid once: this is never taken from a receipt again.
Vouched == NonceUsed \cup retracted

\* A claim of u by tx rests on something.
Upheld(tx, u) == u \in Vouched \/ \E m \in mined : m.tx = tx /\ u \in m.skipped

\* A transaction that succeeded accounts for every receipt of its batch.
MinedIsPaid ==
    \A m \in mined : m.ok => m.tx.batch \subseteq Vouched \cup m.skipped

\* A claim run signs for the batch it holds, and what it is about to write
\* as claimed is paid, or left out by the transaction it waited for.
RunIsPaid(r) ==
    /\ r.pc \in UsesTx => r.tx.batch = r.batch
    /\ r.pc = "external" => r.todo \subseteq Vouched
    /\ r.pc = "record" /\ r.result = "OK" =>
          \A u \in r.batch : Upheld(r.tx, u)

PaidInv ==
    /\ ClaimedIsSettled
    /\ MinedIsPaid
    /\ \A c \in Claimers : RunIsPaid(run[c])
    /\ \A r \in Reapers : reaper[r].landed \subseteq Vouched
    /\ \A e \in inflight.landed : e.uuid \in Vouched

\* What a step leaves of the grounds that claims rest on.
Lasts ==
    /\ Vouched \subseteq Vouched' /\ retracted \subseteq retracted'
    /\ \A m \in mined : m \in mined' \/ m.skipped \subseteq retracted'

LEMMA UpheldLasts ==
    ASSUME Lasts, NEW tx, NEW u, Upheld(tx, u)
    PROVE  u \in Vouched' \/ \E m \in mined' : m.tx = tx /\ u \in m.skipped
BY DEF Lasts, Upheld, Vouched

LEMMA DisputedLasts ==
    ASSUME Lasts
    PROVE  Disputed \subseteq Disputed' /\ Accepted \subseteq Accepted'
<1>1. Disputed \subseteq Disputed'
  BY DEF Lasts, Disputed
<1> QED BY <1>1 DEF Lasts, Accepted, Disputed, Vouched

\* A step of the chain keeps the grounds, whatever it skips or takes back.
LEMMA ChainStepPaid ==
    ASSUME MinedIsPaid, ChainNext
    PROVE  Lasts /\ MinedIsPaid'
<1>1. ASSUME NEW tx \in mempool, NEW ok \in BOOLEAN, NEW paid,
             Execute(tx, ok, paid)
      PROVE  Lasts /\ MinedIsPaid'
  <2> DEFINE skipped == IF ok THEN tx.batch \ (paid \cup NonceUsed) ELSE {}
             new == [tx |-> tx, ok |-> ok, paid |-> paid, height |-> head + 1,
                     skipped |-> skipped]
  <2>1. mined' = mined \cup {new} /\ UNCHANGED <<outOfBand, retracted>>
    BY <1>1 DEF Execute
  <2>2. /\ new.tx = tx /\ new.ok = ok /\ new.paid = paid
        /\ ok => new.skipped = tx.batch \ (paid \cup NonceUsed)
    OBVIOUS
  <2> HIDE DEF new, skipped
  <2>3. Vouched' = Vouched \cup paid
    BY <2>1, <2>2 DEF Vouched, NonceUsed
  <2>4. ok => tx.batch \subseteq Vouched' \cup new.skipped
    BY <2>2, <2>3 DEF Vouched
  <2> QED BY <2>1, <2>2, <2>3, <2>4 DEF MinedIsPaid, Lasts
<1>2. CASE \E tx \in mempool : MineOk(tx) \/ MineReverted(tx)
  BY <1>1, <1>2 DEF MineOk, MineReverted
<1>3. CASE EmptyBlock \/ \E tx \in mempool : Evict(tx)
  BY <1>3 DEF EmptyBlock, Evict, Vouched, NonceUsed, MinedIsPaid, Lasts
<1>4. CASE \E u \in Uuids : SettleOutOfBand(u)
  BY <1>4 DEF SettleOutOfBand, Vouched, NonceUsed, MinedIsPaid, Lasts
<1>5. ASSUME NEW m \in mined, Reorg(m)
      PROVE  Lasts /\ MinedIsPaid'
  <2>1. /\ mined' = mined \ {m} /\ outOfBand' = outOfBand
        /\ retracted' = retracted \cup m.paid \cup m.skipped
    BY <1>5 DEF Reorg
  <2>2. Vouched \subseteq Vouched' /\ m.skipped \subseteq retracted'
    BY <2>1 DEF Vouched, NonceUsed
  <2> QED BY <2>1, <2>2 DEF MinedIsPaid, Lasts
<1> QED BY <1>2, <1>3, <1>4, <1>5 DEF ChainNext

\* A step of a run writes as claimed what it knows to be paid, and asks the
\* chain before it knows.
LEMMA RunStepPaid ==
    ASSUME PaidInv, TypeInv, NEW c \in Claimers, AcquireLock(c) \/ RunStep(c)
    PROVE  \A d \in Claimers : RunIsPaid(run[d])'
<1>r. /\ run[c] \in Run /\ run \in [Claimers -> Run]
      /\ RunIsPaid(run[c]) /\ \A d \in Claimers : RunIsPaid(run[d])
  BY DEF TypeInv, TypeOK, SettlementTypeOK, PaidInv
<1>n. UNCHANGED <<Vouched, mined>>
  BY DEF RunStep, AcquireLock, ReconcileCheck, ReconcileMark, NextBatch,
     NoMoreBatches, DropCorrupt, LockCorrupt, BuildTx, BuildUnreachable,
     BuildRaises, SetPending, BroadcastAccepted, BroadcastNoFunds,
     BroadcastFails, WaitConfirmed, WaitReverted, WaitTimesOut, WaitOutcome,
     RecordResult, ClearPending, ReleaseLock, chainVars, NonceUsed, Vouched
<1>p. ASSUME NEW r, RunIsPaid(r), Proceed(c, r)
      PROVE  \A d \in Claimers : RunIsPaid(run[d])'
  BY <1>p, <1>r, <1>n DEF Proceed, RunIsPaid, Upheld
<1>q. ASSUME NEW r, r.pc \notin UsesTx \cup {"external"}, Proceed(c, r)
      PROVE  \A d \in Claimers : RunIsPaid(run[d])'
  BY <1>p, <1>q DEF RunIsPaid, UsesTx
<1>1. CASE ReconcileCheck(c)
  <2>1. PICK already \in SUBSET NonceUsed :
           Proceed(c, [run[c] EXCEPT
              !.todo = already,
              !.pc = IF already = {} THEN "next" ELSE "external"])
    BY <1>1 DEF ReconcileCheck
  <2> DEFINE next == [run[c] EXCEPT
                !.todo = already,
                !.pc = IF already = {} THEN "next" ELSE "external"]
  <2>2. RunIsPaid(next)
    BY <1>r DEF RunIsPaid, UsesTx, Run, Vouched
  <2> HIDE DEF next
  <2> QED BY <1>p, <2>1, <2>2 DEF next
<1>2. CASE BuildTx(c)
  <2> DEFINE tx == [nonce |-> txCount, batch |-> run[c].batch]
             next == [run[c] EXCEPT !.pc = "pending", !.tx = tx]
  <2>1. RunIsPaid(next)
    BY <1>r DEF RunIsPaid, Run
  <2>2. Proceed(c, next)
    BY <1>2 DEF BuildTx
  <2> HIDE DEF next
  <2> QED BY <1>p, <2>1, <2>2
<1>3. CASE SetPending(c) \/ BroadcastAccepted(c)
  <2>1. /\ RunIsPaid([run[c] EXCEPT !.pc = "broadcast"])
        /\ RunIsPaid([run[c] EXCEPT !.pc = "wait"])
    BY <1>3, <1>r DEF SetPending, BroadcastAccepted, At, RunIsPaid, UsesTx, Run
  <2> QED BY <1>3, <1>p, <2>1 DEF SetPending, BroadcastAccepted, Goto
<1>4. CASE BroadcastNoFunds(c) \/ BroadcastFails(c)
  <2>1. ASSUME NEW result \in {"CLAIM_INSUFFICIENT_GAS", "CLAIM_RPC_UNREACHABLE"}
        PROVE  RunIsPaid([run[c] EXCEPT !.pc = "record", !.result = result])
    BY <1>4, <1>r DEF BroadcastNoFunds, BroadcastFails, At, RunIsPaid, UsesTx, Run
  <2> QED BY <1>4, <1>p, <2>1 DEF BroadcastNoFunds, BroadcastFails
<1>5. CASE WaitConfirmed(c) \/ WaitReverted(c) \/ WaitTimesOut(c)
  <2>1. PICK result :
           /\ result = "OK" => Executed(run[c].tx, TRUE)
           /\ WaitOutcome(c, result)
    BY <1>5 DEF WaitConfirmed, WaitReverted, WaitTimesOut
  <2>2. run[c].tx.batch = run[c].batch
    BY <1>r, <2>1 DEF WaitOutcome, At, RunIsPaid, UsesTx
  <2>3. result = "OK" => \A u \in run[c].batch : Upheld(run[c].tx, u)
    BY <2>1, <2>2 DEF Executed, PaidInv, MinedIsPaid, Upheld
  <2> DEFINE next == [run[c] EXCEPT !.pc = "record", !.result = result]
  <2>4. RunIsPaid(next)
    BY <1>r, <2>2, <2>3 DEF RunIsPaid, Run
  <2> HIDE DEF next
  <2> QED BY <1>p, <2>1, <2>4 DEF WaitOutcome, next
<1>l. \A pc \in {"next", "stop"} : Leave(run[c], pc).pc = pc
  BY <1>r DEF Leave, Run
<1>g. ASSUME NEW pc, Goto(c, pc), pc \notin UsesTx \cup {"external"}
      PROVE  \A d \in Claimers : RunIsPaid(run[d])'
  <2>1. [run[c] EXCEPT !.pc = pc].pc = pc
    BY <1>r DEF Run
  <2> QED BY <1>g, <1>q, <2>1 DEF Goto
<1>6. CASE RecordResult(c) \/ ClearPending(c)
  <2> DEFINE left == Leave(run[c], AfterBatch(run[c].result))
             kept == [run[c] EXCEPT !.pc = "clear", !.todo = run[c].batch]
             less(u) == [run[c] EXCEPT !.todo = run[c].todo \ {u}]
  <2>1. \/ Proceed(c, kept) \/ Proceed(c, left)
        \/ At(c, "clear") /\ \E u \in First(run[c].todo) : Proceed(c, less(u))
    BY <1>6 DEF RecordResult, ClearPending
  <2>2. left.pc \in {"next", "stop"} /\ kept.pc = "clear"
    BY <1>l, <1>r DEF AfterBatch, Run
  <2>3. At(c, "clear") => \A u : less(u).pc = "clear"
    BY <1>r DEF At, Run
  <2> HIDE DEF left, kept, less
  <2> QED BY <1>q, <2>1, <2>2, <2>3 DEF UsesTx
<1>7. CASE NextBatch(c)
  <2> DEFINE batch == Picked(c) \ run[c].seen
             bad   == Dropped(batch)
             next  == [run[c] EXCEPT
                         !.seen  = @ \cup batch,
                         !.batch = batch \ bad,
                         !.todo  = bad,
                         !.pc    = IF bad # {} THEN "drop" ELSE "build"]
  <2>1. Proceed(c, next)
    BY <1>7 DEF NextBatch
  <2>2. next.pc \in {"drop", "build"}
    <3> HIDE DEF batch, bad
    <3> QED BY <1>r DEF Run
  <2> HIDE DEF next
  <2> QED BY <1>q, <2>1, <2>2 DEF UsesTx
<1>8. CASE LockCorrupt(c)
  <2> DEFINE next(u) == [run[c] EXCEPT
                !.todo = run[c].todo \ {u},
                !.pc = IF run[c].todo \ {u} # {} THEN "drop"
                       ELSE IF run[c].batch = {} THEN "next"
                       ELSE "build"]
  <2>1. PICK u : Proceed(c, next(u))
    BY <1>8 DEF LockCorrupt
  <2>2. next(u).pc \in {"drop", "next", "build"}
    BY <1>r DEF Run
  <2> HIDE DEF next
  <2> QED BY <1>q, <2>1, <2>2 DEF UsesTx
<1>9. CASE NoMoreBatches(c) \/ DropCorrupt(c)
  BY <1>9, <1>g DEF NoMoreBatches, DropCorrupt, UsesTx
<1>10. CASE BuildUnreachable(c) \/ BuildRaises(c) \/ ReleaseLock(c)
  BY <1>10, <1>l, <1>q
     DEF BuildUnreachable, BuildRaises, ReleaseLock, Idle, UsesTx
<1>11. CASE ReconcileMark(c)
  <2>1. [run[c] EXCEPT !.pc = "next", !.todo = {}].pc = "next"
    BY <1>r DEF Run
  <2> QED BY <1>11, <1>q, <2>1 DEF ReconcileMark, UsesTx
<1>12. CASE AcquireLock(c)
  <2>1. PICK mode, only : Proceed(c, [Idle EXCEPT !.pc = "reconcile",
                                         !.mode = mode, !.only = only])
    BY <1>12 DEF AcquireLock
  <2>2. [Idle EXCEPT !.pc = "reconcile",
                     !.mode = mode, !.only = only].pc = "reconcile"
    BY DEF Idle
  <2> QED BY <1>q, <2>1, <2>2 DEF UsesTx
<1> QED BY <1>1, <1>2, <1>3, <1>4, <1>5, <1>6, <1>7, <1>8, <1>9, <1>10,
           <1>11, <1>12 DEF RunStep

\* Nothing but the chain touches the grounds.
LEMMA StepPays ==
    ASSUME MinedIsPaid, [Next]_vars
    PROVE  Lasts /\ MinedIsPaid'
<1>1. CASE Chain
  BY <1>1, ChainStepPaid DEF Chain
<1>2. CASE UNCHANGED <<mined, outOfBand, retracted>>
  BY <1>2 DEF Vouched, NonceUsed, MinedIsPaid, Lasts
<1> QED
  BY <1>1, <1>2
     DEF Next, PollerSigns, AttemptAges, ClaimAges, Claim, CliCrash, Reap,
         Reconcile, DaemonCrash, vars, chainVars, RunStep, AcquireLock,
         ReconcileCheck, ReconcileMark, NextBatch, NoMoreBatches, DropCorrupt,
         LockCorrupt, BuildTx, BuildUnreachable, BuildRaises, SetPending,
         BroadcastAccepted, BroadcastNoFunds, BroadcastFails, WaitConfirmed,
         WaitReverted, WaitTimesOut, WaitOutcome, RecordResult, ClearPending,
         ReleaseLock, ReaperStep, CheckTimeouts, TimeoutVerdicts, MarkLanded,
         ClearDropped, CheckFinality, RevertFlipped, CheckReorgs,
         RevertUnused, UnusedVerdicts, InflightStep, InflightCheck,
         InflightMark, InflightClearLanded, InflightClearUnused,
         InflightResetAttempts

\* The reaper and the startup pass remember as landed what the chain told
\* them is paid.
LEMMA ReaperStepPaid ==
    ASSUME PaidInv, TypeInv, NEW r \in Reapers, ReaperStep(r)
    PROVE  \A q \in Reapers : reaper'[q].landed \subseteq Vouched
<1>r. /\ reaper \in [Reapers -> ReaperState] /\ reaper[r] \in ReaperState
      /\ \A q \in Reapers : reaper[q].landed \subseteq Vouched
  BY DEF TypeInv, TypeOK, ReaperTypeOK, PaidInv
<1>c. ASSUME NEW tick, Continue(r, tick), tick.landed \subseteq Vouched
      PROVE  \A q \in Reapers : reaper'[q].landed \subseteq Vouched
  BY <1>c, <1>r DEF Continue
<1>1. CASE CheckTimeouts(r)
  <2>1. PICK landed \in SUBSET NonceUsed, dropped \in SUBSET Uuids,
             block \in {head, NULL} : TimeoutVerdicts(r, landed, dropped, block)
    BY <1>1 DEF CheckTimeouts, list_timed_out_claims
  <2> DEFINE tick == [pc     |-> IF landed # {} THEN "landed"
                                 ELSE IF dropped # {} THEN "dropped"
                                 ELSE "finality",
                      landed |-> landed,
                      todo   |-> dropped,
                      block  |-> IF landed # {} THEN block ELSE NULL]
  <2>2. Continue(r, tick)
    BY <2>1 DEF TimeoutVerdicts
  <2>3. tick.landed \subseteq Vouched
    BY DEF Vouched
  <2> HIDE DEF tick
  <2> QED BY <1>c, <2>2, <2>3
<1>2. CASE MarkLanded(r)
  <2> DEFINE tick == [reaper[r] EXCEPT
                !.pc = IF reaper[r].todo # {} THEN "dropped" ELSE "finality",
                !.landed = {}, !.block = NULL]
  <2>1. Continue(r, tick)
    BY <1>2 DEF MarkLanded
  <2>2. tick.landed = {}
    BY <1>r DEF ReaperState
  <2> HIDE DEF tick
  <2> QED BY <1>c, <2>1, <2>2
<1>w. ASSUME NEW u, NEW next, Written(r, u, next)
      PROVE  \A q \in Reapers : reaper'[q].landed \subseteq Vouched
  <2> DEFINE left == reaper[r].todo \ {u}
             tick == [reaper[r] EXCEPT
                         !.todo = left,
                         !.pc = IF left # {} THEN @ ELSE next]
  <2>1. tick.landed = reaper[r].landed
    BY <1>r DEF ReaperState
  <2>2. Continue(r, tick)
    BY <1>w DEF Written
  <2> HIDE DEF tick
  <2> QED BY <1>c, <1>r, <2>1, <2>2
<1>v. ASSUME NEW unused, NEW write, NEW next,
             UnusedVerdicts(r, unused, write, next)
      PROVE  \A q \in Reapers : reaper'[q].landed \subseteq Vouched
  <2> DEFINE tick == [reaper[r] EXCEPT
                         !.pc = IF unused # {} THEN write ELSE next,
                         !.todo = unused]
  <2>1. tick.landed = reaper[r].landed
    BY <1>r DEF ReaperState
  <2>2. Continue(r, tick)
    BY <1>v DEF UnusedVerdicts
  <2> HIDE DEF tick
  <2> QED BY <1>c, <1>r, <2>1, <2>2
<1>3. CASE CheckFinality(r) \/ CheckReorgs(r)
  BY <1>3, <1>v DEF CheckFinality, CheckReorgs
<1>4. CASE ClearDropped(r) \/ RevertFlipped(r) \/ RevertUnused(r)
  BY <1>4, <1>w DEF ClearDropped, RevertFlipped, RevertUnused
<1> QED BY <1>1, <1>2, <1>3, <1>4 DEF ReaperStep

LEMMA InflightStepPaid ==
    ASSUME PaidInv, TypeInv, InflightStep
    PROVE  \A e \in inflight'.landed : e.uuid \in Vouched
<1>r. inflight \in Inflight /\ \A e \in inflight.landed : e.uuid \in Vouched
  BY DEF TypeInv, TypeOK, InflightTypeOK, PaidInv
<1>1. CASE InflightCheck
  <2>1. PICK landed \in SUBSET NonceUsed :
           inflight'.landed =
              {[uuid |-> u, hash |-> db[u].claim_tx_pending] : u \in landed}
    BY <1>1 DEF InflightCheck
  <2> QED BY <2>1 DEF Vouched
<1>2. CASE InflightMark
  <2>1. inflight'.landed \subseteq inflight.landed
    BY <1>2, <1>r DEF InflightMark, Inflight
  <2> QED BY <1>r, <2>1
<1>3. CASE InflightClearLanded \/ InflightClearUnused \/ InflightResetAttempts
  <2>1. inflight'.landed = inflight.landed
    BY <1>3, <1>r DEF InflightClearLanded, InflightClearUnused,
       InflightResetAttempts, Inflight
  <2> QED BY <1>r, <2>1
<1> QED BY <1>1, <1>2, <1>3 DEF InflightStep

\* The hash a run writes is its transaction's.
LEMMA RecordResultHash ==
    ASSUME TypeInv, NEW c \in Claimers, RecordResult(c), run[c].result = "OK",
           NEW u \in Uuids
    PROVE  \/ db'[u] = db[u]
           \/ u \in run[c].batch /\ db'[u].claim_tx_hash = run[c].tx
<1>1. db \in Table /\ db' = mark_claimed(db, run[c].batch, run[c].tx)
  BY DEF RecordResult, TypeInv, TypeOK, Table
<1> QED BY <1>1, MarkClaimedColumns

LEMMA StepClaimedIsSettled ==
    ASSUME PaidInv, TypeInv, [Next]_vars, Lasts
    PROVE  ClaimedIsSettled'
<1>s. \A u \in Uuids : db[u].claimed_at # NULL => Upheld(db[u].claim_tx_hash, u)
  BY DEF PaidInv, ClaimedIsSettled, Upheld, Vouched
<1>1. ASSUME NEW u \in Uuids, db'[u].claimed_at # NULL
      PROVE  Upheld(db'[u].claim_tx_hash, u)
  <2>1. CASE KeepsClaim(db, db')
    BY <1>1, <1>s, <2>1 DEF KeepsClaim
  <2>2. ASSUME NEW c \in Claimers, ReconcileMark(c)
        PROVE  Upheld(db'[u].claim_tx_hash, u)
    BY <1>1, <1>s, <2>2, ReconcileMarkWrites
       DEF ReconcileMark, At, PaidInv, RunIsPaid, Claimed, Upheld
  <2>3. ASSUME NEW c \in Claimers, RecordResult(c), run[c].result = "OK"
        PROVE  Upheld(db'[u].claim_tx_hash, u)
    BY <1>1, <1>s, <2>3, RecordResultHash DEF RecordResult, At, PaidInv, RunIsPaid
  <2>4. ASSUME NEW r \in Reapers, MarkLanded(r)
        PROVE  Upheld(db'[u].claim_tx_hash, u)
    BY <1>1, <1>s, <2>4, MarkLandedWrites DEF PaidInv, Claimed, Upheld
  <2>5. ASSUME NEW r \in Reapers, RevertFlipped(r) \/ RevertUnused(r)
        PROVE  Upheld(db'[u].claim_tx_hash, u)
    BY <1>1, <1>s, <2>5, RevertWrites
  <2>6. CASE InflightMark
    BY <1>1, <1>s, <2>6, InflightMarkWrites DEF PaidInv, Claimed, Upheld
  <2> QED BY <2>1, <2>2, <2>3, <2>4, <2>5, <2>6, StepKeepsClaim DEF ClaimWriter
<1>2. ASSUME NEW u \in Uuids, db'[u].claimed_at # NULL
      PROVE  \/ u \in Vouched'
             \/ \E m \in mined' : m.tx = db'[u].claim_tx_hash /\ u \in m.skipped
  BY <1>1, <1>2, UpheldLasts
<1> QED BY <1>2 DEF ClaimedIsSettled, Vouched

LEMMA StepPaid == TypeInv /\ PaidInv /\ [Next]_vars => PaidInv'
<1> SUFFICES ASSUME TypeInv, PaidInv, [Next]_vars PROVE PaidInv'
  OBVIOUS
<1>m. Lasts /\ MinedIsPaid'
  BY StepPays DEF PaidInv
<1>p. /\ Vouched \subseteq Vouched' /\ MinedIsPaid'
      /\ \A tx, u : Upheld(tx, u) =>
            u \in Vouched' \/ \E m \in mined' : m.tx = tx /\ u \in m.skipped
  BY <1>m, UpheldLasts DEF Lasts
<1>s. ClaimedIsSettled'
  BY <1>m, StepClaimedIsSettled
<1>i. RunIsPaid(Idle)'
  BY DEF Idle, RunIsPaid, UsesTx
<1>1. \A c \in Claimers : RunIsPaid(run[c])'
  <2>1. CASE UNCHANGED run
    BY <1>p, <2>1 DEF PaidInv, RunIsPaid, Upheld
  <2>2. ASSUME NEW c \in Claimers, Claim(c)
        PROVE  \A d \in Claimers : RunIsPaid(run[d])'
    BY <2>2, RunStepPaid DEF Claim
  <2>3. ASSUME NEW c \in Claimers, CliCrash(c)
        PROVE  \A d \in Claimers : RunIsPaid(run[d])'
    <3>1. \A d \in Claimers : run'[d] = Idle \/ run'[d] = run[d]
      BY <2>3 DEF CliCrash, KillRun, Proceed, TypeInv, TypeOK, SettlementTypeOK
    <3> QED BY <3>1, <1>i, <1>p DEF PaidInv, RunIsPaid, Upheld
  <2>4. CASE DaemonCrash
    <3>1. \A d \in Claimers : run'[d] = Idle \/ run'[d] = run[d]
      BY <2>4 DEF DaemonCrash
    <3> QED BY <3>1, <1>i, <1>p DEF PaidInv, RunIsPaid, Upheld
  <2> QED BY <2>1, <2>2, <2>3, <2>4
     DEF Next, PollerSigns, AttemptAges, ClaimAges, Chain, Reap, Reconcile, vars
<1>2. \A r \in Reapers : reaper'[r].landed \subseteq Vouched'
  <2>1. CASE UNCHANGED reaper
    BY <1>p, <2>1 DEF PaidInv
  <2>2. ASSUME NEW r \in Reapers, Reap(r)
        PROVE  \A q \in Reapers : reaper'[q].landed \subseteq Vouched'
    BY <1>p, <2>2, ReaperStepPaid DEF Reap
  <2>3. CASE DaemonCrash
    BY <1>p, <2>3 DEF DaemonCrash, NewTick, PaidInv
  <2> QED BY <2>1, <2>2, <2>3
     DEF Next, PollerSigns, AttemptAges, ClaimAges, Chain, Claim, CliCrash,
         Reconcile, vars
<1>3. \A e \in inflight'.landed : e.uuid \in Vouched'
  <2>1. CASE UNCHANGED inflight
    BY <1>p, <2>1 DEF PaidInv
  <2>2. CASE Reconcile
    BY <1>p, <2>2, InflightStepPaid DEF Reconcile
  <2>3. CASE DaemonCrash
    BY <2>3 DEF DaemonCrash, Pass
  <2> QED BY <2>1, <2>2, <2>3
     DEF Next, PollerSigns, AttemptAges, ClaimAges, Chain, Claim, CliCrash,
         Reap, vars
<1> QED BY <1>p, <1>s, <1>1, <1>2, <1>3 DEF PaidInv

LEMMA InitPaid == Init => PaidInv
<1> SUFFICES ASSUME Init PROVE PaidInv
  OBVIOUS
<1>1. ASSUME NEW kind \in StartRows
      PROVE  StartRow(kind).claimed_at = NULL
  BY SystemAssumption DEF StartRow, PendingRow, NoRow
<1>2. ClaimedIsSettled
  BY <1>1 DEF Init, ClaimedIsSettled
<1>3. MinedIsPaid
  BY DEF Init, ChainInit, MinedIsPaid
<1>4. \A c \in Claimers : RunIsPaid(run[c])
  BY DEF Init, SettlementInit, Idle, RunIsPaid, UsesTx
<1>5. \A r \in Reapers : reaper[r].landed \subseteq Vouched
  BY DEF Init, ReaperInit, NewTick
<1>6. \A e \in inflight.landed : e.uuid \in Vouched
  BY DEF Init, Pass
<1> QED BY <1>2, <1>3, <1>4, <1>5, <1>6 DEF PaidInv

\* A row the store calls claimed was paid, or was left out by the successful
\* transaction whose hash it carries, or its block was taken back: whatever
\* the four writers of claimed_at (claim_all's reconciliation and its result,
\* the reaper's first pass, the startup pass) learned before they wrote, how
\* stale it was by then, who else wrote in between, who was killed, what the
\* contract skips and how often the chain is reorganised.
THEOREM PaidIfClaimed == Spec => []ClaimedIsSettled
<1>1. TypeInv /\ PaidInv /\ [Next]_vars => PaidInv'
  BY StepPaid
<1>2. PaidInv => ClaimedIsSettled
  BY DEF PaidInv
<1> QED BY <1>1, <1>2, InitType, StepType, InitPaid, PTL DEF Spec

-----------------------------------------------------------------------------
(* Steps that leave most of the state alone.                               *)

\* A run step leaves the other runs alone, and these are idle.
LEMMA OthersIdle ==
    ASSUME TypeInv, ClaimMutex, NEW c \in Claimers, AcquireLock(c) \/ RunStep(c)
    PROVE  \A d \in Claimers \ {c} : run'[d] = run[d] /\ At(d, "idle")
<1>1. CASE AcquireLock(c)
  BY <1>1, AcquireLockMoves, SettlementAssumption DEF ClaimMutex
<1>2. CASE RunStep(c)
  <2>1. ~At(c, "idle") /\ \E r : Proceed(c, r)
    BY <1>2, RunStepKeepsLock
  <2>2. \A d \in Claimers \ {c} : run'[d] = run[d]
    BY <2>1, RunTypes DEF Proceed
  <2> QED BY <2>1, <2>2 DEF ClaimMutex
<1> QED BY <1>1, <1>2

LEMMA InitMutex == Init => ClaimMutex
BY DEF Init, SettlementInit, ClaimMutex, At, Idle

\* A run touches the chain only when it broadcasts.
LEMMA RunStepChain ==
    ASSUME TypeInv, NEW c \in Claimers, AcquireLock(c) \/ RunStep(c)
    PROVE  /\ UNCHANGED <<mined, txCount, outOfBand, retracted>>
           /\ \/ mempool' = mempool
              \/ /\ At(c, "broadcast") /\ run[c].tx \in ClaimTx
                 /\ run[c].tx.nonce = txCount /\ mempool' = Admit(run[c].tx)
                 /\ run'[c].tx = run[c].tx /\ run'[c].batch = run[c].batch
                 /\ \/ run'[c].pc = "wait"
                    \/ /\ run'[c].pc = "record"
                       /\ run'[c].result = "CLAIM_RPC_UNREACHABLE"
<1>1. CASE BroadcastAccepted(c) \/ BroadcastNoFunds(c) \/ BroadcastFails(c)
  BY <1>1, BroadcastMoves DEF Stepped, Moved
<1>2. CASE UNCHANGED chainVars
  BY <1>2 DEF chainVars
<1> QED
  BY <1>1, <1>2
     DEF RunStep, AcquireLock, ReconcileCheck, ReconcileMark, NextBatch,
         NoMoreBatches, DropCorrupt, LockCorrupt, BuildTx, BuildUnreachable,
         BuildRaises, SetPending, WaitConfirmed, WaitReverted, WaitTimesOut,
         WaitOutcome, RecordResult, ClearPending, ReleaseLock

\* A wall-clock column ages, or the poller signs: no other column is written.
LEMMA AgingRows ==
    ASSUME TypeInv, NEW v \in Uuids,
           PollerSigns(v) \/ AttemptAges(v) \/ ClaimAges(v), NEW u \in Uuids
    PROVE  /\ SameFlight(db'[u], db[u]) /\ SameBudget(db'[u], db[u])
           /\ db'[u].claim_tx_hash = db[u].claim_tx_hash
           /\ db'[u].last_error_code = db[u].last_error_code
           /\ db'[u].sign_attempts = db[u].sign_attempts
           /\ db'[u].claimed_at = NULL <=> db[u].claimed_at = NULL
           /\ db[u].signed => db'[u].signed
           /\ ~PollerSigns(v) => db'[u].signed = db[u].signed
<1>r. db \in Table
  BY DEF TypeInv, TypeOK, Table
<1> USE DEF SameClaim, SameFlight, SameBudget
<1>1. CASE PollerSigns(v)
  BY <1>1, <1>r, MarkSignedRow DEF PollerSigns
<1>2. CASE AttemptAges(v)
  BY <1>2, <1>r DEF AttemptAges, Table, Row
<1>3. CASE ClaimAges(v)
  BY <1>3, <1>r, StoreAssumption DEF ClaimAges, Table, Row
<1> QED BY <1>1, <1>2, <1>3

\* A receipt without a signature is picked only by name, and only if it was
\* rejected.
LEMMA UnsignedPicked ==
    ASSUME TypeInv, NEW c \in Claimers, NEW u \in Picked(c), ~db[u].signed
    PROVE  u \in Uuids /\ db[u].last_error_code \in SIGN_CODES
<1>1. u \in Uuids
  BY PickedType
<1>2. db[u].locked \in BOOLEAN /\ db[u].signed \in BOOLEAN
  BY <1>1 DEF TypeInv, TypeOK, Row
<1>3. run[c].mode = "only" /\ view(db[u]) \in {"claimable", "failed_retryable"}
  BY DEF Picked, Oldest, unclaimed
<1> QED BY <1>1, <1>2, <1>3 DEF view

-----------------------------------------------------------------------------
(* The detailed system implements ClaimLifecycle.  A step changes what the *)
(* operator sees of some receipts in one of five ways, or of none.         *)

\* A single-receipt retry drops a signature it cannot recover.
RetryChecked == "only" \in Modes => PayerKnown

\* What the promise calls settled and disputed stays as it is.
Unheard == UNCHANGED <<Accepted, Disputed>>

ViewKept(u) == view(db'[u]) = view(db[u])

AllKept == \A u \in Uuids : ViewKept(u)

ClaimsPaid ==
    \A u \in Uuids :
        \/ ViewKept(u)
        \/ /\ u \in Accepted /\ view(db'[u]) = "claimed"
           /\ view(db[u]) \in Promise!Open \cup {"failed_terminal"}

FailsOpen ==
    \A u \in Uuids :
        \/ ViewKept(u)
        \/ /\ view(db[u]) \in Promise!Open
           /\ view(db'[u]) \in {"failed_retryable", "failed_terminal"}

\* One receipt becomes claimable again.
Requeues(from) ==
    \E v \in Uuids :
        /\ \A u \in Uuids \ {v} : ViewKept(u)
        /\ view(db[v]) \in from /\ view(db'[v]) = "claimable"

\* One disputed claim is taken back.
TakesBack ==
    \E v \in Uuids :
        /\ v \in Disputed /\ \A u \in Uuids \ {v} : ViewKept(u)
        /\ view(db[v]) = "claimed" /\ view(db'[v]) \in Promise!Open

LEMMA ViewOfRow ==
    ASSUME NEW r \in Row
    PROVE  view(r) = IF r.claimed_at # NULL THEN "claimed"
                     ELSE IF r.locked THEN "failed_terminal"
                     ELSE IF r.signed
                          THEN IF r.last_error_code \in CLAIM_CODES
                               THEN "failed_retryable" ELSE "claimable"
                          ELSE IF r.last_error_code \in SIGN_CODES
                               THEN "failed_retryable" ELSE "pending_sign"
BY DEF view, Row

\* Each of them is a step of the promise.
LEMMA AllKeptSettles ==
    ASSUME AllKept, Accepted \subseteq Accepted', Accepted' \subseteq Uuids,
           Disputed \subseteq Disputed'
    PROVE  Promise!Settle
<1>1. [u \in Uuids |-> view(db[u])]' = [u \in Uuids |-> view(db[u])]
  BY DEF AllKept, ViewKept
<1>2. Disputed' \subseteq Accepted'
  BY DEF Accepted
<1>3. /\ Accepted' = Accepted \cup Accepted' /\ Disputed' = Disputed \cup Disputed'
      /\ Accepted' \in SUBSET Uuids /\ Disputed' \in SUBSET Uuids
  BY <1>2
<1> QED BY <1>1, <1>2, <1>3 DEF Promise!Settle

LEMMA ClaimsArePromised ==
    ASSUME ClaimsPaid, Unheard
    PROVE  \E S \in SUBSET Uuids : Promise!Claimed(S)
<1> DEFINE S == {u \in Uuids : ~ViewKept(u)}
<1>1. \A u \in S : /\ u \in Accepted /\ view(db'[u]) = "claimed"
                   /\ view(db[u]) \in Promise!Open \cup {"failed_terminal"}
  BY DEF ClaimsPaid
<1>2. [u \in Uuids |-> view(db[u])]'
         = [u \in Uuids |-> IF u \in S THEN "claimed"
                            ELSE [v \in Uuids |-> view(db[v])][u]]
  BY <1>1 DEF ViewKept
<1> HIDE DEF S
<1> QED BY <1>1, <1>2 DEF Promise!Claimed, Promise!Becomes, S, Unheard

LEMMA FailsArePromised ==
    ASSUME FailsOpen, Unheard
    PROVE  \E S, T \in SUBSET Uuids : Promise!Fail(S, T)
<1> DEFINE C == {u \in Uuids : ~ViewKept(u)}
           T == {u \in C : view(db'[u]) = "failed_terminal"}
<1>1. \A u \in C : /\ view(db[u]) \in Promise!Open
                   /\ view(db'[u]) \in {"failed_retryable", "failed_terminal"}
  BY DEF FailsOpen
<1>2. [u \in Uuids |-> view(db[u])]'
         = [u \in Uuids |-> IF u \in T THEN "failed_terminal"
                            ELSE IF u \in C THEN "failed_retryable"
                            ELSE [v \in Uuids |-> view(db[v])][u]]
  BY <1>1 DEF ViewKept
<1>3. C \in SUBSET Uuids /\ T \in SUBSET Uuids /\ C \cup T = C
  OBVIOUS
<1> HIDE DEF C, T
<1>4. Promise!Fail(C, T)
  BY <1>1, <1>2, <1>3 DEF Promise!Fail, Unheard
<1> QED BY <1>3, <1>4

LEMMA RequeueIsPromised ==
    ASSUME NEW from, Requeues(from), Unheard
    PROVE  \E v \in Uuids : Promise!Becomes({v}, from, "claimable")
<1>1. PICK v \in Uuids : /\ \A u \in Uuids \ {v} : ViewKept(u)
                         /\ view(db[v]) \in from /\ view(db'[v]) = "claimable"
  BY DEF Requeues
<1>2. [u \in Uuids |-> view(db[u])]'
         = [u \in Uuids |-> IF u \in {v} THEN "claimable"
                            ELSE [w \in Uuids |-> view(db[w])][u]]
  BY <1>1 DEF ViewKept
<1>3. Promise!Becomes({v}, from, "claimable")
  BY <1>1, <1>2 DEF Promise!Becomes, Unheard
<1> QED BY <1>3

LEMMA TakeBackIsPromised ==
    ASSUME TakesBack, Unheard
    PROVE  \E v \in Uuids : Promise!TakeBack(v)
<1>1. PICK v \in Uuids :
         /\ v \in Disputed /\ \A u \in Uuids \ {v} : ViewKept(u)
         /\ view(db[v]) = "claimed" /\ view(db'[v]) \in Promise!Open
  BY DEF TakesBack
<1> DEFINE to == view(db'[v])
<1>2. [u \in Uuids |-> view(db[u])]'
         = [u \in Uuids |-> IF u \in {v} THEN to
                            ELSE [w \in Uuids |-> view(db[w])][u]]
  BY <1>1 DEF ViewKept
<1>3. \A u \in {v} : [w \in Uuids |-> view(db[w])][u] \in {"claimed"}
  BY <1>1
<1> HIDE DEF to
<1>4. Promise!Becomes({v}, {"claimed"}, to)
  BY <1>2, <1>3 DEF Promise!Becomes, Unheard
<1>5. Promise!TakeBack(v)
  BY <1>1, <1>4 DEF Promise!TakeBack, to
<1> QED BY <1>5

Presented ==
    \/ AllKept \/ ClaimsPaid \/ FailsOpen \/ TakesBack
    \/ Requeues({"failed_retryable"})
    \/ Requeues({"pending_sign", "failed_retryable"})

LEMMA PresentedIsPromised ==
    ASSUME Presented, Accepted \subseteq Uuids, Unheard
    PROVE  Promise!LifecycleNext
<1>1. CASE AllKept
  BY <1>1, AllKeptSettles DEF Promise!LifecycleNext, Unheard
<1>2. CASE ClaimsPaid
  BY <1>2, ClaimsArePromised DEF Promise!LifecycleNext
<1>3. CASE FailsOpen
  BY <1>3, FailsArePromised DEF Promise!LifecycleNext
<1>4. CASE Requeues({"failed_retryable"})
  BY <1>4, RequeueIsPromised DEF Promise!LifecycleNext, Promise!Requeue
<1>5. CASE Requeues({"pending_sign", "failed_retryable"})
  BY <1>5, RequeueIsPromised DEF Promise!LifecycleNext, Promise!Sign
<1>6. CASE TakesBack
  BY <1>6, TakeBackIsPromised DEF Promise!LifecycleNext
<1> QED BY <1>1, <1>2, <1>3, <1>4, <1>5, <1>6 DEF Presented

-----------------------------------------------------------------------------
(* The invariant of the mapping: only signed receipts are in a batch, in   *)
(* flight or known to the reaper and the startup pass, so that no writer   *)
(* of the claiming side reaches a receipt the operator sees as pending.    *)

RowRef(u) ==
    \/ db[u].signed
    \/ /\ db[u].claimed_at = NULL /\ db[u].claim_tx_pending = NULL
       /\ db[u].last_error_code \notin CLAIM_CODES

\* A receipt whose signature is being dropped is not pending.
NotPending(u) ==
    db[u].signed \/ db[u].locked \/ db[u].last_error_code \in SIGN_CODES

RunRef(c) ==
    /\ run[c].mode = "only" => PayerKnown
    /\ \A u \in run[c].batch : db[u].signed
    /\ At(c, "external") => \A u \in run[c].todo : db[u].signed
    /\ run[c].pc \in {"drop", "lock"} => \A u \in run[c].todo : NotPending(u)

ReaperRef(r) ==
    /\ \A u \in reaper[r].landed \cup reaper[r].todo : db[u].signed
    /\ In(r, "flipped") \/ In(r, "reverted") => reaper[r].todo \subseteq Disputed

InflightRef ==
    /\ \A u \in inflight.todo \cup inflight.unused : db[u].signed
    /\ \A e \in inflight.landed : db[e.uuid].signed

RefInv ==
    /\ \A u \in Uuids : RowRef(u)
    /\ \A c \in Claimers : RunRef(c)
    /\ \A r \in Reapers : ReaperRef(r)
    /\ InflightRef

\* The writes of everybody but the run that drops a signature.
UnsignedKept(u) ==
    /\ db[u].signed => db'[u].signed
    /\ db'[u].signed \/ /\ db'[u].locked = db[u].locked
                        /\ db'[u].last_error_code = db[u].last_error_code
    /\ RowRef(u)'

LEMMA MarkClaimedPresents ==
    ASSUME TypeInv, RefInv, NEW us, NEW hash,
           db' = mark_claimed(db, us, hash),
           \A u \in us : db[u].signed /\ u \in Accepted
    PROVE  ClaimsPaid /\ \A u \in Uuids : UnsignedKept(u)
<1> SUFFICES ASSUME NEW u \in Uuids
             PROVE  /\ \/ ViewKept(u)
                       \/ /\ u \in Accepted /\ view(db'[u]) = "claimed"
                          /\ view(db[u]) \in Promise!Open \cup {"failed_terminal"}
                    /\ UnsignedKept(u)
  BY DEF ClaimsPaid
<1>r. db \in Table /\ db[u] \in Row
  BY DEF TypeInv, TypeOK, Table
<1>1. CASE u \in us /\ db[u].claimed_at = NULL
  <2>1. view(db'[u]) = "claimed" /\ db'[u].signed
    BY <1>r, <1>1, MarkClaimedRow, StoreAssumption DEF SameSigning, view
  <2>2. view(db[u]) \in Promise!Open \cup {"failed_terminal"}
    BY <1>r, <1>1, ViewOfRow DEF Promise!Open
  <2> QED BY <1>1, <2>1, <2>2 DEF UnsignedKept, RowRef
<1>2. CASE ~(u \in us /\ db[u].claimed_at = NULL)
  <2>1. db'[u] = db[u]
    BY <1>r, <1>2, MarkClaimedRow
  <2> QED BY <2>1 DEF ViewKept, UnsignedKept, RowRef, RefInv
<1> QED BY <1>1, <1>2

LEMMA MarkExternalPresents ==
    ASSUME TypeInv, RefInv, NEW us, NEW block,
           db' = mark_external_with_block(db, us, block),
           \A u \in us : db[u].signed /\ u \in Accepted
    PROVE  ClaimsPaid /\ \A u \in Uuids : UnsignedKept(u)
<1> SUFFICES ASSUME NEW u \in Uuids
             PROVE  /\ \/ ViewKept(u)
                       \/ /\ u \in Accepted /\ view(db'[u]) = "claimed"
                          /\ view(db[u]) \in Promise!Open \cup {"failed_terminal"}
                    /\ UnsignedKept(u)
  BY DEF ClaimsPaid
<1>r. db \in Table /\ db[u] \in Row
  BY DEF TypeInv, TypeOK, Table
<1>1. CASE u \in us /\ db[u].claimed_at = NULL
  <2>1. view(db'[u]) = "claimed" /\ db'[u].signed
    BY <1>r, <1>1, MarkExternalRow, StoreAssumption DEF SameSigning, view
  <2>2. view(db[u]) \in Promise!Open \cup {"failed_terminal"}
    BY <1>r, <1>1, ViewOfRow DEF Promise!Open
  <2> QED BY <1>1, <2>1, <2>2 DEF UnsignedKept, RowRef
<1>2. CASE ~(u \in us /\ db[u].claimed_at = NULL)
  <2>1. db'[u] = db[u]
    BY <1>r, <1>2, MarkExternalRow
  <2> QED BY <2>1 DEF ViewKept, UnsignedKept, RowRef, RefInv
<1> QED BY <1>1, <1>2

\* A failed batch of signed receipts.
LEMMA MarkFailedPresents ==
    ASSUME TypeInv, TypeInv', RefInv, NEW us, NEW code \in CLAIM_CODES,
           db' = mark_claim_failed(db, us, code), \A u \in us : db[u].signed
    PROVE  FailsOpen /\ \A u \in Uuids : UnsignedKept(u)
<1> SUFFICES ASSUME NEW u \in Uuids
             PROVE  /\ \/ ViewKept(u)
                       \/ /\ view(db[u]) \in Promise!Open
                          /\ view(db'[u]) \in {"failed_retryable", "failed_terminal"}
                    /\ UnsignedKept(u)
  BY DEF FailsOpen
<1>r. db \in Table /\ db[u] \in Row /\ db'[u] \in Row
  BY DEF TypeInv, TypeOK, Table
<1>1. CASE u \in us /\ db[u].claimed_at = NULL /\ ~db[u].locked
  <2>1. /\ db'[u].claimed_at = NULL /\ db'[u].signed
        /\ db'[u].last_error_code = code
    BY <1>r, <1>1, MarkClaimFailedRow DEF SameClaim, SameSigning
  <2>2. view(db'[u]) \in {"failed_retryable", "failed_terminal"}
    BY <1>r, <2>1, ViewOfRow
  <2>3. view(db[u]) \in Promise!Open
    BY <1>r, <1>1, ViewOfRow DEF Promise!Open
  <2> QED BY <2>1, <2>2, <2>3 DEF UnsignedKept, RowRef
<1>2. CASE ~(u \in us /\ db[u].claimed_at = NULL /\ ~db[u].locked)
  <2>1. db'[u] = db[u]
    BY <1>r, <1>2, MarkClaimFailedRow
  <2> QED BY <2>1 DEF ViewKept, UnsignedKept, RowRef, RefInv
<1> QED BY <1>1, <1>2

\* A write that the view does not show.
Quiet(u) ==
    /\ db'[u].claimed_at = NULL <=> db[u].claimed_at = NULL
    /\ db'[u].signed = db[u].signed /\ db'[u].locked = db[u].locked
    /\ db'[u].last_error_code = db[u].last_error_code
    /\ \/ db'[u].claim_tx_pending \in {NULL, db[u].claim_tx_pending}
       \/ db[u].signed

LEMMA QuietPresents ==
    ASSUME TypeInv, TypeInv', RefInv, \A u \in Uuids : Quiet(u)
    PROVE  AllKept /\ \A u \in Uuids : UnsignedKept(u)
<1> SUFFICES ASSUME NEW u \in Uuids PROVE ViewKept(u) /\ UnsignedKept(u)
  BY DEF AllKept
<1>1. Quiet(u) /\ RowRef(u) /\ db[u] \in Row /\ db'[u] \in Row
  BY DEF RefInv, TypeInv, TypeOK
<1>2. ViewKept(u)
  BY <1>1, ViewOfRow DEF ViewKept, Quiet
<1>3. UnsignedKept(u)
  BY <1>1 DEF Quiet, UnsignedKept, RowRef
<1> QED BY <1>2, <1>3

-----------------------------------------------------------------------------
(* The steps.                                                              *)

LEMMA VouchedAccepted == Vouched \subseteq Accepted
BY DEF Vouched, Accepted, Disputed

LEMMA UpheldAccepted ==
    ASSUME NEW tx, NEW u, Upheld(tx, u)
    PROVE  u \in Accepted
BY VouchedAccepted DEF Upheld, Accepted, Disputed

\* A claim that the chain does not confirm is disputed.
LEMMA UnusedIsDisputed ==
    ASSUME PaidInv, NEW u \in Uuids, db[u].claimed_at # NULL, u \notin NonceUsed
    PROVE  u \in Disputed
BY DEF PaidInv, ClaimedIsSettled, Disputed

LEMMA FirstIsOne ==
    ASSUME NEW S \in SUBSET Uuids, NEW u \in First(S), NEW v \in First(S)
    PROVE  u = v
<1>1. ASSUME NEW x \in First(S), NEW y \in First(S), x < y
      PROVE  FALSE
  <2> DEFINE below == {w \in S : w < y}
  <2>1. S \subseteq Nat /\ x \in S /\ y \in S /\ Cardinality(below) < 1
    BY <1>1, StoreAssumption DEF First, Oldest
  <2>2. below \subseteq 0 .. y
    <3>1. y \in Nat
      BY <2>1
    <3>2. ASSUME NEW w \in below PROVE w \in 0 .. y
      <4>1. w \in Nat /\ w < y
        BY <2>1
      <4> HIDE DEF below
      <4> QED BY <3>1, <4>1
    <3> QED BY <3>2
  <2>3. IsFiniteSet(0 .. y)
    BY <2>1, FS_Interval
  <2>4. IsFiniteSet(below)
    BY <2>2, <2>3, FS_Subset
  <2>5. Cardinality(below) = 0
    BY <2>1, <2>4, FS_CardinalityType
  <2>6. below = {}
    BY <2>4, <2>5, FS_EmptySet
  <2> QED BY <1>1, <2>1, <2>6
<1>2. u \in Nat /\ v \in Nat
  BY StoreAssumption DEF First, Oldest
<1> QED BY <1>1, <1>2

\* A dropped signature: the row of one receipt.
LEMMA DropPresents ==
    ASSUME TypeInv, TypeInv', RefInv, NEW c \in Claimers, DropCorrupt(c)
    PROVE  /\ FailsOpen \/ Requeues({"failed_retryable"})
           /\ \A u \in Uuids : /\ db[u].signed => db'[u].signed
                               /\ RowRef(u)'
                               /\ NotPending(u) => NotPending(u)'
<1>r. /\ db \in Table /\ run[c].todo \in SUBSET Uuids
      /\ \A u \in Uuids : db[u] \in Row /\ db'[u] \in Row
  BY RunTypes DEF TypeInv, TypeOK
<1>m. /\ db' = mark_claim_failed(db, First(run[c].todo), "SIGN_VERIFY_FAILED")
      /\ run[c].pc = "drop"
  BY DropCorruptMoves DEF At
<1>c. "SIGN_VERIFY_FAILED" \in SIGN_CODES /\ "SIGN_VERIFY_FAILED" \notin CLAIM_CODES
  BY DEF SIGN_CODES, CLAIM_CODES
<1>1. ASSUME NEW u \in Uuids
      PROVE  \/ db'[u] = db[u]
             \/ /\ u \in First(run[c].todo) /\ db[u].claimed_at = NULL /\ ~db[u].locked
                /\ db'[u].last_error_code = "SIGN_VERIFY_FAILED"
                /\ db'[u].signed = db[u].signed /\ db'[u].claimed_at = NULL
                /\ db'[u].claim_tx_pending = db[u].claim_tx_pending
  BY <1>m, <1>r, MarkClaimFailedRow DEF SameClaim, SameSigning, SameFlight
<1>2. ASSUME NEW u \in Uuids
      PROVE  /\ db[u].signed => db'[u].signed
             /\ RowRef(u)'
             /\ NotPending(u) => NotPending(u)'
  BY <1>1, <1>c DEF RowRef, NotPending, RefInv
<1>3. CASE \A u \in Uuids : db'[u] = db[u]
  BY <1>2, <1>3 DEF FailsOpen, ViewKept
<1>4. CASE \E u \in Uuids : db'[u] # db[u]
  <2>1. PICK v \in Uuids : db'[v] # db[v]
    BY <1>4
  <2>2. ASSUME NEW u \in Uuids, u # v
        PROVE  ViewKept(u)
    BY <1>1, <1>r, <2>1, <2>2, FirstIsOne DEF ViewKept
  <2>3. NotPending(v)
    <3>1. v \in run[c].todo
      BY <1>1, <2>1 DEF First, Oldest
    <3> QED BY <1>m, <3>1 DEF RefInv, RunRef
  <2>4. view(db[v]) \in Promise!Open
    BY <1>1, <1>r, <2>1, <2>3, ViewOfRow DEF NotPending, Promise!Open
  <2>5. CASE db'[v].locked
    <3>1. view(db'[v]) = "failed_terminal"
      BY <1>1, <1>r, <2>1, <2>5, ViewOfRow
    <3> QED BY <1>2, <2>2, <2>4, <3>1 DEF FailsOpen
  <2>6. CASE ~db'[v].locked /\ db[v].signed
    <3>1. view(db'[v]) = "claimable"
      BY <1>1, <1>c, <1>r, <2>1, <2>6, ViewOfRow
    <3>2. CASE view(db[v]) = "failed_retryable"
      BY <1>2, <2>2, <3>1, <3>2 DEF Requeues
    <3>3. CASE view(db[v]) = "claimable"
      BY <1>2, <2>2, <3>1, <3>3 DEF FailsOpen, ViewKept
    <3> QED BY <2>4, <3>2, <3>3 DEF Promise!Open
  <2>7. CASE ~db'[v].locked /\ ~db[v].signed
    <3>1. view(db'[v]) = "failed_retryable"
      BY <1>1, <1>c, <1>r, <2>1, <2>7, ViewOfRow
    <3> QED BY <1>2, <2>2, <2>4, <3>1 DEF FailsOpen
  <2> QED BY <2>5, <2>6, <2>7
<1> QED BY <1>3, <1>4

LEMMA LockPresents ==
    ASSUME TypeInv, TypeInv', RefInv, NEW c \in Claimers, LockCorrupt(c)
    PROVE  /\ FailsOpen
           /\ \A u \in Uuids : /\ db[u].signed => db'[u].signed
                               /\ RowRef(u)'
                               /\ NotPending(u) => NotPending(u)'
<1>r. db \in Table /\ \A u \in Uuids : db[u] \in Row /\ db'[u] \in Row
  BY RunTypes DEF TypeInv, TypeOK
<1>m. PICK v \in Uuids : v \in run[c].todo /\ db' = lock(db, v) /\ run[c].pc = "lock"
  BY LockCorruptMoves DEF At
<1>1. ASSUME NEW u \in Uuids
      PROVE  \/ db'[u] = db[u]
             \/ /\ u = v /\ db[u].claimed_at = NULL /\ ~db[u].locked
                /\ db'[u].locked /\ db'[u].claimed_at = NULL
                /\ db'[u].last_error_code = db[u].last_error_code
                /\ db'[u].signed = db[u].signed
                /\ db'[u].claim_tx_pending = db[u].claim_tx_pending
  BY <1>m, <1>r, LockRow DEF SameClaim, SameSigning, SameFlight
<1>2. ASSUME NEW u \in Uuids
      PROVE  /\ db[u].signed => db'[u].signed
             /\ RowRef(u)'
             /\ NotPending(u) => NotPending(u)'
  BY <1>1 DEF RowRef, NotPending, RefInv
<1>3. NotPending(v)
  BY <1>m DEF RefInv, RunRef
<1>4. ASSUME NEW u \in Uuids, db'[u] # db[u]
      PROVE  view(db[u]) \in Promise!Open /\ view(db'[u]) = "failed_terminal"
  BY <1>1, <1>3, <1>4, <1>r, ViewOfRow DEF NotPending, Promise!Open
<1>5. FailsOpen
  BY <1>4 DEF FailsOpen, ViewKept
<1> QED BY <1>2, <1>5

LEMMA RunStepRef ==
    ASSUME TypeInv, TypeInv', PaidInv, RefInv, "only" \in Modes => PayerKnown,
           NEW c \in Claimers, AcquireLock(c) \/ RunStep(c)
    PROVE  /\ Presented /\ RunRef(c)'
           /\ \A u \in Uuids : RowRef(u)' /\ (db[u].signed => db'[u].signed)
<1>h. RunRef(c) /\ run[c].batch \in SUBSET Uuids /\ run[c].todo \in SUBSET Uuids
  BY RunTypes DEF RefInv
<1>r. db \in Table
  BY RunTypes
<1> DEFINE Rows == \A u \in Uuids : RowRef(u)' /\ (db[u].signed => db'[u].signed)
           Goal == Presented /\ RunRef(c)' /\ Rows
\* The run has no loop of its own in hand.
<1>b. ASSUME Rows, run'[c].mode = run[c].mode, run'[c].batch \subseteq run[c].batch,
             run'[c].pc \notin {"external", "drop", "lock"}
      PROVE  RunRef(c)'
  BY <1>b, <1>h DEF RunRef, At
<1>u. UNCHANGED db => AllKept /\ Rows
  BY DEF AllKept, ViewKept, RefInv, RowRef
<1>k. (\A u \in Uuids : UnsignedKept(u)) => Rows
  BY DEF UnsignedKept
<1>q. (\A u \in Uuids : Quiet(u)) => AllKept /\ Rows
  BY <1>k, QuietPresents
<1>1. CASE AcquireLock(c)
  <2>1. /\ UNCHANGED db /\ run'[c].pc = "reconcile" /\ run'[c].mode \in Modes
        /\ run'[c].batch = {}
    BY <1>1, AcquireLockMoves
  <2> QED BY <1>u, <2>1 DEF Presented, RunRef, At
<1>2. CASE ReleaseLock(c)
  <2>1. UNCHANGED db /\ run'[c] = Idle
    BY <1>2, ReleaseLockMoves
  <2> QED BY <1>u, <2>1 DEF Presented, RunRef, At, Idle
<1>3. CASE ReconcileCheck(c)
  <2>1. /\ UNCHANGED db /\ run'[c].todo \subseteq unclaimed(db, TRUE)
        /\ run'[c].pc \in {"next", "external"} /\ run'[c].mode = run[c].mode
        /\ run'[c].batch = run[c].batch
    BY <1>3, ReconcileCheckMoves DEF Stepped, Moved
  <2>2. \A u \in run'[c].todo : db[u].signed
    BY <2>1 DEF unclaimed
  <2> QED BY <1>h, <1>u, <2>1, <2>2 DEF Presented, RunRef, At
<1>4. CASE ReconcileMark(c)
  <2>1. /\ At(c, "external") /\ db' = mark_claimed(db, run[c].todo, External)
        /\ run'[c].pc = "next" /\ run'[c].mode = run[c].mode
        /\ run'[c].batch = run[c].batch
    BY <1>4, ReconcileMarkMoves DEF Stepped, Moved
  <2>2. \A u \in run[c].todo : db[u].signed /\ u \in Accepted
    BY <1>h, <2>1, VouchedAccepted DEF RunRef, PaidInv, RunIsPaid, At
  <2>3. ClaimsPaid /\ \A u \in Uuids : UnsignedKept(u)
    BY <2>1, <2>2, MarkClaimedPresents
  <2> QED BY <1>b, <1>k, <2>1, <2>3 DEF Presented
<1>5. CASE NextBatch(c)
  <2> DEFINE batch == Picked(c) \ run[c].seen
             bad   == Dropped(batch)
  <2>1. /\ UNCHANGED db /\ run'[c].pc \in {"drop", "build"}
        /\ run'[c].batch = batch \ bad /\ run'[c].todo = bad
        /\ run'[c].mode = run[c].mode
    BY <1>5, NextBatchMoves DEF Moved
  <2>2. ASSUME NEW u \in batch \ bad
        PROVE  db[u].signed
    <3>1. u \in Picked(c) /\ (PayerKnown => db[u].signed)
      BY DEF Dropped
    <3>2. run[c].mode # "only" => db[u].signed
      BY <3>1 DEF Picked, Oldest, unclaimed
    <3> QED BY <1>h, <3>1, <3>2 DEF RunRef
  <2>3. ASSUME NEW u \in bad
        PROVE  NotPending(u)
    <3>1. u \in Picked(c)
      BY DEF Dropped
    <3> QED BY <3>1, UnsignedPicked DEF NotPending
  <2> HIDE DEF batch, bad
  <2>4. RunRef(c)'
    BY <1>h, <2>1, <2>2, <2>3 DEF RunRef, NotPending, At
  <2> QED BY <1>u, <2>1, <2>4 DEF Presented
<1>6. CASE NoMoreBatches(c) \/ BuildRaises(c)
  <2>1. /\ UNCHANGED db /\ run'[c].pc = "stop" /\ run'[c].mode = run[c].mode
        /\ run'[c].batch \subseteq run[c].batch
    BY <1>6, NoMoreBatchesMoves, BuildRaisesMoves DEF Stepped, Left, Moved
  <2> QED BY <1>b, <1>u, <2>1 DEF Presented
<1>7. CASE DropCorrupt(c) \/ LockCorrupt(c)
  <2>1. /\ run[c].pc \in {"drop", "lock"} /\ run'[c].todo \subseteq run[c].todo
        /\ run'[c].pc \in {"lock", "drop", "next", "build"}
        /\ run'[c].batch = run[c].batch /\ run'[c].mode = run[c].mode
    BY <1>7, DropCorruptMoves, LockCorruptMoves DEF Stepped, Moved, At
  <2>2. /\ FailsOpen \/ Requeues({"failed_retryable"})
        /\ Rows /\ \A u \in Uuids : NotPending(u) => NotPending(u)'
    BY <1>7, DropPresents, LockPresents
  <2>3. RunRef(c)'
    BY <1>h, <2>1, <2>2 DEF RunRef, At
  <2> QED BY <2>2, <2>3 DEF Presented
<1>8. CASE BuildTx(c)
  <2>1. /\ UNCHANGED db /\ run'[c].pc = "pending" /\ run'[c].mode = run[c].mode
        /\ run'[c].batch = run[c].batch
    BY <1>8, BuildTxMoves DEF Moved
  <2> QED BY <1>b, <1>u, <2>1 DEF Presented
<1>9. CASE \/ BroadcastAccepted(c) \/ BroadcastNoFunds(c) \/ BroadcastFails(c)
           \/ WaitConfirmed(c) \/ WaitReverted(c) \/ WaitTimesOut(c)
  <2>1. /\ UNCHANGED db /\ run'[c].pc \in {"wait", "record"}
        /\ run'[c].mode = run[c].mode /\ run'[c].batch = run[c].batch
    BY <1>9, BroadcastMoves, WaitMoves DEF Stepped, Moved
  <2> QED BY <1>b, <1>u, <2>1 DEF Presented
<1>10. CASE BuildUnreachable(c)
  <2>1. /\ db' = mark_claim_failed(db, run[c].batch, "CLAIM_RPC_UNREACHABLE")
        /\ run'[c].pc = "stop" /\ run'[c].mode = run[c].mode /\ run'[c].batch = {}
    BY <1>10, BuildUnreachableMoves DEF Left, Moved
  <2>2. FailsOpen /\ \A u \in Uuids : UnsignedKept(u)
    BY <1>h, <2>1, MarkFailedPresents DEF RunRef, CLAIM_CODES
  <2> QED BY <1>b, <1>k, <2>1, <2>2 DEF Presented
<1>11. CASE SetPending(c)
  <2>1. /\ db' = set_claim_tx_pending(db, run[c].batch, run[c].tx)
        /\ run'[c].pc = "broadcast" /\ run'[c].mode = run[c].mode
        /\ run'[c].batch = run[c].batch
    BY <1>11, SetPendingMoves DEF Stepped, Moved
  <2>2. ASSUME NEW u \in Uuids
        PROVE  Quiet(u)
    BY <1>h, <1>r, <2>1, SetPendingRow
       DEF RunRef, Quiet, SameClaim, SameSigning, SameBudget
  <2> QED BY <1>b, <1>q, <2>1, <2>2 DEF Presented
<1>12. CASE RecordResult(c)
  <2>1. /\ At(c, "record") /\ run'[c].mode = run[c].mode
        /\ run'[c].pc \in {"clear", "next", "stop"}
        /\ run'[c].batch \subseteq run[c].batch
        /\ \/ /\ run[c].result = "OK"
              /\ db' = mark_claimed(db, run[c].batch, run[c].tx)
           \/ /\ run[c].result \in CLAIM_CODES
              /\ db' = mark_claim_failed(db, run[c].batch, run[c].result)
    BY <1>12, RecordResultMoves DEF Stepped, Left, Moved, CLAIM_CODES
  <2>2. CASE run[c].result = "OK" /\ db' = mark_claimed(db, run[c].batch, run[c].tx)
    <3>1. \A u \in run[c].batch : db[u].signed /\ u \in Accepted
      BY <1>h, <2>1, <2>2, UpheldAccepted DEF RunRef, PaidInv, RunIsPaid, At
    <3>2. ClaimsPaid /\ \A u \in Uuids : UnsignedKept(u)
      BY <2>2, <3>1, MarkClaimedPresents
    <3> QED BY <1>b, <1>k, <2>1, <3>2 DEF Presented
  <2>3. CASE /\ run[c].result \in CLAIM_CODES
             /\ db' = mark_claim_failed(db, run[c].batch, run[c].result)
    <3>1. FailsOpen /\ \A u \in Uuids : UnsignedKept(u)
      BY <1>h, <2>3, MarkFailedPresents DEF RunRef
    <3> QED BY <1>b, <1>k, <2>1, <3>1 DEF Presented
  <2> QED BY <2>1, <2>2, <2>3
<1>13. CASE ClearPending(c)
  <2>1. PICK v \in Uuids : db' = clear_claim_tx_pending(db, v)
    BY <1>13, ClearPendingMoves
  <2>2. /\ run'[c].pc \in {"clear", "next", "stop"} /\ run'[c].mode = run[c].mode
        /\ run'[c].batch \subseteq run[c].batch
    BY <1>13, ClearPendingMoves DEF Stepped, Left, Moved
  <2>3. ASSUME NEW u \in Uuids
        PROVE  Quiet(u)
    BY <1>r, <2>1, ClearPendingRow DEF Quiet, SameClaim, SameSigning, SameBudget
  <2> QED BY <1>b, <1>q, <2>2, <2>3 DEF Presented
<1> QED BY <1>1, <1>2, <1>3, <1>4, <1>5, <1>6, <1>7, <1>8, <1>9, <1>10, <1>11,
           <1>12, <1>13 DEF RunStep

\* Signed receipts stay signed: whoever did not move still holds only such.
LEMMA SignedKept ==
    ASSUME TypeInv, RefInv, \A u \in Uuids : db[u].signed => db'[u].signed,
           Disputed \subseteq Disputed'
    PROVE  /\ \A c \in Claimers : run'[c] = run[c] /\ At(c, "idle") => RunRef(c)'
           /\ \A r \in Reapers : reaper'[r] = reaper[r] \/ reaper'[r] = NewTick
                 => ReaperRef(r)'
           /\ inflight' = inflight \/ inflight' = Pass("list") => InflightRef'
<1>1. ASSUME NEW c \in Claimers, run'[c] = run[c], At(c, "idle")
      PROVE  RunRef(c)'
  <2>1. run[c].batch \in SUBSET Uuids
    BY RunTypes
  <2> QED BY <1>1, <2>1 DEF RefInv, RunRef, At
<1>2. ASSUME NEW r \in Reapers, reaper'[r] = reaper[r] \/ reaper'[r] = NewTick
      PROVE  ReaperRef(r)'
  <2>1. reaper[r].landed \in SUBSET Uuids /\ reaper[r].todo \in SUBSET Uuids
    BY ReaperTypes
  <2> QED BY <1>2, <2>1 DEF RefInv, ReaperRef, In, NewTick
<1>3. ASSUME inflight' = inflight \/ inflight' = Pass("list")
      PROVE  InflightRef'
  <2>1. /\ inflight.todo \in SUBSET Uuids /\ inflight.unused \in SUBSET Uuids
        /\ \A e \in inflight.landed : e.uuid \in Uuids
    BY DEF TypeInv, TypeOK, InflightTypeOK, Inflight
  <2> QED BY <1>3, <2>1 DEF RefInv, InflightRef, Pass
<1> QED BY <1>1, <1>2, <1>3

LEMMA RunsKeptRef ==
    ASSUME TypeInv, RefInv, \A u \in Uuids : UnsignedKept(u), NEW c \in Claimers,
           run'[c] = run[c] \/ run'[c] = Idle
    PROVE  RunRef(c)'
<1>1. run[c].batch \in SUBSET Uuids /\ run[c].todo \in SUBSET Uuids /\ RunRef(c)
  BY RunTypes DEF RefInv
<1>2. CASE run'[c] = run[c]
  BY <1>1, <1>2 DEF RunRef, NotPending, UnsignedKept, At
<1>3. CASE run'[c] = Idle
  BY <1>3 DEF RunRef, Idle, At
<1> QED BY <1>2, <1>3

LEMMA ReaperStepRef ==
    ASSUME TypeInv, TypeInv', RowConsistent, PaidInv, RefInv, NEW r \in Reapers,
           ReaperStep(r), Disputed' = Disputed
    PROVE  /\ Presented /\ ReaperRef(r)'
           /\ \A u \in Uuids : UnsignedKept(u)
<1>r. /\ db \in Table /\ ReaperRef(r)
      /\ reaper[r].landed \in SUBSET Uuids /\ reaper[r].todo \in SUBSET Uuids
  BY ReaperTypes DEF RefInv
<1>b. ASSUME \A u \in Uuids : UnsignedKept(u),
             reaper'[r].landed \subseteq reaper[r].landed,
             reaper'[r].todo \subseteq reaper[r].todo,
             \/ reaper'[r].pc \notin {"flipped", "reverted"}
             \/ reaper'[r].todo \subseteq Disputed
      PROVE  ReaperRef(r)'
  BY <1>b, <1>r DEF ReaperRef, UnsignedKept, In
<1>u. UNCHANGED db => AllKept /\ \A u \in Uuids : UnsignedKept(u)
  BY DEF AllKept, ViewKept, UnsignedKept, RefInv, RowRef
<1>1. CASE CheckTimeouts(r)
  <2>1. /\ UNCHANGED db /\ reaper'[r].pc \in {"landed", "dropped", "finality"}
        /\ reaper'[r].landed \cup reaper'[r].todo \subseteq list_timed_out_claims(db)
    BY <1>1, CheckTimeoutsTicks DEF Ticked
  <2>2. \A u \in list_timed_out_claims(db) : db[u].signed
    BY DEF list_timed_out_claims, RefInv, RowRef
  <2> QED BY <1>u, <2>1, <2>2 DEF Presented, ReaperRef, In
<1>2. CASE MarkLanded(r)
  <2>1. /\ \/ db' = mark_claimed(db, reaper[r].landed, External)
           \/ \E block \in Nat :
                 db' = mark_external_with_block(db, reaper[r].landed, block)
        /\ reaper'[r].pc \in {"dropped", "finality"} /\ reaper'[r].landed = {}
        /\ reaper'[r].todo = reaper[r].todo
    BY <1>2, MarkLandedTicks DEF Ticked
  <2>2. \A u \in reaper[r].landed : db[u].signed /\ u \in Accepted
    BY <1>r, VouchedAccepted DEF ReaperRef, PaidInv
  <2>3. ClaimsPaid /\ \A u \in Uuids : UnsignedKept(u)
    BY <2>1, <2>2, MarkClaimedPresents, MarkExternalPresents
  <2> QED BY <1>b, <2>1, <2>3 DEF Presented
<1>3. CASE ClearDropped(r)
  <2>1. PICK v \in Uuids :
           /\ v \in reaper[r].todo /\ db' = clear_error(db, v)
           /\ reaper'[r].pc \in {"dropped", "finality"}
           /\ reaper'[r].landed = reaper[r].landed
           /\ reaper'[r].todo = reaper[r].todo \ {v}
    BY <1>3, ClearDroppedTicks DEF Ticked
  <2>2. \A u \in Uuids : u # v => db'[u] = db[u]
    BY <1>r, <2>1, ClearErrorRow
  <2>3. \/ db'[v] = db[v]
        \/ /\ ~db[v].locked /\ ~db'[v].locked /\ db[v].signed /\ db'[v].signed
           /\ db'[v].last_error_code = NULL /\ db'[v].claimed_at = db[v].claimed_at
    BY <1>r, <2>1, ClearErrorRow DEF ReaperRef, SameClaim, SameSigning, SameBudget
  <2>4. \A u \in Uuids : UnsignedKept(u)
    BY <2>2, <2>3 DEF UnsignedKept, RefInv, RowRef
  <2>5. AllKept \/ Requeues({"failed_retryable"})
    <3>1. \A u \in Uuids \ {v} : ViewKept(u)
      BY <2>2 DEF ViewKept
    <3>2. \/ view(db'[v]) = view(db[v])
          \/ view(db[v]) = "failed_retryable" /\ view(db'[v]) = "claimable"
      <4>1. db[v] \in Row /\ db'[v] \in Row /\ NULL \notin CLAIM_CODES
        BY StoreAssumption DEF TypeInv, TypeOK, ALL_CODES
      <4> QED BY <2>3, <4>1, ViewOfRow
    <3> QED BY <3>1, <3>2 DEF AllKept, ViewKept, Requeues
  <2> QED BY <1>b, <2>1, <2>4, <2>5 DEF Presented
<1>4. CASE CheckFinality(r)
  <2>1. /\ UNCHANGED db /\ reaper'[r].landed = reaper[r].landed
        /\ reaper'[r].todo \subseteq Flipped
    BY <1>4, CheckFinalityTicks DEF Ticked
  <2>2. \A u \in Flipped : u \in Uuids /\ db[u].signed /\ u \in Disputed
    BY UnusedIsDisputed
       DEF Flipped, list_pending_external_unfinalized, RefInv, RowRef
  <2> QED BY <1>r, <1>u, <2>1, <2>2 DEF Presented, ReaperRef
<1>5. CASE CheckReorgs(r)
  <2>1. /\ UNCHANGED db /\ reaper'[r].landed = reaper[r].landed
        /\ reaper'[r].todo \subseteq list_recently_claimed(db) \ NonceUsed
    BY <1>5, CheckReorgsTicks DEF Ticked
  <2>2. \A u \in list_recently_claimed(db) \ NonceUsed :
           u \in Uuids /\ db[u].signed /\ u \in Disputed
    BY UnusedIsDisputed, StoreAssumption DEF list_recently_claimed, RefInv, RowRef
  <2> QED BY <1>r, <1>u, <2>1, <2>2 DEF Presented, ReaperRef
<1>6. CASE RevertFlipped(r) \/ RevertUnused(r)
  <2>1. PICK v \in Uuids :
           /\ v \in reaper[r].todo /\ v \in Disputed
           /\ db' = revert_external_mark(db, v) \/ db' = revert_claimed(db, v)
           /\ reaper'[r].landed = reaper[r].landed
           /\ reaper'[r].todo = reaper[r].todo \ {v}
    BY <1>6, <1>r, RevertFlippedTicks, RevertUnusedTicks DEF Ticked, ReaperRef
  <2>2. reaper'[r].todo \subseteq Disputed
    BY <1>6, <1>r, <2>1 DEF ReaperRef, RevertFlipped, RevertUnused
  <2>3. \A u \in Uuids : u # v => db'[u] = db[u]
    BY <1>r, <2>1, RevertMarkRow, RevertClaimedRow
  <2>4. \/ db'[v] = db[v]
        \/ /\ db[v].claimed_at # NULL /\ db'[v].claimed_at = NULL
           /\ ~db'[v].locked /\ db[v].signed /\ db'[v].signed
    <3>1. db[v].signed /\ (db[v].claim_tx_hash = External => db[v].claimed_at # NULL)
      BY <1>r, <2>1, StoreAssumption DEF ReaperRef, RowConsistent
    <3>2. CASE db' = revert_external_mark(db, v)
      BY <1>r, <3>1, <3>2, RevertMarkRow DEF SameSigning, SameBudget
    <3>3. CASE db' = revert_claimed(db, v)
      BY <1>r, <3>1, <3>3, RevertClaimedRow DEF SameSigning, SameBudget
    <3> QED BY <2>1, <3>2, <3>3
  <2>5. \A u \in Uuids : UnsignedKept(u)
    BY <2>3, <2>4 DEF UnsignedKept, RefInv, RowRef
  <2>6. \A u \in Uuids \ {v} : ViewKept(u)
    BY <2>3 DEF ViewKept
  <2>7. AllKept \/ TakesBack
    <3>1. db[v] \in Row /\ db'[v] \in Row
      BY DEF TypeInv, TypeOK
    <3>2. CASE db'[v] = db[v]
      BY <2>6, <3>2 DEF AllKept, ViewKept
    <3>3. CASE db'[v] # db[v]
      <4>1. view(db[v]) = "claimed" /\ view(db'[v]) \in Promise!Open
        BY <2>4, <3>1, <3>3, ViewOfRow DEF Promise!Open
      <4> QED BY <2>1, <2>6, <4>1 DEF TakesBack
    <3> QED BY <3>2, <3>3
  <2> QED BY <1>b, <2>1, <2>2, <2>5, <2>7 DEF Presented
<1> QED BY <1>1, <1>2, <1>3, <1>4, <1>5, <1>6 DEF ReaperStep

LEMMA InflightStepRef ==
    ASSUME TypeInv, TypeInv', PaidInv, RefInv, InflightStep
    PROVE  Presented /\ InflightRef' /\ \A u \in Uuids : UnsignedKept(u)
<1>r. /\ db \in Table /\ InflightRef
      /\ inflight.todo \in SUBSET Uuids /\ inflight.unused \in SUBSET Uuids
      /\ \A e \in inflight.landed : e.uuid \in Uuids
      /\ inflight \in Inflight
  BY DEF TypeInv, TypeOK, InflightTypeOK, Inflight, Table, RefInv
<1>u. UNCHANGED db => AllKept /\ \A u \in Uuids : UnsignedKept(u)
  BY DEF AllKept, ViewKept, UnsignedKept, RefInv, RowRef
<1>b. ASSUME \A u \in Uuids : UnsignedKept(u), inflight'.unused \subseteq inflight.unused,
             inflight'.todo \subseteq inflight.todo \cup {e.uuid : e \in inflight.landed},
             inflight'.landed \subseteq inflight.landed
      PROVE  InflightRef'
  BY <1>b, <1>r DEF InflightRef, UnsignedKept
<1>1. CASE InflightCheck
  <2>1. PICK landed \in SUBSET (list_inflight(db) \cap NonceUsed),
             unused \in SUBSET (list_inflight(db) \ NonceUsed),
             pc \in InflightPc :
           inflight' = [pc |-> pc,
                        landed |-> {[uuid |-> u, hash |-> db[u].claim_tx_pending] :
                                       u \in landed},
                        todo |-> {}, unused |-> unused]
    BY <1>1 DEF InflightCheck, InflightPc
  <2>2. \A u \in list_inflight(db) : u \in Uuids /\ db[u].signed
    BY DEF list_inflight, RefInv, RowRef
  <2>3. /\ inflight'.todo = {} /\ inflight'.unused = unused
        /\ \A e \in inflight'.landed : e.uuid \in landed
    BY <2>1
  <2> QED BY <1>1, <1>u, <2>2, <2>3 DEF InflightCheck, Presented, InflightRef
<1>2. CASE InflightMark
  <2>1. PICK hash \in {e.hash : e \in inflight.landed} :
           LET us == {e.uuid : e \in {f \in inflight.landed : f.hash = hash}} IN
           /\ db' = mark_claimed(db, us, hash)
           /\ inflight' = [inflight EXCEPT
                 !.pc = "clearLanded", !.todo = us,
                 !.landed = {e \in inflight.landed : e.hash # hash}]
    BY <1>2, <1>r DEF InflightMark, Inflight
  <2> DEFINE us == {e.uuid : e \in {f \in inflight.landed : f.hash = hash}}
             left == {e \in inflight.landed : e.hash # hash}
  <2>2. db' = mark_claimed(db, us, hash)
    BY <2>1
  <2>3. \A u \in us : db[u].signed /\ u \in Accepted
    BY <1>r, VouchedAccepted DEF InflightRef, PaidInv
  <2>4. us \subseteq {e.uuid : e \in inflight.landed} /\ left \subseteq inflight.landed
    OBVIOUS
  <2>5. inflight' = [inflight EXCEPT !.pc = "clearLanded", !.todo = us, !.landed = left]
    BY <2>1
  <2> HIDE DEF us, left
  <2>6. ClaimsPaid /\ \A u \in Uuids : UnsignedKept(u)
    BY <2>2, <2>3, MarkClaimedPresents
  <2>7. inflight'.todo = us /\ inflight'.landed = left /\ inflight'.unused = inflight.unused
    BY <1>r, <2>5 DEF Inflight
  <2> QED BY <1>b, <2>4, <2>6, <2>7 DEF Presented
<1>3. CASE InflightClearLanded \/ InflightClearUnused \/ InflightResetAttempts
  <2>1. PICK v \in Uuids : \/ db' = clear_claim_tx_pending(db, v)
                           \/ db' = reset_claim_attempts(db, v)
    <3>1. /\ Oldest(inflight.todo, 1) \subseteq Uuids
          /\ Oldest(inflight.unused, 1) \subseteq Uuids
      BY <1>r, OldestSubset
    <3> QED BY <1>3, <3>1
           DEF InflightClearLanded, InflightClearUnused, InflightResetAttempts
  <2>2. ASSUME NEW u \in Uuids
        PROVE  Quiet(u)
    <3>1. CASE db' = clear_claim_tx_pending(db, v)
      BY <1>r, <3>1, ClearPendingRow DEF Quiet, SameClaim, SameSigning, SameBudget
    <3>2. CASE db' = reset_claim_attempts(db, v)
      BY <1>r, <3>2, ResetAttemptsRow DEF Quiet, SameClaim, SameSigning, SameFlight
    <3> QED BY <2>1, <3>1, <3>2
  <2>3. /\ inflight'.landed = inflight.landed
        /\ inflight'.todo \subseteq inflight.todo
        /\ inflight'.unused \subseteq inflight.unused
    <3>1. ASSUME NEW us, NEW pc, inflight' = [inflight EXCEPT !.todo = us, !.pc = pc]
          PROVE  /\ inflight'.landed = inflight.landed /\ inflight'.todo = us
                 /\ inflight'.unused = inflight.unused
      BY <1>r, <3>1 DEF Inflight
    <3>2. ASSUME NEW us, NEW pc, inflight' = [inflight EXCEPT !.unused = us, !.pc = pc]
          PROVE  /\ inflight'.landed = inflight.landed /\ inflight'.unused = us
                 /\ inflight'.todo = inflight.todo
      BY <1>r, <3>2 DEF Inflight
    <3>3. CASE InflightClearLanded
      <4>1. PICK u \in Oldest(inflight.todo, 1), pc \in InflightPc :
               inflight' = [inflight EXCEPT !.todo = inflight.todo \ {u}, !.pc = pc]
        BY <3>3 DEF InflightClearLanded, InflightPc
      <4> QED BY <3>1, <4>1
    <3>4. CASE InflightClearUnused
      BY <1>r, <3>4 DEF InflightClearUnused, Inflight
    <3>5. CASE InflightResetAttempts
      <4>1. PICK u \in Oldest(inflight.unused, 1), pc \in InflightPc :
               inflight' = [inflight EXCEPT !.unused = inflight.unused \ {u}, !.pc = pc]
        BY <3>5 DEF InflightResetAttempts, InflightPc
      <4>2. /\ inflight'.landed = inflight.landed /\ inflight'.todo = inflight.todo
            /\ inflight'.unused = inflight.unused \ {u}
        BY <3>2, <4>1
      <4> QED BY <4>2
    <3> QED BY <1>3, <3>3, <3>4, <3>5
  <2> QED BY <1>b, <2>2, <2>3, QuietPresents DEF Presented
<1> QED BY <1>1, <1>2, <1>3 DEF InflightStep

\* A signature arrives, or time passes.
LEMMA AgingRef ==
    ASSUME TypeInv, TypeInv', RefInv, NEW v \in Uuids,
           PollerSigns(v) \/ AttemptAges(v) \/ ClaimAges(v)
    PROVE  Presented /\ \A u \in Uuids : UnsignedKept(u)
<1>a. ASSUME NEW u \in Uuids
      PROVE  /\ db'[u].claimed_at = NULL <=> db[u].claimed_at = NULL
             /\ db'[u].locked = db[u].locked
             /\ db'[u].last_error_code = db[u].last_error_code
             /\ db'[u].claim_tx_pending = db[u].claim_tx_pending
             /\ db[u].signed => db'[u].signed
             /\ db[u] \in Row /\ db'[u] \in Row /\ RowRef(u)
  BY AgingRows DEF SameFlight, SameBudget, TypeInv, TypeOK, RefInv
<1>1. CASE PollerSigns(v)
  <2>1. db \in Table /\ db' = mark_signed(db, v)
    BY <1>1 DEF PollerSigns, TypeInv, TypeOK, Table
  <2>2. \A u \in Uuids : u # v => db'[u] = db[u]
    BY <2>1, MarkSignedRow
  <2>3. \/ db'[v] = db[v]
        \/ ~db[v].signed /\ db'[v].signed
    BY <2>1, MarkSignedRow
  <2>4. \A u \in Uuids : UnsignedKept(u)
    BY <1>a DEF UnsignedKept, RowRef
  <2>5. \A u \in Uuids \ {v} : ViewKept(u)
    BY <2>2 DEF ViewKept
  <2>6. \/ view(db'[v]) = view(db[v])
        \/ /\ view(db[v]) \in {"pending_sign", "failed_retryable"}
           /\ view(db'[v]) = "claimable"
    BY <1>a, <2>3, ViewOfRow DEF RowRef
  <2>7. AllKept \/ Requeues({"pending_sign", "failed_retryable"})
    BY <2>5, <2>6 DEF AllKept, ViewKept, Requeues
  <2> QED BY <2>4, <2>7 DEF Presented
<1>2. CASE AttemptAges(v) \/ ClaimAges(v)
  <2>1. \A u \in Uuids : db'[u].signed = db[u].signed
    BY <1>2 DEF AttemptAges, ClaimAges, TypeInv, TypeOK, Row
  <2>2. \A u \in Uuids : Quiet(u)
    BY <1>a, <2>1 DEF Quiet
  <2> QED BY <2>2, QuietPresents DEF Presented
<1> QED BY <1>1, <1>2

LEMMA AcceptedType == TypeInv => Accepted \subseteq Uuids
BY DEF Accepted, Disputed, NonceUsed, TypeInv, TypeOK, ChainTypeOK, Mined

LEMMA StepRef ==
    ASSUME RetryChecked, TypeInv, TypeInv', ClaimMutex, RowConsistent, PaidInv,
           RefInv, Next
    PROVE  RefInv' /\ Promise!LifecycleNext
<1>n. Accepted \subseteq Uuids
  BY AcceptedType
<1>d. Disputed \subseteq Disputed' /\ Accepted \subseteq Accepted'
  BY StepPays, DisputedLasts DEF PaidInv
<1>o. UNCHANGED <<mined, outOfBand, retracted>> => Unheard
  BY DEF Unheard, Accepted, Disputed, NonceUsed
\* Steps of which the rows know nothing, or all but the dropping run.
<1>k. ASSUME \A u \in Uuids : UnsignedKept(u),
             \A c \in Claimers : run'[c] = run[c] \/ run'[c] = Idle,
             \A r \in Reapers : \/ reaper'[r] = reaper[r] \/ reaper'[r] = NewTick
                                \/ ReaperRef(r)',
             inflight' = inflight \/ inflight' = Pass("list") \/ InflightRef'
      PROVE  RefInv'
  <2>1. \A u \in Uuids : RowRef(u)' /\ (db[u].signed => db'[u].signed)
    BY <1>k DEF UnsignedKept
  <2>2. \A c \in Claimers : RunRef(c)'
    BY <1>k, RunsKeptRef
  <2>3. (\A r \in Reapers : ReaperRef(r)') /\ InflightRef'
    BY <1>k, <1>d, <2>1, SignedKept
  <2> QED BY <2>1, <2>2, <2>3 DEF RefInv
<1>u. UNCHANGED db => AllKept /\ \A u \in Uuids : UnsignedKept(u)
  BY DEF AllKept, ViewKept, UnsignedKept, RefInv, RowRef
<1>1. ASSUME NEW v \in Uuids, PollerSigns(v) \/ AttemptAges(v) \/ ClaimAges(v)
      PROVE  RefInv' /\ Promise!LifecycleNext
  <2>1. UNCHANGED <<mined, outOfBand, retracted, run, reaper, inflight>>
    BY <1>1 DEF PollerSigns, AttemptAges, ClaimAges, chainVars
  <2>2. Unheard
    BY <1>o, <2>1
  <2>3. Presented /\ \A u \in Uuids : UnsignedKept(u)
    BY <1>1, AgingRef
  <2> QED BY <1>k, <1>n, <2>1, <2>2, <2>3, PresentedIsPromised
<1>2. CASE Chain
  <2>1. Accepted' \subseteq Uuids
    BY DEF Accepted, Disputed, NonceUsed, TypeInv, TypeOK, ChainTypeOK, Mined
  <2>2. UNCHANGED <<db, run, reaper, inflight>>
    BY <1>2 DEF Chain
  <2>3. Promise!Settle
    BY <1>d, <1>u, <2>1, <2>2, AllKeptSettles
  <2> QED BY <1>k, <1>u, <2>2, <2>3 DEF Promise!LifecycleNext
<1>3. ASSUME NEW c \in Claimers, Claim(c)
      PROVE  RefInv' /\ Promise!LifecycleNext
  <2>1. AcquireLock(c) \/ RunStep(c)
    BY <1>3 DEF Claim
  <2>2. Unheard
    BY <1>o, <2>1, RunStepChain
  <2>3. /\ Presented /\ RunRef(c)'
        /\ \A u \in Uuids : RowRef(u)' /\ (db[u].signed => db'[u].signed)
    BY <2>1, RunStepRef DEF RetryChecked
  <2>4. \A d \in Claimers \ {c} : run'[d] = run[d] /\ At(d, "idle")
    BY <2>1, OthersIdle
  <2>5. UNCHANGED <<reaper, inflight>>
    BY <1>3 DEF Claim
  <2>6. (\A r \in Reapers : ReaperRef(r)') /\ InflightRef'
    BY <1>d, <2>3, <2>5, SignedKept
  <2>7. \A d \in Claimers : RunRef(d)'
    BY <1>d, <2>3, <2>4, SignedKept
  <2> QED BY <1>n, <2>2, <2>3, <2>6, <2>7, PresentedIsPromised DEF RefInv
<1>4. ASSUME NEW r \in Reapers, Reap(r)
      PROVE  RefInv' /\ Promise!LifecycleNext
  <2>1. ReaperStep(r) /\ UNCHANGED <<run, inflight>>
    BY <1>4 DEF Reap
  <2>2. UNCHANGED chainVars /\ \A q \in Reapers \ {r} : reaper'[q] = reaper[q]
    <3>1. CASE CheckTimeouts(r) \/ MarkLanded(r) \/ ClearDropped(r)
      BY <3>1, CheckTimeoutsTicks, MarkLandedTicks, ClearDroppedTicks DEF Ticked
    <3>2. CASE CheckFinality(r) \/ RevertFlipped(r)
      BY <3>2, CheckFinalityTicks, RevertFlippedTicks DEF Ticked
    <3>3. CASE CheckReorgs(r) \/ RevertUnused(r)
      BY <3>3, CheckReorgsTicks, RevertUnusedTicks DEF Ticked
    <3> QED BY <2>1, <3>1, <3>2, <3>3 DEF ReaperStep
  <2>3. Unheard
    BY <1>o, <2>2 DEF chainVars
  <2>4. Presented /\ ReaperRef(r)' /\ \A u \in Uuids : UnsignedKept(u)
    BY <2>1, <2>3, ReaperStepRef DEF Unheard
  <2>5. RefInv'
    BY <1>k, <2>1, <2>2, <2>4
  <2> QED BY <1>n, <2>3, <2>4, <2>5, PresentedIsPromised
<1>5. CASE Reconcile
  <2>1. InflightStep /\ UNCHANGED <<run, reaper>>
    BY <1>5 DEF Reconcile
  <2>2. UNCHANGED chainVars
    BY <2>1 DEF InflightStep, InflightCheck, InflightMark,
       InflightClearLanded, InflightClearUnused, InflightResetAttempts
  <2>3. Unheard
    BY <1>o, <2>2 DEF chainVars
  <2>4. Presented /\ InflightRef' /\ \A u \in Uuids : UnsignedKept(u)
    BY <2>1, InflightStepRef
  <2> QED BY <1>k, <1>n, <2>1, <2>3, <2>4, PresentedIsPromised
<1>6. CASE DaemonCrash \/ \E c \in Claimers : CliCrash(c)
  <2>1. /\ UNCHANGED <<db, mined, outOfBand, retracted>>
        /\ \A c \in Claimers : run'[c] = run[c] \/ run'[c] = Idle
        /\ \A r \in Reapers : reaper'[r] = reaper[r] \/ reaper'[r] = NewTick
        /\ inflight' = inflight \/ inflight' = Pass("list")
    BY <1>6, RunTypes DEF DaemonCrash, CliCrash, KillRun, Proceed, chainVars
  <2>2. Unheard
    BY <1>o, <2>1
  <2>3. Presented
    BY <1>u, <2>1 DEF Presented
  <2> QED BY <1>k, <1>n, <1>u, <2>1, <2>2, <2>3, PresentedIsPromised
<1> QED BY <1>1, <1>2, <1>3, <1>4, <1>5, <1>6 DEF Next

LEMMA InitRef == Init => RefInv /\ Promise!LifecycleInit
<1> SUFFICES ASSUME Init PROVE RefInv /\ Promise!LifecycleInit
  OBVIOUS
<1>c. "SIGN_REJECTED" \in SIGN_CODES /\ "SIGN_REJECTED" \notin CLAIM_CODES
  BY DEF SIGN_CODES, CLAIM_CODES
<1>1. ASSUME NEW kind \in StartRows
      PROVE  LET row == StartRow(kind) IN
             /\ row.claimed_at = NULL /\ row.claim_tx_pending = NULL
             /\ ~row.locked
             /\ row.last_error_code \in {NULL, "SIGN_REJECTED"}
  BY SystemAssumption DEF StartRow, PendingRow, NoRow
<1>2. ASSUME NEW u \in Uuids
      PROVE  /\ db[u].claimed_at = NULL /\ db[u].claim_tx_pending = NULL
             /\ ~db[u].locked
             /\ db[u].last_error_code \in {NULL, "SIGN_REJECTED"}
             /\ db[u] \in Row
  BY <1>1, InitType DEF Init, TypeInv, TypeOK
<1>3. \A u \in Uuids : RowRef(u)
  BY <1>2, <1>c, StoreAssumption DEF RowRef, ALL_CODES
<1>4. RefInv
  BY <1>3 DEF RefInv, RunRef, ReaperRef, InflightRef, Init, SettlementInit,
     ReaperInit, NewTick, Idle, Pass, At, In
<1>5. \A u \in Uuids : view(db[u]) \in {"pending_sign"} \cup Promise!Open
  BY <1>2, ViewOfRow DEF Promise!Open
<1>6. Accepted = {} /\ Disputed = {}
  BY DEF Init, ChainInit, Accepted, Disputed, NonceUsed
<1> QED BY <1>4, <1>5, <1>6 DEF Promise!LifecycleInit

\* Every history of claim runs, reapers, startup passes, kills, skipped
\* receipts and reorganisations is, in the words of StoredReceipt.view, one
\* that ClaimLifecycle allows: "claimed" only when the contract paid or
\* accepted the receipt, taken back only when that left it unpaid or was
\* itself taken back, "given up" only undone by a payment.  Single-receipt
\* retries need a known payer: a retry of a rejected receipt that nobody
\* checks may be stamped with a claim code, and the operator sees it as
\* pending again.
THEOREM LifecycleImplemented ==
    ASSUME RetryChecked
    PROVE  Spec => ImplementsLifecycle
<1> DEFINE Inv == TypeInv /\ ClaimMutex /\ RowConsistent /\ PaidInv /\ RefInv
           shown == <<[u \in Uuids |-> view(db[u])], Accepted, Disputed>>
<1>1. TypeInv /\ PaidInv /\ [Next]_vars => PaidInv'
  BY StepPaid
<1>2. UNCHANGED vars => (RefInv' <=> RefInv) /\ UNCHANGED shown
  BY DEF vars, chainVars, RefInv, RowRef, RunRef, ReaperRef, InflightRef, NotPending,
     At, In, NonceUsed, Accepted, Disputed
<1>3. Inv /\ TypeInv' /\ [Next]_vars
         => RefInv' /\ [Promise!LifecycleNext]_shown
  BY <1>2, StepRef
<1>4. Init => Inv /\ Promise!LifecycleInit
  BY InitType, InitMutex, InitRowConsistent, InitPaid, InitRef
<1>5. Spec => []Inv
  BY <1>1, <1>3, <1>4, StepType, StepMutex, StepRowConsistent, PTL DEF Spec
<1>6. Spec => []TypeInv
  BY InitType, StepType, PTL DEF Spec
<1>7. Spec => Promise!LifecycleInit /\ [][Promise!LifecycleNext]_shown
  BY <1>3, <1>4, <1>5, <1>6, PTL DEF Spec
<1>8. ImplementsLifecycle <=> Promise!LifecycleInit /\ [][Promise!LifecycleNext]_shown
  BY DEF ImplementsLifecycle, Promise!Lifecycle
<1> QED BY <1>7, <1>8, PTL
=============================================================================
