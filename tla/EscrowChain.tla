---------------------------- MODULE EscrowChain ----------------------------
(***************************************************************************)
(* The chain as the node's RPC endpoint shows it: external to the          *)
(* repository, modelled from how app/payment uses it (isNonceUsed,         *)
(* get_transaction_count, send_raw_transaction,                            *)
(* wait_for_transaction_receipt, block_number).                            *)
(*                                                                         *)
(* One settlement account.  A transaction is executed when its nonce is    *)
(* the account's next one, so of two transactions with one nonce at most   *)
(* one is ever executed.  claimBatch either reverts as a whole or pays     *)
(* each receipt of the batch it does not skip; a receipt already paid is   *)
(* always skipped.  The tip may be reorganised until a block is            *)
(* FINALITY_BLOCKS deep.                                                   *)
(***************************************************************************)
EXTENDS ReceiptStore

CONSTANTS
    Corrupt,            \* receipts whose stored signature is not the payer's
    MaySkip,            \* may claimBatch skip a receipt it could have paid?
    FINALITY_BLOCKS,    \* constants.FINALITY_BLOCKS_FOR_RECONCILE
    MaxTxs,             \* bound: transactions executed
    MaxOutOfBand,       \* bound: receipts another settler pays
    MaxEmptyBlocks,     \* bound: blocks without a transaction of ours
    MaxReorgs           \* bound: blocks taken back

ASSUME ChainAssumption ==
    /\ Corrupt \subseteq Uuids
    /\ MaySkip \in BOOLEAN
    /\ FINALITY_BLOCKS \in Nat
    /\ MaxTxs \in Nat /\ MaxOutOfBand \in Nat
    /\ MaxEmptyBlocks \in Nat /\ MaxReorgs \in Nat

VARIABLES
    mempool,            \* transactions broadcast and not executed
    mined,              \* transactions on the canonical chain
    txCount,            \* get_transaction_count(account), latest block
    outOfBand,          \* receipts paid by somebody else's transaction
    retracted,          \* history: receipts whose transaction had succeeded
                        \* in a block that was taken back
    head,               \* block_number
    emptyBlocks, reorgs \* counters of the bounds

chainVars == <<mempool, mined, txCount, outOfBand, retracted, head,
               emptyBlocks, reorgs>>

\* skipped are the receipts of a successful batch that it left unpaid.
Mined == [tx : ClaimTx, ok : BOOLEAN, paid : SUBSET Uuids,
          skipped : SUBSET Uuids, height : Nat]

ChainTypeOK ==
    /\ mempool \subseteq ClaimTx
    /\ mined \subseteq Mined
    /\ txCount \in Nat
    /\ outOfBand \subseteq Uuids /\ retracted \subseteq Uuids
    /\ head \in Nat /\ emptyBlocks \in Nat /\ reorgs \in Nat

ChainInit ==
    /\ mempool = {} /\ mined = {} /\ txCount = 0 /\ outOfBand = {}
    /\ retracted = {}
    /\ head = 0 /\ emptyBlocks = 0 /\ reorgs = 0

\* isNonceUsed(client, uuid) answers TRUE.
NonceUsed == outOfBand \cup UNION {m.paid : m \in mined}

\* wait_for_transaction_receipt(tx) returned: the status it reports.
Executed(tx, ok) == \E m \in mined : m.tx = tx /\ m.ok = ok

\* The node pool admits tx: it is current, and it replaces a transaction
\* with the same nonce if there is one (or is refused as underpriced, which
\* is a failed broadcast).
Admit(tx) == {t \in mempool : t.nonce # tx.nonce} \cup {tx}

-----------------------------------------------------------------------------
Execute(tx, ok, paid) ==
    /\ tx.nonce = txCount /\ txCount < MaxTxs
    /\ txCount' = txCount + 1
    /\ head' = head + 1
    /\ mined' = mined \cup
          {[tx |-> tx, ok |-> ok, paid |-> paid, height |-> head + 1,
            skipped |-> IF ok THEN tx.batch \ (paid \cup NonceUsed) ELSE {}]}
    /\ mempool' = {t \in mempool : t.nonce # tx.nonce}
    /\ UNCHANGED <<outOfBand, retracted, emptyBlocks, reorgs>>

\* The transaction succeeds.  A signature the contract cannot recover to the
\* payer reverts the whole batch, so no receipt in it is corrupt.
MineOk(tx) ==
    /\ tx.batch \cap Corrupt = {}
    /\ \E skipped \in SUBSET tx.batch :
          /\ tx.batch \cap NonceUsed \subseteq skipped
          /\ MaySkip \/ skipped \subseteq NonceUsed
          /\ Execute(tx, TRUE, tx.batch \ skipped)

MineReverted(tx) == Execute(tx, FALSE, {})

Evict(tx) ==
    /\ mempool' = mempool \ {tx}
    /\ UNCHANGED <<mined, txCount, outOfBand, retracted, head, emptyBlocks,
                   reorgs>>

SettleOutOfBand(u) ==
    /\ Cardinality(outOfBand) < MaxOutOfBand
    /\ u \notin NonceUsed \cup Corrupt
    /\ outOfBand' = outOfBand \cup {u}
    /\ UNCHANGED <<mempool, mined, txCount, retracted, head, emptyBlocks,
                   reorgs>>

EmptyBlock ==
    /\ emptyBlocks < MaxEmptyBlocks
    /\ emptyBlocks' = emptyBlocks + 1 /\ head' = head + 1
    /\ UNCHANGED <<mempool, mined, txCount, outOfBand, retracted, reorgs>>

\* The endpoint switches to a fork without the newest of our transactions;
\* that transaction is back in the pool or forgotten.
Reorg(m) ==
    /\ reorgs < MaxReorgs
    /\ m.tx.nonce + 1 = txCount
    /\ head < m.height + FINALITY_BLOCKS
    /\ reorgs' = reorgs + 1
    /\ txCount' = txCount - 1
    /\ mined' = mined \ {m}
    /\ retracted' = retracted \cup m.paid \cup m.skipped
    /\ mempool' \in {mempool, Admit(m.tx)}
    /\ UNCHANGED <<outOfBand, head, emptyBlocks>>

\* Blocks are produced for ever.
ChainNext ==
    \/ \E tx \in mempool : MineOk(tx) \/ MineReverted(tx) \/ Evict(tx)
    \/ \E u \in Uuids : SettleOutOfBand(u)
    \/ EmptyBlock
    \/ \E m \in mined : Reorg(m)
=============================================================================
