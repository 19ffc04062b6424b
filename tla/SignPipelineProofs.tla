------------------------- MODULE SignPipelineProofs -------------------------
(***************************************************************************)
(* Theorems about SignPipeline, for every value of its constants.          *)
(***************************************************************************)
EXTENDS SignPipeline, ReceiptStoreProofs, FiniteSetTheorems, WellFoundedInduction

-----------------------------------------------------------------------------
(* Pages of the list.  The newest date of a page exists because no date is *)
(* later than the present; what is left out of a page is no older than     *)
(* what is on it because the API answers with the oldest rows.             *)

Known(at) == {u \in Uuids : at[u] # NULL}

Dates == [Uuids -> Int \cup {NULL}]

Below == {p \in Nat \X Nat : p[1] < p[2]}

LEMMA BelowIsWellFounded == IsWellFoundedOn(Below, Nat)
<1>1. Below = OpToRel(<, Nat)
  BY DEF Below, OpToRel
<1> QED BY <1>1, NatLessThanWellFounded

LEMMA LargestOfBounded ==
    ASSUME NEW S \in SUBSET Int, S # {},
           NEW top \in Int, \A x \in S : x <= top
    PROVE  \E m \in S : \A x \in S : x <= m
<1> DEFINE D == {top - x : x \in S}
<1>1. D \subseteq Nat
  OBVIOUS
<1>2. D # {}
  <2>1. PICK x \in S : TRUE
    OBVIOUS
  <2>2. top - x \in D
    OBVIOUS
  <2> QED BY <2>2
<1>3. PICK d \in D : \A e \in D : <<e, d>> \notin Below
  <2> HIDE DEF D
  <2> QED BY <1>1, <1>2, WFMin, BelowIsWellFounded
<1>4. PICK m \in S : d = top - m
  OBVIOUS
<1>5. ASSUME NEW x \in S
      PROVE  x <= m
  <2>1. top - x \in Nat /\ top - m \in Nat /\ top - x \in D
    BY <1>1
  <2>2. ~(top - x < top - m)
    BY <1>3, <1>4, <2>1 DEF Below
  <2> QED BY <2>2
<1> QED BY <1>5

LEMMA NewestOfPage ==
    ASSUME NEW at \in Dates, NEW top \in Int, \A u \in Known(at) : at[u] <= top,
           NEW page \in SUBSET Known(at), page # {}
    PROVE  /\ \E u \in page : Newest(at, page) = at[u]
           /\ \A u \in page : at[u] <= Newest(at, page)
           /\ Newest(at, page) \in Int /\ Newest(at, page) <= top
<1> DEFINE S == {at[u] : u \in page}
<1>1. \A u \in page : at[u] \in Int /\ at[u] <= top
  BY DEF Known, Dates
<1>2. S \in SUBSET Int /\ S # {} /\ \A x \in S : x <= top
  BY <1>1
<1>3. \E m \in S : \A x \in S : x <= m
  <2> HIDE DEF S
  <2> QED BY <1>2, LargestOfBounded
<1>4. \E t \in S : \A u \in page : at[u] <= t
  BY <1>3
<1>5. Newest(at, page) \in S /\ \A u \in page : at[u] <= Newest(at, page)
  BY <1>4 DEF Newest
<1> QED BY <1>1, <1>5

LEMMA PageIsOldest ==
    ASSUME NEW at \in Dates, IsFiniteSet(Known(at)), NEW since \in Int,
           NEW v \in PageOf(at, since),
           NEW u \in Listed(at, since) \ PageOf(at, since)
    PROVE  at[u] >= at[v]
<1> DEFINE ahead(x) == {w \in Listed(at, since) : Before(at, w, x)}
<1>1. /\ Listed(at, since) \subseteq Known(at)
      /\ u \in Known(at) /\ v \in Listed(at, since) /\ v \in Known(at)
  BY DEF Listed, PageOf, Known
<1>2. \A w \in Known(at) : at[w] \in Int /\ w \in Nat
  BY StoreAssumption DEF Known, Dates
<1>3. Cardinality(ahead(v)) < PageLimit /\ ~(Cardinality(ahead(u)) < PageLimit)
  BY DEF PageOf, Before
<1>4. SUFFICES ASSUME at[u] < at[v] PROVE FALSE
  BY <1>1, <1>2
<1>5. ahead(u) \subseteq ahead(v)
  <2>1. ASSUME NEW w \in Listed(at, since), Before(at, w, u)
        PROVE  Before(at, w, v)
    BY <1>1, <1>2, <1>4, <2>1 DEF Before
  <2> QED BY <2>1
<1>6. ahead(v) \subseteq Known(at)
  BY <1>1
<1> HIDE DEF ahead
<1>7. IsFiniteSet(ahead(v)) /\ IsFiniteSet(ahead(u))
  BY <1>5, <1>6, FS_Subset
<1>8. Cardinality(ahead(u)) <= Cardinality(ahead(v))
  BY <1>5, <1>7, FS_Subset
<1>9. Cardinality(ahead(u)) \in Nat /\ Cardinality(ahead(v)) \in Nat /\ PageLimit \in Nat
  BY <1>7, FS_CardinalityType, SignAssumption
<1> QED BY <1>3, <1>8, <1>9

-----------------------------------------------------------------------------
(* Type correctness.  What a poller fetched has a date, and no date is     *)
(* later than the present.                                                 *)

Writes == {"signed", "rejected"} \X Uuids

DatesKnown ==
    /\ \A u \in Known(signedAt) : signedAt[u] <= now
    /\ \A u \in Known(rejectedAt) : rejectedAt[u] <= now

Paging == {"reject", "sign", "save"}

PageDated == poller.pc \in Paging => poller.newest \in Int

SignInv == SignTypeOK /\ DatesKnown /\ PageDated

\* The poller goes on with this cursor and this page.
PollerMoves(pc, cursor, todo, newest) ==
    /\ poller'.pc = pc /\ poller'.cursor = cursor
    /\ poller'.todo = todo /\ poller'.newest = newest
    /\ poller' \in Poller

LEMMA PollerTypes ==
    ASSUME SignInv
    PROVE  /\ poller \in Poller /\ db \in Table
           /\ now \in Int /\ poller.cursor \in Int
           /\ poller.rejectionCursor \in Int \cup {NULL}
           /\ poller.todo \in SUBSET Uuids
           /\ poller.newest \in Int \cup {NULL}
           /\ signedAt \in Dates /\ rejectedAt \in Dates
BY DEF SignInv, SignTypeOK, Poller, Table, Dates

LEMMA StartPollerMoves ==
    ASSUME SignInv, StartPoller
    PROVE  /\ \E cursor \in Int :
                 /\ cursor <= now - POLL_INITIAL_LOOKBACK
                 /\ PollerMoves("tick", cursor, {}, NULL)
           /\ UNCHANGED <<db, saved, unwritten>> /\ PollerOnly
<1> DEFINE floor == now - POLL_INITIAL_LOOKBACK
           cursor == IF saved = NULL THEN floor
                     ELSE Smaller(saved - RestartGuard, floor)
<1>1. cursor \in Int /\ cursor <= floor
  BY PollerTypes, SignAssumption DEF SignInv, SignTypeOK, Smaller
<1>2. poller' = [Off EXCEPT !.pc = "tick", !.cursor = cursor]
  BY DEF StartPoller
<1> HIDE DEF cursor
<1>3. PollerMoves("tick", cursor, {}, NULL)
  BY <1>1, <1>2 DEF PollerMoves, Off, Poller, PollerPc
<1> QED BY <1>1, <1>3 DEF StartPoller

LEMMA EscalateMoves ==
    ASSUME SignInv, EscalateSelect \/ EscalateStamp \/ EscalateFails
    PROVE  /\ \E pc \in {"gate", "stamp"}, us \in SUBSET Uuids :
                 PollerMoves(pc, poller.cursor, us, poller.newest)
           /\ db' \in Table /\ KeepsSigned(db, db')
           /\ UNCHANGED <<saved, unwritten>> /\ PollerOnly
<1>1. CASE EscalateSelect
  <2> DEFINE us == transient_budget_exhausted(db, TRANSIENT_BUDGET_ATTEMPTS)
  <2>1. us \in SUBSET Uuids
    BY DEF transient_budget_exhausted
  <2>2. PICK pc \in {"gate", "stamp"} :
           poller' = [poller EXCEPT !.pc = pc, !.todo = us]
    BY <1>1 DEF EscalateSelect
  <2> HIDE DEF us
  <2>3. PollerMoves(pc, poller.cursor, us, poller.newest)
    BY <2>1, <2>2, PollerTypes DEF PollerMoves, Poller, PollerPc
  <2> QED BY <1>1, <2>1, <2>3, PollerTypes DEF EscalateSelect, KeepsSigned
<1>2. CASE EscalateStamp
  <2>1. PollerMoves("gate", poller.cursor, {}, poller.newest)
    BY <1>2, PollerTypes DEF EscalateStamp, PollerMoves, Poller, PollerPc
  <2>2. "SIGN_TRANSIENT_BUDGET_EXHAUSTED" \in ALL_CODES
    BY DEF ALL_CODES, SIGN_CODES
  <2>3. db' \in Table /\ KeepsSigned(db, db')
    BY <1>2, <2>2, PollerTypes, StampEscalatedRow DEF EscalateStamp
  <2> QED BY <1>2, <2>1, <2>3 DEF EscalateStamp
<1>3. CASE EscalateFails
  <2>1. PollerMoves("gate", poller.cursor, {}, poller.newest)
    BY <1>3, PollerTypes DEF EscalateFails, PollerMoves, Poller, PollerPc
  <2> QED BY <1>3, <2>1, PollerTypes DEF EscalateFails, KeepsSigned
<1> QED BY <1>1, <1>2, <1>3

LEMMA QuietMoves ==
    ASSUME SignInv, Gate \/ FetchRejectionsFails \/ FetchSignaturesFails
    PROVE  /\ \E pc \in {"tick", "rejections", "signatures"} :
                 PollerMoves(pc, poller.cursor, poller.todo, poller.newest)
           /\ UNCHANGED <<db, saved, unwritten>> /\ PollerOnly
<1>1. PICK pc \in {"tick", "rejections", "signatures"} :
         poller' = [poller EXCEPT !.pc = pc]
  BY DEF Gate, FetchRejectionsFails, FetchSignaturesFails
<1>2. PollerMoves(pc, poller.cursor, poller.todo, poller.newest)
  BY <1>1, PollerTypes DEF PollerMoves, Poller, PollerPc
<1> QED BY <1>2 DEF Gate, FetchRejectionsFails, FetchSignaturesFails

LEMMA FetchRejectionsMoves ==
    ASSUME SignInv, FetchRejections
    PROVE  /\ \/ PollerMoves("signatures", poller.cursor, poller.todo, poller.newest)
              \/ \E page \in SUBSET Uuids, newest \in Int :
                    PollerMoves("reject", poller.cursor, page, newest)
           /\ UNCHANGED <<db, saved, unwritten>> /\ PollerOnly
<1> DEFINE page   == PageOf(rejectedAt, RejectionsSince)
           newest == Newest(rejectedAt, page)
<1>1. page \in SUBSET Known(rejectedAt)
  BY DEF PageOf, Listed, Known
<1>2. CASE page = {}
  BY <1>2, PollerTypes DEF FetchRejections, PollerMoves, Poller, PollerPc
<1>3. CASE page # {}
  <2>1. newest \in Int
    <3> HIDE DEF page
    <3> QED BY <1>1, <1>3, NewestOfPage, PollerTypes DEF SignInv, DatesKnown
  <2>2. poller' = [poller EXCEPT !.pc = "reject", !.todo = page, !.newest = newest]
    BY <1>3 DEF FetchRejections
  <2> HIDE DEF page, newest
  <2>3. page \in SUBSET Uuids
    BY <1>1 DEF Known
  <2>4. PollerMoves("reject", poller.cursor, page, newest)
    BY <2>1, <2>2, <2>3, PollerTypes DEF PollerMoves, Poller, PollerPc
  <2> QED BY <2>1, <2>3, <2>4 DEF FetchRejections
<1> QED BY <1>2, <1>3

LEMMA RecordRejectionMoves ==
    ASSUME SignInv, RecordRejection
    PROVE  /\ \E left \in SUBSET Uuids :
                 \/ PollerMoves("reject", poller.cursor, left, poller.newest)
                 \/ PollerMoves("signatures", poller.cursor, {}, NULL)
           /\ db' \in Table /\ KeepsSigned(db, db')
           /\ unwritten' \in SUBSET Writes
           /\ \A v \in Uuids : <<"signed", v>> \in unwritten =>
                                <<"signed", v>> \in unwritten'
           /\ UNCHANGED saved /\ PollerOnly
<1>1. PICK u \in poller.todo, written \in BOOLEAN :
         LET left == poller.todo \ {u} IN
         /\ db' = IF written THEN mark_sign_failed(db, u, "SIGN_REJECTED") ELSE db
         /\ Tried(<<"rejected", u>>, written)
         /\ poller' = IF left # {} THEN [poller EXCEPT !.todo = left]
                      ELSE [poller EXCEPT
                               !.pc = "signatures", !.todo = {},
                               !.newest = NULL,
                               !.rejectionCursor = RolledBack(poller.newest)]
  BY DEF RecordRejection
<1>2. poller.pc = "reject" /\ poller.newest \in Int
  BY DEF RecordRejection, InTick, SignInv, PageDated, Paging
<1>3. RolledBack(poller.newest) \in Int
  BY <1>2, SignAssumption DEF RolledBack
<1>4. "SIGN_REJECTED" \in ALL_CODES
  BY DEF ALL_CODES, SIGN_CODES
<1>5. db' \in Table /\ KeepsSigned(db, db')
  BY <1>1, <1>4, PollerTypes, SignFailedRow DEF KeepsSigned
<1>t. /\ unwritten' \in SUBSET Writes
      /\ \A v \in Uuids : <<"signed", v>> \in unwritten =>
                           <<"signed", v>> \in unwritten'
  BY <1>1, PollerTypes DEF Tried, Writes, SignInv, SignTypeOK
<1>6. CASE poller.todo \ {u} # {}
  <2>1. PollerMoves("reject", poller.cursor, poller.todo \ {u}, poller.newest)
    BY <1>1, <1>2, <1>6, PollerTypes DEF PollerMoves, Poller
  <2> QED BY <1>5, <1>t, <2>1, PollerTypes DEF RecordRejection
<1>7. CASE poller.todo \ {u} = {}
  <2> DEFINE back == RolledBack(poller.newest)
  <2>1. poller' = [poller EXCEPT !.pc = "signatures", !.todo = {},
                                 !.newest = NULL, !.rejectionCursor = back]
    BY <1>1, <1>7
  <2> HIDE DEF back
  <2>2. PollerMoves("signatures", poller.cursor, {}, NULL)
    BY <1>3, <2>1, PollerTypes DEF PollerMoves, Poller, PollerPc, back
  <2> QED BY <1>5, <1>t, <2>2 DEF RecordRejection
<1> QED BY <1>6, <1>7

LEMMA FetchSignaturesMoves ==
    ASSUME SignInv, FetchSignatures
    PROVE  LET page   == PageOf(signedAt, poller.cursor)
               newest == Newest(signedAt, page) IN
           /\ \/ PollerMoves("tick", poller.cursor, poller.todo, poller.newest)
              \/ /\ page # {} /\ page \in SUBSET Known(signedAt)
                 /\ newest \in Int /\ newest <= now
                 /\ \E u \in page : newest = signedAt[u]
                 /\ PollerMoves("sign", poller.cursor, page, newest)
           /\ UNCHANGED <<db, saved, unwritten>> /\ PollerOnly
<1> DEFINE page   == PageOf(signedAt, poller.cursor)
           newest == Newest(signedAt, page)
<1>1. page \in SUBSET Known(signedAt)
  BY DEF PageOf, Listed, Known
<1>2. CASE page = {}
  BY <1>2, PollerTypes DEF FetchSignatures, PollerMoves, Poller, PollerPc
<1>3. CASE page # {}
  <2>1. newest \in Int /\ newest <= now /\ \E u \in page : newest = signedAt[u]
    <3> HIDE DEF page
    <3> QED BY <1>1, <1>3, NewestOfPage, PollerTypes DEF SignInv, DatesKnown
  <2>2. poller' = [poller EXCEPT !.pc = "sign", !.todo = page, !.newest = newest]
    BY <1>3 DEF FetchSignatures
  <2> HIDE DEF page, newest
  <2>3. page \in SUBSET Uuids
    BY <1>1 DEF Known
  <2>4. PollerMoves("sign", poller.cursor, page, newest)
    BY <2>1, <2>2, <2>3, PollerTypes DEF PollerMoves, Poller, PollerPc
  <2> QED BY <1>1, <1>3, <2>1, <2>4 DEF FetchSignatures, page, newest
<1> QED BY <1>2, <1>3

LEMMA RecordSignatureMoves ==
    ASSUME SignInv, RecordSignature
    PROVE  /\ \E u \in poller.todo, written \in BOOLEAN :
                 /\ db' = IF written THEN mark_signed(db, u) ELSE db
                 /\ Tried(<<"signed", u>>, written)
                 /\ \E pc \in {"sign", "save"} :
                       /\ PollerMoves(pc, poller.cursor, poller.todo \ {u}, poller.newest)
                       /\ pc = "save" => poller.todo \ {u} = {}
           /\ db' \in Table /\ poller.pc = "sign" /\ poller.newest \in Int
           /\ unwritten' \in SUBSET Writes
           /\ UNCHANGED saved /\ PollerOnly
<1>1. PICK u \in poller.todo, written \in BOOLEAN :
         LET left == poller.todo \ {u} IN
         /\ db' = IF written THEN mark_signed(db, u) ELSE db
         /\ Tried(<<"signed", u>>, written)
         /\ poller' = [poller EXCEPT
                          !.todo = left,
                          !.pc = IF left = {} THEN "save" ELSE "sign",
                          !.anySigned = poller.anySigned
                                          \/ (written /\ db[u].stored /\ ~db[u].signed)]
  BY PollerTypes DEF RecordSignature, Poller
<1> DEFINE left == poller.todo \ {u}
           pc == IF left = {} THEN "save" ELSE "sign"
           any == poller.anySigned \/ (written /\ db[u].stored /\ ~db[u].signed)
<1>2. pc \in {"sign", "save"} /\ (pc = "save" => left = {})
  OBVIOUS
<1>3. any \in BOOLEAN
  OBVIOUS
<1>4. poller' = [poller EXCEPT !.todo = left, !.pc = pc, !.anySigned = any]
  BY <1>1
<1>5. left \in SUBSET Uuids
  BY PollerTypes
<1> HIDE DEF left, pc, any
<1>6. PollerMoves(pc, poller.cursor, left, poller.newest)
  BY <1>2, <1>3, <1>4, <1>5, PollerTypes DEF PollerMoves, Poller, PollerPc
<1>7. db' \in Table
  BY <1>1, PollerTypes, MarkSignedType
<1>8. poller.pc = "sign" /\ poller.newest \in Int
  BY DEF RecordSignature, InTick, SignInv, PageDated, Paging
<1>9. unwritten' \in SUBSET Writes
  BY <1>1, PollerTypes DEF Tried, Writes, SignInv, SignTypeOK
<1> QED BY <1>1, <1>2, <1>6, <1>7, <1>8, <1>9 DEF RecordSignature, left

LEMMA SaveCursorMoves ==
    ASSUME SignInv, SaveCursor
    PROVE  /\ PollerMoves("tick", RolledBack(poller.newest), poller.todo, NULL)
           /\ poller.pc = "save" /\ poller.newest \in Int
           /\ saved' \in Int \cup {NULL} /\ UNCHANGED <<db, unwritten>> /\ PollerOnly
<1> DEFINE back == RolledBack(poller.newest)
<1>1. poller.pc = "save" /\ poller.newest \in Int
  BY DEF SaveCursor, InTick, SignInv, PageDated, Paging
<1>2. back \in Int
  BY <1>1, SignAssumption DEF RolledBack
<1>3. poller' = [poller EXCEPT !.pc = "tick", !.newest = NULL,
                               !.anySigned = FALSE, !.cursor = back]
  BY DEF SaveCursor
<1> HIDE DEF back
<1>4. PollerMoves("tick", back, poller.todo, NULL)
  BY <1>2, <1>3, PollerTypes DEF PollerMoves, Poller, PollerPc
<1>5. saved' \in Int \cup {NULL}
  BY <1>1 DEF SaveCursor, SignInv, SignTypeOK
<1> QED BY <1>1, <1>4, <1>5 DEF SaveCursor, back

LEMMA InitSign == SignInit => SignInv
<1> SUFFICES ASSUME SignInit PROVE SignInv
  OBVIOUS
<1>1. NoRow \in Row
  BY DEF NoRow, Row
<1>4. \A u \in Uuids : store_unsigned([v \in Uuids |-> NoRow], u)[u] \in Row
  <2>1. [v \in Uuids |-> NoRow] \in Table
    BY <1>1 DEF Table
  <2> QED BY <2>1, StoreUnsignedRow DEF Table
<1>2. Off \in Poller /\ Off.pc = "off"
  BY DEF Off, Poller, PollerPc
<1>3. SignTypeOK
  <2>1. db \in [Uuids -> Row]
    BY <1>1, <1>4 DEF SignInit
  <2> QED BY <1>2, <2>1, SignAssumption DEF SignInit, SignTypeOK, SubmitState
<1> QED BY <1>2, <1>3 DEF SignInit, SignInv, DatesKnown, PageDated, Known, Paging

LEMMA PollerStepType ==
    ASSUME SignInv, PollerStep
    PROVE  SignInv'
<1>k. ASSUME db' \in Table, saved' \in Int \cup {NULL}, PollerOnly,
             unwritten' \in SUBSET Writes,
             poller' \in Poller, poller'.pc \in Paging => poller'.newest \in Int
      PROVE  SignInv'
  BY <1>k DEF SignInv, SignTypeOK, DatesKnown, PageDated, Known, PollerOnly,
     apiVars, Table, Writes
<1>s. saved \in Int \cup {NULL} /\ db \in Table /\ unwritten \in SUBSET Writes
  BY PollerTypes DEF SignInv, SignTypeOK, Writes
<1>1. CASE StartPoller
  <2>1. PICK cursor \in Int : PollerMoves("tick", cursor, {}, NULL)
    BY <1>1, StartPollerMoves
  <2> QED BY <1>1, <1>k, <1>s, <2>1, StartPollerMoves DEF PollerMoves, Paging
<1>2. CASE EscalateSelect \/ EscalateStamp \/ EscalateFails
  <2>1. PICK pc \in {"gate", "stamp"}, us \in SUBSET Uuids :
           PollerMoves(pc, poller.cursor, us, poller.newest)
    BY <1>2, EscalateMoves
  <2> QED BY <1>2, <1>k, <1>s, <2>1, EscalateMoves DEF PollerMoves, Paging
<1>3. CASE Gate \/ FetchRejectionsFails \/ FetchSignaturesFails
  <2>1. PICK pc \in {"tick", "rejections", "signatures"} :
           PollerMoves(pc, poller.cursor, poller.todo, poller.newest)
    BY <1>3, QuietMoves
  <2> QED BY <1>3, <1>k, <1>s, <2>1, QuietMoves DEF PollerMoves, Paging
<1>4. CASE FetchRejections
  BY <1>4, <1>k, <1>s, FetchRejectionsMoves DEF PollerMoves, Paging
<1>5. CASE RecordRejection
  <2>1. poller.newest \in Int
    BY <1>5 DEF RecordRejection, InTick, SignInv, PageDated, Paging
  <2>2. /\ poller' \in Poller
        /\ poller'.pc \in Paging => poller'.newest \in Int
    BY <1>5, <2>1, RecordRejectionMoves DEF PollerMoves, Paging
  <2> QED BY <1>5, <1>k, <1>s, <2>2, RecordRejectionMoves
<1>6. CASE FetchSignatures
  BY <1>6, <1>k, <1>s, FetchSignaturesMoves DEF PollerMoves, Paging
<1>7. CASE RecordSignature
  <2>1. /\ poller' \in Poller
        /\ poller'.pc \in Paging => poller'.newest \in Int
    BY <1>7, RecordSignatureMoves DEF PollerMoves, Paging
  <2> QED BY <1>7, <1>k, <1>s, <2>1, RecordSignatureMoves
<1>8. CASE SaveCursor
  BY <1>8, <1>k, <1>s, SaveCursorMoves DEF PollerMoves, Paging
<1> QED BY <1>1, <1>2, <1>3, <1>4, <1>5, <1>6, <1>7, <1>8 DEF PollerStep

\* The gateway, the submitter and time leave the poller alone.
Outside(u) ==
    \/ GatewaySigns(u) \/ GatewayRejects(u) \/ BackoffEnds(u)
    \/ StoreReceipt(u) \/ Post(u) \/ RecordAnswer(u)

\* What they do to the tables and to the dates of one receipt.
LEMMA OutsideMoves ==
    ASSUME SignInv, NEW v \in Uuids, Outside(v)
    PROVE  /\ UNCHANGED <<now, poller, saved, unwritten, crashes>>
           /\ \/ db' = store_unsigned(db, v) /\ submit'[v] = "stored"
              \/ db' = mark_signed(db, v) /\ UNCHANGED signedAt
              \/ db' \in Table /\ KeepsSigned(db, db')
           /\ db' \in Table
           /\ \A u \in Uuids \ {v} :
                 signedAt'[u] = signedAt[u] /\ submit'[u] = submit[u]
           /\ \/ signedAt' = signedAt
              \/ /\ signedAt'[v] \in now - MaxLag .. now
                 /\ v \in accepted \/ submit[v] = "stored"
           /\ \/ rejectedAt' = rejectedAt
              \/ /\ rejectedAt'[v] = now
                 /\ \A u \in Uuids \ {v} : rejectedAt'[u] = rejectedAt[u]
           /\ signedAt' \in Dates /\ rejectedAt' \in Dates
           /\ submit' \in [Uuids -> SubmitState] /\ accepted' \in SUBSET Uuids
           /\ \/ accepted' = accepted
              \/ accepted' = accepted \cup {v} /\ submit[v] = "stored"
           /\ \/ submit'[v] = submit[v] \/ submit'[v] = "stored"
              \/ submit[v] # "none"
<1>t. /\ db \in Table /\ now \in Int /\ MaxLag \in Nat
      /\ signedAt \in Dates /\ rejectedAt \in Dates
      /\ submit \in [Uuids -> SubmitState] /\ accepted \in SUBSET Uuids
      /\ Answers \subseteq SubmitState /\ {"stored", "done"} \subseteq SubmitState
  BY PollerTypes, SignAssumption DEF SignInv, SignTypeOK, SubmitState
<1>k. KeepsSigned(db, db)
  BY DEF KeepsSigned
<1>1. CASE GatewaySigns(v)
  <2>1. PICK lag \in 0 .. MaxLag : signedAt' = [signedAt EXCEPT ![v] = now - lag]
    BY <1>1 DEF GatewaySigns
  <2>2. now - lag \in now - MaxLag .. now
    BY <1>t
  <2>3. /\ signedAt' \in Dates /\ signedAt'[v] = now - lag
        /\ \A u \in Uuids \ {v} : signedAt'[u] = signedAt[u]
    BY <1>t, <2>1 DEF Dates
  <2> QED BY <1>1, <1>k, <1>t, <2>2, <2>3 DEF GatewaySigns
<1>2. CASE GatewayRejects(v)
  <2>1. /\ rejectedAt' \in Dates /\ rejectedAt'[v] = now
        /\ \A u \in Uuids \ {v} : rejectedAt'[u] = rejectedAt[u]
    BY <1>2, <1>t DEF GatewayRejects, Dates
  <2> QED BY <1>2, <1>k, <1>t, <2>1 DEF GatewayRejects
<1>3. CASE BackoffEnds(v)
  <2>1. db' \in Table /\ KeepsSigned(db, db')
    BY <1>3, <1>t DEF BackoffEnds, Table, Row, Age, KeepsSigned
  <2> QED BY <1>3, <1>t, <2>1 DEF BackoffEnds, apiVars
<1>4. CASE StoreReceipt(v)
  <2>1. /\ submit' \in [Uuids -> SubmitState] /\ submit'[v] = "stored"
        /\ \A u \in Uuids \ {v} : submit'[u] = submit[u]
    BY <1>4, <1>t DEF StoreReceipt
  <2>2. db' = store_unsigned(db, v) /\ db' \in Table
    BY <1>4, <1>t, StoreUnsignedRow DEF StoreReceipt
  <2> QED BY <1>4, <1>t, <2>1, <2>2 DEF StoreReceipt, apiVars
<1>5. CASE Post(v)
  <2>1. PICK answer \in Answers :
           /\ submit' = [submit EXCEPT ![v] = answer]
           /\ \/ accepted' = accepted \cup {v} /\ UNCHANGED signedAt
              \/ /\ accepted' = accepted \cup {v}
                 /\ signedAt' = [signedAt EXCEPT ![v] = now]
              \/ UNCHANGED <<accepted, signedAt>>
    BY <1>5 DEF Post
  <2>2. /\ submit' \in [Uuids -> SubmitState]
        /\ \A u \in Uuids \ {v} : submit'[u] = submit[u]
    BY <1>t, <2>1
  <2>3. /\ signedAt' \in Dates
        /\ \A u \in Uuids \ {v} : signedAt'[u] = signedAt[u]
        /\ signedAt' = signedAt \/ signedAt'[v] \in now - MaxLag .. now
    BY <1>t, <2>1 DEF Dates
  <2>4. submit[v] = "stored" /\ UNCHANGED <<db, now, rejectedAt, poller, saved, unwritten, crashes>>
    BY <1>5 DEF Post
  <2> QED BY <1>k, <1>t, <2>1, <2>2, <2>3, <2>4
<1>6. CASE RecordAnswer(v)
  <2>1. /\ submit[v] \in Answers /\ submit' = [submit EXCEPT ![v] = "done"]
        /\ UNCHANGED <<now, apiVars, poller, saved, unwritten, crashes>>
    BY <1>6 DEF RecordAnswer
  <2>2. \/ db' = mark_signed(db, v)
        \/ \E code \in {"SIGN_REJECTED_CLOCK_SKEW", "SIGN_REJECTED"} :
              db' = mark_sign_failed(db, v, code)
        \/ db' = mark_transient_attempt(db, v)
        \/ db' = db
    BY <1>6 DEF RecordAnswer, Answers
  <2>3. {"SIGN_REJECTED_CLOCK_SKEW", "SIGN_REJECTED"} \subseteq ALL_CODES
    BY DEF ALL_CODES, SIGN_CODES
  <2>4. /\ db' \in Table
        /\ db' = mark_signed(db, v) \/ KeepsSigned(db, db')
    BY <1>k, <1>t, <2>2, <2>3, MarkSignedType, SignFailedRow, TransientAttemptRow
  <2>5. /\ submit' \in [Uuids -> SubmitState] /\ submit[v] # "none"
        /\ \A u \in Uuids \ {v} : submit'[u] = submit[u]
    BY <1>t, <2>1 DEF Answers
  <2> QED BY <1>t, <2>1, <2>4, <2>5 DEF apiVars
<1> QED BY <1>1, <1>2, <1>3, <1>4, <1>5, <1>6 DEF Outside

LEMMA SignStepType ==
    ASSUME SignInv, [SignNext]_signVars
    PROVE  SignInv'
<1>t. /\ now \in Nat /\ MaxLag \in Nat
      /\ signedAt \in Dates /\ rejectedAt \in Dates
  BY PollerTypes, SignAssumption DEF SignInv, SignTypeOK
<1>1. ASSUME NEW v \in Uuids, Outside(v)
      PROVE  SignInv'
  <2>1. SignTypeOK'
    BY <1>1, OutsideMoves DEF SignInv, SignTypeOK, Dates, Table
  <2>2. \A u \in Known(signedAt)' : signedAt'[u] <= now'
    BY <1>1, <1>t, OutsideMoves DEF Known, SignInv, DatesKnown
  <2>3. \A u \in Known(rejectedAt)' : rejectedAt'[u] <= now'
    BY <1>1, <1>t, OutsideMoves DEF Known, SignInv, DatesKnown
  <2>4. PageDated'
    BY <1>1, OutsideMoves DEF SignInv, PageDated
  <2> QED BY <2>1, <2>2, <2>3, <2>4 DEF SignInv, DatesKnown
<1>2. CASE Clock
  <2>1. \A u \in Known(signedAt) : signedAt[u] \in Int /\ signedAt[u] <= now
    BY <1>t DEF Known, Dates, SignInv, DatesKnown
  <2>2. \A u \in Known(rejectedAt) : rejectedAt[u] \in Int /\ rejectedAt[u] <= now
    BY <1>t DEF Known, Dates, SignInv, DatesKnown
  <2>3. DatesKnown'
    BY <1>2, <1>t, <2>1, <2>2 DEF Clock, DatesKnown, Known, apiVars
  <2> QED BY <1>2, <2>3 DEF Clock, SignInv, SignTypeOK, PageDated, apiVars
<1>3. CASE PollerStep
  BY <1>3, PollerStepType
<1>4. CASE Crash
  <2>1. poller' \in Poller /\ poller'.pc = "off"
    BY <1>4 DEF Crash, Off, Poller, PollerPc
  <2>2. submit' \in [Uuids -> SubmitState] /\ crashes' \in Nat
    BY <1>4 DEF Crash, SubmitState, SignInv, SignTypeOK
  <2> QED BY <1>4, <2>1, <2>2
          DEF Crash, SignInv, SignTypeOK, DatesKnown, PageDated, Known, Paging, apiVars
<1>5. CASE UNCHANGED signVars
  BY <1>5 DEF signVars, apiVars, SignInv, SignTypeOK, DatesKnown, PageDated, Known
<1> QED BY <1>1, <1>2, <1>3, <1>4, <1>5 DEF SignNext, Outside

\* Whatever the gateway decides, however late it says so, and wherever the
\* node is killed, the poller's state keeps its shape: it never computes a
\* cursor from a page without a date (_tick, _tick_rejections).
THEOREM SignTypeCorrect == SignSpec => []SignTypeOK
<1>1. SignInv => SignTypeOK
  BY DEF SignInv
<1> QED BY <1>1, InitSign, SignStepType, PTL DEF SignSpec

-----------------------------------------------------------------------------
(* No signature is skipped.  NoSignatureSkipped is not inductive: while    *)
(* the rows of a page are recorded the next cursor is already decided, so  *)
(* the invariant says what the page leaves out, and that a row may appear  *)
(* late but never behind a cursor that is a buffer behind the present.     *)

TimesFit ==
    /\ MaxLag <= POLL_CURSOR_BUFFER
    /\ POLL_CURSOR_BUFFER <= POLL_INITIAL_LOOKBACK

Delivered(u) ==
    db[u].signed \/ <<"signed", u>> \in unwritten \/ Forgotten(signedAt, u)

\* Every receipt that went anywhere was stored first.
StoredInv ==
    \A u \in Uuids :
        (db[u].signed \/ submit[u] # "none" \/ u \in accepted \/ signedAt[u] # NULL)
            => db[u].stored

CursorInv ==
    poller.pc # "off" =>
        /\ poller.cursor <= now - POLL_CURSOR_BUFFER
        /\ \A u \in Known(signedAt) : Delivered(u) \/ signedAt[u] >= poller.cursor

PageInv ==
    /\ poller.pc = "save" => poller.todo = {}
    /\ poller.pc \in {"sign", "save"} =>
          /\ poller.newest <= now
          /\ poller.todo \subseteq Known(signedAt)
          /\ \A u \in Known(signedAt) :
                \/ Delivered(u)
                \/ u \in poller.todo
                \/ signedAt[u] >= RolledBack(poller.newest)

SkipInv == IsFiniteSet(Known(signedAt)) /\ StoredInv /\ CursorInv /\ PageInv

LEMMA SkipTypes ==
    ASSUME SignInv
    PROVE  /\ now \in Int /\ poller.cursor \in Int
           /\ \A u \in Known(signedAt) : u \in Uuids /\ signedAt[u] \in Int
           /\ poller.pc \in {"sign", "save"} => poller.newest \in Int
           /\ {MaxLag, POLL_CURSOR_BUFFER, POLL_INITIAL_LOOKBACK} \subseteq Nat
           /\ NULL \notin Int
BY PollerTypes, SignAssumption DEF Known, Dates, SignInv, PageDated, Paging

\* A step keeps what the store has and the gateway signed, and a row that
\* appears is at most MaxLag old.
SignsKept ==
    /\ \A u \in Uuids : db[u].signed => db'[u].signed
    /\ \A u \in Uuids : \/ signedAt'[u] = signedAt[u]
                       \/ signedAt'[u] \in now - MaxLag .. now
    /\ now' >= now /\ unwritten' = unwritten

LEMMA KeptInOrder ==
    ASSUME SignInv, SignInv', TimesFit, SignsKept,
           NEW c \in Int, c <= now - POLL_CURSOR_BUFFER,
           NEW u \in Known(signedAt)', NEW held,
           u \in Known(signedAt) => Delivered(u) \/ held \/ signedAt[u] >= c
    PROVE  \/ Delivered(u)'
           \/ held
           \/ signedAt'[u] >= c
<1>t. /\ u \in Uuids /\ now \in Int /\ now' \in Int
      /\ {MaxLag, POLL_CURSOR_BUFFER, POLL_INITIAL_LOOKBACK} \subseteq Nat
  BY SkipTypes, PollerTypes DEF Known, SignInv, SignTypeOK
<1>1. CASE signedAt'[u] = signedAt[u]
  <2>1. u \in Known(signedAt) /\ signedAt[u] \in Int
    BY <1>1, SkipTypes DEF Known
  <2>2. Delivered(u) => Delivered(u)'
    BY <1>1, <1>t, <2>1 DEF Delivered, Forgotten, SignsKept
  <2> QED BY <1>1, <2>1, <2>2
<1>2. CASE signedAt'[u] \in now - MaxLag .. now
  BY <1>2, <1>t DEF TimesFit
<1> QED BY <1>1, <1>2, <1>t DEF SignsKept

\* A step that leaves the poller alone leaves its cursor and its page right.
LEMMA PollerKeptSkips ==
    ASSUME SignInv, SignInv', TimesFit, SkipInv, SignsKept, poller' = poller
    PROVE  CursorInv' /\ PageInv'
<1>t. /\ now \in Int /\ now' \in Int /\ poller.cursor \in Int
      /\ poller.pc \in {"sign", "save"} => poller.newest \in Int
      /\ {MaxLag, POLL_CURSOR_BUFFER, POLL_INITIAL_LOOKBACK} \subseteq Nat
      /\ NULL \notin Int
  BY SkipTypes, PollerTypes DEF SignInv, SignTypeOK
<1>1. CursorInv'
  <2>1. SUFFICES ASSUME poller.pc # "off"
                 PROVE  /\ poller.cursor <= now' - POLL_CURSOR_BUFFER
                        /\ \A u \in Known(signedAt)' :
                              Delivered(u)' \/ signedAt'[u] >= poller.cursor
    BY DEF CursorInv
  <2>2. poller.cursor <= now - POLL_CURSOR_BUFFER
    BY <2>1 DEF SkipInv, CursorInv
  <2>3. ASSUME NEW u \in Known(signedAt)'
        PROVE  Delivered(u)' \/ signedAt'[u] >= poller.cursor
    <3>1. u \in Known(signedAt) => Delivered(u) \/ FALSE \/ signedAt[u] >= poller.cursor
      BY <2>1 DEF SkipInv, CursorInv
    <3> QED BY <1>t, <2>2, <3>1, KeptInOrder
  <2> QED BY <1>t, <2>2, <2>3 DEF SignsKept
<1>2. PageInv'
  <2>1. SUFFICES ASSUME poller.pc \in {"sign", "save"}
                 PROVE  /\ poller.newest <= now'
                        /\ poller.todo \subseteq Known(signedAt)'
                        /\ \A u \in Known(signedAt)' :
                              \/ Delivered(u)'
                              \/ u \in poller.todo
                              \/ signedAt'[u] >= RolledBack(poller.newest)
    BY DEF SkipInv, PageInv, RolledBack
  <2> DEFINE back == RolledBack(poller.newest)
  <2>2. poller.newest <= now /\ back \in Int /\ back <= now - POLL_CURSOR_BUFFER
    BY <1>t, <2>1 DEF SkipInv, PageInv, RolledBack
  <2>3. \A u \in Known(signedAt) : Delivered(u) \/ u \in poller.todo \/ signedAt[u] >= back
    BY <2>1 DEF SkipInv, PageInv
  <2> HIDE DEF back
  <2>4. ASSUME NEW u \in Known(signedAt)'
        PROVE  Delivered(u)' \/ u \in poller.todo \/ signedAt'[u] >= back
    BY <2>2, <2>3, KeptInOrder
  <2>5. poller.todo \subseteq Known(signedAt)'
    <3>1. ASSUME NEW u \in poller.todo
          PROVE  u \in Known(signedAt)'
      <4>1. u \in Uuids /\ signedAt[u] # NULL
        BY <2>1 DEF SkipInv, PageInv, Known
      <4> QED BY <1>t, <4>1 DEF SignsKept, Known
    <3> QED BY <3>1
  <2> QED BY <1>t, <2>1, <2>2, <2>4, <2>5 DEF SignsKept, back
<1> QED BY <1>1, <1>2

\* What is stored stays stored; a write that raised did, unless it is repeated.
DeliveryKept ==
    \A u \in Uuids : db[u].signed \/ <<"signed", u>> \in unwritten
                      => db'[u].signed \/ <<"signed", u>> \in unwritten'

\* A poller that keeps its cursor, or starts over, and is not in a page.
LEMMA CursorStays ==
    ASSUME SignInv, SkipInv, UNCHANGED <<now, signedAt>>,
           DeliveryKept,
           poller.pc # "off", poller'.cursor = poller.cursor
    PROVE  CursorInv'
BY DEF SkipInv, CursorInv, Delivered, DeliveryKept, Forgotten, Known

LEMMA StartPollerSkips ==
    ASSUME SignInv, SkipInv, TimesFit, StartPoller
    PROVE  CursorInv' /\ PageInv'
<1>1. PICK cursor \in Int : /\ cursor <= now - POLL_INITIAL_LOOKBACK
                            /\ PollerMoves("tick", cursor, {}, NULL)
  BY StartPollerMoves
<1>2. UNCHANGED <<db, now, signedAt, unwritten>>
  BY StartPollerMoves DEF PollerOnly, apiVars
<1>3. cursor <= now - POLL_CURSOR_BUFFER
  BY <1>1, SkipTypes DEF TimesFit
<1>4. \A u \in Known(signedAt) : Delivered(u) \/ signedAt[u] >= cursor
  BY <1>1, SkipTypes DEF Delivered, Forgotten, Known
<1> QED BY <1>1, <1>2, <1>3, <1>4
        DEF CursorInv, PageInv, PollerMoves, Delivered, Forgotten, Known

LEMMA FetchSignaturesSkips ==
    ASSUME SignInv, SkipInv, FetchSignatures
    PROVE  CursorInv' /\ PageInv'
<1> DEFINE page   == PageOf(signedAt, poller.cursor)
           newest == Newest(signedAt, page)
<1>1. UNCHANGED <<db, now, signedAt, unwritten>> /\ poller.pc = "signatures"
  BY FetchSignaturesMoves DEF PollerOnly, apiVars, FetchSignatures, InTick
<1>2. poller'.cursor = poller.cursor
  BY FetchSignaturesMoves DEF PollerMoves
<1>3. CursorInv'
  BY <1>1, <1>2, CursorStays DEF DeliveryKept
<1>4. CASE poller'.pc = "tick"
  BY <1>3, <1>4 DEF PageInv
<1>5. CASE poller'.pc # "tick"
  <2>1. /\ page \in SUBSET Known(signedAt)
        /\ newest \in Int /\ newest <= now
        /\ \E w \in page : newest = signedAt[w]
        /\ poller'.pc = "sign" /\ poller'.todo = page /\ poller'.newest = newest
    BY <1>5, FetchSignaturesMoves DEF PollerMoves
  <2>2. PICK w \in page : newest = signedAt[w]
    BY <2>1
  <2>3. ASSUME NEW u \in Known(signedAt), ~Delivered(u), u \notin page
        PROVE  signedAt[u] >= newest
    <3>1. signedAt[u] >= poller.cursor
      BY <1>1, <2>3 DEF SkipInv, CursorInv
    <3>2. u \in Listed(signedAt, poller.cursor) \ page
      BY <2>3, <3>1 DEF Listed, Known
    <3>3. IsFiniteSet(Known(signedAt)) /\ signedAt \in Dates /\ poller.cursor \in Int
      BY PollerTypes DEF SkipInv
    <3> QED BY <2>2, <3>2, <3>3, PageIsOldest
  <2> HIDE DEF page, newest
  <2>4. \A u \in Known(signedAt) :
           Delivered(u) \/ u \in page \/ signedAt[u] >= RolledBack(newest)
    BY <2>1, <2>3, SkipTypes DEF RolledBack
  <2>5. PageInv'
    BY <1>1, <2>1, <2>4 DEF PageInv, Delivered, Forgotten, Known, RolledBack
  <2> QED BY <1>3, <2>5
<1> QED BY <1>4, <1>5

\* The row of the page that is recorded is delivered: the store has it, or
\* its write raised.
LEMMA RecordSignatureSkips ==
    ASSUME SignInv, SkipInv, RecordSignature
    PROVE  /\ CursorInv' /\ PageInv'
           /\ \A u \in Uuids : /\ db[u].signed => db'[u].signed
                               /\ db'[u].stored = db[u].stored
                               /\ db'[u].signed => db'[u].stored
<1>1. PICK v \in poller.todo, written \in BOOLEAN, pc \in {"sign", "save"} :
         /\ db' = IF written THEN mark_signed(db, v) ELSE db
         /\ Tried(<<"signed", v>>, written)
         /\ PollerMoves(pc, poller.cursor, poller.todo \ {v}, poller.newest)
         /\ pc = "save" => poller.todo \ {v} = {}
  BY RecordSignatureMoves
<1>2. UNCHANGED <<now, signedAt>> /\ poller.pc = "sign"
  BY RecordSignatureMoves DEF PollerOnly, apiVars
<1>3. /\ poller.newest <= now /\ poller.todo \subseteq Known(signedAt)
      /\ \A u \in Known(signedAt) :
            \/ Delivered(u)
            \/ u \in poller.todo
            \/ signedAt[u] >= RolledBack(poller.newest)
  BY <1>2 DEF SkipInv, PageInv
<1>4. v \in Uuids /\ db \in Table /\ db[v].stored
  BY <1>3, PollerTypes DEF SkipInv, StoredInv, Known
<1>5. /\ written => db'[v].signed
      /\ \A u \in Uuids : /\ db[u].signed => db'[u].signed
                          /\ db'[u].stored = db[u].stored
                          /\ u # v => db'[u] = db[u]
  BY <1>1, <1>4 DEF mark_signed, Table, Row
<1>10. /\ db'[v].signed \/ <<"signed", v>> \in unwritten'
       /\ \A u \in Uuids \ {v} : <<"signed", u>> \in unwritten' <=>
                                   <<"signed", u>> \in unwritten
  BY <1>1, <1>5 DEF Tried
<1>11. DeliveryKept
  BY <1>5, <1>10 DEF DeliveryKept
<1>6. CursorInv'
  BY <1>1, <1>2, <1>11, CursorStays DEF PollerMoves
<1>7. ASSUME NEW u \in Known(signedAt)
      PROVE  \/ Delivered(u)'
             \/ u \in poller.todo \ {v}
             \/ signedAt[u] >= RolledBack(poller.newest)
  <2>1. u \in Uuids
    BY DEF Known
  <2>2. Delivered(u) => Delivered(u)'
    BY <1>2, <1>11, <2>1 DEF Delivered, DeliveryKept, Forgotten
  <2>3. u = v => Delivered(u)'
    BY <1>10 DEF Delivered
  <2> QED BY <1>3, <2>2, <2>3
<1>8. PageInv'
  BY <1>1, <1>2, <1>3, <1>7 DEF PageInv, PollerMoves, Known, RolledBack
<1>9. \A u \in Uuids : db'[u].signed => db'[u].stored
  BY <1>4, <1>5 DEF SkipInv, StoredInv
<1> QED BY <1>5, <1>6, <1>8, <1>9

LEMMA SaveCursorSkips ==
    ASSUME SignInv, SkipInv, SaveCursor
    PROVE  CursorInv' /\ PageInv'
<1>1. /\ poller'.pc = "tick" /\ poller'.cursor = RolledBack(poller.newest)
      /\ poller.pc = "save" /\ poller.newest \in Int
      /\ UNCHANGED <<db, now, signedAt, unwritten>>
  BY SaveCursorMoves DEF PollerMoves, PollerOnly, apiVars
<1>2. /\ poller.newest <= now
      /\ \A u \in Known(signedAt) :
            Delivered(u) \/ signedAt[u] >= RolledBack(poller.newest)
  BY <1>1 DEF SkipInv, PageInv
<1>3. RolledBack(poller.newest) <= now - POLL_CURSOR_BUFFER
  BY <1>1, <1>2, SkipTypes DEF RolledBack
<1> QED BY <1>1, <1>2, <1>3
        DEF CursorInv, PageInv, Delivered, Forgotten, Known

LEMMA InitSkip == SignInit => SkipInv
<1> SUFFICES ASSUME SignInit PROVE SkipInv
  OBVIOUS
<1>1. Known(signedAt) = {}
  BY DEF SignInit, Known
<1>2. poller.pc = "off"
  BY DEF SignInit, Off
<1>3. StoredInv
  <2> DEFINE empty == [u \in Uuids |-> NoRow]
  <2>1. empty \in Table
    BY DEF Table, NoRow, Row
  <2>2. \A u \in Queued : store_unsigned(empty, u)[u].stored
    BY <2>1, StoreUnsignedRow, SignAssumption
  <2>3. \A u \in Uuids : db[u] = IF u \in Queued THEN store_unsigned(empty, u)[u] ELSE NoRow
    BY DEF SignInit
  <2> HIDE DEF empty
  <2> QED BY <2>2, <2>3 DEF SignInit, StoredInv, NoRow
<1> QED BY <1>1, <1>2, <1>3, FS_EmptySet DEF SkipInv, CursorInv, PageInv

LEMMA SkipStep ==
    ASSUME TimesFit, SignInv, SignInv', SkipInv, [SignNext]_signVars
    PROVE  SkipInv'
<1>t. /\ db \in Table /\ now \in Nat /\ MaxLag \in Nat
      /\ poller.todo \in SUBSET Uuids
  BY PollerTypes, SignAssumption DEF SignInv, SignTypeOK
<1>p. ASSUME UNCHANGED <<signedAt, submit, accepted>>,
             \A u \in Uuids : /\ db'[u].stored = db[u].stored
                              /\ db'[u].signed => db[u].signed \/ db[u].stored,
             CursorInv' /\ PageInv'
      PROVE  SkipInv'
  BY <1>p DEF SkipInv, StoredInv, Known
<1>1. ASSUME NEW v \in Uuids, Outside(v)
      PROVE  SkipInv'
  <2>1. \A u \in Uuids : db[u].signed => db'[u].signed
    <3>1. CASE db' = store_unsigned(db, v)
      BY <1>t, <3>1, StoreUnsignedRow DEF SkipInv, StoredInv
    <3>2. CASE db' = mark_signed(db, v)
      BY <1>t, <3>2, MarkSignedRow
    <3> QED BY <1>1, <3>1, <3>2, OutsideMoves DEF KeepsSigned
  <2>2. SignsKept
    BY <1>1, <1>t, <2>1, OutsideMoves DEF SignsKept
  <2>3. CursorInv' /\ PageInv'
    BY <1>1, <2>2, PollerKeptSkips, OutsideMoves
  <2>4. IsFiniteSet(Known(signedAt)')
    <3>1. Known(signedAt)' \subseteq Known(signedAt) \cup {v}
      BY <1>1, OutsideMoves DEF Known
    <3>2. IsFiniteSet(Known(signedAt) \cup {v})
      BY FS_AddElement DEF SkipInv
    <3> QED BY <3>1, <3>2, FS_Subset
  <2>5. \A u \in Uuids : db[u].stored => db'[u].stored
    <3>1. CASE db' = store_unsigned(db, v)
      BY <1>t, <3>1, StoreUnsignedRow
    <3>2. CASE db' = mark_signed(db, v)
      BY <1>t, <3>2 DEF mark_signed, Table, Row
    <3> QED BY <1>1, <3>1, <3>2, OutsideMoves DEF KeepsSigned
  <2>6. \A u \in Uuids : db'[u].signed => db'[u].stored
    <3>1. CASE db' = store_unsigned(db, v)
      BY <1>t, <3>1, StoreUnsignedRow DEF SkipInv, StoredInv
    <3>2. CASE db' = mark_signed(db, v)
      BY <1>t, <3>2 DEF mark_signed, Table, Row, SkipInv, StoredInv
    <3> QED BY <1>1, <3>1, <3>2, OutsideMoves DEF KeepsSigned, SkipInv, StoredInv
  <2>7. \A u \in Uuids \ {v} : submit'[u] = submit[u] /\ signedAt'[u] = signedAt[u]
    BY <1>1, OutsideMoves
  <2>8. submit'[v] # "none" => db'[v].stored
    <3>1. CASE submit[v] # "none"
      BY <2>5, <3>1 DEF SkipInv, StoredInv
    <3>2. CASE submit[v] = "none" /\ submit'[v] = "stored"
      BY <1>1, <1>t, <3>2, StoreUnsignedRow DEF Outside, StoreReceipt,
         GatewaySigns, GatewayRejects, BackoffEnds, Post, RecordAnswer, Answers, apiVars
    <3> QED BY <1>1, <3>1, <3>2, OutsideMoves
  <2>9. /\ v \in accepted' => v \in accepted \/ submit[v] # "none"
        /\ \A u \in Uuids \ {v} : u \in accepted' => u \in accepted
        /\ signedAt'[v] # NULL => \/ signedAt[v] # NULL
                                  \/ v \in accepted \/ submit[v] # "none"
    BY <1>1, OutsideMoves
  <2>10. StoredInv'
    BY <2>5, <2>6, <2>7, <2>8, <2>9 DEF StoredInv, SkipInv
  <2> QED BY <2>3, <2>4, <2>10 DEF SkipInv
<1>2. CASE Clock
  <2>1. SignsKept
    BY <1>2, <1>t DEF Clock, SignsKept, apiVars
  <2>2. CursorInv' /\ PageInv'
    BY <1>2, <2>1, PollerKeptSkips DEF Clock
  <2> QED BY <1>2, <2>2 DEF Clock, apiVars, SkipInv, StoredInv, Known
<1>3. CASE PollerStep
  <2>1. UNCHANGED <<now, signedAt, submit, accepted>>
    BY <1>3 DEF PollerStep, StartPoller, EscalateSelect, EscalateStamp, EscalateFails, Gate,
       FetchRejections, FetchRejectionsFails, RecordRejection, FetchSignatures,
       FetchSignaturesFails, RecordSignature, SaveCursor, PollerOnly, apiVars
  <2>2. CASE StartPoller
    BY <1>p, <2>1, <2>2, StartPollerSkips, StartPollerMoves
  <2>3. CASE FetchSignatures
    BY <1>p, <2>1, <2>3, FetchSignaturesSkips, FetchSignaturesMoves
  <2>4. CASE RecordSignature
    BY <1>p, <2>1, <2>4, RecordSignatureSkips DEF SkipInv, StoredInv
  <2>5. CASE SaveCursor
    BY <1>p, <2>1, <2>5, SaveCursorSkips, SaveCursorMoves
  <2>6. ASSUME KeepsSigned(db, db'), poller.pc # "off",
               \A u \in Uuids : <<"signed", u>> \in unwritten =>
                                <<"signed", u>> \in unwritten',
               poller'.cursor = poller.cursor, poller'.pc \notin {"sign", "save"}
        PROVE  SkipInv'
    <3>1. CursorInv'
      BY <2>1, <2>6, CursorStays DEF KeepsSigned, DeliveryKept
    <3>2. PageInv'
      BY <2>6 DEF PageInv
    <3> QED BY <1>p, <2>1, <2>6, <3>1, <3>2 DEF KeepsSigned
  <2>7. CASE EscalateSelect \/ EscalateStamp \/ EscalateFails
    <3>1. poller.pc # "off"
      BY <2>7 DEF EscalateSelect, EscalateStamp, EscalateFails, InTick
    <3> QED BY <2>6, <2>7, <3>1, EscalateMoves DEF PollerMoves
  <2>8. CASE Gate \/ FetchRejectionsFails \/ FetchSignaturesFails
    <3>1. poller.pc # "off"
      BY <2>8 DEF Gate, FetchRejectionsFails, FetchSignaturesFails, InTick
    <3>2. KeepsSigned(db, db')
      BY <2>8, QuietMoves DEF KeepsSigned
    <3> QED BY <2>6, <2>8, <3>1, <3>2, QuietMoves DEF PollerMoves
  <2>9. CASE FetchRejections
    <3>1. poller.pc # "off"
      BY <2>9 DEF FetchRejections, InTick
    <3>2. KeepsSigned(db, db')
      BY <2>9, FetchRejectionsMoves DEF KeepsSigned
    <3> QED BY <2>6, <2>9, <3>1, <3>2, FetchRejectionsMoves DEF PollerMoves
  <2>10. CASE RecordRejection
    <3>1. poller.pc # "off"
      BY <2>10 DEF RecordRejection, InTick
    <3> QED BY <2>6, <2>10, <3>1, RecordRejectionMoves DEF PollerMoves
  <2> QED BY <1>3, <2>2, <2>3, <2>4, <2>5, <2>7, <2>8, <2>9, <2>10 DEF PollerStep
<1>4. CASE Crash
  <2>1. poller'.pc = "off" /\ UNCHANGED <<db, now, signedAt, accepted>>
    BY <1>4 DEF Crash, Off, apiVars
  <2>2. \A u \in Uuids : submit'[u] # "none" => submit[u] # "none"
    BY <1>4 DEF Crash
  <2> QED BY <2>1, <2>2 DEF SkipInv, StoredInv, CursorInv, PageInv, Known
<1>5. CASE UNCHANGED signVars
  BY <1>5 DEF signVars, apiVars, SkipInv, StoredInv, CursorInv, PageInv,
     Delivered, Forgotten, Known
<1> QED BY <1>1, <1>2, <1>3, <1>4, <1>5 DEF SignNext, Outside

\* As long as a row of the list appears no later than the buffer the cursor is
\* rolled back by, and the first request after a start reaches back further
\* than that, the poller never leaves a signature behind: not in a page cut
\* off at its limit, not when a request fails between two pages, and not when
\* the node is killed between recording a page and saving its cursor (_tick,
\* start).  Only a row whose own write raised may be passed over.
THEOREM NothingSkipped ==
    ASSUME TimesFit
    PROVE  SignSpec => []NoSignatureSkipped
<1>1. SkipInv => NoSignatureSkipped
  BY DEF SkipInv, CursorInv, Delivered, NoSignatureSkipped, InTick, Known
<1>2. SignSpec => []SignInv
  BY InitSign, SignStepType, PTL DEF SignSpec
<1>3. SignInv /\ SignInv' /\ SkipInv /\ [SignNext]_signVars => SkipInv'
  BY SkipStep
<1> QED BY <1>1, <1>2, <1>3, InitSkip, PTL DEF SignSpec
=============================================================================
