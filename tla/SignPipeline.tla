---------------------------- MODULE SignPipeline ----------------------------
(***************************************************************************)
(* How a receipt gets its signature: the submitter that posts it after the *)
(* relay closes, the poller that fetches what the gateway signed or        *)
(* rejected since, and the poller's cursor on disk                         *)
(* (app/payment/receipt_submitter.py, app/payment/poller_cursor.py).       *)
(*                                                                         *)
(* Time counts in units of the cursor buffer; the coordination API and the *)
(* gateway behind it are external.                                         *)
(***************************************************************************)
EXTENDS ReceiptStore, Integers

CONSTANTS
    Queued,                     \* receipts an earlier run of the node left
    TRANSIENT_BUDGET_ATTEMPTS,
    POLL_INITIAL_LOOKBACK,      \* also how long the gateway keeps a signature
    POLL_CURSOR_BUFFER,         \* what the cursor is rolled back by
    RestartGuard,               \* subtracted from a saved cursor
    PageLimit,                  \* rows in one answer of the API
    MaxLag,                     \* how late a row may appear in the list
    MaxTime,                    \* bound on the clock
    MaxCrashes                  \* bound

ASSUME SignAssumption ==
    /\ Queued \subseteq Uuids
    /\ TRANSIENT_BUDGET_ATTEMPTS \in Nat
    /\ POLL_INITIAL_LOOKBACK \in Nat /\ POLL_CURSOR_BUFFER \in Nat
    /\ RestartGuard \in Nat /\ PageLimit \in Nat \ {0}
    /\ MaxLag \in Nat /\ MaxTime \in Nat /\ MaxCrashes \in Nat
    /\ NULL \notin Int

VARIABLES
    now,
    accepted,           \* receipts the API has taken in for signing
    signedAt,           \* signedAt[u]: when the gateway signed u
    rejectedAt,         \* rejectedAt[u]: when it rejected u
    submit,             \* submit[u]: the submitter task of receipt u
    poller,
    saved,              \* poller_cursor.json
    unwritten,          \* what the poller tried last to write of a receipt,
                        \* and the store raised
    crashes

apiVars == <<accepted, signedAt, rejectedAt>>
signVars == <<db, now, apiVars, submit, poller, saved, unwritten, crashes>>

\* A task has nothing yet, has stored its receipt, or holds the API's answer;
\* "unrecorded" is one the code does nothing about (202, an unexpected status,
\* a body it cannot read).
Answers == {"signed", "clock_skew", "rejected", "transient", "unrecorded"}
SubmitState == {"none", "stored", "done"} \cup Answers

PollerPc == {"off", "tick", "stamp", "gate", "rejections", "reject",
             "signatures", "sign", "save"}

\* todo is what is left of the page or selection the tick is in, newest the
\* latest date on the page.
Poller == [pc              : PollerPc,
           cursor          : Int,
           rejectionCursor : Int \cup {NULL},
           todo            : SUBSET Uuids,
           newest          : Int \cup {NULL},
           anySigned       : BOOLEAN]

Off == [pc |-> "off", cursor |-> 0, rejectionCursor |-> NULL, todo |-> {},
        newest |-> NULL, anySigned |-> FALSE]

SignTypeOK ==
    /\ db \in [Uuids -> Row]
    /\ now \in Nat
    /\ accepted \subseteq Uuids
    /\ signedAt \in [Uuids -> Int \cup {NULL}]
    /\ rejectedAt \in [Uuids -> Int \cup {NULL}]
    /\ submit \in [Uuids -> SubmitState]
    /\ poller \in Poller
    /\ saved \in Int \cup {NULL}
    /\ unwritten \subseteq {"signed", "rejected"} \X Uuids
    /\ crashes \in Nat

\* What is queued is stored, and the API has taken it in.
SignInit ==
    /\ db = LET empty == [u \in Uuids |-> NoRow] IN
            [u \in Uuids |-> IF u \in Queued THEN store_unsigned(empty, u)[u]
                                              ELSE NoRow]
    /\ now = 0 /\ accepted = Queued
    /\ signedAt = [u \in Uuids |-> NULL]
    /\ rejectedAt = [u \in Uuids |-> NULL]
    /\ submit = [u \in Uuids |-> IF u \in Queued THEN "done" ELSE "none"]
    /\ poller = Off /\ saved = NULL /\ unwritten = {} /\ crashes = 0

-----------------------------------------------------------------------------
(* The coordination API and the gateway.                                   *)

Resolved(u) == signedAt[u] # NULL \/ rejectedAt[u] # NULL

\* The gateway signs or rejects a queued receipt; its row shows up in the
\* list dated up to MaxLag ago.
GatewaySigns(u) ==
    /\ u \in accepted /\ ~Resolved(u)
    /\ \E lag \in 0 .. MaxLag : signedAt' = [signedAt EXCEPT ![u] = now - lag]
    /\ UNCHANGED <<db, now, accepted, rejectedAt, submit, poller, saved, unwritten, crashes>>

GatewayRejects(u) ==
    /\ u \in accepted /\ ~Resolved(u)
    /\ rejectedAt' = [rejectedAt EXCEPT ![u] = now]
    /\ UNCHANGED <<db, now, accepted, signedAt, submit, poller, saved, unwritten, crashes>>

\* GET ...?since=cursor&limit=PageLimit: the oldest rows of the list.
Listed(at, since) == {u \in Uuids : at[u] # NULL /\ at[u] >= since}

\* v comes before u in the list.
Before(at, v, u) == at[v] < at[u] \/ (at[v] = at[u] /\ v < u)

PageOf(at, since) ==
    {u \in Listed(at, since) :
        Cardinality({v \in Listed(at, since) : Before(at, v, u)}) < PageLimit}

Newest(at, page) == CHOOSE t \in {at[u] : u \in page} : \A u \in page : at[u] <= t

Clock ==
    /\ now < MaxTime /\ now' = now + 1
    /\ UNCHANGED <<db, apiVars, submit, poller, saved, unwritten, crashes>>

\* The backoff window of u is over.
BackoffEnds(u) ==
    /\ db[u].last_attempt_at = "recent"
    /\ db' = [db EXCEPT ![u].last_attempt_at = "old"]
    /\ UNCHANGED <<now, apiVars, submit, poller, saved, unwritten, crashes>>

-----------------------------------------------------------------------------
(* ReceiptSubmitter.submit: one task for each relayed request.             *)

StoreReceipt(u) ==
    /\ submit[u] = "none"
    /\ db' = store_unsigned(db, u)
    /\ submit' = [submit EXCEPT ![u] = "stored"]
    /\ UNCHANGED <<now, apiVars, poller, saved, unwritten, crashes>>

\* _fire_submit.  The API may have taken the receipt in although its answer
\* was lost ("transient") or could not be read ("unrecorded").
Post(u) ==
    /\ submit[u] = "stored"
    /\ \E answer \in Answers :
          /\ submit' = [submit EXCEPT ![u] = answer]
          /\ \/ /\ answer \in {"transient", "unrecorded"}
                /\ accepted' = accepted \cup {u}
                /\ UNCHANGED signedAt
             \/ /\ answer = "signed"
                /\ accepted' = accepted \cup {u}
                /\ signedAt' = [signedAt EXCEPT ![u] = now]
             \/ /\ answer \in Answers \ {"signed"}
                /\ UNCHANGED <<accepted, signedAt>>
    /\ UNCHANGED <<db, now, rejectedAt, poller, saved, unwritten, crashes>>

\* What the code does with the answer; the task is over, whatever it was.
RecordAnswer(u) ==
    /\ submit[u] \in Answers
    /\ db' = CASE submit[u] = "signed"     -> mark_signed(db, u)
               [] submit[u] = "clock_skew" ->
                     mark_sign_failed(db, u, "SIGN_REJECTED_CLOCK_SKEW")
               [] submit[u] = "rejected"   ->
                     mark_sign_failed(db, u, "SIGN_REJECTED")
               [] submit[u] = "transient"  -> mark_transient_attempt(db, u)
               [] OTHER                    -> db
    /\ submit' = [submit EXCEPT ![u] = "done"]
    /\ UNCHANGED <<now, apiVars, poller, saved, unwritten, crashes>>

-----------------------------------------------------------------------------
(* ReceiptPoller.                                                          *)

PollerOnly == UNCHANGED <<now, apiVars, submit, crashes>>

InTick(pc) == poller.pc = pc

Smaller(a, b) == IF a < b THEN a ELSE b

\* Mutant: a poller without a saved cursor starts at the present.
StartPollerNow ==
    /\ InTick("off")
    /\ poller' = [Off EXCEPT !.pc = "tick",
                             !.cursor = IF saved = NULL THEN now ELSE saved]
    /\ UNCHANGED <<db, saved, unwritten>> /\ PollerOnly

StartPoller ==
    /\ InTick("off")
    /\ LET floor == now - POLL_INITIAL_LOOKBACK IN
       poller' = [Off EXCEPT
                     !.pc = "tick",
                     !.cursor = IF saved = NULL THEN floor
                                ELSE Smaller(saved - RestartGuard, floor)]
    /\ UNCHANGED <<db, saved, unwritten>> /\ PollerOnly

\* escalate_transient_budget_exhausted selects, then stamps what it selected.
EscalateSelect ==
    /\ InTick("tick")
    /\ LET us == transient_budget_exhausted(db, TRANSIENT_BUDGET_ATTEMPTS) IN
       poller' = [poller EXCEPT !.pc = IF us = {} THEN "gate" ELSE "stamp",
                                !.todo = us]
    /\ UNCHANGED <<db, saved, unwritten>> /\ PollerOnly

EscalateStamp ==
    /\ InTick("stamp")
    /\ db' = stamp_escalated(db, poller.todo, "SIGN_TRANSIENT_BUDGET_EXHAUSTED")
    /\ poller' = [poller EXCEPT !.pc = "gate", !.todo = {}]
    /\ UNCHANGED <<saved, unwritten>> /\ PollerOnly

\* The store raises; the tick goes on.
EscalateFails ==
    /\ poller.pc \in {"tick", "stamp"}
    /\ poller' = [poller EXCEPT !.pc = "gate", !.todo = {}]
    /\ UNCHANGED <<db, saved, unwritten>> /\ PollerOnly

\* Only poll when an unsigned receipt is past its backoff.
Gate ==
    /\ InTick("gate")
    /\ poller' = [poller EXCEPT
                     !.pc = IF unsigned_ready(db) = {} THEN "tick"
                            ELSE "rejections"]
    /\ UNCHANGED <<db, saved, unwritten>> /\ PollerOnly

RejectionsSince == IF poller.rejectionCursor = NULL THEN poller.cursor
                   ELSE poller.rejectionCursor

FetchRejections ==
    /\ InTick("rejections")
    /\ LET page == PageOf(rejectedAt, RejectionsSince) IN
       poller' = IF page = {} THEN [poller EXCEPT !.pc = "signatures"]
                 ELSE [poller EXCEPT
                          !.pc = "reject", !.todo = page,
                          !.newest = Newest(rejectedAt, page)]
    /\ UNCHANGED <<db, saved, unwritten>> /\ PollerOnly

\* The request fails, or the API has no such endpoint yet.
FetchRejectionsFails ==
    /\ InTick("rejections")
    /\ poller' = [poller EXCEPT !.pc = "signatures"]
    /\ UNCHANGED <<db, saved, unwritten>> /\ PollerOnly

\* Mutant: the cursor is not rolled back.
CursorAt(newest) == newest

\* A row may still appear with an earlier date.
RolledBack(newest) == newest - POLL_CURSOR_BUFFER

\* The write of one row may raise: the loop goes on with the next one.
Tried(write, written) ==
    unwritten' = IF written THEN unwritten \ {write} ELSE unwritten \cup {write}

RecordRejection ==
    /\ InTick("reject")
    /\ \E u \in poller.todo, written \in BOOLEAN :
          LET left == poller.todo \ {u} IN
          /\ db' = IF written THEN mark_sign_failed(db, u, "SIGN_REJECTED") ELSE db
          /\ Tried(<<"rejected", u>>, written)
          /\ poller' = IF left # {} THEN [poller EXCEPT !.todo = left]
                       ELSE [poller EXCEPT
                                !.pc = "signatures", !.todo = {},
                                !.newest = NULL,
                                !.rejectionCursor = RolledBack(poller.newest)]
    /\ UNCHANGED saved /\ PollerOnly

FetchSignatures ==
    /\ InTick("signatures")
    /\ LET page == PageOf(signedAt, poller.cursor) IN
       poller' = IF page = {} THEN [poller EXCEPT !.pc = "tick"]
                 ELSE [poller EXCEPT !.pc = "sign", !.todo = page,
                                     !.newest = Newest(signedAt, page)]
    /\ UNCHANGED <<db, saved, unwritten>> /\ PollerOnly

FetchSignaturesFails ==
    /\ InTick("signatures")
    /\ poller' = [poller EXCEPT !.pc = "tick"]
    /\ UNCHANGED <<db, saved, unwritten>> /\ PollerOnly

RecordSignature ==
    /\ InTick("sign")
    /\ \E u \in poller.todo, written \in BOOLEAN :
          LET left == poller.todo \ {u} IN
          /\ db' = IF written THEN mark_signed(db, u) ELSE db
          /\ Tried(<<"signed", u>>, written)
          /\ poller' = [poller EXCEPT
                           !.todo = left,
                           !.pc = IF left = {} THEN "save" ELSE "sign",
                           !.anySigned = @ \/ (written /\ db[u].stored
                                                       /\ ~db[u].signed)]
    /\ UNCHANGED saved /\ PollerOnly

\* The cursor moves to the end of the page, the disk's too if the page held
\* anything new and the file can be written.
SaveCursor ==
    /\ InTick("save")
    /\ \/ poller.anySigned /\ saved' = poller.newest
       \/ UNCHANGED saved
    /\ poller' = [poller EXCEPT !.pc = "tick", !.newest = NULL,
                                !.anySigned = FALSE,
                                !.cursor = RolledBack(poller.newest)]
    /\ UNCHANGED <<db, unwritten>> /\ PollerOnly

PollerStep ==
    \/ StartPoller \/ EscalateSelect \/ EscalateStamp \/ EscalateFails \/ Gate
    \/ FetchRejections \/ FetchRejectionsFails \/ RecordRejection
    \/ FetchSignatures \/ FetchSignaturesFails \/ RecordSignature \/ SaveCursor

\* The node dies: its submitter tasks and its poller are gone.
Crash ==
    /\ crashes < MaxCrashes /\ crashes' = crashes + 1
    /\ submit' = [u \in Uuids |->
                     IF submit[u] = "none" THEN "none" ELSE "done"]
    /\ poller' = Off
    /\ UNCHANGED <<db, now, apiVars, saved, unwritten>>

SignNext ==
    \/ \E u \in Uuids : \/ GatewaySigns(u) \/ GatewayRejects(u)
                        \/ BackoffEnds(u)
                        \/ StoreReceipt(u) \/ Post(u) \/ RecordAnswer(u)
    \/ Clock
    \/ PollerStep
    \/ Crash

SignSpec == SignInit /\ [][SignNext]_signVars

-----------------------------------------------------------------------------
\* The poller's task is scheduled, now and then the API answers, and backoff
\* windows end.
SignLiveSpec ==
    /\ SignSpec
    /\ WF_signVars(PollerStep)
    /\ SF_signVars(FetchRejections) /\ SF_signVars(FetchSignatures)
    /\ \A u \in Uuids : WF_signVars(BackoffEnds(u))

\* The row is older than the gateway keeps it.
Forgotten(at, u) == at[u] # NULL /\ at[u] < now - POLL_INITIAL_LOOKBACK

\* A whole page of rows before u is dated within one buffer: rolled back, the
\* cursor asks for the same page again.
Crowded(at, u) ==
    \E page \in SUBSET {v \in Uuids : NULL \notin {at[u], at[v]} /\ Before(at, v, u)} :
        /\ Cardinality(page) = PageLimit
        /\ \A v, w \in page : at[v] - at[w] <= POLL_CURSOR_BUFFER

\* Before a first answer with rejections the poller asks from the cursor of the
\* signatures, and that one has passed u.
Overtaken(u) ==
    /\ poller.rejectionCursor = NULL /\ rejectedAt[u] # NULL
    /\ rejectedAt[u] < poller.cursor

\* The poller never moves its cursor past a signature it has not stored:
\* whatever the gateway has signed is stored, or still in the answer to the
\* next request, or older than the gateway keeps it (_tick: the rollback, pages
\* cut at their limit; start: the guard and the 24 h floor).  The exception is
\* a row whose own write raised, which _tick logs and passes.
\* Needs MaxLag <= POLL_CURSOR_BUFFER.
NoSignatureSkipped ==
    ~InTick("off") =>
        \A u \in Uuids :
            signedAt[u] # NULL =>
                \/ db[u].signed \/ <<"signed", u>> \in unwritten
                \/ signedAt[u] >= poller.cursor
                \/ Forgotten(signedAt, u)

\* A signature of the gateway reaches the store, unless an error on the row
\* keeps the poller from asking, the gateway has forgotten it, its write
\* raised, or more signatures than a page holds fall into one buffer before it
\* (count_unsigned_ready, _tick).
SignatureArrives ==
    \A u \in Uuids :
        signedAt[u] # NULL ~>
            \/ db[u].signed \/ <<"signed", u>> \in unwritten
            \/ db[u].last_error_code # NULL
            \/ Forgotten(signedAt, u) \/ Crowded(signedAt, u)

\* A rejection is shown to the operator: the row leaves pending_sign.  The same
\* exceptions, and one more: until an answer has brought rejections the poller
\* asks for those since the last signature, and may be past this one
\* (_tick_rejections).
RejectionSurfaces ==
    \A u \in Uuids :
        rejectedAt[u] # NULL ~>
            \/ view(db[u]) # "pending_sign" \/ <<"rejected", u>> \in unwritten
            \/ Forgotten(rejectedAt, u) \/ Crowded(rejectedAt, u)
            \/ Overtaken(u)

\* One rejection by the gateway is one attempt of the receipt's budget: it
\* is charged for nothing the gateway did not decide
\* (MAX_SIGN_ATTEMPTS, mark_sign_failed).
RejectionCountedOnce ==
    \A u \in Uuids : rejectedAt[u] # NULL => db[u].sign_attempts <= 1
=============================================================================
