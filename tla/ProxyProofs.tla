----------------------------- MODULE ProxyProofs -----------------------------
(***************************************************************************)
(* Theorems about ProxyConnections, for every limit, timeout and number of *)
(* connections.                                                            *)
(***************************************************************************)
EXTENDS ProxyConnections, FiniteSetTheorems, TLAPS

-----------------------------------------------------------------------------
(* One connection.                                                         *)

Pending(p) == IF p.pc \in {"drain", "lost"} THEN 1 ELSE 0
GoodPipe(p) == p.written = p.counter + Pending(p)

\* What a handler knows of its connection: a pipe has counted all but the
\* chunk it is writing; who has not read the head has told nobody; a relay that
\* is over has two pipes that are, and a receipt for what they counted.
GoodConn(w) ==
    /\ \A d \in Directions : GoodPipe(w.pipe[d])
    /\ w.pc \in {"gone", "refuse", "head"} => ~w.counted
    /\ w.pc \in {"gone", "refuse", "head", "dial"} => ~w.target
    /\ w.pc = "forward" \/ (w.pc = "answer" /\ w.target) => w.kind = "forward"
    /\ w.pc = "bill" => \A d \in Directions : Over(w.pipe[d])
    /\ w.pc = "close" /\ w.kind = "tunnel" =>
         /\ \A d \in Directions : Over(w.pipe[d])
         /\ PaymentEnabled /\ w.named =>
              w.billed = w.pipe["up"].counter + w.pipe["down"].counter

Row == {w \in Conn : GoodConn(w)}

LEMMA PutRow ==
    ASSUME conn \in [Conns -> Row], NEW c \in Conns, NEW r \in Row, Proceed(c, r)
    PROVE  /\ conn' \in [Conns -> Row]
           /\ conn'[c] = r
           /\ \A e \in Conns \ {c} : conn'[e] = conn[e]
BY DEF Proceed

LEMMA GoneRow == Gone \in Row
BY ProxyAssumption
   DEF Gone, Row, Conn, ConnPc, Pipe, NewPipe, GoodConn, GoodPipe, Pending, Directions

\* A step between the awaits of handle_client that leaves the pipes alone.
LEMMA MoveRow ==
    ASSUME NEW w \in Row, NEW pc \in ConnPc, NEW kind \in {"tunnel", "forward"},
           NEW counted \in BOOLEAN, NEW named \in BOOLEAN, NEW target \in BOOLEAN,
           NEW r, r = [w EXCEPT !.pc = pc, !.kind = kind, !.counted = counted,
                                !.named = named, !.target = target],
           pc \in {"gone", "refuse", "head"} => ~counted,
           pc \in {"gone", "refuse", "head", "dial"} => ~target,
           pc = "forward" \/ (pc = "answer" /\ target) => kind = "forward",
           pc # "bill",
           pc = "close" => kind = "forward"
    PROVE  r \in Row /\ r.pc = pc /\ r.counted = counted
<1>1. r \in Conn /\ r.pipe = w.pipe /\ r.pc = pc /\ r.kind = kind /\ r.counted = counted
      /\ r.target = target
  BY DEF Row, Conn
<1>2. \A d \in Directions : GoodPipe(r.pipe[d])
  BY <1>1 DEF Row, GoodConn
<1> QED BY <1>1, <1>2 DEF Row, GoodConn

LEMMA EndedPipe ==
    ASSUME NEW p \in Pipe, GoodPipe(p)
    PROVE  Ended(p) \in Pipe /\ GoodPipe(Ended(p)) /\ Over(Ended(p))
           /\ Ended(p).written = p.written /\ Ended(p).counter = p.counter
<1>1. CASE p.pc = "read"
  BY <1>1 DEF Ended, Pipe, GoodPipe, Pending, Over
<1>2. CASE p.pc = "drain"
  BY <1>2 DEF Ended, Pipe, GoodPipe, Pending, Over
<1>3. CASE p.pc \in {"ended", "lost"}
  <2>1. Ended(p) = [p EXCEPT !.pc = p.pc]
    BY <1>3 DEF Ended
  <2>2. Ended(p) = p
    BY <2>1 DEF Pipe
  <2> QED BY <1>3, <2>2 DEF Over
<1> QED BY <1>1, <1>2, <1>3 DEF Pipe

\* A step of one pipe during the relay.
LEMMA PipeRow ==
    ASSUME NEW w \in Row, w.pc = "relay", NEW d \in Directions, NEW p \in Pipe, GoodPipe(p)
    PROVE  [w EXCEPT !.pipe[d] = p] \in Row /\ [w EXCEPT !.pipe[d] = p].pc = "relay"
           /\ [w EXCEPT !.pipe[d] = p].counted = w.counted
<1> DEFINE r == [w EXCEPT !.pipe[d] = p]
<1>1. /\ r \in Conn /\ r.pc = "relay" /\ r.pipe = [w.pipe EXCEPT ![d] = p]
      /\ r.counted = w.counted
  BY DEF Row, Conn
<1>2. w.pipe \in [Directions -> Pipe] /\ \A e \in Directions : GoodPipe(w.pipe[e])
  BY DEF Row, Conn, GoodConn
<1> HIDE DEF r
<1>3. \A e \in Directions : GoodPipe(r.pipe[e])
  BY <1>1, <1>2
<1>4. r \in Row
  BY <1>1, <1>3 DEF Row, GoodConn
<1> QED BY <1>1, <1>4 DEF r

LEMMA GotoRow ==
    ASSUME NEW w \in Row, NEW pc \in ConnPc,
           pc \in {"gone", "refuse", "head"} => ~w.counted,
           pc \in {"gone", "refuse", "head", "dial"} => ~w.target,
           pc = "forward" \/ (pc = "answer" /\ w.target) => w.kind = "forward",
           pc # "bill",
           pc = "close" => w.kind = "forward"
    PROVE  /\ [w EXCEPT !.pc = pc] \in Row
           /\ [w EXCEPT !.pc = pc].pc = pc /\ [w EXCEPT !.pc = pc].counted = w.counted
<1> DEFINE r == [w EXCEPT !.pc = pc]
<1>1. r \in Conn /\ r.pipe = w.pipe /\ r.pc = pc /\ r.kind = w.kind
      /\ r.counted = w.counted /\ r.target = w.target
  BY DEF Row, Conn
<1>2. \A d \in Directions : GoodPipe(r.pipe[d])
  BY <1>1 DEF Row, GoodConn
<1> HIDE DEF r
<1>3. r \in Row
  BY <1>1, <1>2 DEF Row, GoodConn
<1> QED BY <1>1, <1>3 DEF r

-----------------------------------------------------------------------------
(* The accounts.                                                           *)

Inside(cn) == {c \in Conns : cn[c].pc \notin {"gone", "refuse"}}
Served(cn) == {c \in Conns : cn[c].pc \notin {"gone", "refuse", "release"}}
Shown(cn) == {c \in Served(cn) : cn[c].counted}

Balanced(p, a, s, cn) ==
    /\ p + Cardinality(Inside(cn)) = MAX_CONNECTIONS
    /\ a = Cardinality(Served(cn))
    /\ s = Cardinality(Shown(cn))

LEMMA BalancedIs == Balanced(permits, active, shown, conn) <=> AccountsBalance
<1>1. Inside(conn) = {c \in Conns : conn[c].pc \notin {"gone", "refuse"}}
  BY DEF Inside
<1>2. Served(conn) = {c \in Inside(conn) : ~At(c, "release")}
  BY DEF Inside, Served, At
<1>3. Shown(conn) = {c \in Served(conn) : conn[c].counted}
  BY DEF Shown
<1> QED BY <1>1, <1>2, <1>3 DEF Balanced, AccountsBalance

LEMMA CountsFinite ==
    ASSUME NEW cn
    PROVE  /\ IsFiniteSet(Inside(cn)) /\ IsFiniteSet(Served(cn)) /\ IsFiniteSet(Shown(cn))
           /\ Cardinality(Inside(cn)) \in Nat /\ Cardinality(Served(cn)) \in Nat
           /\ Cardinality(Shown(cn)) \in Nat
<1>1. /\ Inside(cn) \in SUBSET Conns /\ Served(cn) \in SUBSET Conns
      /\ Shown(cn) \in SUBSET Conns
  BY DEF Inside, Served, Shown
<1>2. IsFiniteSet(Conns)
  BY ProxyAssumption
<1> QED BY <1>1, <1>2, FS_Subset, FS_CardinalityType

\* The row of a connection changes, and with it the classes it belongs to.
LEMMA ClassStep ==
    ASSUME conn \in [Conns -> Row], NEW c \in Conns, NEW r \in Row, Proceed(c, r)
    PROVE  /\ Inside(conn') = IF r.pc \notin {"gone", "refuse"}
                              THEN Inside(conn) \cup {c} ELSE Inside(conn) \ {c}
           /\ Served(conn') = IF r.pc \notin {"gone", "refuse", "release"}
                              THEN Served(conn) \cup {c} ELSE Served(conn) \ {c}
           /\ Shown(conn') = IF r.pc \notin {"gone", "refuse", "release"} /\ r.counted
                             THEN Shown(conn) \cup {c} ELSE Shown(conn) \ {c}
<1>1. conn'[c] = r /\ \A e \in Conns \ {c} : conn'[e] = conn[e]
  BY PutRow
<1> QED BY <1>1 DEF Inside, Served, Shown

ProxyInv == /\ conn \in [Conns -> Row]
            /\ permits \in 0..MAX_CONNECTIONS /\ active \in Nat /\ shown \in Nat
            /\ Balanced(permits, active, shown, conn)

\* A step between two awaits that neither comes nor goes.
LEMMA Within ==
    ASSUME ProxyInv, NEW c \in Conns, NEW r \in Row, Proceed(c, r), UNCHANGED accounts,
           r.pc \in {"gone", "refuse"} <=> conn[c].pc \in {"gone", "refuse"},
           r.pc # "release" /\ conn[c].pc # "release",
           r.counted = conn[c].counted
    PROVE  ProxyInv'
<1>1. /\ Inside(conn') = Inside(conn) /\ Served(conn') = Served(conn)
      /\ Shown(conn') = Shown(conn)
  BY ClassStep DEF ProxyInv, Inside, Served, Shown
<1> QED BY <1>1, PutRow DEF ProxyInv, Balanced, accounts

LEMMA ProxyStep ==
    ASSUME ProxyInv, [ProxyNext]_proxyVars
    PROVE  ProxyInv'
<1>. conn \in [Conns -> Row] /\ Balanced(permits, active, shown, conn)
  BY DEF ProxyInv
<1>. \A c \in Conns : conn[c] \in Row /\ GoodConn(conn[c]) /\ conn[c] \in Conn
  BY DEF Row
<1>1. ASSUME NEW c \in Conns, Arrive(c) PROVE ProxyInv'
  <2>0. conn[c].pc = "gone" /\ ~conn[c].counted /\ ~conn[c].target
    BY <1>1 DEF Arrive, At, GoodConn
  <2>1. CASE permits = 0
    <3> DEFINE r == [conn[c] EXCEPT !.pc = "refuse"]
    <3>1. r \in Row /\ r.pc = "refuse" /\ r.counted = conn[c].counted
      BY <2>0, GotoRow DEF ConnPc
    <3>2. Proceed(c, r) /\ UNCHANGED accounts
      BY <1>1, <2>1 DEF Arrive, Goto
    <3> HIDE DEF r
    <3> QED BY <2>0, <3>1, <3>2, Within
  <2>2. CASE permits # 0
    <3> DEFINE r == [conn[c] EXCEPT !.pc = "head"]
    <3>1. r \in Row /\ r.pc = "head" /\ ~r.counted
      BY <2>0, GotoRow DEF ConnPc
    <3>2. Proceed(c, r) /\ permits' = permits - 1 /\ active' = active + 1 /\ shown' = shown
      BY <1>1, <2>2 DEF Arrive, Goto
    <3> HIDE DEF r
    <3>3. /\ Inside(conn') = Inside(conn) \cup {c} /\ c \notin Inside(conn)
          /\ Served(conn') = Served(conn) \cup {c} /\ c \notin Served(conn)
          /\ Shown(conn') = Shown(conn) \ {c} /\ c \notin Shown(conn)
      BY <2>0, <3>1, <3>2, ClassStep DEF Inside, Served, Shown
    <3>4. /\ Cardinality(Inside(conn')) = Cardinality(Inside(conn)) + 1
          /\ Cardinality(Served(conn')) = Cardinality(Served(conn)) + 1
          /\ Shown(conn') = Shown(conn)
      <4>1. IsFiniteSet(Inside(conn)) /\ IsFiniteSet(Served(conn))
        BY CountsFinite
      <4>2. Cardinality(Inside(conn) \cup {c}) = Cardinality(Inside(conn)) + 1
        BY <3>3, <4>1, FS_AddElement
      <4>3. Cardinality(Served(conn) \cup {c}) = Cardinality(Served(conn)) + 1
        BY <3>3, <4>1, FS_AddElement
      <4> QED BY <3>3, <4>2, <4>3
    <3>5. conn' \in [Conns -> Row]
      BY <3>1, <3>2, PutRow
    <3> QED BY <2>2, <3>2, <3>4, <3>5, CountsFinite, ProxyAssumption DEF ProxyInv, Balanced
  <2> QED BY <2>1, <2>2
<1>2. ASSUME NEW c \in Conns, Refuse(c) PROVE ProxyInv'
  <2>1. conn[c].pc = "refuse" /\ ~conn[c].counted /\ Proceed(c, Gone) /\ UNCHANGED accounts
    BY <1>2 DEF Refuse, At, GoodConn
  <2>2. Gone.pc = "gone" /\ ~Gone.counted
    BY DEF Gone
  <2>3. Gone.counted = conn[c].counted
    BY <2>1, <2>2 DEF Gone, Conn
  <2> QED BY <2>1, <2>2, <2>3, GoneRow, Within
<1>3. ASSUME NEW c \in Conns, NEW pc \in ConnPc \ {"gone", "refuse", "release", "bill"},
             Goto(c, pc), UNCHANGED accounts,
             conn[c].pc \notin {"gone", "refuse", "release"},
             pc = "head" => ~conn[c].counted,
             pc \in {"head", "dial"} => ~conn[c].target,
             pc = "forward" \/ (pc = "answer" /\ conn[c].target) => conn[c].kind = "forward",
             pc = "close" => conn[c].kind = "forward"
      PROVE  ProxyInv'
  <2> DEFINE r == [conn[c] EXCEPT !.pc = pc]
  <2>1. r \in Row /\ r.pc = pc /\ r.counted = conn[c].counted
    BY <1>3, GotoRow
  <2>2. Proceed(c, r)
    BY <1>3 DEF Goto
  <2> HIDE DEF r
  <2> QED BY <1>3, <2>1, <2>2, Within
<1>4. ASSUME NEW c \in Conns, HeadUnreadable(c) PROVE ProxyInv'
  BY <1>3, <1>4 DEF HeadUnreadable, At, ConnPc, GoodConn
<1>5. ASSUME NEW c \in Conns, HeadRead(c) PROVE ProxyInv'
  <2>1. PICK kind \in {"tunnel", "forward"}, counted \in BOOLEAN, named \in BOOLEAN,
             pc \in {"answer", "dial", "count"} :
          /\ Proceed(c, [conn[c] EXCEPT !.pc = pc, !.kind = kind,
                                        !.counted = counted, !.named = named])
          /\ shown' = shown + (IF counted THEN 1 ELSE 0)
    BY <1>5 DEF HeadRead
  <2> DEFINE r == [conn[c] EXCEPT !.pc = pc, !.kind = kind,
                                  !.counted = counted, !.named = named]
  <2>2. conn[c].pc = "head" /\ ~conn[c].counted /\ ~conn[c].target
        /\ UNCHANGED <<permits, active>>
    BY <1>5 DEF HeadRead, At, GoodConn
  <2>3. r \in Conn /\ r.pc = pc /\ r.counted = counted /\ r.pipe = conn[c].pipe
        /\ r.target = conn[c].target
    BY DEF Conn, ConnPc
  <2>4. Proceed(c, r)
    BY <2>1
  <2> HIDE DEF r
  <2>5. r \in Row
    BY <2>2, <2>3 DEF Row, GoodConn
  <2>6. /\ Inside(conn') = Inside(conn) /\ Served(conn') = Served(conn)
        /\ Shown(conn') = IF counted THEN Shown(conn) \cup {c} ELSE Shown(conn)
        /\ c \notin Shown(conn)
    BY <2>2, <2>3, <2>4, <2>5, ClassStep DEF Inside, Served, Shown
  <2>7. Cardinality(Shown(conn'))
          = Cardinality(Shown(conn)) + (IF counted THEN 1 ELSE 0)
    <3>1. IsFiniteSet(Shown(conn)) /\ Cardinality(Shown(conn)) \in Nat
      BY CountsFinite
    <3>2. Cardinality(Shown(conn) \cup {c}) = Cardinality(Shown(conn)) + 1
      BY <2>6, <3>1, FS_AddElement
    <3> QED BY <2>6, <3>1, <3>2
  <2>8. conn' \in [Conns -> Row]
    BY <2>4, <2>5, PutRow
  <2> QED BY <2>1, <2>2, <2>6, <2>7, <2>8 DEF ProxyInv, Balanced
<1>6. ASSUME NEW c \in Conns, Answer(c) PROVE ProxyInv'
  BY <1>3, <1>6 DEF Answer, At, ConnPc, GoodConn
<1>7. ASSUME NEW c \in Conns, Dial(c) PROVE ProxyInv'
  <2>1. conn[c].pc = "dial" /\ ~conn[c].target /\ UNCHANGED accounts
    BY <1>7 DEF Dial, At, GoodConn
  <2>2. CASE Goto(c, "answer") \/ Goto(c, "count")
    BY <1>3, <2>1, <2>2 DEF ConnPc
  <2>3. CASE Proceed(c, [conn[c] EXCEPT !.target = TRUE,
                           !.pc = IF conn[c].kind = "tunnel" THEN "greet" ELSE "forward"])
    <3> DEFINE pc == IF conn[c].kind = "tunnel" THEN "greet" ELSE "forward"
               r == [conn[c] EXCEPT !.target = TRUE, !.pc = pc]
    <3>1. pc \in {"greet", "forward"} /\ (pc = "forward" => conn[c].kind = "forward")
      BY DEF Conn
    <3>2. Proceed(c, r)
      BY <2>3
    <3> HIDE DEF pc
    <3>3. r \in Conn /\ r.pc = pc /\ r.counted = conn[c].counted /\ r.pipe = conn[c].pipe
          /\ r.kind = conn[c].kind
      BY <3>1 DEF Conn, ConnPc
    <3> HIDE DEF r
    <3>4. r \in Row
      BY <3>1, <3>3 DEF Row, GoodConn
    <3> QED BY <2>1, <3>1, <3>2, <3>3, <3>4, Within
  <2> QED BY <1>7, <2>2, <2>3 DEF Dial
<1>8. ASSUME NEW c \in Conns, Forward(c) PROVE ProxyInv'
  BY <1>3, <1>8 DEF Forward, At, ConnPc, GoodConn
<1>9. ASSUME NEW c \in Conns, CloseTarget(c) PROVE ProxyInv'
  <2> DEFINE r == [conn[c] EXCEPT !.pc = "count", !.target = FALSE]
  <2>1. conn[c].pc = "close" /\ Proceed(c, r) /\ UNCHANGED accounts
    BY <1>9 DEF CloseTarget, At
  <2>2. r \in Conn /\ r.pc = "count" /\ r.counted = conn[c].counted /\ r.pipe = conn[c].pipe
    BY DEF Conn, ConnPc
  <2> HIDE DEF r
  <2>3. r \in Row
    BY <2>2 DEF Row, GoodConn
  <2> QED BY <2>1, <2>2, <2>3, Within
<1>10. ASSUME NEW c \in Conns, CountDown(c) PROVE ProxyInv'
  <2> DEFINE r == [conn[c] EXCEPT !.pc = "release"]
  <2>1. r \in Row /\ r.pc = "release"
    BY GotoRow DEF ConnPc
  <2>2. /\ conn[c].pc = "count" /\ Proceed(c, r) /\ active' = active - 1
        /\ shown' = (IF conn[c].counted /\ shown > 0 THEN shown - 1 ELSE shown)
        /\ permits' = permits
    BY <1>10 DEF CountDown, At, Goto
  <2> HIDE DEF r
  <2>3. /\ Inside(conn') = Inside(conn)
        /\ Served(conn') = Served(conn) \ {c} /\ c \in Served(conn)
        /\ Shown(conn') = Shown(conn) \ {c}
        /\ c \in Shown(conn) <=> conn[c].counted
    BY <2>1, <2>2, ClassStep DEF Inside, Served, Shown
  <2>4. /\ Cardinality(Served(conn')) = Cardinality(Served(conn)) - 1
        /\ Cardinality(Shown(conn')) = IF conn[c].counted THEN Cardinality(Shown(conn)) - 1
                                       ELSE Cardinality(Shown(conn))
    BY <2>3, CountsFinite, FS_RemoveElement
  <2>5. /\ Cardinality(Served(conn)) \in Nat /\ Cardinality(Shown(conn)) \in Nat
        /\ Cardinality(Served(conn')) \in Nat /\ Cardinality(Shown(conn')) \in Nat
    BY CountsFinite
  <2>6. conn' \in [Conns -> Row]
    BY <2>1, <2>2, PutRow
  <2> QED BY <2>2, <2>3, <2>4, <2>5, <2>6 DEF ProxyInv, Balanced
<1>11. ASSUME NEW c \in Conns, Release(c) PROVE ProxyInv'
  <2>1. /\ conn[c].pc = "release" /\ Proceed(c, Gone) /\ permits' = permits + 1
        /\ UNCHANGED <<active, shown>>
    BY <1>11 DEF Release, At
  <2>2. Gone.pc = "gone"
    BY DEF Gone
  <2>3. /\ Inside(conn') = Inside(conn) \ {c} /\ c \in Inside(conn)
        /\ Served(conn') = Served(conn) /\ Shown(conn') = Shown(conn)
    BY <2>1, <2>2, GoneRow, ClassStep DEF Inside, Served, Shown
  <2>4. Cardinality(Inside(conn')) = Cardinality(Inside(conn)) - 1
    BY <2>3, CountsFinite, FS_RemoveElement
  <2>5. Cardinality(Inside(conn)) \in Nat /\ Cardinality(Inside(conn')) \in Nat
    BY CountsFinite
  <2>6. conn' \in [Conns -> Row]
    BY <2>1, GoneRow, PutRow
  <2> QED BY <2>1, <2>3, <2>4, <2>5, <2>6, ProxyAssumption DEF ProxyInv, Balanced
<1>12. ASSUME NEW c \in Conns, Greet(c) PROVE ProxyInv'
  BY <1>3, <1>12 DEF Greet, At, ConnPc, GoodConn
<1>13. ASSUME NEW c \in Conns, RelayOver(c) \/ RelayTimesOut(c) PROVE ProxyInv'
  <2>1. At(c, "relay") /\ RelayCancelled(c) /\ UNCHANGED accounts
    BY <1>13 DEF RelayOver, RelayTimesOut
  <2> DEFINE ends == [d \in Directions |-> Ended(conn[c].pipe[d])]
             r == [conn[c] EXCEPT !.pc = "bill", !.pipe = ends]
  <2>2. \A d \in Directions : conn[c].pipe[d] \in Pipe /\ GoodPipe(conn[c].pipe[d])
    BY DEF Conn, GoodConn
  <2>3. /\ ends \in [Directions -> Pipe]
        /\ \A d \in Directions : GoodPipe(ends[d]) /\ Over(ends[d])
    BY <2>2, EndedPipe
  <2>4. Proceed(c, r)
    BY <2>1 DEF RelayCancelled
  <2> HIDE DEF ends
  <2>5. r \in Conn /\ r.pc = "bill" /\ r.counted = conn[c].counted /\ r.pipe = ends
    BY <2>3 DEF Conn, ConnPc
  <2> HIDE DEF r
  <2>6. r \in Row
    BY <2>3, <2>5 DEF Row, GoodConn
  <2> QED BY <2>1, <2>4, <2>5, <2>6, Within DEF At
<1>14. ASSUME NEW c \in Conns, Passes(c) PROVE ProxyInv'
  <2> DEFINE r == [conn[c] EXCEPT !.age = @ + 1]
  <2>1. /\ conn[c].pc = "relay" /\ Proceed(c, r) /\ UNCHANGED accounts
        /\ conn[c].age < RELAY_TIMEOUT
    BY <1>14 DEF Passes, At
  <2>2. conn[c].age + 1 \in 0..RELAY_TIMEOUT
    BY <2>1, ProxyAssumption DEF Conn
  <2>3. r \in Conn /\ r.pc = "relay" /\ r.counted = conn[c].counted /\ r.pipe = conn[c].pipe
    BY <2>1, <2>2 DEF Conn
  <2> HIDE DEF r
  <2>4. r \in Row
    BY <2>3 DEF Row, GoodConn
  <2> QED BY <2>1, <2>3, <2>4, Within
<1>15. ASSUME NEW c \in Conns, Bill(c) PROVE ProxyInv'
  <2> DEFINE b == IF PaymentEnabled /\ conn[c].named THEN Amount(c) ELSE 0
             r == [conn[c] EXCEPT !.pc = "close", !.billed = b]
  <2>1. conn[c].pc = "bill" /\ Proceed(c, r) /\ UNCHANGED accounts
    BY <1>15 DEF Bill, At
  <2>2. \A d \in Directions : conn[c].pipe[d].counter \in Nat
    BY ProxyAssumption DEF Conn, Pipe
  <2>3. b \in Nat /\ (PaymentEnabled /\ conn[c].named =>
                        b = conn[c].pipe["up"].counter + conn[c].pipe["down"].counter)
    BY <2>2 DEF Amount, Directions
  <2> HIDE DEF b
  <2>4. /\ r \in Conn /\ r.pc = "close" /\ r.counted = conn[c].counted
        /\ r.pipe = conn[c].pipe /\ r.billed = b /\ r.named = conn[c].named
    BY <2>3 DEF Conn, ConnPc
  <2> HIDE DEF r
  <2>5. r \in Row
    BY <2>1, <2>3, <2>4 DEF Row, GoodConn
  <2> QED BY <2>1, <2>4, <2>5, Within
<1>16. ASSUME NEW c \in Conns, NEW d \in Directions,
              PipeReads(c, d) \/ PipeDrained(c, d) \/ PipeEnds(c, d)
       PROVE  ProxyInv'
  <2>1. conn[c].pipe[d] \in Pipe /\ GoodPipe(conn[c].pipe[d])
    BY DEF Conn, GoodConn
  <2>2. PICK p \in Pipe : /\ GoodPipe(p) /\ Proceed(c, SetPipe(c, d, p))
                          /\ conn[c].pc = "relay" /\ UNCHANGED accounts
    <3>1. CASE PipeReads(c, d)
      <4> DEFINE old == conn[c].pipe[d]
                 p == [old EXCEPT !.pc = "drain", !.written = @ + 1]
      <4>1. /\ old.written \in 0..MaxChunks /\ old.counter \in 0..MaxChunks
            /\ MaxChunks \in Nat
        BY <2>1, ProxyAssumption DEF Pipe
      <4>2. /\ p.pc = "drain" /\ p.written = old.written + 1
            /\ p.counter = old.counter
        BY <2>1 DEF Pipe
      <4>3. old.written = old.counter /\ old.written < MaxChunks
        BY <2>1, <3>1, <4>1 DEF PipeReads, GoodPipe, Pending
      <4>4. p.written \in 0..MaxChunks
        BY <4>1, <4>2, <4>3
      <4>5. p \in Pipe
        BY <2>1, <4>2, <4>4 DEF Pipe
      <4>6. GoodPipe(p)
        BY <4>1, <4>2, <4>3 DEF GoodPipe, Pending
      <4> QED BY <3>1, <4>5, <4>6 DEF PipeReads, At
    <3>2. CASE PipeDrained(c, d)
      <4> DEFINE old == conn[c].pipe[d]
                 p == [old EXCEPT !.pc = "read", !.counter = @ + 1]
      <4>1. /\ old.written \in 0..MaxChunks /\ old.counter \in 0..MaxChunks
            /\ MaxChunks \in Nat
        BY <2>1, ProxyAssumption DEF Pipe
      <4>2. /\ p.pc = "read" /\ p.counter = old.counter + 1
            /\ p.written = old.written
        BY <2>1 DEF Pipe
      <4>3. old.written = old.counter + 1
        BY <2>1, <3>2, <4>1 DEF PipeDrained, GoodPipe, Pending
      <4>4. p.counter \in 0..MaxChunks
        BY <4>1, <4>2, <4>3
      <4>5. p \in Pipe
        BY <2>1, <4>2, <4>4 DEF Pipe
      <4>6. GoodPipe(p)
        BY <4>1, <4>2, <4>3 DEF GoodPipe, Pending
      <4> QED BY <3>2, <4>5, <4>6 DEF PipeDrained, At
    <3>3. CASE PipeEnds(c, d)
      BY <2>1, <3>3, EndedPipe DEF PipeEnds, At
    <3> QED BY <1>16, <3>1, <3>2, <3>3
  <2>3. SetPipe(c, d, p) \in Row /\ SetPipe(c, d, p).pc = "relay"
        /\ SetPipe(c, d, p).counted = conn[c].counted
    BY <2>2, PipeRow DEF SetPipe
  <2> QED BY <2>2, <2>3, Within
<1>17. CASE UNCHANGED proxyVars
  BY <1>17 DEF proxyVars, ProxyInv
<1> QED
  BY <1>1, <1>2, <1>4, <1>5, <1>6, <1>7, <1>8, <1>9, <1>10, <1>11, <1>12, <1>13,
     <1>14, <1>15, <1>16, <1>17 DEF ProxyNext

LEMMA InitInv == ProxyInit => ProxyInv
<1> SUFFICES ASSUME ProxyInit PROVE ProxyInv
  OBVIOUS
<1>1. \A c \in Conns : conn[c].pc = "gone"
  BY DEF ProxyInit, Gone
<1>2. Inside(conn) = {} /\ Served(conn) = {} /\ Shown(conn) = {}
  BY <1>1 DEF Inside, Served, Shown
<1> QED BY <1>2, GoneRow, FS_EmptySet, ProxyAssumption DEF ProxyInit, ProxyInv, Balanced

LEMMA ProxyAlways == ProxySpec => []ProxyInv
BY InitInv, ProxyStep, PTL DEF ProxySpec

\* Every variable keeps its type: no counter goes below zero, and no permit is
\* given back twice.
THEOREM ProxyTypes == ProxySpec => []ProxyTypeOK
<1>1. ProxyInv => ProxyTypeOK
  BY DEF ProxyInv, ProxyTypeOK, Row
<1> QED BY <1>1, ProxyAlways, PTL

\* The three accounts of connections agree with the connections there are, on
\* every way out of handle_client.
THEOREM Accounts == ProxySpec => []AccountsBalance
<1>1. ProxyInv => AccountsBalance
  BY BalancedIs DEF ProxyInv
<1> QED BY <1>1, ProxyAlways, PTL

\* A receipt is for all chunks of both directions, but for the one that a
\* direction was still writing when the tunnel ended (relay_streams).
THEOREM Billed == ProxySpec => []BilledWasCarried
<1>1. ASSUME ProxyInv, NEW c \in Conns, At(c, "close"), conn[c].kind = "tunnel",
             conn[c].named, PaymentEnabled
      PROVE  conn[c].billed + Cardinality({d \in Directions : conn[c].pipe[d].pc = "lost"})
               = conn[c].pipe["up"].written + conn[c].pipe["down"].written
  <2> DEFINE up == conn[c].pipe["up"]
             down == conn[c].pipe["down"]
             L == {d \in Directions : conn[c].pipe[d].pc = "lost"}
  <2>1. conn[c] \in Conn /\ GoodConn(conn[c])
    BY <1>1 DEF ProxyInv, Row
  <2>2. /\ up \in Pipe /\ down \in Pipe /\ GoodPipe(up) /\ GoodPipe(down)
        /\ Over(up) /\ Over(down) /\ conn[c].billed = up.counter + down.counter
    BY <1>1, <2>1 DEF At, GoodConn, Conn, Directions
  <2>3. Cardinality(L) = Pending(up) + Pending(down)
    <3>1. /\ Pending(up) = IF up.pc = "lost" THEN 1 ELSE 0
          /\ Pending(down) = IF down.pc = "lost" THEN 1 ELSE 0
      BY <2>2 DEF Pending, Over
    <3>2. /\ "up" \in L <=> up.pc = "lost"
          /\ "down" \in L <=> down.pc = "lost"
          /\ L \subseteq {"up", "down"}
      BY DEF Directions
    <3> HIDE DEF L, up, down
    <3>3. CASE L = {}
      <4>1. Cardinality(L) = 0
        BY <3>3, FS_EmptySet
      <4> QED BY <3>1, <3>2, <3>3, <4>1
    <3>4. CASE L = {"up"} \/ L = {"down"}
      <4>1. Cardinality(L) = 1
        BY <3>4, FS_Singleton
      <4> QED BY <3>1, <3>2, <3>4, <4>1
    <3>5. CASE L = {"up", "down"}
      <4>1. IsFiniteSet({"up"}) /\ Cardinality({"up"}) = 1 /\ "down" \notin {"up"}
        BY FS_Singleton
      <4>2. Cardinality({"up"} \cup {"down"}) = 2
        BY <4>1, FS_AddElement
      <4>3. L = {"up"} \cup {"down"}
        BY <3>5
      <4> QED BY <3>1, <3>2, <3>5, <4>2, <4>3
    <3> QED BY <3>2, <3>3, <3>4, <3>5
  <2>4. /\ up.written \in Nat /\ down.written \in Nat
        /\ up.counter \in Nat /\ down.counter \in Nat
    BY <2>2, ProxyAssumption DEF Pipe
  <2> QED BY <2>2, <2>3, <2>4 DEF GoodPipe, Pending
<1>2. ProxyInv => BilledWasCarried
  BY <1>1 DEF BilledWasCarried
<1> QED BY <1>2, ProxyAlways, PTL
=============================================================================
