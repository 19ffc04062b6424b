--------------------------- MODULE NodeHomeProofs ---------------------------
(***************************************************************************)
(* Theorems about NodeHome, for any number of processes, calls and keys.   *)
(***************************************************************************)
EXTENDS NodeHome, TLAPS

-----------------------------------------------------------------------------
(* What a step does to the row of its thread.                              *)

\* A thread that goes on to write, or to use, a key has one.
Busy == {"generated", "write", "migrate", "writeTmp", "replace", "have"}
Row == {w \in Thread : w.pc \in Busy => w.id \in Keys}

Put(t, r) == thread' = [thread EXCEPT ![t] = r]

LEMMA PutRow ==
    ASSUME thread \in [Threads -> Row], NEW t \in Threads, NEW r \in Row, Put(t, r)
    PROVE  /\ thread' \in [Threads -> Row]
           /\ thread'[t] = r
           /\ \A u \in Threads \ {t} : thread'[u] = thread[u]
BY DEF Put

LEMMA ZeroKey == 0 \in Keys
BY HomeAssumption DEF Keys

LEMMA IdleRow == Idle \in Row
BY DEF Idle, Row, Thread, Pcs, Busy

LEMMA Moves ==
    ASSUME NEW w \in Row, NEW k \in Keys, NEW b \in BOOLEAN
    PROVE  /\ \A pc \in {"copy", "look", "wipe", "unlink", "idle", "running"} :
                 [w EXCEPT !.pc = pc] \in Row
           /\ [w EXCEPT !.pc = "look", !.then = "wipe"] \in Row
           /\ [w EXCEPT !.pc = "look", !.then = "register", !.bare = b] \in Row
           /\ [w EXCEPT !.pc = "copy", !.then = "copy"] \in Row
           /\ [w EXCEPT !.pc = "write", !.fd = "key", !.id = k] \in Row
           /\ [w EXCEPT !.pc = "generated", !.id = k, !.seal = b] \in Row
           /\ [w EXCEPT !.pc = "migrate", !.id = k] \in Row
           /\ w.pc \in Busy =>
                /\ [w EXCEPT !.pc = "write", !.fd = "key"] \in Row
                /\ [w EXCEPT !.pc = "writeTmp", !.fd = "tmp"] \in Row
                /\ [w EXCEPT !.pc = "replace", !.fd = "none"] \in Row
           /\ \A fd \in {"none", "key", "tmp", "gone"}, o \in BOOLEAN :
                 [w EXCEPT !.fd = fd, !.orphan = o] \in Row
           /\ \A fd \in {"none", "key", "tmp", "gone"} : [w EXCEPT !.fd = fd] \in Row
BY DEF Row, Thread, Busy, Pcs

\* load_or_create_identity returns: to register, to wipe, or to nothing else.
LEMMA ReturnsRow ==
    ASSUME NEW w \in Row, NEW id \in Keys
    PROVE  /\ Returns(w, id) \in Row
           /\ Returns(w, id).fd = "none"
           /\ Returns(w, id).pc \in {"have", "wipe", "idle"}
           /\ Returns(w, id).pc = "have" =>
                /\ w.then = "register" /\ Returns(w, id).then = "register"
                /\ Returns(w, id).id = id /\ Returns(w, id).orphan = w.orphan
                /\ Returns(w, id).bare = w.bare
           /\ Returns(w, id).pc # "have" => Returns(w, id).then = "nothing"
<1>1. CASE w.then = "register"
  <2>1. Returns(w, id) = [w EXCEPT !.pc = "have", !.id = id, !.fd = "none", !.seal = FALSE]
    BY <1>1 DEF Returns
  <2> QED BY <1>1, <2>1 DEF Thread, Row, Busy, Pcs
<1>2. CASE w.then = "wipe"
  <2>1. Returns(w, id) = [Idle EXCEPT !.pc = "wipe"]
    BY <1>2 DEF Returns
  <2> QED BY <2>1 DEF Thread, Row, Busy, Idle, Pcs
<1>3. CASE w.then \notin {"register", "wipe"}
  <2>1. Returns(w, id) = Idle
    BY <1>3 DEF Returns
  <2> QED BY <2>1 DEF Thread, Row, Busy, Idle, Pcs
<1> QED BY <1>1, <1>2, <1>3

CopyRow(t) == [thread[t] EXCEPT !.pc = "write", !.fd = "key", !.id = 0]
StartRow(t, b) == [thread[t] EXCEPT !.pc = "look", !.then = "register", !.bare = b]
ResetRow(t) == [thread[t] EXCEPT !.pc = "look", !.then = "wipe"]
NewKeyRow(t) == [thread[t] EXCEPT !.pc = "generated", !.id = keys + 1,
                                  !.seal = (process(t) \in pass)]
FoundRow(t) == IF process(t) \in pass /\ ~key.sealed
               THEN [thread[t] EXCEPT !.pc = "migrate", !.id = key.id]
               ELSE Returns(thread[t], key.id)
WrittenRow(t) == IF At(t, "writeTmp")
                 THEN [thread[t] EXCEPT !.pc = "replace", !.fd = "none"]
                 ELSE Returns(thread[t], thread[t].id)

LEMMA Rows ==
    ASSUME thread \in [Threads -> Row], NEW t \in Threads
    PROVE  /\ Start(t) => \E b \in BOOLEAN : Put(t, StartRow(t, b))
           /\ Register(t) => Put(t, [thread[t] EXCEPT !.pc = "running"])
           /\ CopyOpens(t) => Put(t, CopyRow(t))
           /\ Lookup(t) => Put(t, [thread[t] EXCEPT !.pc = "look"])
           /\ Import(t) => Put(t, NewKeyRow(t))
           /\ LookFinds(t) => Put(t, FoundRow(t))
           /\ LookGenerates(t) => Put(t, NewKeyRow(t))
           /\ OpenKey(t) => Put(t, [thread[t] EXCEPT !.pc = "write", !.fd = "key"])
           /\ OpenTmp(t) => Put(t, [thread[t] EXCEPT !.pc = "writeTmp", !.fd = "tmp"])
           /\ Write(t) => Put(t, WrittenRow(t))
           /\ Reset(t) => Put(t, ResetRow(t))
           /\ UnlinkLock(t) => Put(t, Idle)
<1> USE DEF Put
<1>1. Start(t) => \E b \in BOOLEAN : Put(t, StartRow(t, b))
  BY DEF Start, StartRow
<1>2. Register(t) => Put(t, [thread[t] EXCEPT !.pc = "running"])
  BY DEF Register, Goto
<1>3. CopyOpens(t) => Put(t, CopyRow(t))
  BY DEF CopyOpens, CopyRow
<1>4. Lookup(t) => Put(t, [thread[t] EXCEPT !.pc = "look"])
  BY DEF Lookup
<1>5. Import(t) => Put(t, NewKeyRow(t))
  BY DEF Import, NewKeyRow
<1>6. LookFinds(t) => Put(t, FoundRow(t))
  BY DEF LookFinds, FoundRow
<1>7. LookGenerates(t) => Put(t, NewKeyRow(t))
  BY DEF LookGenerates, NewKeyRow
<1>8. OpenKey(t) => Put(t, [thread[t] EXCEPT !.pc = "write", !.fd = "key"])
  BY DEF OpenKey, Open
<1>9. OpenTmp(t) => Put(t, [thread[t] EXCEPT !.pc = "writeTmp", !.fd = "tmp"])
  BY DEF OpenTmp, Open
<1>10. Write(t) => Put(t, WrittenRow(t))
  BY DEF Write, WrittenRow, At
<1>11. Reset(t) => Put(t, ResetRow(t))
  BY DEF Reset, ResetRow
<1>12. UnlinkLock(t) => Put(t, Idle)
  BY DEF UnlinkLock
<1> QED BY <1>1, <1>2, <1>3, <1>4, <1>5, <1>6, <1>7, <1>8, <1>9, <1>10, <1>11, <1>12

-----------------------------------------------------------------------------
(* Type correctness.                                                       *)

TypeInv == HomeTypeOK /\ thread \in [Threads -> Row]

LEMMA ProcessType ==
    ASSUME NEW t \in Threads
    PROVE  process(t) \in Daemons
BY DEF process, Daemons

\* A process that ends, or a call that raises, leaves idle threads behind.
LEMMA GoneType ==
    ASSUME TypeInv, NEW p \in Daemons, Gone(p)
    PROVE  /\ up' \subseteq Daemons /\ pass' \subseteq Daemons
           /\ held' \in [Daemons -> {"nothing", "daemon.lock", "unlinked"}]
           /\ thread' \in [Threads -> Row]
           /\ \A u \in Threads : \/ thread'[u] = thread[u] /\ process(u) # p
                                 \/ thread'[u] = Idle
           /\ \A d \in Daemons : \/ held'[d] = held[d]
                                 \/ d = p /\ held'[d] = "nothing" /\ thread'[d] = Idle
<1>1. process(p) = p /\ p \in Threads
  BY HomeAssumption DEF process, Daemons, Threads
<1> QED BY <1>1, IdleRow DEF TypeInv, HomeTypeOK, Gone

RaisedType ==
    /\ legacy' = legacy
    /\ up' \subseteq Daemons /\ pass' \subseteq Daemons
    /\ held' \in [Daemons -> {"nothing", "daemon.lock", "unlinked"}]
    /\ thread' \in [Threads -> Row]

LEMMA RaisesType ==
    ASSUME TypeInv, NEW t \in Threads, Raises(t)
    PROVE  /\ RaisedType
           /\ \A u \in Threads \ {t} : thread'[u] = thread[u] \/ thread'[u] = Idle
           /\ \/ thread'[t] = Idle
              \/ thread[t].then = "wipe" /\ thread'[t] = [thread[t] EXCEPT !.pc = "wipe"]
           /\ \A d \in Daemons : \/ held'[d] = held[d]
                                 \/ held'[d] = "nothing" /\ thread'[d] = Idle
           /\ \/ up' = up
              \/ /\ up' = up \ {process(t)}
                 /\ \A u \in Threads : process(u) = process(t) => thread'[u] = Idle
<1>1. CASE thread[t].then = "wipe"
  <2>1. [thread[t] EXCEPT !.pc = "wipe"] \in Row
    BY Moves, ZeroKey DEF TypeInv
  <2>2. Put(t, [thread[t] EXCEPT !.pc = "wipe"]) /\ UNCHANGED host
    BY <1>1 DEF TypeInv, Raises, Goto, Put
  <2> QED BY <1>1, <2>1, <2>2, PutRow DEF TypeInv, HomeTypeOK, host, RaisedType
<1>2. CASE thread[t].then # "wipe" /\ t \in Clis
  <2>1. t \in Daemons /\ process(t) = t /\ Gone(t) /\ legacy' = legacy
    BY <1>2 DEF Raises, Daemons, process
  <2>2. thread'[t] = Idle
    BY <2>1 DEF Gone
  <2>3. /\ up' = up \ {process(t)}
        /\ \A u \in Threads : process(u) = process(t) => thread'[u] = Idle
    BY <2>1 DEF Gone
  <2> QED BY <2>1, <2>2, <2>3, GoneType DEF RaisedType
<1>3. CASE thread[t].then # "wipe" /\ t \notin Clis
  BY <1>3, IdleRow DEF TypeInv, HomeTypeOK, Raises, host, RaisedType
<1> QED BY <1>1, <1>2, <1>3

\* Everything but the threads has its type.
Rest == /\ {key, tmp} \subseteq File /\ keys \in Keys /\ legacy \in BOOLEAN
        /\ up \subseteq Daemons /\ pass \subseteq Daemons
        /\ held \in [Daemons -> {"nothing", "daemon.lock", "unlinked"}]
        /\ registered \in Keys \cup {NoKey} /\ met \in BOOLEAN

LEMMA TypeParts == TypeInv <=> Rest /\ thread \in [Threads -> Row]
BY DEF TypeInv, HomeTypeOK, Rest, Row

LEMMA TypePartsNext == TypeInv' <=> Rest' /\ thread' \in [Threads -> Row]
BY DEF TypeInv, HomeTypeOK, Rest, Row

LEMMA TypeStep ==
    ASSUME TypeInv, [Next]_vars
    PROVE  TypeInv'
<1>. /\ Rest /\ thread \in [Threads -> Row] /\ Daemons \subseteq Threads
  BY TypeParts DEF Threads
<1> SUFFICES Rest' /\ thread' \in [Threads -> Row]
  BY TypePartsNext
<1> USE DEF Rest, files, host, claims
<1>1. ASSUME NEW p \in Daemons, Launch(p) PROVE Rest' /\ thread' \in [Threads -> Row]
  <2>1. Put(p, [thread[p] EXCEPT !.pc = "copy", !.then = "copy"]) \/ UNCHANGED thread
    BY <1>1 DEF Launch, Put
  <2>2. [thread[p] EXCEPT !.pc = "copy", !.then = "copy"] \in Row
    BY Moves, ZeroKey
  <2> QED BY <1>1, <2>1, <2>2, PutRow DEF Launch
<1>2. ASSUME NEW p \in Daemons, Crash(p) PROVE Rest' /\ thread' \in [Threads -> Row]
  BY <1>2, GoneType DEF Crash
<1>3. ASSUME NEW d \in Daemons, Start(d) PROVE Rest' /\ thread' \in [Threads -> Row]
  <2>1. PICK b \in BOOLEAN : Put(d, StartRow(d, b))
    BY <1>3, Rows
  <2>2. StartRow(d, b) \in Row
    BY Moves, ZeroKey DEF StartRow
  <2>3. thread' \in [Threads -> Row]
    BY <2>1, <2>2, PutRow
  <2> QED BY <1>3, <2>3 DEF Start
<1>4. ASSUME NEW d \in Daemons, Register(d) PROVE Rest' /\ thread' \in [Threads -> Row]
  <2>1. [thread[d] EXCEPT !.pc = "running"] \in Row
    BY Moves, ZeroKey
  <2>2. thread[d].id \in Keys
    BY <1>4 DEF Register, At, Row, Busy
  <2> QED BY <1>4, <2>1, <2>2, Rows, PutRow DEF Register
<1>5. ASSUME NEW d \in Daemons, Stop(d) PROVE Rest' /\ thread' \in [Threads -> Row]
  BY <1>5, GoneType, IdleRow DEF Stop
<1>6. ASSUME NEW t \in Threads, CopyOpens(t) PROVE Rest' /\ thread' \in [Threads -> Row]
  <2>1. CopyRow(t) \in Row
    BY Moves, ZeroKey DEF CopyRow
  <2> QED BY <1>6, <2>1, Rows, PutRow DEF CopyOpens, File
<1>7. ASSUME NEW t \in Threads, Lookup(t) PROVE Rest' /\ thread' \in [Threads -> Row]
  <2>1. [thread[t] EXCEPT !.pc = "look"] \in Row
    BY Moves, ZeroKey
  <2> QED BY <1>7, <2>1, Rows, PutRow DEF Lookup
<1>8. ASSUME NEW t \in Threads, Import(t) \/ LookGenerates(t)
      PROVE Rest' /\ thread' \in [Threads -> Row]
  <2>1. keys + 1 \in Keys
    BY <1>8, HomeAssumption DEF Import, LookGenerates, Keys
  <2>2. NewKeyRow(t) \in Row
    <3>1. (process(t) \in pass) \in BOOLEAN
      OBVIOUS
    <3> QED BY <2>1, <3>1, Moves DEF NewKeyRow
  <2> QED BY <1>8, <2>1, <2>2, Rows, PutRow DEF Import, LookGenerates
<1>9. ASSUME NEW t \in Threads, LookFails(t) \/ OpenFails(t)
      PROVE Rest' /\ thread' \in [Threads -> Row]
  <2>1. Raises(t) /\ UNCHANGED files /\ UNCHANGED claims
    BY <1>9 DEF LookFails, OpenFails
  <2>2. RaisedType
    BY <2>1, RaisesType
  <2> QED BY <2>1, <2>2 DEF RaisedType
<1>10. ASSUME NEW t \in Threads, LookFinds(t) PROVE Rest' /\ thread' \in [Threads -> Row]
  <2>1. key.id \in Keys
    BY <1>10 DEF LookFinds, Readable, KeyFile
  <2>2. FoundRow(t) \in Row
    BY <2>1, Moves, ReturnsRow DEF FoundRow
  <2> QED BY <1>10, <2>2, Rows, PutRow DEF LookFinds
<1>11. ASSUME NEW t \in Threads, OpenKey(t) PROVE Rest' /\ thread' \in [Threads -> Row]
  <2>1. [thread[t] EXCEPT !.pc = "write", !.fd = "key"] \in Row
    BY <1>11, Moves, ZeroKey DEF OpenKey, At, Busy
  <2> QED BY <1>11, <2>1, Rows, PutRow DEF OpenKey, File
<1>12. ASSUME NEW t \in Threads, OpenTmp(t) PROVE Rest' /\ thread' \in [Threads -> Row]
  <2>1. [thread[t] EXCEPT !.pc = "writeTmp", !.fd = "tmp"] \in Row
    BY <1>12, Moves, ZeroKey DEF OpenTmp, At, Busy
  <2> QED BY <1>12, <2>1, Rows, PutRow DEF OpenTmp, File
<1>13. ASSUME NEW t \in Threads, Write(t) PROVE Rest' /\ thread' \in [Threads -> Row]
  <2>1. thread[t].pc \in Busy /\ thread[t].id \in Keys /\ thread[t].seal \in BOOLEAN
    BY <1>13 DEF Write, Row, Busy, Thread
  <2>2. WrittenRow(t) \in Row
    BY <2>1, Moves, ReturnsRow DEF WrittenRow
  <2>3. [id |-> thread[t].id, sealed |-> thread[t].seal \/ At(t, "writeTmp")] \in File
    BY <2>1 DEF File, KeyFile, At
  <2> QED BY <1>13, <2>1, <2>2, <2>3, Rows, PutRow DEF Write
<1>14. ASSUME NEW t \in Threads, Replace(t) PROVE Rest' /\ thread' \in [Threads -> Row]
  <2>1. CASE tmp = NoFile
    <3>1. Raises(t) /\ UNCHANGED files /\ UNCHANGED claims
      BY <1>14, <2>1 DEF Replace
    <3>2. RaisedType
      BY <3>1, RaisesType
    <3> QED BY <3>1, <3>2 DEF RaisedType
  <2>2. CASE tmp # NoFile
    <3>1. Returns(thread[t], thread[t].id) \in Row
      BY <1>14, ReturnsRow DEF Replace, At, Row, Busy
    <3>2. ASSUME NEW u \in Threads
          PROVE  [thread[u] EXCEPT !.fd = CASE @ = "tmp" -> "key"
                                            [] @ = "key" -> "gone"
                                            [] OTHER -> @] \in Row
      <4>1. (CASE thread[u].fd = "tmp" -> "key" [] thread[u].fd = "key" -> "gone"
               [] OTHER -> thread[u].fd) \in {"none", "key", "tmp", "gone"}
        BY DEF Row, Thread
      <4> QED BY <4>1, Moves, ZeroKey
    <3> QED BY <1>14, <2>2, <3>1, <3>2 DEF Replace, File
  <2> QED BY <2>1, <2>2
<1>15. ASSUME NEW t \in Threads, Reset(t) PROVE Rest' /\ thread' \in [Threads -> Row]
  <2>1. ResetRow(t) \in Row
    BY Moves, ZeroKey DEF ResetRow
  <2>2. thread' \in [Threads -> Row]
    BY <1>15, <2>1, Rows, PutRow
  <2> QED BY <1>15, <2>2 DEF Reset, Daemons
<1>16. ASSUME NEW t \in Threads, Wipe(t) PROVE Rest' /\ thread' \in [Threads -> Row]
  <2>1. [Idle EXCEPT !.pc = "unlink"] \in Row
    BY IdleRow, Moves, ZeroKey
  <2>2. ASSUME NEW u \in Threads
        PROVE  [thread[u] EXCEPT !.fd = IF @ = "none" THEN @ ELSE "gone",
                                 !.orphan = @ \/ thread[u].then = "register"] \in Row
    <3>1. /\ (IF thread[u].fd = "none" THEN thread[u].fd ELSE "gone")
               \in {"none", "key", "tmp", "gone"}
          /\ (thread[u].orphan \/ thread[u].then = "register") \in BOOLEAN
      BY DEF Row, Thread
    <3> QED BY <3>1, Moves, ZeroKey
  <2> QED BY <1>16, <2>1, <2>2 DEF Wipe, File
<1>17. ASSUME NEW t \in Threads, UnlinkLock(t) PROVE Rest' /\ thread' \in [Threads -> Row]
  BY <1>17, IdleRow, Rows, PutRow DEF UnlinkLock
<1>18. ASSUME Unlock PROVE Rest' /\ thread' \in [Threads -> Row]
  BY <1>18 DEF Unlock, Daemons
<1>19. CASE UNCHANGED vars
  BY <1>19 DEF vars
<1> HIDE DEF Rest
<1> QED
  BY <1>1, <1>2, <1>3, <1>4, <1>5, <1>6, <1>7, <1>8, <1>9, <1>10, <1>11, <1>12,
     <1>13, <1>14, <1>15, <1>16, <1>17, <1>18, <1>19 DEF Next, Identity

LEMMA InitTypes == Init => TypeInv
<1>1. 0 \in Keys
  BY ZeroKey
<1> QED BY <1>1, IdleRow DEF Init, TypeInv, HomeTypeOK, Row, File

\* Every variable keeps its type, through crashes, renames and resets.
THEOREM HomeTypes == Spec => []HomeTypeOK
<1>1. TypeInv /\ [Next]_vars => TypeInv'
  BY TypeStep
<1>2. TypeInv => HomeTypeOK
  BY DEF TypeInv
<1> QED BY <1>1, <1>2, InitTypes, PTL DEF Spec

-----------------------------------------------------------------------------
(* The daemon lock.                                                        *)

LockInv ==
    /\ \A p, q \in Daemons : held[p] = "daemon.lock" /\ held[q] = "daemon.lock" => p = q
    /\ \A d \in Daemons : Runs(d) => held[d] # "nothing" \/ thread[d].bare
    /\ \A t \in Threads : At(t, "idle") => thread[t].then = "nothing"
    /\ \A t \in Threads : process(t) \notin up => At(t, "idle")

\* A row that does not begin to run a daemon.
Calm(t, r) ==
    /\ r.pc # "idle" /\ r.then = "register" =>
         ~At(t, "idle") /\ thread[t].then = "register" /\ r.bare = thread[t].bare
    /\ r.pc = "idle" => r.then = "nothing"
    /\ r.pc # "idle" => process(t) \in up'

LEMMA NoNewRun ==
    ASSUME TypeInv, LockInv,
           \A u \in Threads : thread'[u] = thread[u] \/ Calm(u, thread'[u]),
           \A d \in Daemons : \/ held'[d] = held[d]
                              \/ held'[d] = "nothing" /\ thread'[d] = Idle
                              \/ held'[d] = "unlinked",
           \A u \in Threads : process(u) \in up \ up' => thread'[u] = Idle
    PROVE  LockInv'
<1>1. Daemons \subseteq Threads
  BY DEF Threads
<1>2. \A p, q \in Daemons :
         held'[p] = "daemon.lock" /\ held'[q] = "daemon.lock" => p = q
  BY DEF LockInv
<1>3. \A d \in Daemons :
         thread'[d].pc # "idle" /\ thread'[d].then = "register"
           => held'[d] # "nothing" \/ thread'[d].bare
  BY <1>1 DEF LockInv, Runs, At, Calm, Idle
<1>4. \A t \in Threads : thread'[t].pc = "idle" => thread'[t].then = "nothing"
  BY DEF LockInv, At, Calm
<1>5. \A t \in Threads : process(t) \notin up' => thread'[t].pc = "idle"
  BY DEF LockInv, At, Calm, Idle
<1> QED BY <1>2, <1>3, <1>4, <1>5 DEF LockInv, Runs, At, process

\* A row of one thread that begins no run.
LEMMA PutCalm ==
    ASSUME TypeInv, LockInv, NEW t \in Threads, NEW r \in Row, Put(t, r), Calm(t, r),
           UNCHANGED <<up, held>>
    PROVE  LockInv'
BY PutRow, NoNewRun DEF TypeInv

LEMMA IdleCalm == \A t \in Threads : Calm(t, Idle)
BY DEF Calm, Idle

LEMMA LockStep ==
    ASSUME TypeInv, LockInv, [Next]_vars
    PROVE  LockInv'
<1>. Daemons \subseteq Threads
  BY DEF Threads
<1>. thread \in [Threads -> Row]
  BY DEF TypeInv
<1>. \A t \in Threads : ~At(t, "idle") => process(t) \in up
  BY DEF LockInv
<1> USE DEF host
<1>1. ASSUME NEW p \in Daemons, Launch(p) PROVE LockInv'
  <2>1. \A u \in Threads : thread'[u] = thread[u] \/ Calm(u, thread'[u])
    <3>1. CASE ~legacy
      BY <1>1, <3>1 DEF Launch
    <3>2. CASE legacy
      <4>1. [thread[p] EXCEPT !.pc = "copy", !.then = "copy"] \in Row
        BY Moves, ZeroKey
      <4>2. Put(p, [thread[p] EXCEPT !.pc = "copy", !.then = "copy"])
        BY <1>1, <3>2 DEF Launch, Put
      <4>3. process(p) \in up'
        BY <1>1, HomeAssumption DEF Launch, process, Daemons
      <4>4. Calm(p, [thread[p] EXCEPT !.pc = "copy", !.then = "copy"])
        BY <4>3 DEF Calm, Row, Thread
      <4> QED BY <4>1, <4>2, <4>4, PutRow
    <3> QED BY <3>1, <3>2 DEF TypeInv, HomeTypeOK
  <2> QED BY <1>1, <2>1, NoNewRun DEF Launch
<1>2. ASSUME NEW p \in Daemons, Gone(p) PROVE LockInv'
  <2>1. \A u \in Threads : process(u) \in up \ up' => thread'[u] = Idle
    BY <1>2 DEF Gone
  <2> QED BY <1>2, <2>1, GoneType, IdleCalm, NoNewRun
<1>3. ASSUME NEW d \in Daemons, Start(d) PROVE LockInv'
  <2>1. PICK b \in BOOLEAN :
           /\ b => held[d] = "nothing"
           /\ b \/ held[d] # "nothing" \/ \A p \in Daemons : held[p] # "daemon.lock"
           /\ held' = [held EXCEPT ![d] = IF b \/ @ # "nothing" THEN @ ELSE "daemon.lock"]
           /\ Put(d, StartRow(d, b))
    BY <1>3 DEF Start, StartRow, Put
  <2>2. /\ StartRow(d, b) \in Row /\ process(d) = d
        /\ StartRow(d, b).pc # "idle" /\ StartRow(d, b).bare = b
    <3>1. StartRow(d, b) \in Row
      BY Moves, ZeroKey DEF StartRow
    <3>2. StartRow(d, b).pc # "idle" /\ StartRow(d, b).bare = b
      BY DEF StartRow, Row, Thread
    <3>3. process(d) = d
      BY HomeAssumption DEF process, Daemons
    <3> QED BY <3>1, <3>2, <3>3
  <2>3. /\ thread'[d].pc # "idle" /\ d \in up' /\ up' = up /\ thread'[d].bare = b
        /\ \A u \in Threads \ {d} : thread'[u] = thread[u]
    BY <1>3, <2>1, <2>2, PutRow DEF Start
  <2>4. \A p, q \in Daemons :
           held'[p] = "daemon.lock" /\ held'[q] = "daemon.lock" => p = q
    BY <2>1 DEF LockInv, TypeInv, HomeTypeOK
  <2>5. \A e \in Daemons :
           thread'[e].pc # "idle" /\ thread'[e].then = "register"
             => held'[e] # "nothing" \/ thread'[e].bare
    BY <2>1, <2>3 DEF LockInv, TypeInv, HomeTypeOK, Runs, At
  <2>6. \A t \in Threads : thread'[t].pc = "idle" => thread'[t].then = "nothing"
    BY <2>3 DEF LockInv, At
  <2>7. \A t \in Threads : process(t) \notin up' => thread'[t].pc = "idle"
    BY <2>2, <2>3 DEF LockInv, At
  <2> QED BY <2>4, <2>5, <2>6, <2>7 DEF LockInv, Runs, At, process
<1>4. ASSUME NEW t \in Threads, Raises(t) PROVE LockInv'
  <2>1. \A u \in Threads : thread'[u] = thread[u] \/ Calm(u, thread'[u])
    <3>1. CASE thread'[t] = Idle
      BY <1>4, <3>1, RaisesType, IdleCalm
    <3>2. CASE /\ thread[t].then = "wipe" /\ thread'[t] # Idle
               /\ thread'[t] = [thread[t] EXCEPT !.pc = "wipe"]
      <4>1. up' = up
        BY <1>4, <3>2, RaisesType
      <4>2. ~At(t, "idle") /\ process(t) \in up'
        BY <3>2, <4>1 DEF LockInv
      <4>3. Calm(t, thread'[t])
        BY <3>2, <4>2 DEF Calm, Row, Thread
      <4> QED BY <1>4, <4>3, RaisesType, IdleCalm
    <3> QED BY <1>4, <3>1, <3>2, RaisesType
  <2>2. \A u \in Threads : process(u) \in up \ up' => thread'[u] = Idle
    BY <1>4, RaisesType
  <2> QED BY <1>4, <2>1, <2>2, RaisesType, NoNewRun
<1>5. ASSUME NEW d \in Daemons, Register(d) PROVE LockInv'
  <2>1. [thread[d] EXCEPT !.pc = "running"] \in Row
    BY Moves, ZeroKey
  <2>2. Calm(d, [thread[d] EXCEPT !.pc = "running"])
    BY <1>5 DEF Register, Calm, At, Row, Thread
  <2> QED BY <1>5, <2>1, <2>2, Rows, PutCalm DEF Register
<1>6. ASSUME NEW d \in Daemons, Stop(d) PROVE LockInv'
  <2>1. CASE d = "gui"
    <3>1. Put(d, Idle) /\ UNCHANGED host
      BY <1>6, <2>1 DEF Stop, Put
    <3> QED BY <3>1, IdleRow, IdleCalm, PutCalm
  <2>2. CASE d # "gui"
    BY <1>2, <1>6, <2>2 DEF Stop
  <2> QED BY <2>1, <2>2
<1>7. ASSUME NEW t \in Threads, CopyOpens(t) PROVE LockInv'
  <2>1. CopyRow(t) \in Row
    BY Moves, ZeroKey DEF CopyRow
  <2>2. Calm(t, CopyRow(t))
    BY <1>7 DEF CopyOpens, CopyRow, Calm, At, Row, Thread
  <2> QED BY <1>7, <2>1, <2>2, Rows, PutCalm DEF CopyOpens
<1>8. ASSUME NEW t \in Threads, Lookup(t) PROVE LockInv'
  <2>1. [thread[t] EXCEPT !.pc = "look"] \in Row
    BY Moves, ZeroKey
  <2>2. Calm(t, [thread[t] EXCEPT !.pc = "look"])
    BY <1>8 DEF Lookup, Calm, LockInv, Row, Thread
  <2> QED BY <1>8, <2>1, <2>2, Rows, PutCalm DEF Lookup
<1>9. ASSUME NEW t \in Threads, Import(t) \/ LookGenerates(t) PROVE LockInv'
  <2>1. keys + 1 \in Keys /\ (process(t) \in pass) \in BOOLEAN
    BY <1>9, HomeAssumption DEF Import, LookGenerates, Keys, TypeInv, HomeTypeOK
  <2>2. NewKeyRow(t) \in Row
    BY <2>1, Moves DEF NewKeyRow
  <2>3. thread[t].then # "register" \/ ~At(t, "idle")
    BY DEF LockInv
  <2>4. process(t) \in up'
    BY <1>9, HomeAssumption DEF Import, LookGenerates, At, process, Daemons
  <2>5. Calm(t, NewKeyRow(t))
    BY <2>3, <2>4 DEF NewKeyRow, Calm, Row, Thread
  <2> QED BY <1>9, <2>2, <2>5, Rows, PutCalm DEF Import, LookGenerates
<1>10. ASSUME NEW t \in Threads, LookFinds(t) PROVE LockInv'
  <2>1. key.id \in Keys
    BY <1>10 DEF LookFinds, Readable, KeyFile
  <2>2. FoundRow(t) \in Row
    BY <2>1, Moves, ReturnsRow DEF FoundRow
  <2>3. At(t, "look") /\ process(t) \in up' /\ ~At(t, "idle")
    BY <1>10 DEF LookFinds, At
  <2>4. CASE process(t) \in pass /\ ~key.sealed
    <3>1. Calm(t, FoundRow(t))
      BY <2>3, <2>4 DEF FoundRow, Calm, Row, Thread
    <3> QED BY <1>10, <2>2, <3>1, Rows, PutCalm DEF LookFinds
  <2>5. CASE ~(process(t) \in pass /\ ~key.sealed)
    <3>1. Calm(t, FoundRow(t))
      BY <2>1, <2>3, <2>5, ReturnsRow DEF FoundRow, Calm
    <3> QED BY <1>10, <2>2, <3>1, Rows, PutCalm DEF LookFinds
  <2> QED BY <2>4, <2>5
<1>11. ASSUME NEW t \in Threads, OpenKey(t) PROVE LockInv'
  <2>1. [thread[t] EXCEPT !.pc = "write", !.fd = "key"] \in Row
    BY <1>11, Moves, ZeroKey DEF OpenKey, At, Busy
  <2>2. Calm(t, [thread[t] EXCEPT !.pc = "write", !.fd = "key"])
    BY <1>11 DEF OpenKey, Calm, At, Row, Thread
  <2> QED BY <1>11, <2>1, <2>2, Rows, PutCalm DEF OpenKey
<1>12. ASSUME NEW t \in Threads, OpenTmp(t) PROVE LockInv'
  <2>1. [thread[t] EXCEPT !.pc = "writeTmp", !.fd = "tmp"] \in Row
    BY <1>12, Moves, ZeroKey DEF OpenTmp, At, Busy
  <2>2. Calm(t, [thread[t] EXCEPT !.pc = "writeTmp", !.fd = "tmp"])
    BY <1>12 DEF OpenTmp, Calm, At, Row, Thread
  <2> QED BY <1>12, <2>1, <2>2, Rows, PutCalm DEF OpenTmp
<1>13. ASSUME NEW t \in Threads, Write(t) PROVE LockInv'
  <2>1. /\ thread[t].pc \in Busy /\ thread[t].id \in Keys
        /\ ~At(t, "idle") /\ process(t) \in up'
    BY <1>13 DEF Write, Row, Busy, At
  <2>2. WrittenRow(t) \in Row
    BY <2>1, Moves, ReturnsRow DEF WrittenRow
  <2>3. CASE At(t, "writeTmp")
    <3>1. Calm(t, WrittenRow(t))
      BY <2>1, <2>3 DEF WrittenRow, Calm, Row, Thread
    <3> QED BY <1>13, <2>2, <3>1, Rows, PutCalm DEF Write
  <2>4. CASE ~At(t, "writeTmp")
    <3>1. Calm(t, WrittenRow(t))
      BY <2>1, <2>4, ReturnsRow DEF WrittenRow, Calm
    <3> QED BY <1>13, <2>2, <3>1, Rows, PutCalm DEF Write
  <2> QED BY <2>3, <2>4
<1>14. ASSUME NEW t \in Threads, Replace(t) PROVE LockInv'
  <2>1. CASE tmp = NoFile
    BY <1>4, <1>14, <2>1 DEF Replace
  <2>2. CASE tmp # NoFile
    <3>1. ~At(t, "idle") /\ process(t) \in up' /\ thread[t].id \in Keys /\ UNCHANGED host
      BY <1>14, <2>2 DEF Replace, At, Row, Busy
    <3>2. Calm(t, Returns(thread[t], thread[t].id))
      BY <3>1, ReturnsRow DEF Calm
    <3>3. thread'[t] = Returns(thread[t], thread[t].id)
      BY <1>14, <2>2 DEF Replace
    <3>4. ASSUME NEW u \in Threads \ {t} PROVE Calm(u, thread'[u])
      <4>1. /\ thread'[u].pc = thread[u].pc /\ thread'[u].then = thread[u].then
            /\ thread'[u].bare = thread[u].bare
        BY <1>14, <2>2 DEF Replace, Row, Thread
      <4> QED BY <3>1, <4>1 DEF Calm, At, LockInv
    <3> QED BY <3>1, <3>2, <3>3, <3>4, NoNewRun
  <2> QED BY <2>1, <2>2
<1>15. ASSUME NEW t \in Threads, Reset(t) PROVE LockInv'
  <2>1. ResetRow(t) \in Row
    BY Moves, ZeroKey DEF ResetRow
  <2>2. Calm(t, ResetRow(t))
    BY <1>15 DEF Reset, ResetRow, Calm, Row, Thread
  <2> QED BY <1>15, <2>1, <2>2, Rows, PutCalm DEF Reset
<1>16. ASSUME NEW t \in Threads, Wipe(t) PROVE LockInv'
  <2>1. Calm(t, [Idle EXCEPT !.pc = "unlink"])
    BY <1>16 DEF Wipe, Calm, Idle, At
  <2>2. thread'[t] = [Idle EXCEPT !.pc = "unlink"]
    BY <1>16 DEF Wipe
  <2>3. ASSUME NEW u \in Threads \ {t} PROVE Calm(u, thread'[u])
    <3>1. /\ thread'[u].pc = thread[u].pc /\ thread'[u].then = thread[u].then
          /\ thread'[u].bare = thread[u].bare
      BY <1>16 DEF Wipe, Row, Thread
    <3>2. up' = up
      BY <1>16 DEF Wipe
    <3> QED BY <3>1, <3>2 DEF Calm, At, LockInv
  <2> QED BY <1>16, <2>1, <2>2, <2>3, NoNewRun DEF Wipe
<1>17. ASSUME NEW t \in Threads, UnlinkLock(t) PROVE LockInv'
  <2>1. \A u \in Threads : thread'[u] = thread[u] \/ Calm(u, thread'[u])
    <3>1. Put(t, Idle)
      BY <1>17, Rows
    <3>2. thread'[t] = Idle /\ \A u \in Threads \ {t} : thread'[u] = thread[u]
      BY <3>1, PutRow, IdleRow
    <3> QED BY <3>2, IdleCalm
  <2>2. \A d \in Daemons : held'[d] = held[d] \/ held'[d] = "unlinked"
    BY <1>17 DEF UnlinkLock
  <2> QED BY <1>17, <2>1, <2>2, NoNewRun DEF UnlinkLock
<1>18. ASSUME UNCHANGED <<up, held, thread>> PROVE LockInv'
  BY <1>18 DEF LockInv, Runs, At, process
<1> QED
  BY <1>1, <1>2, <1>3, <1>4, <1>5, <1>6, <1>7, <1>8, <1>9, <1>10, <1>11, <1>12, <1>13,
     <1>14, <1>15, <1>16, <1>17, <1>18
  DEF Next, Identity, Crash, LookFails, OpenFails, Unlock, vars

LEMMA InitLock == Init => LockInv
<1>1. Daemons \subseteq Threads
  BY DEF Threads
<1> QED BY <1>1 DEF Init, LockInv, Runs, At, Idle

\* Two daemons share a home only after a reset has taken away the name of the
\* lock file, or when one of them could not open it and went on without a lock
\* (_acquire_daemon_lock, wipe_operational_state).
THEOREM OneDaemonPerHome == Spec => []OneDaemon
<1>1. Init => TypeInv /\ LockInv
  BY InitTypes, InitLock
<1>2. TypeInv /\ LockInv /\ [Next]_vars => TypeInv' /\ LockInv'
  BY TypeStep, LockStep
<1>3. TypeInv /\ LockInv => OneDaemon
  BY DEF TypeInv, HomeTypeOK, LockInv, OneDaemon
<1> QED BY <1>1, <1>2, <1>3, PTL DEF Spec

-----------------------------------------------------------------------------
(* The registered key.                                                     *)

Migrates(w) == w.pc \in {"writeTmp", "replace"}

\* What the handle and the progress of a call, w, say about the key file k and
\* the temporary file m.  A file under a handle is empty; what a migration has
\* written is the key it has read; a daemon that has, or runs under, a key has
\* that of the file.
FdInv(w, k, m) ==
    /\ w.fd # "none" <=> w.pc \in {"write", "writeTmp"}
    /\ w.fd = "key" => w.pc = "write" /\ k = Torn
    /\ w.fd = "tmp" => w.pc = "writeTmp"
    /\ w.fd = "gone" /\ w.pc = "writeTmp" => m = NoFile
    /\ w.fd = "gone" /\ w.then = "register" => w.orphan
    /\ w.pc = "replace" => m = NoFile \/ (Readable(m) /\ m.id = w.id)
    /\ w.pc \in {"have", "running"} =>
         w.then = "register" /\ (w.orphan \/ (Readable(k) /\ k.id = w.id))

RegisteredIn(r, k) == r # NoKey => Readable(k) /\ k.id = r
OneOpen(th) == \A t, u \in Threads : th[t].fd = "key" /\ th[u].fd = "key" => t = u
OneMigrates(th) == \A t, u \in Threads : Migrates(th[t]) /\ Migrates(th[u]) => t = u

KeyInv ==
    ~met => /\ RegisteredIn(registered, key)
            /\ OneOpen(thread)
            /\ OneMigrates(thread)
            /\ \A t \in Threads : FdInv(thread[t], key, tmp)

\* A row of a thread that has no file open and is not migrating.
Plain(w, k) ==
    /\ w.fd = "none"
    /\ w.pc \notin {"write", "writeTmp", "replace"}
    /\ w.pc \in {"have", "running"} =>
         w.then = "register" /\ (w.orphan \/ (Readable(k) /\ k.id = w.id))

LEMMA PlainFd ==
    ASSUME NEW w, NEW k, NEW m, Plain(w, k)
    PROVE  FdInv(w, k, m) /\ w.fd # "key" /\ ~Migrates(w)
BY DEF Plain, FdInv, Migrates

\* A step that leaves the files alone.
LEMMA FilesKept ==
    ASSUME KeyInv, UNCHANGED <<key, tmp, met>>,
           ~met => RegisteredIn(registered', key),
           ~met => \A u \in Threads : thread'[u] = thread[u] \/ Plain(thread'[u], key)
    PROVE  KeyInv'
<1> SUFFICES ASSUME ~met PROVE KeyInv'
  BY DEF KeyInv
<1>1. \A t \in Threads : FdInv(thread'[t], key', tmp')
  BY PlainFd DEF KeyInv
<1>2. \A t \in Threads : thread'[t].fd = "key" => thread'[t] = thread[t]
  BY DEF Plain
<1>3. \A t \in Threads : Migrates(thread'[t]) => thread'[t] = thread[t]
  BY DEF Plain, Migrates
<1>4. OneOpen(thread')
  BY <1>2 DEF KeyInv, OneOpen
<1>5. OneMigrates(thread')
  BY <1>3 DEF KeyInv, OneMigrates
<1> QED BY <1>1, <1>4, <1>5 DEF KeyInv

LEMMA IdlePlain == \A k : Plain(Idle, k)
BY DEF Plain, Idle

\* A step of one thread on the files, the others as they were.
LEMMA FilesPut ==
    ASSUME KeyInv, TypeInv, ~met, NEW t \in Threads, NEW r \in Row, Put(t, r),
           RegisteredIn(registered', key'),
           FdInv(r, key', tmp'),
           \A u \in Threads \ {t} : FdInv(thread[u], key', tmp'),
           r.fd = "key" => \A u \in Threads \ {t} : thread[u].fd # "key",
           Migrates(r) => \A u \in Threads \ {t} : ~Migrates(thread[u])
    PROVE  KeyInv'
<1>1. thread'[t] = r /\ \A u \in Threads \ {t} : thread'[u] = thread[u]
  BY PutRow DEF TypeInv
<1>2. \A u \in Threads : FdInv(thread'[u], key', tmp')
  BY <1>1
<1>3. OneOpen(thread')
  BY <1>1 DEF KeyInv, OneOpen
<1>4. OneMigrates(thread')
  BY <1>1 DEF KeyInv, OneMigrates
<1> QED BY <1>2, <1>3, <1>4 DEF KeyInv

LEMMA FileKinds == NoFile # Torn /\ ~Readable(NoFile) /\ ~Readable(Torn)
BY HomeAssumption, FileAssumption DEF Readable

\* A file is opened for writing: nobody else has it open, or needs its content.
LEMMA KeyOpened ==
    ASSUME TypeInv, KeyInv, ~met', NEW t \in Threads, NEW r \in Row, Put(t, r),
           r.fd = "key", r.pc = "write",
           met' = (met \/ key # NoFile), key' = Torn, UNCHANGED <<tmp, registered>>
    PROVE  KeyInv'
<1>1. ~met /\ key = NoFile
  OBVIOUS
<1>2. FdInv(r, key', tmp')
  BY DEF FdInv
<1>3. \A u \in Threads : thread[u].fd # "key"
  BY <1>1, FileKinds DEF KeyInv, FdInv
<1>4. \A u \in Threads : FdInv(thread[u], key', tmp')
  BY <1>1, <1>3, FileKinds DEF KeyInv, FdInv
<1>5. RegisteredIn(registered', key')
  BY <1>1, FileKinds DEF KeyInv, RegisteredIn
<1>6. ~Migrates(r)
  BY DEF Migrates
<1> QED BY <1>1, <1>2, <1>3, <1>4, <1>5, <1>6, FilesPut

LEMMA KeyStep ==
    ASSUME TypeInv, LockInv, KeyInv, [Next]_vars
    PROVE  KeyInv'
<1>. Daemons \subseteq Threads
  BY DEF Threads
<1>. thread \in [Threads -> Row]
  BY DEF TypeInv
<1> SUFFICES ASSUME ~met' PROVE KeyInv'
  BY DEF KeyInv
<1> USE DEF files, host, claims
<1>1. ASSUME NEW p \in Daemons, Launch(p) PROVE KeyInv'
  <2>1. Put(p, [thread[p] EXCEPT !.pc = "copy", !.then = "copy"]) \/ UNCHANGED thread
    BY <1>1 DEF Launch, Put
  <2>2. [thread[p] EXCEPT !.pc = "copy", !.then = "copy"] \in Row
    BY Moves, ZeroKey
  <2>3. At(p, "idle")
    BY <1>1, HomeAssumption DEF Launch, LockInv, process, Daemons
  <2>4. ~met => Plain([thread[p] EXCEPT !.pc = "copy", !.then = "copy"], key)
    BY <2>3 DEF KeyInv, FdInv, Plain, At, Row, Thread
  <2>5. ~met => RegisteredIn(registered, key)
    BY DEF KeyInv
  <2>6. UNCHANGED <<key, tmp, met, registered>>
    BY <1>1 DEF Launch
  <2> QED BY <2>1, <2>2, <2>4, <2>5, <2>6, PutRow, FilesKept
<1>2. ASSUME NEW p \in Daemons, Gone(p), UNCHANGED <<files, claims>> PROVE KeyInv'
  <2>1. ~met => RegisteredIn(registered, key)
    BY DEF KeyInv
  <2> QED BY <1>2, <2>1, GoneType, IdlePlain, FilesKept
<1>3. ASSUME NEW d \in Daemons, Start(d) PROVE KeyInv'
  <2>1. PICK b \in BOOLEAN : Put(d, StartRow(d, b))
    BY <1>3, Rows
  <2>2. StartRow(d, b) \in Row
    BY Moves, ZeroKey DEF StartRow
  <2>3. ~met => Plain(StartRow(d, b), key)
    BY <1>3 DEF Start, At, KeyInv, FdInv, Plain, StartRow, Row, Thread
  <2>4. thread'[d] = StartRow(d, b) /\ \A u \in Threads \ {d} : thread'[u] = thread[u]
    BY <2>1, <2>2, PutRow
  <2>5. UNCHANGED <<key, tmp, met, registered>>
    BY <1>3 DEF Start, files, claims
  <2>6. ~met => RegisteredIn(registered, key)
    BY DEF KeyInv
  <2> QED BY <2>3, <2>4, <2>5, <2>6, FilesKept
<1>4. ASSUME NEW d \in Daemons, Register(d) PROVE KeyInv'
  <2>1. [thread[d] EXCEPT !.pc = "running"] \in Row
    BY Moves, ZeroKey
  <2>2. ~met => Plain([thread[d] EXCEPT !.pc = "running"], key)
    BY <1>4 DEF Register, At, KeyInv, FdInv, Plain, Row, Thread
  <2>3. ~met => RegisteredIn(registered', key)
    BY <1>4 DEF Register, At, KeyInv, FdInv, RegisteredIn
  <2>4. UNCHANGED <<key, tmp, met>>
    BY <1>4 DEF Register
  <2> QED BY <1>4, <2>1, <2>2, <2>3, <2>4, Rows, PutRow, FilesKept
<1>5. ASSUME NEW d \in Daemons, Stop(d) PROVE KeyInv'
  <2>1. CASE d = "gui"
    <3>1. Put(d, Idle) /\ UNCHANGED <<key, tmp, met, registered>>
      BY <1>5, <2>1 DEF Stop, Put
    <3>2. ~met => RegisteredIn(registered, key)
      BY DEF KeyInv
    <3> QED BY <3>1, <3>2, IdleRow, IdlePlain, PutRow, FilesKept
  <2>2. CASE d # "gui"
    BY <1>2, <1>5, <2>2 DEF Stop
  <2> QED BY <2>1, <2>2
<1>6. ASSUME NEW t \in Threads, CopyOpens(t) PROVE KeyInv'
  <2>1. CopyRow(t) \in Row
    BY Moves, ZeroKey DEF CopyRow
  <2>2. CopyRow(t).fd = "key" /\ CopyRow(t).pc = "write"
    BY DEF CopyRow, Row, Thread
  <2>3. /\ met' = (met \/ key # NoFile) /\ key' = Torn /\ UNCHANGED <<tmp, registered>>
    BY <1>6 DEF CopyOpens
  <2> QED BY <1>6, <2>1, <2>2, <2>3, Rows, KeyOpened
<1>7. ASSUME NEW t \in Threads, Lookup(t) PROVE KeyInv'
  <2>1. [thread[t] EXCEPT !.pc = "look"] \in Row
    BY Moves, ZeroKey
  <2>2. ~met => Plain([thread[t] EXCEPT !.pc = "look"], key)
    BY <1>7 DEF Lookup, At, KeyInv, FdInv, Plain, Row, Thread
  <2>3. ~met => RegisteredIn(registered, key)
    BY DEF KeyInv
  <2>4. UNCHANGED <<key, tmp, met, registered>>
    BY <1>7 DEF Lookup
  <2> QED BY <1>7, <2>1, <2>2, <2>3, <2>4, Rows, PutRow, FilesKept
<1>8. ASSUME NEW t \in Threads, Import(t) \/ LookGenerates(t) PROVE KeyInv'
  <2>1. keys + 1 \in Keys /\ (process(t) \in pass) \in BOOLEAN
    BY <1>8, HomeAssumption DEF Import, LookGenerates, Keys, TypeInv, HomeTypeOK
  <2>2. NewKeyRow(t) \in Row
    BY <2>1, Moves DEF NewKeyRow
  <2>3. thread[t].pc \in {"idle", "look"}
    BY <1>8 DEF Import, LookGenerates, At
  <2>4. ~met => Plain(NewKeyRow(t), key)
    BY <2>3 DEF KeyInv, FdInv, Plain, NewKeyRow, Row, Thread
  <2>5. ~met => RegisteredIn(registered, key)
    BY DEF KeyInv
  <2>6. UNCHANGED <<key, tmp, met, registered>>
    BY <1>8 DEF Import, LookGenerates
  <2> QED BY <1>8, <2>2, <2>4, <2>5, <2>6, Rows, PutRow, FilesKept
<1>9. ASSUME NEW t \in Threads, Raises(t), UNCHANGED <<key, tmp, met, registered>>,
             ~met => thread[t].fd = "none"
      PROVE KeyInv'
  <2>1. ~met => RegisteredIn(registered, key)
    BY DEF KeyInv
  <2>2. ASSUME ~met PROVE Plain([thread[t] EXCEPT !.pc = "wipe"], key)
    BY <1>9, <2>2 DEF Plain, Row, Thread
  <2>3. ~met => thread'[t] = thread[t] \/ Plain(thread'[t], key)
    BY <1>9, <2>2, RaisesType, IdlePlain
  <2>4. \A u \in Threads \ {t} : thread'[u] = thread[u] \/ Plain(thread'[u], key)
    <3>1. \A u \in Threads \ {t} : thread'[u] = thread[u] \/ thread'[u] = Idle
      BY <1>9, RaisesType
    <3> QED BY <3>1, IdlePlain
  <2> QED BY <1>9, <2>1, <2>3, <2>4, FilesKept
<1>10. ASSUME NEW t \in Threads, LookFails(t) \/ OpenFails(t) PROVE KeyInv'
  <2>1. ~met => thread[t].fd = "none"
    BY <1>10 DEF LookFails, OpenFails, At, KeyInv, FdInv
  <2> QED BY <1>9, <1>10, <2>1 DEF LookFails, OpenFails
<1>11. ASSUME NEW t \in Threads, LookFinds(t) PROVE KeyInv'
  <2>1. key.id \in Keys /\ Readable(key)
    BY <1>11 DEF LookFinds, Readable, KeyFile
  <2>2. FoundRow(t) \in Row
    BY <2>1, Moves, ReturnsRow DEF FoundRow
  <2>3. ~met => thread[t].fd = "none"
    BY <1>11 DEF LookFinds, At, KeyInv, FdInv
  <2>4. ~met => Plain(FoundRow(t), key)
    <3>1. CASE process(t) \in pass /\ ~key.sealed
      BY <2>3, <3>1 DEF Plain, FoundRow, Row, Thread
    <3>2. CASE ~(process(t) \in pass /\ ~key.sealed)
      BY <2>1, <3>2, ReturnsRow DEF Plain, FoundRow
    <3> QED BY <3>1, <3>2
  <2>5. ~met => RegisteredIn(registered, key)
    BY DEF KeyInv
  <2>6. UNCHANGED <<key, tmp, met, registered>>
    BY <1>11 DEF LookFinds
  <2> QED BY <1>11, <2>2, <2>4, <2>5, <2>6, Rows, PutRow, FilesKept
<1>12. ASSUME NEW t \in Threads, OpenKey(t) PROVE KeyInv'
  <2>1. [thread[t] EXCEPT !.pc = "write", !.fd = "key"] \in Row
    BY <1>12, Moves, ZeroKey DEF OpenKey, At, Busy
  <2>2. /\ [thread[t] EXCEPT !.pc = "write", !.fd = "key"].fd = "key"
        /\ [thread[t] EXCEPT !.pc = "write", !.fd = "key"].pc = "write"
    BY DEF Row, Thread
  <2>3. /\ met' = (met \/ key # NoFile) /\ key' = Torn /\ UNCHANGED <<tmp, registered>>
    BY <1>12 DEF OpenKey
  <2> QED BY <1>12, <2>1, <2>2, <2>3, Rows, KeyOpened
<1>13. ASSUME NEW t \in Threads, OpenTmp(t) PROVE KeyInv'
  <2> DEFINE r == [thread[t] EXCEPT !.pc = "writeTmp", !.fd = "tmp"]
  <2>1. r \in Row
    BY <1>13, Moves, ZeroKey DEF OpenTmp, At, Busy
  <2>2. r.fd = "tmp" /\ r.pc = "writeTmp"
    BY DEF Row, Thread
  <2>3. Put(t, r)
    BY <1>13, Rows
  <2> HIDE DEF r
  <2>4. ~met /\ (\A u \in Threads : ~Migrates(thread[u])) /\ UNCHANGED <<key, registered>>
    BY <1>13 DEF OpenTmp, Migrates
  <2>5. FdInv(r, key', tmp')
    BY <2>2 DEF FdInv
  <2>6. \A u \in Threads : FdInv(thread[u], key', tmp')
    BY <2>4 DEF KeyInv, FdInv, Migrates
  <2>7. RegisteredIn(registered', key')
    BY <2>4 DEF KeyInv
  <2> QED BY <2>1, <2>2, <2>3, <2>4, <2>5, <2>6, <2>7, FilesPut
<1>14. ASSUME NEW t \in Threads, Write(t) PROVE KeyInv'
  <2> DEFINE w == thread[t]
             content == [id |-> w.id, sealed |-> w.seal \/ At(t, "writeTmp")]
  <2>1. /\ ~met /\ w \in Row /\ w.pc \in {"write", "writeTmp"}
        /\ w.pc \in Busy /\ w.id \in Keys
    BY <1>14 DEF Write, Row, Busy
  <2>2. Readable(content) /\ content.id = w.id
    BY <2>1 DEF Readable, KeyFile, At, Row, Thread
  <2>3. /\ key' = IF w.fd = "key" THEN content ELSE key
        /\ tmp' = IF w.fd = "tmp" THEN content ELSE tmp
        /\ registered' = IF w.then = "copy" /\ w.fd = "key" THEN w.id ELSE registered
    BY <1>14 DEF Write
  <2>4. WrittenRow(t) \in Row /\ Put(t, WrittenRow(t))
    BY <1>14, <2>1, Moves, ReturnsRow, Rows DEF WrittenRow
  <2> HIDE DEF content
  <2>5. FdInv(w, key, tmp) /\ OneOpen(thread) /\ OneMigrates(thread)
        /\ RegisteredIn(registered, key)
    BY <2>1 DEF KeyInv
  <2>6. RegisteredIn(registered', key')
    BY <2>2, <2>3, <2>5, FileKinds DEF RegisteredIn, FdInv
  <2>7. ASSUME NEW u \in Threads \ {t} PROVE FdInv(thread[u], key', tmp')
    <3>1. FdInv(thread[u], key, tmp)
      BY <2>1 DEF KeyInv
    <3>2. ~(w.fd = "key" /\ thread[u].fd = "key")
      BY <2>5 DEF OneOpen
    <3>3. ~(w.fd = "tmp" /\ Migrates(thread[u]))
      BY <2>5 DEF OneMigrates, FdInv, Migrates
    <3> QED BY <2>3, <2>5, <3>1, <3>2, <3>3, FileKinds DEF FdInv, Migrates
  <2>8. FdInv(WrittenRow(t), key', tmp') /\ WrittenRow(t).fd = "none"
        /\ (Migrates(WrittenRow(t)) => Migrates(w))
    <3>1. CASE w.pc = "writeTmp"
      <4>1. /\ WrittenRow(t).fd = "none" /\ WrittenRow(t).pc = "replace"
            /\ WrittenRow(t).id = w.id
        BY <3>1 DEF WrittenRow, At, Row, Thread
      <4>2. tmp' = NoFile \/ (Readable(tmp') /\ tmp'.id = w.id)
        BY <2>1, <2>2, <2>3, <2>5, <3>1 DEF FdInv, Row, Thread
      <4> QED BY <3>1, <4>1, <4>2 DEF FdInv, Migrates
    <3>2. CASE w.pc # "writeTmp"
      <4>1. WrittenRow(t) = Returns(w, w.id)
        BY <3>2 DEF WrittenRow, At
      <4>2. w.fd = "key" \/ (w.fd = "gone" /\ (w.then = "register" => w.orphan))
        BY <2>1, <2>5, <3>2 DEF FdInv, Row, Thread
      <4>3. Plain(WrittenRow(t), key')
        BY <2>1, <2>2, <2>3, <4>1, <4>2, ReturnsRow DEF Plain
      <4> QED BY <4>3, PlainFd DEF Plain
    <3> QED BY <3>1, <3>2
  <2>9. Migrates(w) => \A u \in Threads \ {t} : ~Migrates(thread[u])
    BY <2>5 DEF OneMigrates
  <2> QED BY <2>1, <2>4, <2>6, <2>7, <2>8, <2>9, FilesPut
<1>15. ASSUME NEW t \in Threads, Replace(t) PROVE KeyInv'
  <2>1. CASE tmp = NoFile
    <3>1. ~met => thread[t].fd = "none"
      BY <1>15 DEF Replace, At, KeyInv, FdInv
    <3> QED BY <1>9, <1>15, <2>1, <3>1 DEF Replace
  <2>2. CASE tmp # NoFile
    <3> DEFINE w == thread[t]
               Bump(fd) == CASE fd = "tmp" -> "key" [] fd = "key" -> "gone" [] OTHER -> fd
    <3>1. /\ ~met /\ w \in Row /\ w.pc = "replace" /\ w.id \in Keys
          /\ Readable(key) /\ key.id = w.id /\ key' = tmp /\ tmp' = NoFile
          /\ registered' = registered
      BY <1>15, <2>2 DEF Replace, At, Row, Busy
    <3>2. thread' = [u \in Threads |-> IF u = t THEN Returns(w, w.id)
                                       ELSE [thread[u] EXCEPT !.fd = Bump(@)]]
      BY <1>15, <2>2 DEF Replace
    <3>3. FdInv(w, key, tmp) /\ OneMigrates(thread) /\ RegisteredIn(registered, key)
      BY <3>1 DEF KeyInv
    <3>4. Readable(tmp) /\ tmp.id = w.id
      BY <2>2, <3>1, <3>3 DEF FdInv
    <3>5. Plain(thread'[t], key')
      BY <3>1, <3>2, <3>4, ReturnsRow DEF Plain
    <3>6. ASSUME NEW u \in Threads \ {t}
          PROVE  thread'[u] = thread[u] /\ thread[u].fd \in {"none", "gone"}
                 /\ ~Migrates(thread[u]) /\ FdInv(thread[u], key', tmp')
      <4>1. FdInv(thread[u], key, tmp) /\ ~Migrates(thread[u])
        BY <3>1, <3>3 DEF KeyInv, OneMigrates, Migrates
      <4>2. thread[u].fd \in {"none", "gone"}
        BY <3>1, <4>1, FileKinds DEF FdInv, Migrates, Row, Thread
      <4>3. Bump(thread[u].fd) = thread[u].fd
        BY <4>2
      <4>4. thread'[u] = thread[u]
        BY <3>2, <4>3 DEF Row, Thread
      <4> QED BY <3>1, <3>4, <4>1, <4>2, <4>4 DEF FdInv, Migrates
    <3>7. FdInv(thread'[t], key', tmp') /\ thread'[t].fd # "key" /\ ~Migrates(thread'[t])
      BY <3>5, PlainFd
    <3>8. OneOpen(thread') /\ OneMigrates(thread')
      BY <3>6, <3>7 DEF OneOpen, OneMigrates
    <3>9. RegisteredIn(registered', key')
      BY <3>1, <3>3, <3>4 DEF RegisteredIn
    <3> QED BY <3>6, <3>7, <3>8, <3>9 DEF KeyInv
  <2> QED BY <2>1, <2>2
<1>16. ASSUME NEW t \in Threads, Reset(t) PROVE KeyInv'
  <2>1. ResetRow(t) \in Row
    BY Moves, ZeroKey DEF ResetRow
  <2>2. ~met => Plain(ResetRow(t), key)
    BY <1>16 DEF Reset, At, KeyInv, FdInv, Plain, ResetRow, Row, Thread
  <2>3. ~met => RegisteredIn(registered, key)
    BY DEF KeyInv
  <2>4. UNCHANGED <<key, tmp, met, registered>>
    BY <1>16 DEF Reset
  <2> QED BY <1>16, <2>1, <2>2, <2>3, <2>4, Rows, PutRow, FilesKept
<1>17. ASSUME NEW t \in Threads, Wipe(t) PROVE KeyInv'
  <2>1. ~met /\ tmp' = NoFile /\ registered' = NoKey
    BY <1>17 DEF Wipe
  <2>2. Plain(thread'[t], key')
    BY <1>17 DEF Wipe, Idle, Plain
  <2>3. ASSUME NEW u \in Threads \ {t}
        PROVE  /\ FdInv(thread'[u], key', tmp') /\ thread'[u].fd # "key"
               /\ Migrates(thread'[u]) => Migrates(thread[u])
    <3>1. FdInv(thread[u], key, tmp)
      BY <2>1 DEF KeyInv
    <3>2. /\ thread'[u].fd = IF thread[u].fd = "none" THEN "none" ELSE "gone"
          /\ thread'[u].orphan = (thread[u].orphan \/ thread[u].then = "register")
          /\ thread'[u].pc = thread[u].pc /\ thread'[u].then = thread[u].then
      BY <1>17 DEF Wipe, Row, Thread
    <3> QED BY <2>1, <3>1, <3>2 DEF FdInv, Migrates
  <2>4. FdInv(thread'[t], key', tmp') /\ thread'[t].fd # "key" /\ ~Migrates(thread'[t])
    BY <2>2, PlainFd
  <2>5. OneOpen(thread')
    BY <2>3, <2>4 DEF OneOpen
  <2>6. OneMigrates(thread')
    BY <2>1, <2>3, <2>4 DEF KeyInv, OneMigrates
  <2>7. RegisteredIn(registered', key')
    BY <2>1 DEF RegisteredIn
  <2> QED BY <2>3, <2>4, <2>5, <2>6, <2>7 DEF KeyInv
<1>18. ASSUME NEW t \in Threads, UnlinkLock(t) PROVE KeyInv'
  <2>1. Put(t, Idle) /\ UNCHANGED <<key, tmp, met, registered>>
    BY <1>18, Rows DEF UnlinkLock
  <2>2. ~met => RegisteredIn(registered, key)
    BY DEF KeyInv
  <2> QED BY <2>1, <2>2, IdleRow, IdlePlain, PutRow, FilesKept
<1>19. ASSUME UNCHANGED <<key, tmp, met, registered, thread>> PROVE KeyInv'
  BY <1>19 DEF KeyInv
<1> QED
  BY <1>1, <1>2, <1>3, <1>4, <1>5, <1>6, <1>7, <1>8, <1>10, <1>11, <1>12, <1>13,
     <1>14, <1>15, <1>16, <1>17, <1>18, <1>19
  DEF Next, Identity, Crash, Unlock, vars

LEMMA InitKey == Init => KeyInv
<1> SUFFICES ASSUME Init PROVE KeyInv
  OBVIOUS
<1>1. \A t \in Threads : thread[t] = Idle
  BY DEF Init
<1>2. \A t \in Threads : Plain(thread[t], key)
  BY <1>1, IdlePlain
<1>3. RegisteredIn(registered, key)
  BY DEF Init, RegisteredIn
<1> QED BY <1>2, <1>3, PlainFd DEF KeyInv, OneOpen, OneMigrates

LEMMA KeyAlways == Spec => []KeyInv
<1>1. Init => TypeInv /\ LockInv /\ KeyInv
  BY InitTypes, InitLock, InitKey
<1>2. TypeInv /\ LockInv /\ KeyInv /\ [Next]_vars => TypeInv' /\ LockInv' /\ KeyInv'
  BY TypeStep, LockStep, KeyStep
<1> QED BY <1>1, <1>2, PTL DEF Spec

\* As long as no two writers of the key file get in each other's way, the
\* identity a node registered under is on disk and can be read until a reset
\* (load_or_create_identity, _migrate_to_keystore, copy of a version 1.4 home).
THEOREM KeyKept == Spec => []RegisteredKeyKept
<1>1. KeyInv => RegisteredKeyKept
  BY DEF KeyInv, RegisteredIn, RegisteredKeyKept
<1> QED BY <1>1, KeyAlways, PTL

\* As long as no two writers of the key file get in each other's way, a node
\* signs with the identity that is persisted: what RunsUnderPersistedKey says
\* without that condition, and what is then false (identity.py).
THEOREM PersistedUnlessMet == Spec => [](met \/ RunsUnderPersistedKey)
<1>1. KeyInv => met \/ RunsUnderPersistedKey
  BY DEF KeyInv, FdInv, RunsUnderPersistedKey, At, Threads
<1> QED BY <1>1, KeyAlways, PTL
=============================================================================
