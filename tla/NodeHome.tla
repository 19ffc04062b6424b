------------------------------ MODULE NodeHome ------------------------------
(***************************************************************************)
(* The home of a node, ~/.spacerouter, as the processes on the host share  *)
(* it: the identity key file (app/identity.py), the copy of a version 1.4  *)
(* home (app/legacy_migration.py), the daemon lock (app/main.py) and the   *)
(* two resets that wipe it all (app/paths.py, gui/api.py, app/main.py).    *)
(*                                                                         *)
(* The GUI's process has a thread that hosts the daemon and, in            *)
(* load_or_create_identity, bridge calls of the status screen; a process   *)
(* of the command line has one thread.  A file is its content and the      *)
(* handles open on it: a rename takes the handles along, an unlink leaves  *)
(* them on a file that has no name any more.  Host: POSIX.                 *)
(***************************************************************************)
EXTENDS Naturals

CONSTANTS
    Bridge,         \* bridge calls of the GUI that run at the same time
    Clis,           \* processes started from the command line
    NoFile, Torn,   \* a file that is absent, or cannot be read as a key
    NoKey,
    MaxKeys         \* bound: keys generated or imported

Daemons == {"gui"} \cup Clis    \* also the names of their processes
Threads == Daemons \cup Bridge

ASSUME HomeAssumption ==
    /\ "gui" \notin Bridge \cup Clis /\ Bridge \cap Clis = {}
    /\ NoFile # Torn /\ NoKey \notin 0..MaxKeys /\ MaxKeys \in Nat

\* Key 0 is that of version 1.4.
Keys == 0..MaxKeys
KeyFile == [id : Keys, sealed : BOOLEAN]
File == KeyFile \cup {NoFile, Torn}

ASSUME FileAssumption == {NoFile, Torn} \cap KeyFile = {}

VARIABLES
    key, tmp,       \* node-identity.key and its temporary file
    keys,           \* keys generated or imported so far
    legacy,         \* is there a home of version 1.4 still to be copied?
    up,             \* processes that run
    pass,           \* processes that were given the passphrase
    held,           \* whose handle holds a lock: on daemon.lock, or on a
                    \* file that has lost this name
    thread,         \* thread[t]: progress through load_or_create_identity
    registered,     \* the identity the coordination server knows
    met             \* have two writers of the key file got in each other's way?

vars == <<key, tmp, keys, legacy, up, pass, held, thread, registered, met>>

\* then is what the caller does with the identity, fd the file it has open
\* for writing, seal whether a new key is encrypted; an orphan is a daemon
\* whose home was wiped under it, a bare one could not open daemon.lock.
Pcs == {"idle", "copy", "look", "generated", "migrate", "write",
        "writeTmp", "replace", "have", "running", "wipe", "unlink"}
Thread == [pc : Pcs, then : {"nothing", "copy", "register", "wipe"}, id : Keys \cup {NoKey},
           fd : {"none", "key", "tmp", "gone"}, seal : BOOLEAN, orphan : BOOLEAN,
           bare : BOOLEAN]

Idle == [pc |-> "idle", then |-> "nothing", id |-> NoKey, fd |-> "none",
         seal |-> FALSE, orphan |-> FALSE, bare |-> FALSE]

HomeTypeOK ==
    /\ {key, tmp} \subseteq File /\ keys \in Keys /\ legacy \in BOOLEAN
    /\ up \subseteq Daemons /\ pass \subseteq Daemons
    /\ held \in [Daemons -> {"nothing", "daemon.lock", "unlinked"}]
    /\ thread \in [Threads -> Thread]
    /\ registered \in Keys \cup {NoKey} /\ met \in BOOLEAN

Init ==
    /\ key = NoFile /\ tmp = NoFile /\ keys = 0
    /\ legacy \in BOOLEAN
    /\ up = {} /\ pass = {} /\ held = [p \in Daemons |-> "nothing"]
    /\ thread = [t \in Threads |-> Idle]
    /\ registered = NoKey /\ met = FALSE

process(t) == IF t \in Clis THEN t ELSE "gui"
At(t, pc) == thread[t].pc = pc
Goto(t, pc) == thread' = [thread EXCEPT ![t].pc = pc]
Readable(f) == f \in KeyFile

files == <<key, tmp, keys>>
host == <<legacy, up, pass, held>>
claims == <<registered, met>>

-----------------------------------------------------------------------------
(* Processes.                                                              *)

\* A process comes up, with or without the passphrase in its environment;
\* the first one copies the home of version 1.4.
Launch(p) ==
    /\ p \notin up
    /\ up' = up \cup {p}
    /\ pass' \in {pass, pass \cup {p}}
    /\ legacy' = FALSE
    /\ thread' = IF legacy THEN [thread EXCEPT ![p].pc = "copy",
                                                ![p].then = "copy"] ELSE thread
    /\ UNCHANGED <<files, held, claims>>

Gone(p) ==
    /\ up' = up \ {p} /\ pass' = pass \ {p}
    /\ held' = [held EXCEPT ![p] = "nothing"]
    /\ thread' = [t \in Threads |-> IF process(t) = p THEN Idle ELSE thread[t]]

Crash(p) == p \in up /\ Gone(p) /\ UNCHANGED <<files, legacy, claims>>

\* unlock_and_start: the operator gives the passphrase.
Unlock ==
    /\ "gui" \in up /\ Readable(key) /\ key.sealed
    /\ pass' = pass \cup {"gui"}
    /\ UNCHANGED <<files, legacy, up, held, thread, claims>>

\* copytree reaches the key file; it would overwrite one.
CopyOpens(t) ==
    /\ At(t, "copy")
    /\ met' = (met \/ key # NoFile)
    /\ key' = Torn
    /\ thread' = [thread EXCEPT ![t].pc = "write", ![t].fd = "key", ![t].id = 0]
    /\ UNCHANGED <<tmp, keys, host, registered>>

-----------------------------------------------------------------------------
(* The daemon.                                                             *)

\* Mutant: the handle of the lock is dropped.
StartUnlocked(d) ==
    /\ d \in up /\ At(d, "idle")
    /\ \/ held[d] # "nothing"
       \/ \A p \in Daemons : held[p] # "daemon.lock"
    /\ thread' = [thread EXCEPT ![d].pc = "look", ![d].then = "register"]
    /\ UNCHANGED <<files, host, claims>>

\* _run up to _acquire_daemon_lock: the handle of an earlier start counts as
\* the lock, whatever file it is open on; a daemon that cannot open the file
\* goes on without a lock.  A refused daemon changes nothing.
Start(d) ==
    /\ d \in up /\ At(d, "idle")
    /\ \E bare \in {b \in BOOLEAN : b => held[d] = "nothing"} :
          /\ \/ bare \/ held[d] # "nothing"
             \/ \A p \in Daemons : held[p] # "daemon.lock"
          /\ held' = [held EXCEPT ![d] =
                IF bare \/ @ # "nothing" THEN @ ELSE "daemon.lock"]
          /\ thread' = [thread EXCEPT ![d].pc = "look", ![d].then = "register",
                                      ![d].bare = bare]
    /\ UNCHANGED <<files, legacy, up, pass, claims>>

\* register_node succeeds.
Register(d) ==
    /\ At(d, "have") /\ thread[d].then = "register"
    /\ registered' = IF thread[d].orphan THEN registered ELSE thread[d].id
    /\ Goto(d, "running")
    /\ UNCHANGED <<files, host, met>>

\* The node is stopped; the GUI goes on and keeps its lock.
Stop(d) ==
    /\ thread[d].pc \in {"have", "running"} /\ thread[d].then = "register"
    /\ IF d = "gui" THEN thread' = [thread EXCEPT ![d] = Idle] /\ UNCHANGED host
                    ELSE Gone(d) /\ UNCHANGED legacy
    /\ UNCHANGED <<files, claims>>

-----------------------------------------------------------------------------
(* load_or_create_identity.                                                *)

\* A bridge call wants the address, or the wizard an identity.
Lookup(t) ==
    /\ t # "gui" /\ process(t) \in up /\ At(t, "idle")
    /\ thread' = [thread EXCEPT ![t].pc = "look"]
    /\ UNCHANGED <<files, host, claims>>

\* write_identity_key: where onboarding found no key, one is imported, and
\* the node is started afterwards.
Import(t) ==
    /\ t \in Daemons \cap up /\ At(t, "idle")
    /\ key = NoFile /\ keys < MaxKeys
    /\ keys' = keys + 1
    /\ thread' = [thread EXCEPT ![t].pc = "generated", ![t].id = keys + 1,
                                ![t].seal = (process(t) \in pass)]
    /\ UNCHANGED <<key, tmp, host, claims>>

\* The call returns id: a daemon goes on to register, a reset wipes.
Returns(w, id) ==
    CASE w.then = "register" -> [w EXCEPT !.pc = "have", !.id = id, !.fd = "none",
                                                 !.seal = FALSE]
      [] w.then = "wipe" -> [Idle EXCEPT !.pc = "wipe"]
      [] OTHER -> Idle

\* The call raises: a daemon ends, the command line exits, a reset goes on.
Raises(t) ==
    IF thread[t].then = "wipe" THEN Goto(t, "wipe") /\ UNCHANGED host
    ELSE IF t \in Clis THEN Gone(t) /\ UNCHANGED legacy
    ELSE thread' = [thread EXCEPT ![t] = Idle] /\ UNCHANGED host

\* There is a key file: it cannot be read, or it is locked.
LookFails(t) ==
    /\ At(t, "look")
    /\ \/ key = Torn
       \/ Readable(key) /\ key.sealed /\ process(t) \notin pass
    /\ Raises(t)
    /\ UNCHANGED <<files, claims>>

\* It can be read; a raw key is encrypted when there is a passphrase.
LookFinds(t) ==
    /\ At(t, "look") /\ Readable(key)
    /\ key.sealed => process(t) \in pass
    /\ thread' = [thread EXCEPT ![t] =
          IF process(t) \in pass /\ ~key.sealed
          THEN [@ EXCEPT !.pc = "migrate", !.id = key.id]
          ELSE Returns(@, key.id)]
    /\ UNCHANGED <<files, host, claims>>

\* Mutant: what is generated is not what is written.
LookGeneratesNothing(t) ==
    /\ At(t, "look") /\ key = NoFile /\ keys < MaxKeys
    /\ keys' = keys + 1
    /\ thread' = [thread EXCEPT ![t].pc = "generated",
                                ![t].seal = (process(t) \in pass)]
    /\ UNCHANGED <<key, tmp, host, claims>>

\* There is none: one is generated, and encrypted, in memory.
LookGenerates(t) ==
    /\ At(t, "look") /\ key = NoFile /\ keys < MaxKeys
    /\ keys' = keys + 1
    /\ thread' = [thread EXCEPT ![t].pc = "generated", ![t].id = keys + 1,
                                ![t].seal = (process(t) \in pass)]
    /\ UNCHANGED <<key, tmp, host, claims>>

Open(t, file, pc) == thread' = [thread EXCEPT ![t].pc = pc, ![t].fd = file]

\* The key file is opened for writing, which creates or empties it.
OpenKey(t) ==
    /\ At(t, "generated")
    /\ met' = (met \/ key # NoFile)
    /\ key' = Torn
    /\ Open(t, "key", "write")
    /\ UNCHANGED <<tmp, keys, host, registered>>

\* A reset has removed the directory.
OpenFails(t) ==
    /\ At(t, "generated") /\ key = NoFile
    /\ Raises(t)
    /\ UNCHANGED <<files, claims>>

\* Mutant: the key file itself is opened.
OpenTmpInPlace(t) ==
    /\ At(t, "migrate")
    /\ met' = (met \/ \E u \in Threads : thread[u].fd # "none")
    /\ key' = Torn
    /\ Open(t, "key", "writeTmp")
    /\ UNCHANGED <<tmp, keys, host, registered>>

\* _migrate_to_keystore writes to a temporary file, whose name is always the
\* same.
OpenTmp(t) ==
    /\ At(t, "migrate")
    /\ met' = (met \/ \E u \in Threads : thread[u].pc \in {"writeTmp", "replace"})
    /\ tmp' = Torn
    /\ Open(t, "tmp", "writeTmp")
    /\ UNCHANGED <<key, keys, host, registered>>

\* What was opened is written and closed.  The copied key is registered.
Write(t) ==
    LET w == thread[t]
        content == [id |-> w.id, sealed |-> w.seal \/ At(t, "writeTmp")]
    IN  /\ w.pc \in {"write", "writeTmp"}
        /\ key' = IF w.fd = "key" THEN content ELSE key
        /\ tmp' = IF w.fd = "tmp" THEN content ELSE tmp
        /\ registered' = IF w.then = "copy" /\ w.fd = "key" THEN w.id ELSE registered
        /\ thread' = [thread EXCEPT ![t] =
              IF w.pc = "writeTmp" THEN [w EXCEPT !.pc = "replace", !.fd = "none"]
              ELSE Returns(w, w.id)]
        /\ UNCHANGED <<keys, host, met>>

\* os.replace: a handle on the temporary file is now one on the key file.
Replace(t) ==
    /\ At(t, "replace")
    /\ IF tmp = NoFile
       THEN Raises(t) /\ UNCHANGED <<files, claims>>
       ELSE /\ key' = tmp /\ tmp' = NoFile
            /\ met' = (met \/ ~Readable(key) \/ key.id # thread[t].id)
            /\ thread' = [u \in Threads |->
                  IF u = t THEN Returns(thread[t], thread[t].id)
                  ELSE [thread[u] EXCEPT !.fd = CASE @ = "tmp" -> "key"
                                                  [] @ = "key" -> "gone"
                                                  [] OTHER -> @]]
            /\ UNCHANGED <<keys, host, registered>>

-----------------------------------------------------------------------------
(* Resets.                                                                 *)

\* fresh_restart, with the node stopped, and --reset, which asks for a
\* passphrase.  To deregister the identity is loaded, or made.
Reset(t) ==
    /\ t # "gui" /\ process(t) \in up /\ At(t, "idle")
    /\ IF t \in Clis THEN pass' \in {pass, pass \cup {t}}
                    ELSE At("gui", "idle") /\ UNCHANGED pass
    /\ thread' = [thread EXCEPT ![t].pc = "look", ![t].then = "wipe"]
    /\ UNCHANGED <<files, legacy, up, held, claims>>

\* The certs directory is removed, whoever uses it.
Wipe(t) ==
    /\ At(t, "wipe")
    /\ key' = NoFile /\ tmp' = NoFile
    /\ registered' = NoKey
    /\ thread' = [u \in Threads |->
          IF u = t THEN [Idle EXCEPT !.pc = "unlink"]
          ELSE [thread[u] EXCEPT
                  !.fd = IF @ = "none" THEN @ ELSE "gone",
                  !.orphan = @ \/ thread[u].then = "register"]]
    /\ UNCHANGED <<keys, host, met>>

\* wipe_operational_state unlinks daemon.lock; fresh_restart then clears the
\* SR_* variables, the passphrase among them.
UnlinkLock(t) ==
    /\ At(t, "unlink")
    /\ held' = [p \in Daemons |-> IF held[p] = "daemon.lock" THEN "unlinked"
                                                           ELSE held[p]]
    /\ pass' = IF t \in Clis THEN pass ELSE pass \ {"gui"}
    /\ thread' = [thread EXCEPT ![t] = Idle]
    /\ UNCHANGED <<files, legacy, up, claims>>

-----------------------------------------------------------------------------
Identity(t) ==
    \/ LookFails(t) \/ LookFinds(t) \/ LookGenerates(t)
    \/ OpenKey(t) \/ OpenFails(t) \/ OpenTmp(t) \/ Write(t) \/ Replace(t)

Next ==
    \/ \E p \in Daemons : Launch(p) \/ Crash(p) \/ Start(p) \/ Register(p) \/ Stop(p)
    \/ \E t \in Threads :
          \/ CopyOpens(t) \/ Lookup(t) \/ Import(t) \/ Identity(t)
          \/ Reset(t) \/ Wipe(t) \/ UnlinkLock(t)
    \/ Unlock

Spec == Init /\ [][Next]_vars

-----------------------------------------------------------------------------
(* Properties.                                                             *)

Runs(d) == ~At(d, "idle") /\ thread[d].then = "register"

\* The identity a node registered under, or brought along from version 1.4,
\* is on disk and can be read until a reset, whatever crashes, migrations,
\* lost passphrases, other processes and remains of earlier calls come in
\* between; only two writers that get in each other's way can cost it
\* (load_or_create_identity, _migrate_to_keystore, _run, the resets).
RegisteredKeyKept ==
    registered # NoKey /\ ~met => Readable(key) /\ key.id = registered

\* Two daemons share a home only after a reset has taken the lock file's name
\* from the one that holds the lock, or when one of them could not open that
\* file (_acquire_daemon_lock, across stops that keep the handle, starts
\* without a lock, crashes and wipe_operational_state).
OneDaemon ==
    \A d, e \in Daemons : d # e /\ Runs(d) /\ Runs(e)
          => \/ "unlinked" \in {held[d], held[e]}
             \/ thread[d].bare \/ thread[e].bare

\* A node signs with the identity that is persisted, if nobody has wiped its
\* home: the lookups of the status screen, which are said to return None when
\* the file is missing, do not come between (identity.py, gui/api.py).
RunsUnderPersistedKey ==
    \A d \in Daemons : At(d, "running") /\ ~thread[d].orphan
                          => Readable(key) /\ key.id = thread[d].id
=============================================================================
