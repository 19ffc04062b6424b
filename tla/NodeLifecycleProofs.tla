------------------------ MODULE NodeLifecycleProofs ------------------------
(***************************************************************************)
(* Theorems about NodeLifecycle, for every number of threads and value of  *)
(* the thresholds.                                                         *)
(***************************************************************************)
EXTENDS NodeLifecycle, TLAPS

-----------------------------------------------------------------------------
(* The state machine.                                                      *)

Machine == [state : NodeStates, retry_count : Nat]

\* The table of transitions, read backwards.
LEMMA AllowedFrom ==
    ASSUME NEW m \in Machine
    PROVE  /\ Allowed(m, "INITIALIZING") <=>
                m.state \in {"IDLE", "PASSPHRASE_REQUIRED", "ERROR_TRANSIENT"}
           /\ Allowed(m, "BINDING") <=> m.state \in {"INITIALIZING", "ERROR_TRANSIENT"}
           /\ Allowed(m, "REGISTERING") <=> m.state \in {"BINDING", "ERROR_TRANSIENT"}
           /\ Allowed(m, "RUNNING") <=> m.state \in {"REGISTERING", "RECONNECTING"}
           /\ Allowed(m, "RECONNECTING") <=> m.state \in {"RUNNING", "ERROR_TRANSIENT"}
           /\ Allowed(m, "PASSPHRASE_REQUIRED") <=> m.state = "INITIALIZING"
           /\ Allowed(m, "ERROR_TRANSIENT") <=>
                m.state \in {"INITIALIZING", "BINDING", "REGISTERING", "RECONNECTING"}
           /\ Allowed(m, "ERROR_PERMANENT") <=>
                m.state \in {"INITIALIZING", "BINDING", "REGISTERING", "RECONNECTING",
                             "ERROR_TRANSIENT"}
           /\ Allowed(m, "STOPPING") <=> m.state # "STOPPING"
           /\ Allowed(m, "IDLE") <=>
                m.state \in {"ERROR_TRANSIENT", "ERROR_PERMANENT", "STOPPING"}
BY DEF Machine, Allowed, Transitions, NodeStates, Errors

LEMMA MovedType ==
    ASSUME NEW m \in Machine, NEW to \in NodeStates
    PROVE  Moved(m, to) \in Machine /\ Moved(m, to).state = to
BY DEF Machine, Moved

LEMMA CountedType ==
    ASSUME NEW m \in Machine, NEW kind
    PROVE  Counted(m, kind) \in Machine /\ Counted(m, kind).state = m.state
BY DEF Machine, Counted

\* An error is recorded, or the machine stays where it is.
LEMMA HandleErrorType ==
    ASSUME NEW m \in Machine, NEW kind, NEW phase
    PROVE  /\ handle_error(m, kind, phase) \in Machine
           /\ ErrorState(m, kind, phase) \in Errors
           /\ handle_error(m, kind, phase).state =
                IF Allowed(m, ErrorState(m, kind, phase))
                THEN ErrorState(m, kind, phase) ELSE m.state
<1>1. ErrorState(m, kind, phase) \in Errors \cap NodeStates
  BY DEF ErrorState, Errors, NodeStates
<1> QED BY <1>1, CountedType, MovedType DEF handle_error

\* What the finally clause of _run_loop does with the machine.
LEMMA ChecksType ==
    ASSUME LifecycleTypeOK, NEW t \in Threads, RunLoopChecks(t)
    PROVE  /\ sm' \in Machine
           /\ sm'.state = IF sm.state = "STOPPING" THEN "IDLE" ELSE sm.state
<1>m. sm \in Machine
  BY DEF LifecycleTypeOK, Machine
<1>1. sm.state \notin AtRest /\ Allowed(sm, "IDLE") <=> sm.state = "STOPPING"
  BY <1>m, AllowedFrom DEF AtRest, Errors, Machine, NodeStates
<1>2. "IDLE" \in NodeStates
  BY DEF NodeStates
<1> QED BY <1>m, <1>1, <1>2, MovedType DEF RunLoopChecks

-----------------------------------------------------------------------------
(* Type correctness.                                                       *)

LEMMA NewThreadType ==
    ASSUME NEW pc \in Pcs
    PROVE  NewThread(pc) \in ThreadState
BY LifecycleAssumption DEF NewThread, ThreadState, Exceptions

LEMMA FreshType == Fresh \in Machine
BY DEF Fresh, Machine, NodeStates

LEMMA InitTypes == Init => LifecycleTypeOK
<1> SUFFICES ASSUME Init PROVE LifecycleTypeOK
  OBVIOUS
<1>1. thread \in [Threads -> ThreadState]
  BY NewThreadType DEF Init, Pcs, InLoop
<1>2. net \in Net
  BY DEF Init, Net
<1>3. sm \in Machine
  BY FreshType DEF Init
<1>4. 0 \in 0..MaxStarts
  BY LifecycleAssumption
<1> QED BY <1>1, <1>2, <1>3, <1>4 DEF Init, LifecycleTypeOK, Machine

\* Thread t goes on as r.
Put(t, r) == thread' = [thread EXCEPT ![t] = r]

LEMMA PutType ==
    ASSUME LifecycleTypeOK, NEW t \in Threads, NEW r \in ThreadState, Put(t, r)
    PROVE  thread' \in [Threads -> ThreadState]
BY DEF Put, LifecycleTypeOK

\* The rows of the steps.
Went(t, pc) == [thread[t] EXCEPT !.pc = pc]
Raised(t, pc, exc) == [thread[t] EXCEPT !.pc = pc, !.exc = exc]
Tried(t, pc, exc, endpoint) ==
    [thread[t] EXCEPT !.pc = pc, !.exc = exc, !.endpoint = endpoint]
Resumed(t, endpoint) ==
    [thread[t] EXCEPT !.pc = "run", !.endpoint = endpoint,
                      !.health = 0, !.probe = 0]

LEMMA GotoPut ==
    ASSUME LifecycleTypeOK, NEW t \in Threads, NEW pc \in Pcs, Goto(t, pc)
    PROVE  Put(t, Went(t, pc)) /\ Went(t, pc) \in ThreadState
BY DEF LifecycleTypeOK, Goto, Put, Went, ThreadState

LEMMA RaisedPut ==
    ASSUME LifecycleTypeOK, NEW t \in Threads, NEW pc \in Pcs, NEW exc \in Exceptions,
           thread' = [thread EXCEPT ![t].pc = pc, ![t].exc = exc]
    PROVE  Put(t, Raised(t, pc, exc)) /\ Raised(t, pc, exc) \in ThreadState
<1>1. Put(t, Raised(t, pc, exc))
  BY DEF LifecycleTypeOK, Put, Raised, ThreadState
<1>2. Raised(t, pc, exc) \in ThreadState
  BY DEF LifecycleTypeOK, Raised, ThreadState
<1> QED BY <1>1, <1>2

LEMMA TriedPut ==
    ASSUME LifecycleTypeOK, NEW t \in Threads, NEW pc \in Pcs, NEW exc \in Exceptions,
           NEW endpoint \in BOOLEAN,
           thread' = [thread EXCEPT ![t].pc = pc, ![t].exc = exc, ![t].endpoint = endpoint]
    PROVE  Put(t, Tried(t, pc, exc, endpoint)) /\ Tried(t, pc, exc, endpoint) \in ThreadState
<1>1. Put(t, Tried(t, pc, exc, endpoint))
  BY DEF LifecycleTypeOK, Put, Tried, ThreadState
<1>2. Tried(t, pc, exc, endpoint) \in ThreadState
  BY DEF LifecycleTypeOK, Tried, ThreadState
<1> QED BY <1>1, <1>2

LEMMA ResumedPut ==
    ASSUME LifecycleTypeOK, NEW t \in Threads, NEW endpoint \in BOOLEAN,
           Resume(t, endpoint, TRUE), Allowed(sm, "RUNNING")
    PROVE  Put(t, Resumed(t, endpoint)) /\ Resumed(t, endpoint) \in ThreadState
<1>0. thread' = [thread EXCEPT ![t].pc = "run", ![t].endpoint = endpoint,
                               ![t].health = 0, ![t].probe = 0]
  BY Zenon DEF Resume
<1>1. Put(t, Resumed(t, endpoint))
  BY <1>0 DEF LifecycleTypeOK, Put, Resumed, ThreadState
<1>2. 0 \in 0..HEARTBEAT_FAIL_THRESHOLD /\ 0 \in 0..OFFLINE_ESCALATION_THRESHOLD
  BY LifecycleAssumption
<1>3. "run" \in Pcs /\ thread[t] \in ThreadState
  BY DEF Pcs, InLoop, LifecycleTypeOK
<1>4. Resumed(t, endpoint) \in ThreadState
  BY <1>2, <1>3 DEF Resumed, ThreadState
<1> QED BY <1>1, <1>4

LEMMA ReportPut ==
    ASSUME LifecycleTypeOK, NEW t \in Threads, NEW to \in NodeStates, NEW pc \in Pcs,
           ReportThen(t, to, pc)
    PROVE  /\ sm' \in Machine
           /\ \/ sm'.state = to /\ Allowed(sm, to) /\ Put(t, Went(t, pc))
              \/ sm' = sm /\ ~Allowed(sm, to) /\ Put(t, Raised(t, "ending", "permanent"))
           /\ thread' \in [Threads -> ThreadState]
<1>1. CASE Allowed(sm, to) /\ sm' = Moved(sm, to) /\ Goto(t, pc)
  <2>1. sm' \in Machine /\ sm'.state = to
    BY <1>1, MovedType DEF LifecycleTypeOK, Machine
  <2> QED BY <2>1, <1>1, GotoPut, PutType
<1>2. CASE ~Allowed(sm, to) /\ sm' = sm /\ Ending(t, "permanent")
  <2>1. "ending" \in Pcs /\ "permanent" \in Exceptions
    BY DEF Pcs, InLoop, Exceptions
  <2>2. Put(t, Raised(t, "ending", "permanent")) /\ Raised(t, "ending", "permanent") \in ThreadState
    BY <1>2, <2>1, RaisedPut DEF Ending
  <2> QED BY <2>2, <1>2, PutType DEF LifecycleTypeOK, Machine
<1> QED BY <1>1, <1>2 DEF ReportThen

LEMMA EndingPut ==
    ASSUME LifecycleTypeOK, NEW t \in Threads, NEW exc \in Exceptions, Ending(t, exc)
    PROVE  Put(t, Raised(t, "ending", exc)) /\ thread' \in [Threads -> ThreadState]
<1>1. "ending" \in Pcs
  BY DEF Pcs, InLoop
<1> QED BY <1>1, RaisedPut, PutType DEF Ending

\* An attempt that raises: where the thread goes and what becomes of the
\* machine.
LEMMA AttemptPut ==
    ASSUME LifecycleTypeOK, NEW t \in Threads, NEW kind, NEW endpoint \in BOOLEAN,
           AttemptRaises(t, kind, endpoint)
    PROVE  LET to == ErrorState(sm, kind, "RECONNECTING") IN
           /\ sm' \in Machine /\ to \in Errors
           /\ \/ Allowed(sm, to) /\ to = "ERROR_TRANSIENT" /\ sm'.state = to
                 /\ Put(t, Tried(t, "backoff", "nothing", endpoint))
              \/ Allowed(sm, to) /\ to = "ERROR_PERMANENT" /\ sm'.state = to
                 /\ Put(t, Tried(t, "ending", "nothing", endpoint))
              \/ ~Allowed(sm, to) /\ sm'.state = sm.state
                 /\ Put(t, Tried(t, "ending", "permanent", endpoint))
           /\ thread' \in [Threads -> ThreadState]
<1> DEFINE to == ErrorState(sm, kind, "RECONNECTING")
           moves(pc, exc) == thread' = [thread EXCEPT
                          ![t].pc = pc, ![t].exc = exc, ![t].endpoint = endpoint]
<1>1. /\ sm' \in Machine /\ to \in Errors
      /\ sm'.state = IF Allowed(sm, to) THEN to ELSE sm.state
  BY HandleErrorType DEF AttemptRaises, LifecycleTypeOK, Machine
<1>2. \/ Allowed(sm, to) /\ to = "ERROR_TRANSIENT" /\ moves("backoff", "nothing")
      \/ Allowed(sm, to) /\ to = "ERROR_PERMANENT" /\ moves("ending", "nothing")
      \/ ~Allowed(sm, to) /\ moves("ending", "permanent")
  <2>1. to \in {"ERROR_TRANSIENT", "ERROR_PERMANENT"}
    BY <1>1 DEF Errors
  <2> QED BY <2>1, Zenon DEF AttemptRaises, RetryDelay
<1>3. {"backoff", "ending"} \subseteq Pcs /\ {"nothing", "permanent"} \subseteq Exceptions
  BY DEF Pcs, InLoop, Exceptions
<1>4. ASSUME NEW pc \in {"backoff", "ending"}, NEW exc \in {"nothing", "permanent"},
             moves(pc, exc)
      PROVE  Put(t, Tried(t, pc, exc, endpoint)) /\ thread' \in [Threads -> ThreadState]
  BY <1>3, <1>4, TriedPut, PutType
<1> HIDE DEF to, moves
<1>5. CASE Allowed(sm, to) /\ to = "ERROR_TRANSIENT" /\ moves("backoff", "nothing")
  BY <1>1, <1>4, <1>5 DEF to
<1>6. CASE Allowed(sm, to) /\ to = "ERROR_PERMANENT" /\ moves("ending", "nothing")
  BY <1>1, <1>4, <1>6 DEF to
<1>7. CASE ~Allowed(sm, to) /\ moves("ending", "permanent")
  BY <1>1, <1>4, <1>7 DEF to
<1> QED BY <1>2, <1>5, <1>6, <1>7

\* What a round of a loop may change of its thread.
LoopRow(t, r) ==
    /\ r \in ThreadState
    /\ r.pc = thread[t].pc
    /\ r.stop = thread[t].stop /\ r.forced = thread[t].forced
    /\ r.exc = thread[t].exc /\ r.endpoint = thread[t].endpoint

\* A round of a loop: the machine stays, or goes from RUNNING to RECONNECTING;
\* a health loop that has returned has seen to that.
LEMMA LoopPut ==
    ASSUME LifecycleTypeOK, NEW t \in Threads, HealthCheck(t) \/ SelfProbe(t)
    PROVE  /\ sm' \in Machine /\ thread' \in [Threads -> ThreadState]
           /\ sm'.state \in {sm.state, "RECONNECTING"}
           /\ sm'.state # sm.state => Allowed(sm, "RECONNECTING")
           /\ \E r \in ThreadState :
                 /\ Put(t, r) /\ LoopRow(t, r)
                 /\ r.health = HEARTBEAT_FAIL_THRESHOLD =>
                       r.health = thread[t].health \/ ~Allowed(sm', "RECONNECTING")
<1> DEFINE health(n) == [thread[t] EXCEPT !.health = n]
           probe(n)  == [thread[t] EXCEPT !.probe = n]
<1>1. sm \in Machine /\ thread[t] \in ThreadState
  BY DEF LifecycleTypeOK, Machine
<1>2. ASSUME NEW n \in 0..HEARTBEAT_FAIL_THRESHOLD,
             thread' = [thread EXCEPT ![t].health = n]
      PROVE  LoopRow(t, health(n)) /\ Put(t, health(n)) /\ health(n).health = n
  BY <1>1, <1>2 DEF LoopRow, Put, LifecycleTypeOK, ThreadState
<1>3. ASSUME NEW n \in 0..OFFLINE_ESCALATION_THRESHOLD,
             thread' = [thread EXCEPT ![t].probe = n]
      PROVE  LoopRow(t, probe(n)) /\ Put(t, probe(n))
             /\ probe(n).health = thread[t].health
  BY <1>1, <1>3 DEF LoopRow, Put, LifecycleTypeOK, ThreadState
<1>4. /\ 0 \in 0..HEARTBEAT_FAIL_THRESHOLD /\ 0 # HEARTBEAT_FAIL_THRESHOLD
      /\ HEARTBEAT_FAIL_THRESHOLD \in 0..HEARTBEAT_FAIL_THRESHOLD
      /\ 0 \in 0..OFFLINE_ESCALATION_THRESHOLD
      /\ OFFLINE_ESCALATION_THRESHOLD \in 0..OFFLINE_ESCALATION_THRESHOLD
      /\ thread[t].health \in Nat /\ thread[t].probe \in Nat
  BY <1>1, LifecycleAssumption DEF ThreadState
<1>5. ASSUME sm' = IF Allowed(sm, "RECONNECTING") THEN Moved(sm, "RECONNECTING") ELSE sm
      PROVE  /\ sm' \in Machine /\ ~Allowed(sm', "RECONNECTING")
             /\ sm'.state \in {sm.state, "RECONNECTING"}
             /\ sm'.state # sm.state => Allowed(sm, "RECONNECTING")
  <2>1. /\ Moved(sm, "RECONNECTING") \in Machine
        /\ Moved(sm, "RECONNECTING").state = "RECONNECTING"
    BY <1>1, MovedType DEF NodeStates
  <2>2. ~Allowed(Moved(sm, "RECONNECTING"), "RECONNECTING")
    BY <2>1, AllowedFrom
  <2> QED BY <1>1, <1>5, <2>1, <2>2
<1> HIDE DEF health, probe
<1>6. CASE HealthCheck(t)
  <2>1. CASE Good(t, "health")
    BY <1>1, <1>2, <1>4, <2>1, PutType DEF Good, LoopRow
  <2>2. CASE /\ thread[t].health + 1 < HEARTBEAT_FAIL_THRESHOLD /\ sm' = sm
             /\ thread' = [thread EXCEPT ![t].health = @ + 1]
    <3>1. thread[t].health + 1 \in 0..HEARTBEAT_FAIL_THRESHOLD
      BY <1>4, <2>2, LifecycleAssumption
    <3>2. thread' = [thread EXCEPT ![t].health = thread[t].health + 1]
      BY <2>2 DEF LifecycleTypeOK
    <3>3. thread[t].health + 1 # HEARTBEAT_FAIL_THRESHOLD
      BY <1>4, <2>2, LifecycleAssumption
    <3> QED BY <1>1, <1>2, <2>2, <3>1, <3>2, <3>3, PutType DEF LoopRow
  <2>3. CASE Escalate(t, "health", HEARTBEAT_FAIL_THRESHOLD)
    BY <1>2, <1>4, <1>5, <2>3, PutType DEF Escalate, LoopRow
  <2> QED BY <1>6, <2>1, <2>2, <2>3 DEF HealthCheck, Bad
<1>7. CASE SelfProbe(t)
  <2>1. CASE Good(t, "probe")
    BY <1>1, <1>3, <1>4, <2>1, PutType DEF Good, LoopRow
  <2>2. CASE /\ thread[t].probe + 1 < OFFLINE_ESCALATION_THRESHOLD /\ sm' = sm
             /\ thread' = [thread EXCEPT ![t].probe = @ + 1]
    <3>1. thread[t].probe + 1 \in 0..OFFLINE_ESCALATION_THRESHOLD
      BY <1>4, <2>2, LifecycleAssumption
    <3>2. thread' = [thread EXCEPT ![t].probe = thread[t].probe + 1]
      BY <2>2 DEF LifecycleTypeOK
    <3> QED BY <1>1, <1>3, <2>2, <3>1, <3>2, PutType DEF LoopRow
  <2>3. CASE Escalate(t, "probe", OFFLINE_ESCALATION_THRESHOLD)
    BY <1>3, <1>4, <1>5, <2>3, PutType DEF Escalate, LoopRow
  <2> QED BY <1>7, <2>1, <2>2, <2>3 DEF SelfProbe, Bad
<1> QED BY <1>6, <1>7

\* The steps of NodeManager and of the environment that are no thread's.
Manager ==
    \/ TimerFires \/ Start
    \/ StopDead \/ StopAlive \/ StopForces \/ StopJoined \/ StopGivesUp

LEMMA SpawnType ==
    ASSUME LifecycleTypeOK, NEW t \in Threads, Spawn(t)
    PROVE  /\ thread' \in [Threads -> ThreadState]
           /\ Put(t, NewThread("boot")) /\ current' = t /\ event' = t
           /\ overlapped' \in BOOLEAN
<1>1. NewThread("boot") \in ThreadState
  BY NewThreadType DEF Pcs, InLoop
<1>2. overlapped' \in BOOLEAN
  BY DEF Spawn, LifecycleTypeOK
<1> QED BY <1>1, <1>2, PutType DEF Spawn, Put

LEMMA ManagerTypes ==
    ASSUME LifecycleTypeOK, Manager
    PROVE  LifecycleTypeOK'
<1>1. CASE TimerFires
  <2>1. /\ thread' \in [Threads -> ThreadState]
        /\ {current', event'} \subseteq Threads \cup {NoThread}
        /\ overlapped' \in BOOLEAN
    BY <1>1, SpawnType DEF TimerFires, LifecycleTypeOK
  <2>2. timers' \in Nat
    BY <1>1 DEF TimerFires, LifecycleTypeOK
  <2> QED BY <1>1, <2>1, <2>2 DEF TimerFires, LifecycleTypeOK, host
<1>2. CASE Start
  <2>1. /\ thread' \in [Threads -> ThreadState]
        /\ {current', event'} \subseteq Threads \cup {NoThread}
        /\ overlapped' \in BOOLEAN
    BY <1>2, SpawnType DEF Start, LifecycleTypeOK
  <2>2. starts' \in 0..MaxStarts
    BY <1>2, LifecycleAssumption DEF Start, LifecycleTypeOK
  <2> QED BY <1>2, <2>1, <2>2, FreshType DEF Start, LifecycleTypeOK, host, Machine
<1>3. CASE StopDead
  <2>1. sm' \in Machine
    BY <1>3, MovedType, FreshType DEF StopDead, LifecycleTypeOK, Machine, NodeStates
  <2> QED BY <1>3, <2>1 DEF StopDead, LifecycleTypeOK, host, manager, Machine
<1>4. CASE StopAlive
  <2>1. sm' \in Machine
    BY <1>4, MovedType DEF StopAlive, LifecycleTypeOK, Machine, NodeStates
  <2>2. thread' \in [Threads -> ThreadState]
    BY <1>4 DEF StopAlive, LifecycleTypeOK, ThreadState
  <2> QED BY <1>4, <2>1, <2>2 DEF StopAlive, LifecycleTypeOK, host, Machine
<1>5. CASE StopJoined \/ StopGivesUp
  BY <1>5 DEF StopJoined, StopGivesUp, LifecycleTypeOK, host
<1>6. CASE StopForces
  <2>1. thread' \in [Threads -> ThreadState]
    BY <1>6 DEF StopForces, LifecycleTypeOK, ThreadState
  <2> QED BY <1>6, <2>1 DEF StopForces, LifecycleTypeOK, host, manager
<1> QED BY <1>1, <1>2, <1>3, <1>4, <1>5, <1>6 DEF Manager

\* What a step of thread t does to machine, thread, lock and network.
LEMMA PhaseTypes ==
    ASSUME LifecycleTypeOK, NEW t \in Threads, Phases(t)
    PROVE  LifecycleTypeOK'
<1>1. ASSUME NEW from, NEW to \in NodeStates, NEW pc \in Pcs,
             PhaseDone(t, from, to, pc)
      PROVE  LifecycleTypeOK'
  <2>1. sm' \in Machine /\ thread' \in [Threads -> ThreadState]
    <3>1. CASE sm' = sm /\ Ending(t, "nothing")
      BY <3>1, EndingPut DEF LifecycleTypeOK, Machine, Exceptions
    <3>2. CASE ReportThen(t, to, pc)
      BY <3>2, ReportPut
    <3> QED BY <1>1, <3>1, <3>2 DEF PhaseDone
  <2>2. net' \in Net
    <3>1. /\ [net EXCEPT !.listening = @ \cup {t}] \in Net
          /\ Renewing(t, thread[t].endpoint) \in Net
          /\ net \in Net
      BY DEF LifecycleTypeOK, Net, Renewing
    <3> QED BY <1>1, <3>1 DEF PhaseDone
  <2> QED BY <1>1, <2>1, <2>2 DEF PhaseDone, LifecycleTypeOK, Machine, manager
<1>2. /\ {"INITIALIZING", "BINDING", "REGISTERING", "RUNNING",
          "PASSPHRASE_REQUIRED"} \subseteq NodeStates
      /\ {"map", "init", "bind", "register", "run"} \subseteq Pcs
      /\ {"transient", "permanent"} = Exceptions \ {"nothing"}
  BY DEF NodeStates, Pcs, InLoop, Exceptions
<1>3. CASE MapPort(t)
  <2>1. ASSUME NEW ok \in BOOLEAN,
               thread' = [thread EXCEPT ![t].pc = "init", ![t].endpoint = ok]
        PROVE  thread' \in [Threads -> ThreadState]
    <3> DEFINE r == [thread[t] EXCEPT !.pc = "init", !.endpoint = ok]
    <3>1. Put(t, r)
      BY <2>1 DEF LifecycleTypeOK, ThreadState, Put
    <3>2. r \in ThreadState
      BY <1>2 DEF LifecycleTypeOK, ThreadState
    <3> QED BY <3>1, <3>2, PutType
  <2> QED BY <1>3, <2>1 DEF MapPort, Mapped, LifecycleTypeOK, manager
<1>4. CASE BootRefused(t) \/ PhaseFails(t)
  <2>1. thread' \in [Threads -> ThreadState]
    BY <1>2, <1>4, EndingPut DEF BootRefused, PhaseFails, Kinds
  <2>2. lapses' \subseteq {"stop", "retry"}
    BY <1>4 DEF BootRefused, PhaseFails, LifecycleTypeOK, manager
  <2> QED BY <1>4, <2>1, <2>2 DEF BootRefused, PhaseFails, LifecycleTypeOK, manager, host
<1>5. CASE PassphraseRequired(t)
  <2>1. sm' \in Machine /\ thread' \in [Threads -> ThreadState]
    BY <1>2, <1>5, EndingPut, MovedType DEF PassphraseRequired, LifecycleTypeOK, Machine
  <2> QED BY <1>5, <2>1 DEF PassphraseRequired, LifecycleTypeOK, Machine, manager, host
<1> QED BY <1>1, <1>2, <1>3, <1>4, <1>5 DEF Phases

LEMMA CancelledType ==
    ASSUME LifecycleTypeOK, NEW t \in Threads
    PROVE  Cancelled(t) \in Net /\ Closed(t) \in Net
<1>1. Cancelled(t) \in Net
  BY DEF Cancelled, LifecycleTypeOK, Net
<1> QED BY <1>1 DEF Closed, Net

LEMMA RunTypes ==
    ASSUME LifecycleTypeOK, NEW t \in Threads, ThreadStep(t)
    PROVE  LifecycleTypeOK'
<1>1. CASE Phases(t)
  BY <1>1, PhaseTypes
<1>0. Cancelled(t) \in Net /\ Closed(t) \in Net
  BY CancelledType
<1>2. CASE WaitOver(t)
  <2>1. thread' \in [Threads -> ThreadState]
    BY <1>2, EndingPut, GotoPut, PutType
       DEF WaitOver, ReconnectLoop, Pcs, InLoop, Exceptions
  <2>2. net' \in Net
    BY <1>0, <1>2 DEF WaitOver, LifecycleTypeOK
  <2> QED BY <1>2, <2>1, <2>2 DEF WaitOver, LifecycleTypeOK, manager
<1>3. CASE Reconnected(t) \/ ReconnectFails(t)
  <2> PICK endpoint \in BOOLEAN :
        /\ Remap(t, endpoint)
        /\ \/ /\ Resume(t, endpoint, TRUE)
              /\ Allowed(sm, "RUNNING") => net' = Renewing(t, endpoint)
           \/ \E kind \in Kinds : AttemptRaises(t, kind, endpoint)
    BY <1>3 DEF Reconnected, ReconnectFails
  <2>1. CASE Allowed(sm, "RUNNING") /\ Resume(t, endpoint, TRUE)
             /\ net' = Renewing(t, endpoint)
    <3>1. sm' \in Machine
      BY <2>1, MovedType DEF Resume, LifecycleTypeOK, Machine, NodeStates
    <3>2. net' \in Net
      BY <2>1 DEF Renewing, LifecycleTypeOK, Net
    <3> QED BY <1>3, <2>1, <3>1, <3>2, ResumedPut, PutType
            DEF Reconnected, ReconnectFails, Remap, Mapped, LifecycleTypeOK, Machine, manager
  <2>2. ASSUME NEW kind \in Kinds \cup {"permanent"}, AttemptRaises(t, kind, endpoint)
        PROVE  LifecycleTypeOK'
    <3>1. sm' \in Machine /\ thread' \in [Threads -> ThreadState]
      BY <2>2, AttemptPut
    <3>2. net' = net
      BY <2>2 DEF AttemptRaises
    <3> QED BY <1>3, <3>1, <3>2
            DEF Reconnected, ReconnectFails, Remap, Mapped, LifecycleTypeOK, Machine, manager
  <2>3. CASE Resume(t, endpoint, TRUE) /\ ~Allowed(sm, "RUNNING")
    BY <2>2, <2>3 DEF Resume
  <2>4. CASE \E kind \in Kinds : AttemptRaises(t, kind, endpoint)
    BY <2>2, <2>4
  <2> QED BY <2>1, <2>3, <2>4
<1>4. CASE BackoffOver(t)
  <2>1. sm' \in Machine /\ thread' \in [Threads -> ThreadState]
    BY <1>4, EndingPut, ReportPut
       DEF BackoffOver, LifecycleTypeOK, Machine, Exceptions, Pcs, InLoop, NodeStates
  <2> QED BY <1>4, <2>1 DEF BackoffOver, LifecycleTypeOK, Machine, manager, host
<1>5. CASE Finally(t) \/ FinallyRaises(t)
  <2>1. thread' \in [Threads -> ThreadState]
    BY <1>5, GotoPut, RaisedPut, PutType DEF Finally, FinallyRaises, Pcs, InLoop, Exceptions
  <2> QED BY <1>0, <1>5, <2>1
          DEF Finally, FinallyRaises, Removed, LifecycleTypeOK, manager
<1>6. CASE LoopStopped(t)
  <2>1. thread' \in [Threads -> ThreadState]
    BY <1>6, RaisedPut, PutType DEF LoopStopped, Pcs, InLoop, Exceptions
  <2>2. net' \in Net
    <3>1. [Closed(t) EXCEPT !.stray = @ \cup {t}] \in Net
          /\ [Closed(t) EXCEPT !.stray = @] \in Net
      BY <1>0 DEF Net
    <3> QED BY <1>6, <3>1 DEF LoopStopped
  <2>3. port' \in {"free", "mapped", "kept", "orphan"}
    BY <1>6 DEF LoopStopped, Removed, LifecycleTypeOK
  <2> QED BY <1>6, <2>1, <2>2, <2>3 DEF LoopStopped, LifecycleTypeOK, manager
<1>7. CASE RunLoopHandles(t)
  <2>1. thread' \in [Threads -> ThreadState]
    BY <1>7, GotoPut, PutType DEF RunLoopHandles, Pcs, InLoop
  <2>2. sm' \in Machine
    BY <1>7, HandleErrorType DEF RunLoopHandles, LifecycleTypeOK, Machine
  <2>3. timers' \in Nat
    BY <1>7 DEF RunLoopHandles, LifecycleTypeOK
  <2> QED BY <1>7, <2>1, <2>2, <2>3 DEF RunLoopHandles, LifecycleTypeOK, Machine, host
<1>8. CASE RunLoopChecks(t)
  <2>1. thread' \in [Threads -> ThreadState]
    BY <1>8, GotoPut, PutType DEF RunLoopChecks, Pcs, InLoop
  <2>2. sm' \in Machine
    BY <1>8, ChecksType
  <2> QED BY <1>8, <2>1, <2>2 DEF RunLoopChecks, LifecycleTypeOK, Machine, manager, host
<1>9. CASE RunLoopEnds(t)
  <2>1. thread' \in [Threads -> ThreadState]
    BY <1>9, NewThreadType DEF RunLoopEnds, LifecycleTypeOK, Pcs, InLoop
  <2> QED BY <1>9, <2>1 DEF RunLoopEnds, LifecycleTypeOK, host
<1> QED BY <1>1, <1>2, <1>3, <1>4, <1>5, <1>6, <1>7, <1>8, <1>9 DEF ThreadStep

LEMMA StepTypes == LifecycleTypeOK /\ [Next]_vars => LifecycleTypeOK'
<1> SUFFICES ASSUME LifecycleTypeOK, [Next]_vars PROVE LifecycleTypeOK'
  OBVIOUS
<1>1. ASSUME NEW t \in Threads, HealthCheck(t) \/ SelfProbe(t)
      PROVE  LifecycleTypeOK'
  BY <1>1, LoopPut DEF HealthCheck, SelfProbe, LifecycleTypeOK, Machine, manager, host
<1>2. ASSUME NEW t \in Threads, Renewal(t)
      PROVE  LifecycleTypeOK'
  <2>1. net' \in Net
    <3>1. net \in Net
      BY DEF LifecycleTypeOK
    <3>2. CASE RenewAsks(t)
      BY <3>1, <3>2 DEF RenewAsks, Net
    <3>3. CASE RenewAgreed(t) \/ RenewRefused(t)
      BY <3>1, <3>3 DEF RenewAgreed, RenewRefused, Net
    <3>4. CASE RenewRaises(t)
      BY <3>1, <3>4 DEF RenewRaises, Net
    <3>5. CASE StrayLands(t)
      BY <3>1, <3>5 DEF StrayLands, Net
    <3> QED BY <1>2, <3>2, <3>3, <3>4, <3>5 DEF Renewal
  <2> QED BY <1>2, <2>1 DEF Renewal, RenewAsks, RenewAgreed, RenewRefused, RenewRaises,
                            StrayLands, LifecycleTypeOK, manager
<1>3. CASE CoordChanges \/ LeaseEnds
  BY <1>3 DEF CoordChanges, LeaseEnds, LifecycleTypeOK, manager
<1>4. CASE UNCHANGED vars
  BY <1>4 DEF vars, LifecycleTypeOK
<1> QED BY <1>1, <1>2, <1>3, <1>4, ManagerTypes, RunTypes DEF Next, Manager

\* Every variable of the run loops, the manager and the machine keeps its type.
THEOREM LifecycleTypes == Spec => []LifecycleTypeOK
BY InitTypes, StepTypes, PTL DEF Spec

-----------------------------------------------------------------------------
(* A permanent error stays.                                                *)

LEMMA PermanentAllows ==
    ASSUME NEW m \in Machine, m.state = "ERROR_PERMANENT"
    PROVE  \A to \in NodeStates \ {"IDLE", "STOPPING"} : ~Allowed(m, to)
BY DEF Machine, Allowed, Transitions, NodeStates

\* Only the operator takes the machine out of ERROR_PERMANENT.
LEMMA PermanentStep ==
    ASSUME LifecycleTypeOK, [Next]_vars, sm.state = "ERROR_PERMANENT"
    PROVE  sm'.state = "ERROR_PERMANENT" \/ starts' # starts \/ stopping' # stopping
<1>m. sm \in Machine
  BY DEF LifecycleTypeOK, Machine
<1>n. \A to \in NodeStates \ {"IDLE", "STOPPING"} : ~Allowed(sm, to)
  BY <1>m, PermanentAllows
<1>e. Errors \subseteq NodeStates \ {"IDLE", "STOPPING"}
  BY DEF Errors, NodeStates
<1>1. ASSUME NEW t \in Threads, NEW from,
             NEW to \in NodeStates \ {"IDLE", "STOPPING"}, NEW pc,
             PhaseDone(t, from, to, pc) \/ ReportThen(t, to, pc)
      PROVE  sm' = sm
  BY <1>1, <1>n DEF PhaseDone, ReportThen
<1>2. ASSUME NEW t \in Threads, Phases(t)
      PROVE  sm' = sm
  <2>1. {"INITIALIZING", "BINDING", "REGISTERING", "RUNNING", "PASSPHRASE_REQUIRED"}
           \subseteq NodeStates \ {"IDLE", "STOPPING"}
    BY DEF NodeStates
  <2> QED BY <1>1, <1>2, <1>n, <2>1
          DEF Phases, BootRefused, MapPort, PassphraseRequired, PhaseFails
<1>3. ASSUME NEW t \in Threads, NEW kind, NEW endpoint, AttemptRaises(t, kind, endpoint)
      PROVE  sm'.state = sm.state
  BY <1>3, <1>m, <1>n, <1>e, HandleErrorType DEF AttemptRaises
<1>4. ASSUME NEW t \in Threads, Reconnected(t) \/ ReconnectFails(t)
      PROVE  sm'.state = sm.state
  <2>1. ~Allowed(sm, "RUNNING")
    BY <1>n DEF NodeStates
  <2> QED BY <1>3, <1>4, <2>1 DEF Reconnected, ReconnectFails, Resume
<1>5. ASSUME NEW t \in Threads, BackoffOver(t)
      PROVE  sm' = sm
  <2>1. "RECONNECTING" \in NodeStates \ {"IDLE", "STOPPING"}
    BY DEF NodeStates
  <2> QED BY <1>1, <1>5, <2>1 DEF BackoffOver
<1>6. ASSUME NEW t \in Threads, RunLoopHandles(t) \/ RunLoopChecks(t)
      PROVE  sm'.state = sm.state
  <2>1. sm.state \in Errors
    BY DEF Errors
  <2> QED BY <1>6, <2>1, ChecksType DEF RunLoopHandles, Handled
<1>7. ASSUME NEW t \in Threads, ThreadStep(t)
      PROVE  sm'.state = sm.state
  BY <1>2, <1>4, <1>5, <1>6, <1>7
     DEF ThreadStep, WaitOver, Finally, FinallyRaises, LoopStopped, RunLoopEnds
<1>8. ASSUME NEW t \in Threads, HealthCheck(t) \/ SelfProbe(t)
      PROVE  sm' = sm
  <2>1. ~Allowed(sm, "RECONNECTING")
    BY <1>n DEF NodeStates
  <2> QED BY <1>8, <2>1 DEF HealthCheck, SelfProbe, Good, Bad, Escalate
<1>9. CASE Start
  <2>1. starts \in Nat
    BY DEF LifecycleTypeOK
  <2> QED BY <1>9, <2>1 DEF Start
<1>10. CASE StopAlive
  BY <1>10 DEF StopAlive, Alive
<1> QED BY <1>7, <1>8, <1>9, <1>10
        DEF Next, vars, Renewal, RenewAsks, RenewAgreed, RenewRefused, RenewRaises,
            StrayLands, TimerFires, StopDead, StopForces, StopJoined, StopGivesUp,
            CoordChanges, LeaseEnds

\* A permanent error stays on the screen until the operator starts or stops the
\* node, however many run loops and timers there are.
THEOREM PermanentErrorsStay == Spec => PermanentStays
<1>1. LifecycleTypeOK /\ [Next]_vars
         => [sm.state = "ERROR_PERMANENT" /\ sm'.state # "ERROR_PERMANENT"
               => starts' # starts \/ stopping' # stopping]_vars
  BY PermanentStep
<1> QED BY <1>1, LifecycleTypes, PTL DEF Spec, PermanentStays

-----------------------------------------------------------------------------
(* Nothing is left behind.                                                 *)

Unfinished(r) == r.pc \in InLoop

\* Whatever listens, renews or is mapped belongs to a run loop that has not
\* been through its finally clause yet; a renewal loop, the request it waits
\* for, and the mapping, to one that knows of the mapping.
LeftInv ==
    /\ \A t \in net.listening : Unfinished(thread[t])
    /\ \A t \in net.renewing \cup net.asking : Owner(t)
    /\ \A t \in Threads : thread[t].pc \in {"boot", "map"} => ~thread[t].endpoint
    /\ port = "mapped" => \E t \in Threads : Owner(t)

\* A step of thread t that goes on as r keeps the invariant if r answers for
\* what t holds.
LEMMA LeftPut ==
    ASSUME LifecycleTypeOK, LeftInv, NEW t \in Threads, NEW r \in ThreadState, Put(t, r),
           net'.listening \subseteq net.listening \cup {t},
           net'.renewing \subseteq net.renewing \cup {t},
           net'.asking \subseteq net.asking,
           t \in net'.listening => Unfinished(r),
           t \in net'.renewing \cup net'.asking => r.endpoint /\ Unfinished(r),
           r.pc \in {"boot", "map"} => ~r.endpoint,
           port' = "mapped" =>
              \/ r.endpoint /\ Unfinished(r)
              \/ port = "mapped" /\ ~Owner(t)
              \/ \E u \in Threads \ {t} : Owner(u)
    PROVE  LeftInv'
<1>1. thread'[t] = r /\ \A u \in Threads \ {t} : thread'[u] = thread[u]
  BY DEF Put, LifecycleTypeOK
<1>2. /\ net.listening \subseteq Threads /\ net.renewing \subseteq Threads
      /\ net.asking \subseteq Threads
  BY DEF LifecycleTypeOK, Net
<1>o. /\ Owner(t)' <=> r.endpoint /\ Unfinished(r)
      /\ \A u \in Threads \ {t} : Owner(u)' <=> Owner(u)
  BY <1>1 DEF Owner, Unfinished
<1>3. \A u \in net'.listening : Unfinished(thread'[u])
  BY <1>1, <1>2 DEF LeftInv
<1>4. \A u \in net'.renewing \cup net'.asking : Owner(u)'
  <2> HIDE DEF Owner
  <2> QED BY <1>o, <1>2 DEF LeftInv
<1>5. \A u \in Threads : thread'[u].pc \in {"boot", "map"} => ~thread'[u].endpoint
  BY <1>1 DEF LeftInv
<1>6. port' = "mapped" => \E u \in Threads : Owner(u)'
  <2> HIDE DEF Owner
  <2> QED BY <1>o DEF LeftInv
<1> QED BY <1>3, <1>4, <1>5, <1>6 DEF LeftInv

\* The same for a step that leaves the network alone and does not finish t.
LEMMA LeftKept ==
    ASSUME LifecycleTypeOK, LeftInv, NEW t \in Threads, NEW r \in ThreadState, Put(t, r),
           net' = net, port' = port,
           Unfinished(r), r.pc \notin {"boot", "map"}, r.endpoint = thread[t].endpoint
    PROVE  LeftInv'
BY LeftPut DEF LeftInv, Owner, Unfinished

LEMMA LeftInit == Init => LeftInv
BY DEF Init, LeftInv, NewThread, Unfinished

\* The rows of the steps, by what the invariants look at.
LEMMA GotoRow ==
    ASSUME LifecycleTypeOK, NEW t \in Threads, NEW pc \in Pcs, Goto(t, pc)
    PROVE  \E r \in ThreadState :
              /\ Put(t, r) /\ r.pc = pc /\ r.exc = thread[t].exc
              /\ r.endpoint = thread[t].endpoint /\ r.stop = thread[t].stop /\ r.forced = thread[t].forced
              /\ r.health = thread[t].health
<1> DEFINE r == Went(t, pc)
<1>1. thread[t] \in ThreadState
  BY DEF LifecycleTypeOK
<1>2. /\ r.pc = pc /\ r.exc = thread[t].exc
      /\ r.endpoint = thread[t].endpoint /\ r.stop = thread[t].stop /\ r.forced = thread[t].forced
      /\ r.health = thread[t].health
  BY <1>1 DEF Went, ThreadState
<1>3. Put(t, r) /\ r \in ThreadState
  BY GotoPut
<1> HIDE DEF r
<1> QED BY <1>2, <1>3

LEMMA RaisedFacts ==
    ASSUME LifecycleTypeOK, NEW t \in Threads, NEW pc \in Pcs, NEW exc \in Exceptions
    PROVE  LET r == Raised(t, pc, exc) IN
           /\ r \in ThreadState /\ r.pc = pc /\ r.exc = exc
           /\ r.endpoint = thread[t].endpoint /\ r.stop = thread[t].stop /\ r.forced = thread[t].forced
<1>1. thread[t] \in ThreadState
  BY DEF LifecycleTypeOK
<1> QED BY <1>1 DEF Raised, ThreadState

LEMMA EndingRow ==
    ASSUME LifecycleTypeOK, NEW t \in Threads, NEW exc \in Exceptions, Ending(t, exc)
    PROVE  \E r \in ThreadState :
              /\ Put(t, r) /\ r.pc = "ending" /\ r.exc = exc
              /\ r.endpoint = thread[t].endpoint /\ r.stop = thread[t].stop /\ r.forced = thread[t].forced
<1> DEFINE r == Raised(t, "ending", exc)
<1>1. Put(t, r)
  BY EndingPut
<1>2. "ending" \in Pcs
  BY DEF Pcs, InLoop
<1>3. /\ r \in ThreadState /\ r.pc = "ending" /\ r.exc = exc
      /\ r.endpoint = thread[t].endpoint /\ r.stop = thread[t].stop /\ r.forced = thread[t].forced
  BY <1>2, RaisedFacts
<1> HIDE DEF r
<1> QED BY <1>1, <1>3

LEMMA ReportRow ==
    ASSUME LifecycleTypeOK, NEW t \in Threads, NEW to \in NodeStates, NEW pc \in Pcs,
           ReportThen(t, to, pc)
    PROVE  \E r \in ThreadState :
              /\ Put(t, r)
              /\ r.endpoint = thread[t].endpoint /\ r.stop = thread[t].stop /\ r.forced = thread[t].forced
              /\ \/ /\ sm'.state = to /\ Allowed(sm, to)
                    /\ r.pc = pc /\ r.exc = thread[t].exc
                    /\ r.health = thread[t].health
                 \/ /\ sm' = sm /\ ~Allowed(sm, to)
                    /\ r.pc = "ending" /\ r.exc = "permanent"
<1>1. CASE Allowed(sm, to) /\ sm' = Moved(sm, to) /\ Goto(t, pc)
  <2>1. sm'.state = to
    BY <1>1, MovedType DEF LifecycleTypeOK, Machine
  <2> QED BY <1>1, <2>1, GotoRow
<1>2. CASE ~Allowed(sm, to) /\ sm' = sm /\ Ending(t, "permanent")
  <2>1. "permanent" \in Exceptions
    BY DEF Exceptions
  <2> QED BY <1>2, <2>1, EndingRow
<1> QED BY <1>1, <1>2 DEF ReportThen

LEMMA TriedFacts ==
    ASSUME LifecycleTypeOK, NEW t \in Threads, NEW pc \in Pcs, NEW exc \in Exceptions,
           NEW endpoint \in BOOLEAN
    PROVE  LET r == Tried(t, pc, exc, endpoint) IN
           /\ r \in ThreadState /\ r.pc = pc /\ r.exc = exc
           /\ r.endpoint = endpoint /\ r.stop = thread[t].stop /\ r.forced = thread[t].forced
<1>1. thread[t] \in ThreadState
  BY DEF LifecycleTypeOK
<1> QED BY <1>1 DEF Tried, ThreadState

LEMMA ResumedFacts ==
    ASSUME LifecycleTypeOK, NEW t \in Threads, NEW endpoint \in BOOLEAN
    PROVE  LET r == Resumed(t, endpoint) IN
           r.pc = "run" /\ r.endpoint = endpoint /\ r.health = 0
           /\ r.stop = thread[t].stop /\ r.forced = thread[t].forced
<1>1. thread[t] \in ThreadState
  BY DEF LifecycleTypeOK
<1> QED BY <1>1 DEF Resumed, ThreadState

\* One step of a run loop.
LEMMA LeftPhase ==
    ASSUME LifecycleTypeOK, LeftInv, NEW t \in Threads, Phases(t)
    PROVE  LeftInv'
<1>1. ASSUME NEW from, NEW to \in NodeStates, NEW pc \in InLoop \ {"boot"},
             PhaseDone(t, from, to, pc), pc = "map" <=> from = "boot",
             from \in {"boot", "init", "bind", "register"}
      PROVE  LeftInv'
  <2>1. PICK r \in ThreadState :
           /\ Put(t, r) /\ r.endpoint = thread[t].endpoint
           /\ r.pc \in {"ending", pc}
    <3>1. CASE Ending(t, "nothing")
      <4>1. "nothing" \in Exceptions
        BY DEF Exceptions
      <4> QED BY <3>1, <4>1, EndingRow
    <3>2. CASE ReportThen(t, to, pc)
      BY <3>2, ReportRow DEF Pcs
    <3> QED BY <1>1, <3>1, <3>2 DEF PhaseDone
  <2>2. Unfinished(r) /\ (r.pc \in {"boot", "map"} => ~r.endpoint)
    BY <1>1, <2>1 DEF Unfinished, InLoop, LeftInv, PhaseDone, At
  <2>3. port' = port /\ (Owner(t) => r.endpoint)
    BY <1>1, <2>1 DEF PhaseDone, Owner
  <2>4. /\ net'.listening \subseteq net.listening \cup {t}
        /\ net'.renewing \subseteq net.renewing \cup {t}
        /\ net'.asking \subseteq net.asking
        /\ t \in net'.renewing \cup net'.asking => r.endpoint
    <3>1. net \in Net
      BY DEF LifecycleTypeOK
    <3>2. t \in net.renewing \cup net.asking => thread[t].endpoint
      BY DEF LeftInv, Owner
    <3>3. CASE net' = [net EXCEPT !.listening = @ \cup {t}]
      BY <2>1, <3>1, <3>2, <3>3 DEF Net
    <3>4. CASE net' = Renewing(t, thread[t].endpoint)
      BY <2>1, <3>1, <3>2, <3>4 DEF Net, Renewing
    <3>5. CASE net' = net
      BY <2>1, <3>2, <3>5
    <3> QED BY <1>1, <3>3, <3>4, <3>5 DEF PhaseDone
  <2> QED BY <2>1, <2>2, <2>3, <2>4, LeftPut
<1>2. CASE MapPort(t)
  <2>1. PICK ok \in BOOLEAN :
           /\ thread' = [thread EXCEPT ![t].pc = "init", ![t].endpoint = ok]
           /\ port' = Mapped(ok)
    BY <1>2 DEF MapPort
  <2> DEFINE r == [thread[t] EXCEPT !.pc = "init", !.endpoint = ok]
  <2>2. Put(t, r)
    BY <2>1 DEF LifecycleTypeOK, ThreadState, Put
  <2>3. r \in ThreadState /\ r.pc = "init" /\ r.endpoint = ok
    BY DEF LifecycleTypeOK, ThreadState, Pcs, InLoop
  <2>4. /\ ~Owner(t) /\ t \notin net.renewing /\ t \notin net.asking
        /\ Unfinished(r)
    BY <1>2, <2>3 DEF MapPort, At, LeftInv, Owner, Unfinished, InLoop
  <2>5. net' = net /\ (port' = "mapped" => ok \/ port = "mapped")
    BY <1>2, <2>1 DEF MapPort, Mapped
  <2> HIDE DEF r
  <2> QED BY <2>2, <2>3, <2>4, <2>5, LeftPut
<1>3. CASE BootRefused(t) \/ PhaseFails(t) \/ PassphraseRequired(t)
  <2>1. PICK exc \in Exceptions : Ending(t, exc)
    BY <1>3 DEF BootRefused, PhaseFails, PassphraseRequired, Kinds, Exceptions
  <2>2. PICK r \in ThreadState :
           Put(t, r) /\ r.pc = "ending" /\ r.endpoint = thread[t].endpoint
    BY <2>1, EndingRow
  <2>3. net' = net /\ port' = port
    BY <1>3 DEF BootRefused, PhaseFails, PassphraseRequired, host
  <2> QED BY <2>2, <2>3, LeftKept DEF Unfinished, InLoop
<1> QED BY <1>1, <1>2, <1>3 DEF Phases, NodeStates, InLoop

LEMMA LeftThread ==
    ASSUME LifecycleTypeOK, LeftInv, NEW t \in Threads, ThreadStep(t)
    PROVE  LeftInv'
<1>p. {"ending", "left", "run", "reconnect", "backoff"} \subseteq Pcs
  BY DEF Pcs, InLoop
<1>e. {"nothing", "permanent"} \subseteq Exceptions
  BY DEF Exceptions
<1>n. net \in Net /\ (t \in net.renewing \cup net.asking => thread[t].endpoint)
  BY DEF LifecycleTypeOK, LeftInv, Owner
<1>c. /\ Closed(t).listening = net.listening \ {t}
      /\ Closed(t).renewing = net.renewing \ {t}
      /\ Closed(t).asking = net.asking \ {t}
  BY <1>n DEF Closed, Cancelled, Net
<1>1. CASE Phases(t)
  BY <1>1, LeftPhase
<1>2. CASE WaitOver(t)
  <2>1. PICK r \in ThreadState :
           Put(t, r) /\ Unfinished(r) /\ r.pc \notin {"boot", "map"}
           /\ r.endpoint = thread[t].endpoint
    <3>1. CASE Goto(t, "reconnect")
      BY <3>1, <1>p, GotoRow DEF Unfinished, InLoop
    <3>2. CASE Ending(t, "nothing")
      BY <3>2, <1>e, EndingRow DEF Unfinished, InLoop
    <3> QED BY <1>2, <3>1, <3>2 DEF WaitOver, ReconnectLoop
  <2>2. /\ net'.listening \subseteq net.listening
        /\ net'.renewing \subseteq net.renewing
        /\ net'.asking \subseteq net.asking
    BY <1>2, <1>n DEF WaitOver, Cancelled, Net
  <2>3. port' = port
    BY <1>2 DEF WaitOver
  <2> QED BY <2>1, <2>2, <2>3, <1>n, LeftPut DEF Owner
<1>3. CASE Reconnected(t) \/ ReconnectFails(t)
  <2> PICK endpoint \in BOOLEAN :
        /\ Remap(t, endpoint)
        /\ \/ /\ Resume(t, endpoint, TRUE)
              /\ Allowed(sm, "RUNNING") => net' = Renewing(t, endpoint)
           \/ \E kind \in Kinds : AttemptRaises(t, kind, endpoint)
    BY <1>3 DEF Reconnected, ReconnectFails
  <2>1. ASSUME NEW r \in ThreadState, Put(t, r), r.endpoint = endpoint,
               r.pc \in {"run", "backoff", "ending"},
               net' \in {net, Renewing(t, endpoint)}
        PROVE  LeftInv'
    <3>1. thread[t].endpoint => endpoint
      BY DEF Remap
    <3>2. port' = "mapped" => endpoint \/ port = "mapped"
      <4>1. thread[t].endpoint \in BOOLEAN
        BY DEF LifecycleTypeOK, ThreadState
      <4>2. CASE endpoint = FALSE
        <5>1. thread[t].endpoint = FALSE
          BY <3>1, <4>1, <4>2
        <5>2. port' = port
          BY <4>2, <5>1 DEF Remap, Mapped
        <5> QED BY <5>2
      <4> QED BY <4>2
    <3>3. /\ net'.listening \subseteq net.listening \cup {t}
          /\ net'.renewing \subseteq net.renewing \cup {t}
          /\ net'.asking \subseteq net.asking
          /\ t \in net'.renewing \cup net'.asking => endpoint
      BY <1>n, <2>1, <3>1 DEF Net, Renewing
    <3>4. Unfinished(r) /\ r.pc \notin {"boot", "map"}
      BY <2>1 DEF Unfinished, InLoop
    <3>5. Owner(t) => endpoint
      BY <3>1 DEF Owner
    <3> HIDE DEF Owner
    <3> QED BY <2>1, <3>2, <3>3, <3>4, <3>5, LeftPut
  <2>2. CASE /\ Resume(t, endpoint, TRUE) /\ Allowed(sm, "RUNNING")
             /\ net' = Renewing(t, endpoint)
    <3>1. /\ Put(t, Resumed(t, endpoint)) /\ Resumed(t, endpoint) \in ThreadState
          /\ Resumed(t, endpoint).pc = "run"
          /\ Resumed(t, endpoint).endpoint = endpoint
      BY <2>2, ResumedPut, ResumedFacts
    <3> QED BY <2>1, <2>2, <3>1
  <2>3. ASSUME NEW kind \in Kinds \cup {"permanent"}, AttemptRaises(t, kind, endpoint)
        PROVE  LeftInv'
    <3>1. PICK pc \in {"backoff", "ending"}, exc \in {"nothing", "permanent"} :
             Put(t, Tried(t, pc, exc, endpoint))
      BY <2>3, AttemptPut
    <3>2. net' = net
      BY <2>3 DEF AttemptRaises
    <3> QED BY <2>1, <3>1, <3>2, <1>p, <1>e, TriedFacts
  <2>4. CASE Resume(t, endpoint, TRUE) /\ ~Allowed(sm, "RUNNING")
    BY <2>3, <2>4 DEF Resume
  <2> QED BY <2>2, <2>3, <2>4
<1>4. CASE BackoffOver(t)
  <2>1. PICK r \in ThreadState :
           Put(t, r) /\ r.pc \in {"ending", "reconnect"}
           /\ r.endpoint = thread[t].endpoint
    <3>1. "RECONNECTING" \in NodeStates
      BY DEF NodeStates
    <3>2. CASE Ending(t, "nothing")
      BY <3>2, <1>e, EndingRow
    <3>3. CASE ReportThen(t, "RECONNECTING", "reconnect")
      BY <3>1, <3>3, <1>p, ReportRow
    <3> QED BY <1>4, <3>2, <3>3 DEF BackoffOver
  <2>2. net' = net /\ port' = port
    BY <1>4 DEF BackoffOver, host
  <2> QED BY <2>1, <2>2, LeftKept DEF Unfinished, InLoop
<1>5. CASE Finally(t) \/ FinallyRaises(t)
  <2>1. PICK r \in ThreadState :
           Put(t, r) /\ r.pc = "left" /\ r.endpoint = thread[t].endpoint
    <3>1. CASE Finally(t)
      BY <3>1, <1>p, GotoRow DEF Finally
    <3>2. CASE FinallyRaises(t)
      <4>1. thread' = [thread EXCEPT ![t].pc = "left", ![t].exc = "permanent"]
        BY <3>2 DEF FinallyRaises
      <4>2. "left" \in Pcs /\ "permanent" \in Exceptions
        BY <1>p, <1>e
      <4> DEFINE r == Raised(t, "left", "permanent")
      <4>3. Put(t, r)
        BY <4>1, <4>2, RaisedPut
      <4>4. r \in ThreadState /\ r.pc = "left" /\ r.endpoint = thread[t].endpoint
        BY <4>2, RaisedFacts
      <4> HIDE DEF r
      <4> QED BY <4>3, <4>4
    <3> QED BY <1>5, <3>1, <3>2
  <2>2. net' = Closed(t)
    BY <1>5 DEF Finally, FinallyRaises
  <2>3. port' = "mapped" => port = "mapped" /\ ~Owner(t)
    BY <1>5 DEF Finally, FinallyRaises, Removed, Owner
  <2>4. ~Unfinished(r)
    BY <2>1 DEF Unfinished, InLoop
  <2> HIDE DEF Owner
  <2> QED BY <2>1, <2>2, <2>3, <2>4, <1>c, LeftPut
<1>6. CASE LoopStopped(t)
  <2>1. thread' = [thread EXCEPT ![t].pc = "left", ![t].exc = "permanent"]
    BY <1>6 DEF LoopStopped
  <2>2. "left" \in Pcs /\ "permanent" \in Exceptions
    BY <1>p, <1>e
  <2> DEFINE r == Raised(t, "left", "permanent")
  <2>3. Put(t, r)
    BY <2>1, <2>2, RaisedPut
  <2>4. r \in ThreadState /\ r.pc = "left"
    BY <2>2, RaisedFacts
  <2>5. /\ net'.listening = net.listening \ {t}
        /\ net'.renewing = net.renewing \ {t}
        /\ net'.asking = net.asking \ {t}
    <3>1. /\ \A s : [Closed(t) EXCEPT !.stray = s].listening = Closed(t).listening
          /\ \A s : [Closed(t) EXCEPT !.stray = s].renewing = Closed(t).renewing
          /\ \A s : [Closed(t) EXCEPT !.stray = s].asking = Closed(t).asking
      BY CancelledType DEF Net
    <3>2. \E s : net' = [Closed(t) EXCEPT !.stray = s]
      BY <1>6 DEF LoopStopped
    <3> QED BY <1>c, <3>1, <3>2
  <2>6. port' = "mapped" => \E u \in Threads \ {t} : Owner(u)
    BY <1>6 DEF LoopStopped, Removed
  <2>7. ~Unfinished(r)
    BY <2>4 DEF Unfinished, InLoop
  <2> HIDE DEF r, Owner
  <2> QED BY <2>3, <2>4, <2>5, <2>6, <2>7, LeftPut
<1>7. CASE RunLoopHandles(t) \/ RunLoopChecks(t) \/ RunLoopEnds(t)
  <2>1. PICK r \in ThreadState : Put(t, r) /\ r.pc \in {"check", "close", "none"}
    <3>1. CASE RunLoopHandles(t)
      BY <3>1, GotoRow DEF RunLoopHandles, Pcs
    <3>2. CASE RunLoopChecks(t)
      BY <3>2, GotoRow DEF RunLoopChecks, Pcs
    <3>3. CASE RunLoopEnds(t)
      <4>1. NewThread("none") \in ThreadState
        BY NewThreadType DEF Pcs
      <4>2. NewThread("none").pc = "none"
        BY DEF NewThread
      <4>3. Put(t, NewThread("none"))
        BY <3>3 DEF RunLoopEnds, Put
      <4> QED BY <4>1, <4>2, <4>3
    <3> QED BY <1>7, <3>1, <3>2, <3>3
  <2>2. ~Owner(t) /\ ~Unfinished(thread[t])
    BY <1>7 DEF RunLoopHandles, RunLoopChecks, RunLoopEnds, At, Owner, Unfinished, InLoop
  <2>3. t \notin net.listening \cup net.renewing \cup net.asking
    BY <2>2 DEF LeftInv
  <2>4. net' = net /\ port' = port
    BY <1>7 DEF RunLoopHandles, RunLoopChecks, RunLoopEnds, host
  <2> HIDE DEF Owner
  <2> QED BY <2>1, <2>2, <2>3, <2>4, LeftPut
<1> QED BY <1>1, <1>2, <1>3, <1>4, <1>5, <1>6, <1>7 DEF ThreadStep

LEMMA LeftManager ==
    ASSUME LifecycleTypeOK, LeftInv, Manager
    PROVE  LeftInv'
<1>1. ASSUME NEW t \in Threads, Spawn(t), net' = net, port' = port
      PROVE  LeftInv'
  <2>1. /\ NewThread("boot") \in ThreadState /\ Put(t, NewThread("boot"))
        /\ ~NewThread("boot").endpoint /\ NewThread("boot").pc = "boot"
    BY <1>1, SpawnType, NewThreadType DEF Pcs, InLoop, NewThread
  <2>2. ~Owner(t) /\ ~Unfinished(thread[t])
    BY <1>1, LifecycleAssumption DEF Spawn, Alive, Unfinished, Owner, InLoop
  <2>3. t \notin net.listening \cup net.renewing \cup net.asking
    BY <2>2 DEF LeftInv
  <2> HIDE DEF NewThread, Owner
  <2> QED BY <1>1, <2>1, <2>2, <2>3, LeftPut
<1>2. CASE UNCHANGED <<thread, net, port>>
  BY <1>2 DEF LeftInv, Owner
<1>3. CASE StopAlive \/ StopForces
  <2>1. /\ net' = net /\ port' = port
        /\ \A t \in Threads : /\ thread'[t].pc = thread[t].pc
                              /\ thread'[t].endpoint = thread[t].endpoint
    BY <1>3 DEF StopAlive, StopForces, host, LifecycleTypeOK, ThreadState
  <2>2. /\ net.listening \subseteq Threads /\ net.renewing \subseteq Threads
        /\ net.asking \subseteq Threads
    BY DEF LifecycleTypeOK, Net
  <2>3. \A t \in Threads : Owner(t)' <=> Owner(t)
    BY <2>1 DEF Owner
  <2>4. \A t \in Threads : Unfinished(thread'[t]) <=> Unfinished(thread[t])
    BY <2>1 DEF Unfinished
  <2> HIDE DEF Owner
  <2> QED BY <2>1, <2>2, <2>3, <2>4 DEF LeftInv
<1> QED BY <1>1, <1>2, <1>3
        DEF Manager, TimerFires, Start, StopDead, StopJoined, StopGivesUp, manager, host

LEMMA LeftStep == LifecycleTypeOK /\ LeftInv /\ [Next]_vars => LeftInv'
<1> SUFFICES ASSUME LifecycleTypeOK, LeftInv, [Next]_vars PROVE LeftInv'
  OBVIOUS
<1>1. ASSUME NEW t \in Threads, HealthCheck(t) \/ SelfProbe(t)
      PROVE  LeftInv'
  <2>1. PICK r \in ThreadState : Put(t, r) /\ LoopRow(t, r)
    BY <1>1, LoopPut
  <2>2. net' = net /\ port' = port /\ thread[t].pc = "run"
    BY <1>1 DEF HealthCheck, SelfProbe, host, At
  <2> QED BY <2>1, <2>2, LeftKept DEF LoopRow, Unfinished, InLoop
<1>2. ASSUME NEW t \in Threads, Renewal(t)
      PROVE  LeftInv'
  <2>n. net \in Net /\ thread' = thread
    BY <1>2 DEF Renewal, RenewAsks, RenewAgreed, RenewRefused, RenewRaises, StrayLands,
                LifecycleTypeOK
  <2>1. /\ net'.listening = net.listening
        /\ net'.renewing \cup net'.asking \subseteq net.renewing \cup net.asking
    <3>1. CASE RenewAsks(t)
      BY <2>n, <3>1 DEF RenewAsks, Net
    <3>2. CASE RenewAgreed(t) \/ RenewRefused(t)
      BY <2>n, <3>2 DEF RenewAgreed, RenewRefused, Net
    <3>3. CASE RenewRaises(t)
      BY <2>n, <3>3 DEF RenewRaises, Net
    <3>4. CASE StrayLands(t)
      BY <2>n, <3>4 DEF StrayLands, Net
    <3> QED BY <1>2, <3>1, <3>2, <3>3, <3>4 DEF Renewal
  <2>2. port' = "mapped" => port = "mapped" \/ \E u \in Threads : Owner(u)
    <3>1. CASE RenewAgreed(t)
      <4>1. Owner(t)
        BY <3>1 DEF RenewAgreed, LeftInv
      <4> QED BY <4>1
    <3>2. CASE StrayLands(t)
      BY <3>2 DEF StrayLands
    <3> QED BY <1>2, <3>1, <3>2 DEF Renewal, RenewAsks, RenewRefused, RenewRaises
  <2>3. \A u : Owner(u)' <=> Owner(u)
    BY <2>n DEF Owner
  <2> HIDE DEF Owner
  <2> QED BY <2>n, <2>1, <2>2, <2>3 DEF LeftInv
<1>4. CASE CoordChanges \/ LeaseEnds \/ UNCHANGED vars
  BY <1>4 DEF CoordChanges, LeaseEnds, LeftInv, vars, Owner
<1> QED BY <1>1, <1>2, <1>4, LeftManager, LeftThread DEF Next, Manager

\* When no run loop is alive nothing listens, nothing renews and no mapping is
\* left that the node could have had removed, whatever phase a run failed, was
\* stopped or was forced in, however many run loops overlapped and whatever
\* requests outlived their run.
THEOREM CleanedUp == Spec => []NothingLeftBehind
<1>1. LifecycleTypeOK /\ LeftInv => NothingLeftBehind
  <2> SUFFICES ASSUME LifecycleTypeOK, LeftInv, NoRunLoop
               PROVE  /\ net.listening = {} /\ net.renewing = {} /\ net.asking = {}
                      /\ port # "mapped"
    BY DEF NothingLeftBehind
  <2>1. \A t \in Threads : ~Unfinished(thread[t]) /\ ~Owner(t)
    BY LifecycleAssumption DEF NoRunLoop, Alive, Unfinished, Owner, InLoop
  <2>2. /\ net.listening \subseteq Threads /\ net.renewing \subseteq Threads
        /\ net.asking \subseteq Threads
    BY DEF LifecycleTypeOK, Net
  <2> HIDE DEF Owner
  <2> QED BY <2>1, <2>2 DEF LeftInv
<1> QED BY <1>1, LeftInit, LeftStep, LifecycleTypes, PTL DEF Spec

-----------------------------------------------------------------------------
(* What the operator sees.                                                 *)

\* Where the machine may be while a run loop that was not stopped is in row r.
StatesAt(r) == {state \in NodeStates :
    \/ r.pc = "boot" /\ state \in {"IDLE", "ERROR_TRANSIENT"}
    \/ r.pc \in {"map", "init"} /\ state = "INITIALIZING"
    \/ r.pc = "bind" /\ state = "BINDING"
    \/ r.pc = "register" /\ state = "REGISTERING"
    \/ r.pc = "run" /\ state \in {"RUNNING", "RECONNECTING"}
    \/ r.pc = "reconnect" /\ state = "RECONNECTING"
    \/ r.pc = "backoff" /\ state = "ERROR_TRANSIENT"
    \/ /\ r.pc \in {"ending", "left"}
       /\ \/ r.exc # "transient" /\ state = "ERROR_PERMANENT"
          \/ r.exc # "nothing" /\ state \in {"IDLE", "ERROR_TRANSIENT",
                                  "INITIALIZING", "BINDING", "REGISTERING"}
          \/ r.exc = "permanent" /\ state = "PASSPHRASE_REQUIRED"
    \/ r.pc \in {"check", "close"} /\ state \in AtRest}

\* And where once it was: stop() moves it to STOPPING, the run loop or another
\* stop() to IDLE.
Stopped == {"STOPPING", "IDLE"}

Early == {"boot", "map", "init", "bind", "register"}

\* A run loop in row r and the machine in a state go together: patience is lost
\* with a run loop that was stopped, and a health loop that has returned has
\* run and taken the machine out of RUNNING.  A transient error that no attempt
\* follows has its timer (slept), or is a lapse; so is a machine that the run
\* loop leaves in STOPPING.
Fits(r, state, slept, slips) ==
    /\ state \in IF r.stop THEN Stopped ELSE StatesAt(r)
    /\ r.forced => r.stop
    /\ r.health = HEARTBEAT_FAIL_THRESHOLD =>
          r.pc \notin Early /\ (r.pc = "run" => state # "RUNNING")
    /\ state = "ERROR_TRANSIENT" =>
          /\ r.pc \in {"ending", "left"} => "retry" \in slips
          /\ r.pc \in {"check", "close"} => slept \/ "retry" \in slips
    /\ r.pc = "close" /\ state = "STOPPING" => "stop" \in slips

Rests(state, slept, slips) ==
    /\ \/ state \in AtRest
       \/ state = "STOPPING" /\ "stop" \in slips
    /\ state = "ERROR_TRANSIENT" => slept \/ "retry" \in slips

\* Until two run loops overlap there is one at most, and it has the stop event.
\* The manager knows it, or has given it up; the machine fits it.  Without one
\* the machine rests.
HostInv == ~overlapped =>
    /\ \A t, u \in Threads : Alive(t) /\ Alive(u) => t = u
    /\ \A t \in Threads : Alive(t) =>
          /\ event = t /\ current \in {t, NoThread} /\ stopping \in {t, NoThread}
          /\ stopping = t \/ current = NoThread => thread[t].stop
          /\ Fits(thread[t], sm.state, timers > 0, lapses)
    /\ NoRunLoop => Rests(sm.state, timers > 0, lapses)

LEMMA HostInit == Init => HostInv
<1> SUFFICES ASSUME Init PROVE HostInv
  OBVIOUS
<1>1. \A t \in Threads : ~Alive(t)
  BY DEF Init, Alive, NewThread
<1>2. sm.state = "IDLE"
  BY DEF Init, Fresh
<1>3. Rests("IDLE", timers > 0, lapses)
  BY DEF Rests, AtRest, Errors
<1> HIDE DEF Alive, Rests
<1> QED BY <1>1, <1>2, <1>3 DEF HostInv

\* A step of the one run loop keeps the invariant if what it goes on as fits.
LEMMA HostPut ==
    ASSUME LifecycleTypeOK, HostInv, ~overlapped, NEW t \in Threads,
           thread[t].pc # "none",
           NEW r \in ThreadState, Put(t, r), r.pc # "none",
           UNCHANGED <<current, event, stopping>>,
           thread[t].stop => r.stop,
           Fits(r, sm'.state, timers' > 0, lapses')
    PROVE  HostInv'
<1>1. thread'[t] = r /\ \A u \in Threads \ {t} : thread'[u] = thread[u]
  BY DEF Put, LifecycleTypeOK
<1>2. Alive(t) /\ Alive(t)' /\ \A u \in Threads : Alive(u)' <=> u = t
  BY <1>1, LifecycleAssumption DEF Alive, HostInv
<1>3. /\ event = t /\ current \in {t, NoThread} /\ stopping \in {t, NoThread}
      /\ stopping = t \/ current = NoThread => thread[t].stop
  BY <1>2 DEF HostInv
<1>4. ~NoRunLoop'
  BY <1>2 DEF NoRunLoop
<1> HIDE DEF Alive, Fits, Rests
<1>5. /\ event' = t /\ current' \in {t, NoThread} /\ stopping' \in {t, NoThread}
      /\ stopping' = t \/ current' = NoThread => thread'[t].stop
      /\ Fits(thread'[t], sm'.state, timers' > 0, lapses')
  BY <1>1, <1>3
<1> QED BY <1>2, <1>4, <1>5 DEF HostInv

\* What the machine is like for a run loop that is alive.
LEMMA Fitting ==
    ASSUME LifecycleTypeOK, HostInv, ~overlapped, NEW t \in Threads,
           thread[t].pc # "none"
    PROVE  /\ Fits(thread[t], sm.state, timers > 0, lapses)
           /\ sm \in Machine /\ thread[t] \in ThreadState
           /\ sm.state \in NodeStates
<1>1. Alive(t)
  BY LifecycleAssumption DEF Alive
<1> QED BY <1>1 DEF HostInv, LifecycleTypeOK, Machine

-----------------------------------------------------------------------------
(* The steps of a run loop that was stopped.                               *)

\* Nothing but its own last look moves the machine of a stopped run loop.
LEMMA StoppedAllows ==
    ASSUME NEW m \in Machine, m.state \in Stopped,
           NEW to \in NodeStates \ {"STOPPING", "IDLE", "INITIALIZING"}
    PROVE  ~Allowed(m, to)
BY DEF Machine, Allowed, Transitions, NodeStates, Stopped

LEMMA StoppedErrs ==
    ASSUME NEW m \in Machine, m.state \in Stopped, NEW kind, NEW phase
    PROVE  /\ handle_error(m, kind, phase).state = m.state
           /\ ~Allowed(m, ErrorState(m, kind, phase))
           /\ ~RetryDelay(m, kind, phase)
<1>1. ErrorState(m, kind, phase) \in NodeStates \ {"STOPPING", "IDLE", "INITIALIZING"}
  BY DEF ErrorState, NodeStates
<1>2. ~Allowed(m, ErrorState(m, kind, phase))
  BY <1>1, StoppedAllows
<1> QED BY <1>2, HandleErrorType DEF RetryDelay

LEMMA StoppedPut ==
    ASSUME LifecycleTypeOK, HostInv, ~overlapped, NEW t \in Threads,
           thread[t].pc # "none", thread[t].stop,
           NEW r \in ThreadState, Put(t, r), r.pc # "none", r.stop = TRUE,
           UNCHANGED <<current, event, stopping>>,
           r.pc \in Early => r.health # HEARTBEAT_FAIL_THRESHOLD,
           sm'.state \in Stopped, r.pc = "close" => sm'.state = "IDLE"
    PROVE  HostInv'
<1>1. Fits(r, sm'.state, timers' > 0, lapses')
  BY DEF Fits, Stopped
<1> QED BY <1>1, HostPut

LEMMA StoppedPhase ==
    ASSUME LifecycleTypeOK, HostInv, ~overlapped, NEW t \in Threads,
           thread[t].stop, Phases(t)
    PROVE  HostInv'
<1>k. UNCHANGED <<current, event, stopping>> /\ thread[t].pc \in Early
  BY DEF Phases, PhaseDone, BootRefused, MapPort, PassphraseRequired, PhaseFails,
         manager, At, Early
<1>f. /\ sm.state \in Stopped /\ sm \in Machine
      /\ thread[t].health # HEARTBEAT_FAIL_THRESHOLD /\ thread[t].pc # "none"
  BY <1>k, Fitting DEF Fits, Early
<1>1. ASSUME NEW exc \in Exceptions, Ending(t, exc), sm' = sm
      PROVE  HostInv'
  <2>1. PICK r \in ThreadState :
           Put(t, r) /\ r.pc = "ending" /\ r.stop = thread[t].stop
    BY <1>1, EndingRow
  <2>2. r.stop = TRUE
    BY <2>1 DEF ThreadState
  <2> QED BY <1>k, <1>f, <1>1, <2>1, <2>2, StoppedPut DEF Early
<1>2. CASE PhaseDone(t, "register", "RUNNING", "run")
  <2>1. ~Allowed(sm, "RUNNING")
    BY <1>f, StoppedAllows DEF NodeStates
  <2> QED BY <1>1, <1>2, <2>1 DEF PhaseDone, ReportThen, Exceptions
<1>3. CASE MapPort(t)
  <2>1. PICK ok \in BOOLEAN :
           thread' = [thread EXCEPT ![t].pc = "init", ![t].endpoint = ok]
    BY <1>3 DEF MapPort
  <2> DEFINE r == [thread[t] EXCEPT !.pc = "init", !.endpoint = ok]
  <2>2. Put(t, r)
    BY <2>1 DEF LifecycleTypeOK, ThreadState, Put
  <2>3. /\ r \in ThreadState /\ r.pc = "init" /\ r.stop = thread[t].stop
        /\ r.health = thread[t].health
    BY DEF LifecycleTypeOK, ThreadState, Pcs, InLoop
  <2>4. sm' = sm /\ r.stop = TRUE
    BY <1>3, <2>3 DEF MapPort, ThreadState
  <2> HIDE DEF r
  <2> QED BY <1>k, <1>f, <2>2, <2>3, <2>4, StoppedPut
<1>4. CASE PassphraseRequired(t)
  <2>1. ~Allowed(sm, "PASSPHRASE_REQUIRED")
    BY <1>f, StoppedAllows DEF NodeStates
  <2> QED BY <1>1, <1>4, <2>1 DEF PassphraseRequired, Exceptions
<1>5. CASE BootRefused(t) \/ PhaseFails(t)
  BY <1>1, <1>5 DEF BootRefused, PhaseFails, Kinds, Exceptions
<1>6. ASSUME NEW from, NEW to, NEW pc, PhaseDone(t, from, to, pc), from # "register"
      PROVE  HostInv'
  BY <1>1, <1>6 DEF PhaseDone, Exceptions
<1> QED BY <1>2, <1>3, <1>4, <1>5, <1>6 DEF Phases

LEMMA StoppedHost ==
    ASSUME LifecycleTypeOK, HostInv, ~overlapped, NEW t \in Threads,
           thread[t].stop, ThreadStep(t), ~RunLoopEnds(t)
    PROVE  HostInv'
<1>k. UNCHANGED <<current, event, stopping>> /\ thread[t].pc # "none"
  BY DEF ThreadStep, Phases, PhaseDone, BootRefused, MapPort, PassphraseRequired,
         PhaseFails, WaitOver, Reconnected, ReconnectFails, BackoffOver, Finally,
         FinallyRaises, LoopStopped, RunLoopHandles, RunLoopChecks, manager, At, InLoop
<1>f. /\ sm.state \in Stopped /\ sm \in Machine /\ thread[t] \in ThreadState
      /\ thread[t].stop = TRUE
  BY <1>k, Fitting DEF Fits, ThreadState
<1>a. \A to \in NodeStates \ {"STOPPING", "IDLE", "INITIALIZING"} : ~Allowed(sm, to)
  BY <1>f, StoppedAllows
<1>p. {"ending", "left", "run", "reconnect", "backoff", "check", "close"} \subseteq Pcs
      /\ {"nothing", "permanent"} \subseteq Exceptions
  BY DEF Pcs, InLoop, Exceptions
<1>1. ASSUME NEW r \in ThreadState, Put(t, r), r.stop = thread[t].stop,
             r.pc \in {"ending", "reconnect", "backoff", "left", "check"},
             sm'.state = sm.state
      PROVE  HostInv'
  BY <1>k, <1>f, <1>1, StoppedPut DEF Early
<1>2. CASE WaitOver(t)
  <2>1. sm' = sm /\ (Goto(t, "reconnect") \/ Ending(t, "nothing"))
    BY <1>2 DEF WaitOver, ReconnectLoop
  <2> QED BY <1>1, <1>p, <2>1, GotoRow, EndingRow
<1>3. CASE Reconnected(t) \/ ReconnectFails(t)
  <2>1. ~Allowed(sm, "RUNNING")
    BY <1>a DEF NodeStates
  <2>2. PICK endpoint \in BOOLEAN :
           \E kind \in Kinds \cup {"permanent"} : AttemptRaises(t, kind, endpoint)
    BY <1>3, <2>1 DEF Reconnected, ReconnectFails, Resume
  <2>k. PICK kind \in Kinds \cup {"permanent"} : AttemptRaises(t, kind, endpoint)
    BY <2>2
  <2>3. sm'.state = sm.state /\ ~Allowed(sm, ErrorState(sm, kind, "RECONNECTING"))
    BY <1>f, <2>k, StoppedErrs DEF AttemptRaises
  <2>4. Put(t, Tried(t, "ending", "permanent", endpoint))
    BY <2>k, <2>3, AttemptPut
  <2> DEFINE r == Tried(t, "ending", "permanent", endpoint)
  <2>5. r \in ThreadState /\ r.pc = "ending" /\ r.stop = thread[t].stop
    BY <1>f, <1>p DEF Tried, ThreadState
  <2> HIDE DEF r
  <2>6. Put(t, r)
    BY <2>4 DEF r
  <2> QED BY <1>1, <2>3, <2>5, <2>6
<1>4. CASE BackoffOver(t)
  BY <1>1, <1>4, <1>p, EndingRow DEF BackoffOver
<1>5. CASE Finally(t)
  BY <1>1, <1>5, <1>p, GotoRow DEF Finally
<1>6. CASE FinallyRaises(t) \/ LoopStopped(t)
  <2>1. thread' = [thread EXCEPT ![t].pc = "left", ![t].exc = "permanent"] /\ sm' = sm
    BY <1>6 DEF FinallyRaises, LoopStopped
  <2> DEFINE r == Raised(t, "left", "permanent")
  <2>2. Put(t, r)
    BY <1>p, <2>1, RaisedPut
  <2>3. r \in ThreadState /\ r.pc = "left" /\ r.stop = thread[t].stop
    <3>1. "left" \in Pcs /\ "permanent" \in Exceptions
      BY <1>p
    <3> QED BY <3>1, RaisedFacts
  <2> HIDE DEF r
  <2> QED BY <1>1, <2>1, <2>2, <2>3
<1>7. CASE RunLoopHandles(t)
  <2>1. sm'.state = sm.state
    BY <1>7, <1>f, StoppedErrs DEF RunLoopHandles
  <2>2. Goto(t, "check")
    BY <1>7 DEF RunLoopHandles
  <2> QED BY <1>1, <1>p, <2>1, <2>2, GotoRow
<1>8. CASE RunLoopChecks(t)
  <2>1. sm'.state = "IDLE"
    BY <1>8, <1>f, ChecksType DEF Stopped
  <2>2. PICK r \in ThreadState : Put(t, r) /\ r.pc = "close" /\ r.stop = thread[t].stop
    BY <1>8, <1>p, GotoRow DEF RunLoopChecks
  <2> QED BY <1>k, <1>f, <2>1, <2>2, StoppedPut DEF Early, Stopped
<1> QED BY <1>2, <1>3, <1>4, <1>5, <1>6, <1>7, <1>8, StoppedPhase DEF ThreadStep

-----------------------------------------------------------------------------
(* The steps of a run loop that was not stopped.                           *)

\* A row that was not stopped fits where the machine may be.
LEMMA FreeFits ==
    ASSUME NEW r \in ThreadState, r.stop = FALSE, r.forced = FALSE,
           NEW state \in StatesAt(r), NEW slept \in BOOLEAN, NEW slips,
           r.health = HEARTBEAT_FAIL_THRESHOLD =>
              r.pc \notin Early /\ (r.pc = "run" => state # "RUNNING"),
           state = "ERROR_TRANSIENT" =>
              /\ r.pc \in {"ending", "left"} => "retry" \in slips
              /\ r.pc \in {"check", "close"} => slept \/ "retry" \in slips
    PROVE  Fits(r, state, slept, slips)
<1>1. ~(r.pc = "close" /\ state = "STOPPING")
  BY DEF StatesAt, AtRest, Errors
<1> QED BY <1>1 DEF Fits

\* A report from where the machine may be leads to where the next phase is.
LEMMA ReportFits ==
    ASSUME LifecycleTypeOK, HostInv, ~overlapped, NEW t \in Threads,
           thread[t].pc # "none", ~thread[t].stop,
           NEW to \in NodeStates, NEW pc \in InLoop \ {"ending"},
           ReportThen(t, to, pc), Allowed(sm, to),
           \A r \in ThreadState : r.pc = pc => to \in StatesAt(r),
           thread[t].pc \in Early \/ pc = "reconnect",
           UNCHANGED <<current, event, stopping, timers, lapses>>
    PROVE  HostInv'
<1>1. PICK r \in ThreadState :
              /\ Put(t, r)
              /\ r.stop = thread[t].stop /\ r.forced = thread[t].forced
              /\ sm'.state = to
              /\ r.pc = pc /\ r.health = thread[t].health
  BY ReportRow DEF Pcs
<1>2. /\ thread[t].stop = FALSE /\ thread[t].forced = FALSE
      /\ pc # "reconnect" => thread[t].health # HEARTBEAT_FAIL_THRESHOLD
      /\ (timers > 0) \in BOOLEAN
  BY Fitting DEF Fits, ThreadState
<1>3. pc \notin {"none", "ending", "left", "check", "close"}
  BY DEF InLoop
<1>4. Fits(r, sm'.state, timers' > 0, lapses')
  BY <1>1, <1>2, <1>3, FreeFits DEF Early, StatesAt
<1> QED BY <1>1, <1>3, <1>4, HostPut

LEMMA PhaseDoneHost ==
    ASSUME LifecycleTypeOK, HostInv, ~overlapped, NEW t \in Threads, ~thread[t].stop,
           NEW from \in Early, NEW to \in NodeStates, NEW pc \in InLoop \ {"ending"},
           PhaseDone(t, from, to, pc),
           \A r \in ThreadState : r.pc = pc => to \in StatesAt(r),
           \A r \in ThreadState : r.pc = from /\ sm.state \in StatesAt(r) => Allowed(sm, to)
    PROVE  HostInv'
<1>1. thread[t].pc = from /\ thread[t].pc # "none" /\ thread[t] \in ThreadState
  BY DEF PhaseDone, At, Early, LifecycleTypeOK
<1>2. UNCHANGED <<current, event, stopping, timers, lapses>>
  BY DEF PhaseDone, manager
<1>3. ReportThen(t, to, pc)
  BY DEF PhaseDone
<1>4. sm.state \in StatesAt(thread[t])
  BY <1>1, Fitting DEF Fits
<1> QED BY <1>1, <1>2, <1>3, <1>4, ReportFits

\* A run that leaves with an exception.
LEMMA RaisedHost ==
    ASSUME LifecycleTypeOK, HostInv, ~overlapped, NEW t \in Threads,
           thread[t].pc # "none", ~thread[t].stop,
           NEW exc \in Exceptions \ {"nothing"}, Ending(t, exc),
           UNCHANGED <<current, event, stopping, timers>>,
           \/ sm'.state \in {"IDLE", "INITIALIZING", "BINDING", "REGISTERING"}
           \/ sm'.state = "ERROR_TRANSIENT" /\ "retry" \in lapses'
           \/ sm'.state = "PASSPHRASE_REQUIRED" /\ exc = "permanent"
    PROVE  HostInv'
<1>1. PICK r \in ThreadState :
         /\ Put(t, r) /\ r.pc = "ending" /\ r.exc = exc
         /\ r.stop = thread[t].stop /\ r.forced = thread[t].forced
  BY EndingRow
<1>2. /\ thread[t].stop = FALSE /\ thread[t].forced = FALSE
      /\ (timers > 0) \in BOOLEAN
  BY Fitting DEF Fits, ThreadState
<1>3. sm'.state \in StatesAt(r)
  BY <1>1 DEF StatesAt, NodeStates
<1>4. Fits(r, sm'.state, timers' > 0, lapses')
  BY <1>1, <1>2, <1>3, FreeFits DEF Early
<1> QED BY <1>1, <1>4, HostPut

LEMMA FreePhase ==
    ASSUME LifecycleTypeOK, HostInv, ~overlapped, NEW t \in Threads,
           ~thread[t].stop, Phases(t)
    PROVE  HostInv'
<1>m. sm \in Machine
  BY DEF LifecycleTypeOK, Machine
<1>1. CASE PhaseDone(t, "boot", "INITIALIZING", "map")
  <2>1. /\ \A r \in ThreadState : r.pc = "map" => "INITIALIZING" \in StatesAt(r)
        /\ \A r \in ThreadState : r.pc = "boot" /\ sm.state \in StatesAt(r)
                                       => Allowed(sm, "INITIALIZING")
    BY <1>m, AllowedFrom DEF StatesAt, NodeStates
  <2> QED BY <1>1, <2>1, PhaseDoneHost DEF Early, NodeStates, InLoop
<1>2. CASE PhaseDone(t, "init", "BINDING", "bind")
  <2>1. /\ \A r \in ThreadState : r.pc = "bind" => "BINDING" \in StatesAt(r)
        /\ \A r \in ThreadState : r.pc = "init" /\ sm.state \in StatesAt(r)
                                       => Allowed(sm, "BINDING")
    BY <1>m, AllowedFrom DEF StatesAt, NodeStates
  <2> QED BY <1>2, <2>1, PhaseDoneHost DEF Early, NodeStates, InLoop
<1>3. CASE PhaseDone(t, "bind", "REGISTERING", "register")
  <2>1. /\ \A r \in ThreadState : r.pc = "register" => "REGISTERING" \in StatesAt(r)
        /\ \A r \in ThreadState : r.pc = "bind" /\ sm.state \in StatesAt(r)
                                       => Allowed(sm, "REGISTERING")
    BY <1>m, AllowedFrom DEF StatesAt, NodeStates
  <2> QED BY <1>3, <2>1, PhaseDoneHost DEF Early, NodeStates, InLoop
<1>4. CASE PhaseDone(t, "register", "RUNNING", "run")
  <2>1. /\ \A r \in ThreadState : r.pc = "run" => "RUNNING" \in StatesAt(r)
        /\ \A r \in ThreadState : r.pc = "register" /\ sm.state \in StatesAt(r)
                                       => Allowed(sm, "RUNNING")
    BY <1>m, AllowedFrom DEF StatesAt, NodeStates
  <2> QED BY <1>4, <2>1, PhaseDoneHost DEF Early, NodeStates, InLoop
<1>5. CASE MapPort(t)
  <2>1. PICK ok \in BOOLEAN :
           thread' = [thread EXCEPT ![t].pc = "init", ![t].endpoint = ok]
    BY <1>5 DEF MapPort
  <2> DEFINE r == [thread[t] EXCEPT !.pc = "init", !.endpoint = ok]
  <2>2. Put(t, r)
    BY <2>1 DEF LifecycleTypeOK, ThreadState, Put
  <2>3. /\ r \in ThreadState /\ r.pc = "init" /\ r.stop = thread[t].stop
        /\ r.health = thread[t].health /\ r.forced = thread[t].forced
    BY DEF LifecycleTypeOK, ThreadState, Pcs, InLoop
  <2>4. thread[t].pc = "map"
    BY <1>5 DEF MapPort, At
  <2>5. UNCHANGED <<sm, current, event, stopping, timers, lapses>>
    BY <1>5 DEF MapPort, manager
  <2> HIDE DEF r
  <2>6. Fits(r, sm'.state, timers' > 0, lapses')
    BY <2>3, <2>4, <2>5, Fitting DEF Fits, StatesAt, Early
  <2> QED BY <2>2, <2>3, <2>4, <2>5, <2>6, HostPut
<1>7. CASE BootRefused(t)
  <2>1. sm.state \in {"IDLE", "ERROR_TRANSIENT"} /\ thread[t].pc = "boot"
    BY <1>7, Fitting DEF BootRefused, At, Fits, StatesAt
  <2>2. PICK exc \in Exceptions \ {"nothing"} : Ending(t, exc)
    BY <1>7 DEF BootRefused, Kinds, Exceptions
  <2>3. /\ sm' = sm /\ UNCHANGED <<current, event, stopping, timers>>
        /\ sm.state = "ERROR_TRANSIENT" => "retry" \in lapses'
    BY <1>7 DEF BootRefused, host
  <2> QED BY <2>1, <2>2, <2>3, RaisedHost
<1>8. CASE PhaseFails(t)
  <2>1. /\ sm.state \in {"INITIALIZING", "BINDING", "REGISTERING"}
        /\ thread[t].pc # "none"
    BY <1>8, Fitting DEF PhaseFails, Fits, StatesAt
  <2>2. PICK exc \in Exceptions \ {"nothing"} : Ending(t, exc)
    BY <1>8 DEF PhaseFails, Kinds, Exceptions
  <2>3. sm' = sm /\ UNCHANGED <<current, event, stopping, timers>>
    BY <1>8 DEF PhaseFails, manager
  <2> QED BY <2>1, <2>2, <2>3, RaisedHost
<1>9. CASE PassphraseRequired(t)
  <2>1. sm.state = "INITIALIZING" /\ thread[t].pc # "none"
    BY <1>9, Fitting DEF PassphraseRequired, At, Fits, StatesAt
  <2>3. sm'.state = "PASSPHRASE_REQUIRED"
    BY <1>9, <1>m, <2>1, AllowedFrom, MovedType DEF PassphraseRequired, NodeStates
  <2>4. /\ UNCHANGED <<current, event, stopping, timers>> /\ Ending(t, "permanent")
        /\ "permanent" \in Exceptions \ {"nothing"}
    BY <1>9 DEF PassphraseRequired, manager, Exceptions
  <2> QED BY <2>1, <2>3, <2>4, RaisedHost
<1> QED BY <1>1, <1>2, <1>3, <1>4, <1>5, <1>7, <1>8, <1>9 DEF Phases

LEMMA FreeRun ==
    ASSUME LifecycleTypeOK, HostInv, ~overlapped, NEW t \in Threads, ~thread[t].stop,
           WaitOver(t) \/ Reconnected(t) \/ ReconnectFails(t) \/ BackoffOver(t)
    PROVE  HostInv'
<1>m. sm \in Machine
  BY DEF LifecycleTypeOK, Machine
<1>k. /\ UNCHANGED <<current, event, timers, stopping, lapses>>
      /\ thread[t].pc \in {"run", "reconnect", "backoff"}
  BY DEF WaitOver, Reconnected, ReconnectFails, BackoffOver, manager, host, At
<1>f. /\ sm.state \in StatesAt(thread[t])
      /\ thread[t].pc = "run" /\ thread[t].health = HEARTBEAT_FAIL_THRESHOLD
            => sm.state # "RUNNING"
      /\ thread[t].stop = FALSE /\ thread[t].forced = FALSE
      /\ (timers > 0) \in BOOLEAN
  BY <1>k, Fitting DEF Fits, ThreadState
<1>1. CASE WaitOver(t)
  <2>1. sm' = sm /\ thread[t].pc = "run" /\ sm.state = "RECONNECTING"
    BY <1>1, <1>f DEF WaitOver, At, StatesAt
  <2>2. Goto(t, "reconnect") /\ "reconnect" \in Pcs
    BY <1>1, <2>1 DEF WaitOver, ReconnectLoop, Pcs, InLoop
  <2>3. PICK r \in ThreadState :
           /\ Put(t, r) /\ r.pc = "reconnect"
           /\ r.stop = thread[t].stop /\ r.forced = thread[t].forced
    BY <2>2, GotoRow
  <2>4. Fits(r, sm'.state, timers' > 0, lapses')
    BY <1>f, <2>1, <2>3 DEF Fits, StatesAt, Early, NodeStates
  <2> QED BY <1>k, <2>3, <2>4, HostPut
<1>2. CASE Reconnected(t) \/ ReconnectFails(t)
  <2>1. sm.state = "RECONNECTING"
    BY <1>2, <1>f DEF Reconnected, ReconnectFails, At, StatesAt
  <2>2. Allowed(sm, "RUNNING")
    BY <1>m, <2>1, AllowedFrom
  <2>3. PICK endpoint \in BOOLEAN :
           \/ Resume(t, endpoint, TRUE)
           \/ \E kind \in Kinds : AttemptRaises(t, kind, endpoint)
    BY <1>2 DEF Reconnected, ReconnectFails
  <2>4. CASE Resume(t, endpoint, TRUE)
    <3> DEFINE r == Resumed(t, endpoint)
    <3>1. Put(t, r) /\ r \in ThreadState
      BY <2>2, <2>3, <2>4, ResumedPut
    <3>2. /\ r.pc = "run" /\ r.health = 0
          /\ r.stop = thread[t].stop /\ r.forced = thread[t].forced
      BY <2>3, ResumedFacts
    <3>3. sm'.state = "RUNNING"
      BY <1>m, <2>2, <2>4, MovedType DEF Resume, NodeStates
    <3> HIDE DEF r
    <3>4. Fits(r, sm'.state, timers' > 0, lapses')
      BY <1>f, <3>2, <3>3, LifecycleAssumption DEF Fits, StatesAt, NodeStates
    <3> QED BY <1>k, <3>1, <3>2, <3>4, HostPut
  <2>5. CASE \E kind \in Kinds : AttemptRaises(t, kind, endpoint)
    <3> PICK kind \in Kinds : AttemptRaises(t, kind, endpoint)
      BY <2>5
    <3> DEFINE to == ErrorState(sm, kind, "RECONNECTING")
    <3>1. to \in Errors /\ Allowed(sm, to)
      BY <1>m, <2>1, HandleErrorType, AllowedFrom DEF Errors
    <3>2. PICK pc \in {"backoff", "ending"} :
             /\ Put(t, Tried(t, pc, "nothing", endpoint))
             /\ \/ sm'.state = "ERROR_TRANSIENT" /\ pc = "backoff"
                \/ sm'.state = "ERROR_PERMANENT" /\ pc = "ending"
      BY <2>3, <3>1, AttemptPut
    <3> HIDE DEF to
    <3> DEFINE r == Tried(t, pc, "nothing", endpoint)
    <3>3. /\ r \in ThreadState /\ r.pc = pc /\ r.exc = "nothing"
          /\ r.stop = thread[t].stop /\ r.forced = thread[t].forced
      <4>1. pc \in Pcs /\ "nothing" \in Exceptions
        BY DEF Pcs, InLoop, Exceptions
      <4> QED BY <2>3, <4>1, TriedFacts
    <3> HIDE DEF r
    <3>4. Fits(r, sm'.state, timers' > 0, lapses')
      BY <1>f, <3>2, <3>3 DEF Fits, StatesAt, Early, NodeStates
    <3>5. Put(t, r) /\ r.pc # "none"
      BY <3>2, <3>3 DEF r
    <3> QED BY <1>k, <3>3, <3>4, <3>5, HostPut
  <2> QED BY <2>3, <2>4, <2>5
<1>3. CASE BackoffOver(t)
  <2>1. thread[t].pc = "backoff" /\ ReportThen(t, "RECONNECTING", "reconnect")
    BY <1>3 DEF BackoffOver, At
  <2>2. Allowed(sm, "RECONNECTING")
    BY <1>f, <1>m, <2>1, AllowedFrom DEF StatesAt
  <2>3. \A r \in ThreadState : r.pc = "reconnect" => "RECONNECTING" \in StatesAt(r)
    BY DEF StatesAt, NodeStates
  <2>4. "RECONNECTING" \in NodeStates /\ "reconnect" \in InLoop \ {"ending"}
    BY DEF NodeStates, InLoop
  <2> QED BY <1>k, <2>1, <2>2, <2>3, <2>4, ReportFits
<1> QED BY <1>1, <1>2, <1>3

LEMMA FreeFinally ==
    ASSUME LifecycleTypeOK, HostInv, ~overlapped, NEW t \in Threads, ~thread[t].stop,
           Finally(t) \/ FinallyRaises(t)
    PROVE  HostInv'
<1>1. /\ thread[t].pc = "ending" /\ sm' = sm
      /\ UNCHANGED <<current, event, timers, stopping, lapses>>
  BY DEF Finally, FinallyRaises, manager, At
<1>2. "left" \in Pcs /\ "permanent" \in Exceptions
  BY DEF Pcs, Exceptions
<1>3. PICK r \in ThreadState :
         /\ Put(t, r) /\ r.pc = "left" /\ r.exc \in {thread[t].exc, "permanent"}
         /\ r.stop = thread[t].stop /\ r.forced = thread[t].forced
  <2>1. CASE Finally(t)
    BY <1>2, <2>1, GotoRow DEF Finally
  <2>2. CASE FinallyRaises(t)
    <3> DEFINE r == Raised(t, "left", "permanent")
    <3>1. Put(t, r)
      BY <1>2, <2>2, RaisedPut DEF FinallyRaises
    <3>2. /\ r \in ThreadState /\ r.pc = "left" /\ r.exc = "permanent"
          /\ r.stop = thread[t].stop /\ r.forced = thread[t].forced
      BY <1>2, RaisedFacts
    <3> HIDE DEF r
    <3> QED BY <3>1, <3>2
  <2> QED BY <2>1, <2>2
<1>4. Fits(r, sm'.state, timers' > 0, lapses')
  BY <1>1, <1>3, Fitting DEF Fits, StatesAt, Early
<1> QED BY <1>1, <1>3, <1>4, HostPut

\* What _run_loop makes of the machine when the run has left: it is at rest,
\* and a transient error has its timer, or is a lapse.
LEMMA HandledRests ==
    ASSUME LifecycleTypeOK, HostInv, ~overlapped, NEW t \in Threads, ~thread[t].stop,
           RunLoopHandles(t)
    PROVE  /\ sm'.state \in AtRest
           /\ sm'.state = "ERROR_TRANSIENT" => timers' > 0 \/ "retry" \in lapses
<1> DEFINE exc    == thread[t].exc
           to     == ErrorState(sm, exc, sm.state)
           raised == handle_error(sm, exc, sm.state)
<1>1. thread[t].pc = "left" /\ thread[t].pc # "none"
  BY DEF RunLoopHandles, At
<1>2. /\ sm \in Machine /\ exc \in Exceptions
      /\ sm.state \in StatesAt(thread[t])
      /\ sm.state = "ERROR_TRANSIENT" => "retry" \in lapses
  BY <1>1, Fitting DEF Fits, ThreadState
<1>3. /\ raised \in Machine /\ to \in Errors
      /\ raised.state = IF Allowed(sm, to) THEN to ELSE sm.state
  BY <1>2, HandleErrorType
<1>4. /\ Handled(t) => sm' = raised
      /\ ~Handled(t) => sm' = sm
      /\ Handled(t) /\ to = "ERROR_TRANSIENT" /\ Allowed(sm, to) => timers' = timers + 1
  BY DEF RunLoopHandles, RetryDelay
<1>5. timers \in Nat
  BY DEF LifecycleTypeOK
<1>6. /\ Allowed(sm, "ERROR_TRANSIENT") <=>
            sm.state \in {"INITIALIZING", "BINDING", "REGISTERING", "RECONNECTING"}
      /\ Allowed(sm, "ERROR_PERMANENT") <=>
            sm.state \in {"INITIALIZING", "BINDING", "REGISTERING", "RECONNECTING",
                          "ERROR_TRANSIENT"}
  BY <1>2, AllowedFrom
<1> HIDE DEF to, raised
<1>7. CASE sm.state \in Errors
  BY <1>2, <1>4, <1>7 DEF Handled, AtRest
<1>8. CASE sm.state \in {"INITIALIZING", "BINDING", "REGISTERING"}
  <2>1. Handled(t)
    BY <1>1, <1>2, <1>8 DEF Handled, StatesAt, Errors
  <2>2. Allowed(sm, to) /\ sm'.state = to
    BY <1>3, <1>4, <1>6, <1>8, <2>1 DEF Errors
  <2> QED BY <1>3, <1>4, <1>5, <2>1, <2>2 DEF AtRest
<1>9. CASE sm.state \in {"IDLE", "PASSPHRASE_REQUIRED"}
  <2>1. ~Allowed(sm, to)
    BY <1>3, <1>6, <1>9 DEF Errors
  <2> QED BY <1>3, <1>4, <1>9, <2>1 DEF AtRest
<1> QED BY <1>1, <1>2, <1>7, <1>8, <1>9 DEF StatesAt, Errors

LEMMA FreeLeaves ==
    ASSUME LifecycleTypeOK, HostInv, ~overlapped, NEW t \in Threads, ~thread[t].stop,
           RunLoopHandles(t) \/ RunLoopChecks(t)
    PROVE  HostInv'
<1>k. UNCHANGED <<current, event, stopping, lapses>> /\ thread[t].pc \in {"left", "check"}
  BY DEF RunLoopHandles, RunLoopChecks, manager, host, At
<1>f. Fits(thread[t], sm.state, timers > 0, lapses) /\ thread[t] \in ThreadState
  BY <1>k, Fitting
<1>s. thread[t].stop = FALSE /\ thread[t].forced = FALSE
  BY <1>f DEF Fits, ThreadState
<1>1. /\ sm'.state \in AtRest /\ (timers' > 0) \in BOOLEAN
      /\ sm'.state = "ERROR_TRANSIENT" => timers' > 0 \/ "retry" \in lapses
  <2>1. CASE RunLoopHandles(t)
    BY <2>1, HandledRests
  <2>2. CASE RunLoopChecks(t)
    <3>1. sm.state \in StatesAt(thread[t]) /\ thread[t].pc = "check"
      BY <1>f, <1>s, <2>2 DEF Fits, RunLoopChecks, At
    <3>2. sm.state \in AtRest
      BY <3>1 DEF StatesAt
    <3>3. sm'.state = sm.state
      BY <2>2, <3>2, ChecksType DEF AtRest, Errors
    <3>4. timers' = timers
      BY <2>2 DEF RunLoopChecks, manager
    <3> QED BY <1>f, <3>1, <3>2, <3>3, <3>4 DEF Fits
  <2> QED BY <2>1, <2>2
<1>2. PICK r \in ThreadState :
         /\ Put(t, r) /\ r.pc \in {"check", "close"}
         /\ r.stop = thread[t].stop /\ r.forced = thread[t].forced
  BY GotoRow DEF RunLoopHandles, RunLoopChecks, Pcs
<1>3. sm'.state \in StatesAt(r)
  BY <1>1, <1>2 DEF StatesAt, AtRest, Errors, NodeStates
<1>4. Fits(r, sm'.state, timers' > 0, lapses')
  BY <1>k, <1>s, <1>1, <1>2, <1>3, FreeFits DEF Early
<1> QED BY <1>k, <1>2, <1>4, HostPut

-----------------------------------------------------------------------------
(* The end of a run loop, its background loops, and the manager.           *)

LEMMA EndsHost ==
    ASSUME LifecycleTypeOK, HostInv, ~overlapped, NEW t \in Threads, RunLoopEnds(t)
    PROVE  HostInv'
<1>1. thread[t].pc = "close" /\ UNCHANGED <<sm, timers, lapses>>
  BY DEF RunLoopEnds, At
<1>2. \A u \in Threads : Alive(u) => u = t
  BY <1>1, LifecycleAssumption DEF HostInv, Alive
<1>3. \A u \in Threads : ~Alive(u)'
  BY <1>2 DEF RunLoopEnds, Alive, NewThread, LifecycleTypeOK
<1>4. Rests(sm.state, timers > 0, lapses)
  BY <1>1, Fitting DEF Fits, StatesAt, Rests, Stopped, AtRest
<1>5. Rests(sm.state, timers > 0, lapses)'
  BY <1>1, <1>4 DEF Rests
<1> HIDE DEF Alive
<1> QED BY <1>3, <1>5 DEF HostInv, NoRunLoop

LEMMA LoopHost ==
    ASSUME LifecycleTypeOK, HostInv, ~overlapped, NEW t \in Threads,
           HealthCheck(t) \/ SelfProbe(t)
    PROVE  HostInv'
<1>1. /\ thread[t].pc = "run"
      /\ UNCHANGED <<current, event, timers, stopping, lapses>>
  BY DEF HealthCheck, SelfProbe, At, manager, host
<1>2. PICK r \in ThreadState :
         /\ Put(t, r) /\ LoopRow(t, r)
         /\ r.health = HEARTBEAT_FAIL_THRESHOLD =>
               r.health = thread[t].health \/ ~Allowed(sm', "RECONNECTING")
  BY LoopPut
<1>3. /\ sm \in Machine /\ sm' \in Machine
      /\ sm'.state \in {sm.state, "RECONNECTING"}
      /\ sm'.state # sm.state => Allowed(sm, "RECONNECTING")
  BY LoopPut DEF LifecycleTypeOK, Machine
<1>4. /\ sm.state \in IF thread[t].stop THEN Stopped ELSE {"RUNNING", "RECONNECTING"}
      /\ thread[t].forced => thread[t].stop
      /\ thread[t].health = HEARTBEAT_FAIL_THRESHOLD => sm.state # "RUNNING"
  BY <1>1, Fitting DEF Fits, StatesAt
<1>5. /\ sm.state \in Stopped => sm'.state = sm.state
      /\ sm.state \notin Stopped => sm'.state \in {"RUNNING", "RECONNECTING"}
      /\ sm'.state = "RUNNING" => sm.state = "RUNNING" /\ Allowed(sm', "RECONNECTING")
  BY <1>3, <1>4, AllowedFrom DEF Stopped
<1>6. Fits(r, sm'.state, timers' > 0, lapses')
  <2>1. /\ r.pc = "run" /\ r.stop = thread[t].stop /\ r.forced = thread[t].forced
        /\ r.health = HEARTBEAT_FAIL_THRESHOLD => sm'.state # "RUNNING"
    BY <1>1, <1>2, <1>4, <1>5 DEF LoopRow
  <2>2. sm'.state \in IF r.stop THEN Stopped ELSE {"RUNNING", "RECONNECTING"}
    BY <1>4, <1>5, <2>1 DEF Stopped
  <2>3. "ERROR_TRANSIENT" \notin {"RUNNING", "RECONNECTING"} \cup Stopped
    BY DEF Stopped
  <2> QED BY <1>4, <2>1, <2>2, <2>3 DEF Fits, StatesAt, Early, NodeStates
<1> QED BY <1>1, <1>2, <1>6, HostPut DEF LoopRow

LEMMA SpawnHost ==
    ASSUME LifecycleTypeOK, HostInv, NEW t \in Threads, Spawn(t),
           stopping' = stopping, sm'.state \in {"IDLE", "ERROR_TRANSIENT"}
    PROVE  HostInv'
<1> SUFFICES ASSUME ~overlapped' PROVE HostInv'
  BY DEF HostInv
<1>1. NoRunLoop /\ stopping = NoThread
  BY DEF Spawn, NoRunLoop
<1>2. /\ thread'[t] = NewThread("boot") /\ current' = t /\ event' = t
      /\ \A u \in Threads \ {t} : thread'[u] = thread[u]
  BY DEF Spawn, LifecycleTypeOK
<1>3. \A u \in Threads : Alive(u)' <=> u = t
  BY <1>1, <1>2, LifecycleAssumption DEF NoRunLoop, Alive, NewThread
<1>4. Fits(NewThread("boot"), sm'.state, timers' > 0, lapses')
  BY LifecycleAssumption DEF Fits, NewThread, StatesAt, Early, NodeStates
<1>5. t # NoThread /\ ~NoRunLoop'
  BY <1>3, LifecycleAssumption DEF NoRunLoop
<1> HIDE DEF Alive, Fits
<1> QED BY <1>1, <1>2, <1>3, <1>4, <1>5 DEF HostInv

\* A step that leaves the threads, the stop event and stop() alone.
LEMMA MachineHost ==
    ASSUME LifecycleTypeOK, HostInv, ~overlapped,
           UNCHANGED <<thread, current, event, stopping>>,
           \A t \in Threads : thread[t].pc # "none" =>
              Fits(thread[t], sm'.state, timers' > 0, lapses'),
           NoRunLoop => Rests(sm'.state, timers' > 0, lapses')
    PROVE  HostInv'
<1>1. \A t \in Threads : Alive(t)' <=> Alive(t)
  BY DEF Alive
<1>2. \A t \in Threads : Alive(t) => Fits(thread[t], sm'.state, timers' > 0, lapses')
  BY LifecycleAssumption DEF Alive
<1> HIDE DEF Alive, Fits, Rests
<1> QED BY <1>1, <1>2 DEF HostInv, NoRunLoop

LEMMA TimerHost ==
    ASSUME LifecycleTypeOK, HostInv, ~overlapped, TimerFires
    PROVE  HostInv'
<1>1. CASE sm.state = "ERROR_TRANSIENT"
  BY <1>1, SpawnHost DEF TimerFires, host
<1>2. CASE sm.state # "ERROR_TRANSIENT"
  <2>1. UNCHANGED <<thread, current, event, stopping, sm, lapses>>
    BY <1>2 DEF TimerFires, host
  <2>2. \A t \in Threads : thread[t].pc # "none" =>
           Fits(thread[t], sm'.state, timers' > 0, lapses')
    BY <1>2, <2>1, Fitting DEF Fits
  <2>3. NoRunLoop => Rests(sm'.state, timers' > 0, lapses')
    BY <1>2, <2>1 DEF HostInv, Rests
  <2> QED BY <2>1, <2>2, <2>3, MachineHost
<1> QED BY <1>1, <1>2

LEMMA StopDeadHost ==
    ASSUME LifecycleTypeOK, HostInv, ~overlapped, StopDead
    PROVE  HostInv'
<1>1. sm'.state = "IDLE"
  BY MovedType DEF StopDead, Fresh, LifecycleTypeOK, Machine, NodeStates
<1>2. UNCHANGED <<thread, current, event, stopping>>
  BY DEF StopDead, host
<1>3. ASSUME NEW t \in Threads, thread[t].pc # "none"
      PROVE  Fits(thread[t], sm'.state, timers' > 0, lapses')
  <2>1. Alive(t)
    BY <1>3, LifecycleAssumption DEF Alive
  <2>2. current = NoThread
    BY <2>1 DEF StopDead, HostInv
  <2>3. thread[t].stop
    BY <2>1, <2>2 DEF HostInv
  <2> QED BY <1>1, <1>3, <2>3, Fitting DEF Fits, Stopped
<1>4. Rests(sm'.state, timers' > 0, lapses')
  BY <1>1 DEF Rests, AtRest
<1> QED BY <1>2, <1>3, <1>4, MachineHost

LEMMA StopAliveHost ==
    ASSUME LifecycleTypeOK, HostInv, ~overlapped, StopAlive
    PROVE  HostInv'
<1> DEFINE t == current
<1>1. t \in Threads /\ Alive(t) /\ event = t /\ thread[t].pc # "none"
  BY DEF StopAlive, HostInv, Alive, LifecycleTypeOK
<1>2. sm'.state = "STOPPING"
  BY AllowedFrom, MovedType DEF StopAlive, LifecycleTypeOK, Machine, NodeStates
<1>3. /\ UNCHANGED <<current, event, timers, overlapped>> /\ stopping' = t
      /\ thread' = [thread EXCEPT ![t].stop = TRUE]
      /\ thread[t].pc = "close" => "stop" \in lapses'
  BY <1>1, LifecycleAssumption DEF StopAlive, host, At
<1> HIDE DEF t
<1>4. /\ thread'[t].pc = thread[t].pc /\ thread'[t].stop = TRUE
      /\ thread'[t].health = thread[t].health
      /\ \A u \in Threads \ {t} : thread'[u] = thread[u]
  BY <1>1, <1>3 DEF LifecycleTypeOK, ThreadState
<1>5. \A u \in Threads : Alive(u)' <=> u = t
  <2>1. \A u \in Threads : Alive(u) <=> u = t
    BY <1>1 DEF HostInv
  <2> QED BY <1>4, <2>1 DEF Alive
<1>6. Fits(thread'[t], sm'.state, timers' > 0, lapses')
  BY <1>1, <1>2, <1>3, <1>4, Fitting DEF Fits, Stopped
<1>7. ~NoRunLoop' /\ current' = t /\ event' = t
  BY <1>1, <1>3, <1>5 DEF NoRunLoop, t
<1> HIDE DEF Alive, Fits
<1> QED BY <1>1, <1>3, <1>4, <1>5, <1>6, <1>7 DEF HostInv

LEMMA StopForcesHost ==
    ASSUME LifecycleTypeOK, HostInv, ~overlapped, StopForces
    PROVE  HostInv'
<1> DEFINE t == stopping
<1>1. /\ t \in Threads /\ thread[t].pc # "none" /\ thread[t].stop
      /\ thread' = [thread EXCEPT ![t].forced = TRUE]
      /\ UNCHANGED <<sm, current, event, stopping, timers, lapses>>
  BY DEF StopForces, Alive, manager, LifecycleTypeOK
<1> HIDE DEF t
<1> DEFINE r == [thread[t] EXCEPT !.forced = TRUE]
<1>2. Put(t, r) /\ thread[t] \in ThreadState
  BY <1>1 DEF LifecycleTypeOK, Put
<1>3. /\ r \in ThreadState /\ r.pc = thread[t].pc /\ r.stop = thread[t].stop
      /\ r.health = thread[t].health /\ r.exc = thread[t].exc
  BY <1>2 DEF ThreadState
<1> HIDE DEF r
<1>4. Fits(r, sm'.state, timers' > 0, lapses')
  BY <1>1, <1>3, Fitting DEF Fits
<1> QED BY <1>1, <1>2, <1>3, <1>4, HostPut

LEMMA StopReturnsHost ==
    ASSUME LifecycleTypeOK, HostInv, ~overlapped, StopJoined \/ StopGivesUp
    PROVE  HostInv'
<1>1. /\ UNCHANGED <<sm, thread, event, timers, lapses>>
      /\ current' = NoThread /\ stopping' = NoThread /\ stopping # NoThread
  BY DEF StopJoined, StopGivesUp, host
<1>2. \A t \in Threads : Alive(t)' <=> Alive(t)
  BY <1>1 DEF Alive
<1>3. \A t \in Threads : Alive(t) => stopping = t /\ thread[t].stop
  BY <1>1 DEF HostInv
<1>4. NoRunLoop' <=> NoRunLoop
  BY <1>2 DEF NoRunLoop
<1> HIDE DEF Alive, Fits, Rests
<1> QED BY <1>1, <1>2, <1>3, <1>4 DEF HostInv

LEMMA HostStep == LifecycleTypeOK /\ HostInv /\ [Next]_vars => HostInv'
<1> SUFFICES ASSUME LifecycleTypeOK, HostInv, [Next]_vars PROVE HostInv'
  OBVIOUS
<1>1. CASE Start
  <2>1. /\ stopping' = stopping /\ sm'.state = "IDLE"
        /\ \E t \in Threads : Spawn(t)
    BY <1>1 DEF Start, Fresh
  <2> QED BY <2>1, SpawnHost
<1>2. CASE overlapped
  <2>1. overlapped'
    BY <1>2 DEF Next, ThreadStep, Phases, PhaseDone, BootRefused, MapPort,
                PassphraseRequired, PhaseFails, WaitOver, Reconnected, ReconnectFails,
                BackoffOver, Finally, FinallyRaises, LoopStopped, RunLoopHandles,
                RunLoopChecks, RunLoopEnds, HealthCheck, SelfProbe, Renewal, RenewAsks,
                RenewAgreed, RenewRefused, RenewRaises, StrayLands, TimerFires, Spawn,
                Start, StopDead, StopAlive, StopForces, StopJoined, StopGivesUp,
                CoordChanges, LeaseEnds, manager, vars
  <2> QED BY <2>1 DEF HostInv
<1>3. CASE ~overlapped /\ \E t \in Threads : ThreadStep(t)
  <2> PICK t \in Threads : ThreadStep(t)
    BY <1>3
  <2>1. CASE RunLoopEnds(t)
    BY <1>3, <2>1, EndsHost
  <2>2. CASE ~RunLoopEnds(t) /\ thread[t].stop
    BY <1>3, <2>2, StoppedHost
  <2>3. CASE ~RunLoopEnds(t) /\ ~thread[t].stop
    <3>1. ~LoopStopped(t)
      BY <1>3, <2>3, Fitting DEF LoopStopped, Fits, InLoop
    <3> QED BY <1>3, <2>3, <3>1, FreePhase, FreeRun, FreeFinally, FreeLeaves
            DEF ThreadStep
  <2> QED BY <2>1, <2>2, <2>3
<1>4. CASE /\ ~overlapped
           /\ \/ \E t \in Threads : Renewal(t)
              \/ CoordChanges \/ LeaseEnds \/ UNCHANGED vars
  <2>1. UNCHANGED <<sm, thread, current, event, stopping, timers, lapses>>
    BY <1>4 DEF Renewal, RenewAsks, RenewAgreed, RenewRefused, RenewRaises, StrayLands,
                CoordChanges, LeaseEnds, vars, manager
  <2>2. \A t \in Threads : thread[t].pc # "none" =>
           Fits(thread[t], sm'.state, timers' > 0, lapses')
    <3> HIDE DEF Fits
    <3> QED BY <1>4, <2>1, Fitting
  <2>3. NoRunLoop => Rests(sm'.state, timers' > 0, lapses')
    <3> HIDE DEF Rests
    <3> QED BY <1>4, <2>1 DEF HostInv
  <2> QED BY <1>4, <2>1, <2>2, <2>3, MachineHost
<1> QED BY <1>1, <1>2, <1>3, <1>4, LoopHost, TimerHost, StopDeadHost, StopAliveHost,
           StopForcesHost, StopReturnsHost
        DEF Next

LEMMA HostAlways == Spec => []HostInv
BY HostInit, HostStep, LifecycleTypes, PTL DEF Spec

\* Until two run loops overlap, what a stopped node shows is true: it is at
\* rest, and a node that says it will retry has a timer, but for the two lapses
\* of the code, however stop(), the timers and a run loop on its way out meet.
THEOREM HonestAtRest == Spec => []RestIsHonest
<1>1. HostInv => RestIsHonest
  BY DEF HostInv, RestIsHonest, Rests
<1> QED BY <1>1, HostAlways, PTL

\* Until two run loops overlap, a node that says it is running is polled by a
\* run loop with a health loop that is still alive.
THEOREM Supervised == Spec => []RunningIsSupervised
<1>1. LifecycleTypeOK /\ HostInv => RunningIsSupervised
  <2> SUFFICES ASSUME LifecycleTypeOK, HostInv, sm.state = "RUNNING", ~overlapped
               PROVE  \E t \in Threads :
                         At(t, "run") /\ thread[t].health < HEARTBEAT_FAIL_THRESHOLD
    BY DEF RunningIsSupervised
  <2>1. PICK t \in Threads : Alive(t)
    BY DEF HostInv, NoRunLoop, Rests, AtRest, Errors
  <2>2. Fits(thread[t], "RUNNING", timers > 0, lapses)
    BY <2>1 DEF HostInv
  <2>3. thread[t].pc = "run" /\ thread[t].health # HEARTBEAT_FAIL_THRESHOLD
    BY <2>2 DEF Fits, StatesAt, Stopped, AtRest, Errors
  <2>4. thread[t].health \in 0..HEARTBEAT_FAIL_THRESHOLD
    BY DEF LifecycleTypeOK, ThreadState
  <2> QED BY <2>3, <2>4, LifecycleAssumption DEF At
<1> QED BY <1>1, HostAlways, LifecycleTypes, PTL
=============================================================================
