---------------------------- MODULE NodeLifecycle ----------------------------
(***************************************************************************)
(* The life of a node under the GUI: the orchestrator _run with its health *)
(* and self-probe loops (app/main.py), the thread that hosts it and the    *)
(* retry timers (gui/node_manager.py), over the shared state machine.      *)
(*                                                                         *)
(* A step of the orchestrator is what it does between two awaits.  The     *)
(* coordination server and the operator are the environment.               *)
(***************************************************************************)
EXTENDS NodeStateMachine, FiniteSets

CONSTANTS
    Threads,            \* run-loop threads that may exist at once
    NoThread,
    HEARTBEAT_FAIL_THRESHOLD,
    OFFLINE_ESCALATION_THRESHOLD,
    MaxStarts,          \* bound: starts and retries by the operator
    MaxRetries          \* bound: transient failures in a row

ASSUME LifecycleAssumption ==
    /\ NoThread \notin Threads
    /\ HEARTBEAT_FAIL_THRESHOLD \in Nat \ {0}
    /\ OFFLINE_ESCALATION_THRESHOLD \in Nat \ {0}
    /\ MaxStarts \in Nat /\ MaxRetries \in Nat

VARIABLES
    sm,                 \* the state machine
    thread,             \* thread[t] is the progress of run loop t
    current,            \* NodeManager._thread
    event,              \* whose stop event NodeManager._stop_event is
    stopping,           \* the thread that stop() is joining
    timers,             \* retry timers asleep
    coord,              \* what the coordination server says of the node
    port,               \* the router's mapping; kept: it refused to remove it;
                        \* orphan: no run is left that would remove it
    net,                \* what the run loops hold of the network
    starts,             \* counter of the bound
    overlapped,         \* history: has a run loop been started while another
                        \* was alive or being joined?
    lapses              \* history: what was let slip since the last start

vars == <<sm, thread, current, event, stopping, timers, coord, port, net,
          starts, overlapped, lapses>>

\* boot is what precedes INITIALIZING, map the first step of _phase_init,
\* ending the finally clause of _run with the exception it leaves with; then
\* _run_loop goes through its except clauses (left) and its finally clause,
\* which looks at the state (check) and closes the event loop (close).
InLoop == {"boot", "map", "init", "bind", "register", "run", "reconnect",
           "backoff", "ending"}
Pcs == InLoop \cup {"none", "left", "check", "close"}
Exceptions == {"nothing", "transient", "permanent"}

\* health and probe count consecutive bad answers; a loop that returned (or
\* was killed by an exception) is at its threshold; endpoint says that
\* ctx.upnp_endpoint is known; forced that stop() has lost patience.
ThreadState == [pc     : Pcs,
                stop   : BOOLEAN,
                forced : BOOLEAN,
                exc    : Exceptions,
                endpoint : BOOLEAN,
                health : 0..HEARTBEAT_FAIL_THRESHOLD,
                probe  : 0..OFFLINE_ESCALATION_THRESHOLD]

NewThread(pc) == [pc |-> pc, stop |-> FALSE, forced |-> FALSE,
                  exc |-> "nothing", endpoint |-> FALSE, health |-> 0, probe |-> 0]

\* The run loops whose socket listens, whose renewal loop is alive, whose
\* renewal loop an exception has ended; those whose renewal loop waits for the
\* router's answer, and those with a request to the router that nobody waits
\* for any more: it runs in a thread of its own, which no cancellation ends.
Net == [listening : SUBSET Threads, renewing : SUBSET Threads,
        died : SUBSET Threads, asking : SUBSET Threads, stray : SUBSET Threads]

LifecycleTypeOK ==
    /\ sm \in [state : NodeStates, retry_count : Nat]
    /\ thread \in [Threads -> ThreadState]
    /\ {current, event, stopping} \subseteq Threads \cup {NoThread}
    /\ timers \in Nat
    /\ coord \in {"online", "offline"}
    /\ port \in {"free", "mapped", "kept", "orphan"} /\ net \in Net
    /\ starts \in 0..MaxStarts
    /\ overlapped \in BOOLEAN /\ lapses \subseteq {"stop", "retry"}

Init ==
    /\ sm = Fresh
    /\ thread = [t \in Threads |-> NewThread("none")]
    /\ current = NoThread /\ event = NoThread /\ stopping = NoThread
    /\ timers = 0 /\ coord = "online" /\ starts = 0
    /\ port = "free"
    /\ net = [listening |-> {}, renewing |-> {}, died |-> {}, asking |-> {},
              stray |-> {}]
    /\ overlapped = FALSE /\ lapses = {}

Alive(t) == t # NoThread /\ thread[t].pc # "none"
At(t, pc) == thread[t].pc = pc
Goto(t, pc) == thread' = [thread EXCEPT ![t].pc = pc]
Ending(t, exc) == thread' = [thread EXCEPT ![t].pc = "ending", ![t].exc = exc]

manager == <<current, event, stopping, timers, starts, overlapped, lapses>>
host == <<coord, port, net>>

\* How an attempt fails; transient failures in a row are bounded.
Kinds == IF sm.retry_count < MaxRetries THEN {"transient", "permanent"}
                                        ELSE {"permanent"}

\* _report(to) and go on at pc.  A ValueError is classified as
\* UNEXPECTED_ERROR, which is permanent, and ends the run.
ReportThen(t, to, pc) ==
    \/ Allowed(sm, to) /\ sm' = Moved(sm, to) /\ Goto(t, pc)
    \/ ~Allowed(sm, to) /\ UNCHANGED sm /\ Ending(t, "permanent")

\* The renewal loop of a run that has a mapping.
Renewing(t, endpoint) ==
    [net EXCEPT !.renewing = IF endpoint THEN @ \cup {t} ELSE @,
                !.died = @ \ {t}]

\* It is cancelled: a request that is on its way goes on without it.
Cancelled(t) ==
    [net EXCEPT !.renewing = @ \ {t}, !.asking = @ \ {t},
                !.stray = @ \cup (net.asking \cap {t})]

\* The router is asked for the mapping: without it the caller goes on.
Mapped(ok) == IF ok THEN "mapped" ELSE port

\* It is asked to remove the mapping, and may refuse.
Removed == {"free", IF port = "free" THEN "free" ELSE "kept"}

-----------------------------------------------------------------------------
(* _run: the phases.                                                       *)

\* A phase is over; the stop event is looked at before the next one.
PhaseDone(t, from, to, pc) ==
    /\ At(t, from)
    /\ IF thread[t].stop /\ from # "register"
       THEN UNCHANGED sm /\ Ending(t, "nothing")
       ELSE ReportThen(t, to, pc)
    /\ net' = CASE from = "bind" -> [net EXCEPT !.listening = @ \cup {t}]
                [] pc = "run" /\ Allowed(sm, to) -> Renewing(t, thread[t].endpoint)
                [] OTHER -> net
    /\ UNCHANGED <<manager, coord, port>>

\* _phase_init starts with the port mapping.
MapPort(t) ==
    /\ At(t, "map")
    /\ \E ok \in BOOLEAN :
          /\ thread' = [thread EXCEPT ![t].pc = "init", ![t].endpoint = ok]
          /\ port' = Mapped(ok)
    /\ UNCHANGED <<sm, manager, coord, net>>

\* Whatever precedes INITIALIZING may raise: the settings file is torn or
\* invalid, the store's directory cannot be made, another process holds the
\* daemon lock.  In a retry the machine is still in ERROR_TRANSIENT, and
\* _run_loop takes it to know already.
BootRefused(t) ==
    /\ At(t, "boot")
    /\ \E exc \in Kinds : Ending(t, exc)
    /\ lapses' = IF sm.state = "ERROR_TRANSIENT" THEN lapses \cup {"retry"}
                 ELSE lapses
    /\ UNCHANGED <<sm, current, event, stopping, timers, starts, overlapped, host>>

\* The request for the mapping raises too, where there is no route or the
\* router does not tell its address.
PhaseFails(t) ==
    /\ thread[t].pc \in {"map", "init", "bind", "register"}
    /\ \E exc \in Kinds : Ending(t, exc)
    /\ UNCHANGED <<sm, manager, host>>

\* An encrypted identity key: _run puts the machine where the operator is
\* asked for the passphrase, and leaves with IDENTITY_KEY_LOCKED.
PassphraseRequired(t) ==
    /\ At(t, "init")
    /\ sm' = IF Allowed(sm, "PASSPHRASE_REQUIRED")
             THEN Moved(sm, "PASSPHRASE_REQUIRED") ELSE sm
    /\ Ending(t, "permanent")
    /\ UNCHANGED <<manager, host>>

-----------------------------------------------------------------------------
(* _run: RUNNING and RECONNECTING.                                         *)

Escalate(t, loop, threshold) ==
    /\ thread' = [thread EXCEPT ![t][loop] = threshold]
    /\ sm' = IF Allowed(sm, "RECONNECTING") THEN Moved(sm, "RECONNECTING")
                                            ELSE sm

Good(t, loop) == thread' = [thread EXCEPT ![t][loop] = 0] /\ UNCHANGED sm

Bad(t, loop, threshold) ==
    IF thread[t][loop] + 1 < threshold
    THEN thread' = [thread EXCEPT ![t][loop] = @ + 1] /\ UNCHANGED sm
    ELSE Escalate(t, loop, threshold)

\* Mutant: the loop gives way when the other one has escalated.
HealthCheckGivesWay(t) ==
    /\ At(t, "run") /\ thread[t].health < HEARTBEAT_FAIL_THRESHOLD
    /\ IF sm.state = "RECONNECTING"
       THEN Good(t, "health")
       ELSE Bad(t, "health", HEARTBEAT_FAIL_THRESHOLD)
    /\ UNCHANGED <<manager, host>>

\* One round of _health_loop: an offline status or a failing call is counted.
HealthCheck(t) ==
    /\ At(t, "run") /\ thread[t].health < HEARTBEAT_FAIL_THRESHOLD
    /\ \/ coord = "online" /\ Good(t, "health")
       \/ Bad(t, "health", HEARTBEAT_FAIL_THRESHOLD)
    /\ UNCHANGED <<manager, host>>

\* One round of _self_probe_loop: a failing call is not counted.
SelfProbe(t) ==
    /\ At(t, "run") /\ thread[t].probe < OFFLINE_ESCALATION_THRESHOLD
    /\ \/ coord = "online" /\ Good(t, "probe")
       \/ coord = "offline" /\ Bad(t, "probe", OFFLINE_ESCALATION_THRESHOLD)
    /\ UNCHANGED <<manager, host>>

\* The head of the reconnect loop, and what follows it.
ReconnectLoop(t) ==
    IF sm.state = "RECONNECTING" /\ ~thread[t].stop
    THEN Goto(t, "reconnect") ELSE Ending(t, "nothing")

\* Mutant: the stop event is not waited for.
WaitForHealthOnly(t) ==
    /\ At(t, "run") /\ thread[t].health = HEARTBEAT_FAIL_THRESHOLD
    /\ ReconnectLoop(t)
    /\ UNCHANGED <<sm, manager, host>>

\* The orchestrator waits for the stop event and the health loop only, and
\* cancels the other loops before it reconnects.
WaitOver(t) ==
    /\ At(t, "run")
    /\ thread[t].stop \/ thread[t].health = HEARTBEAT_FAIL_THRESHOLD
    /\ ReconnectLoop(t)
    /\ net' = IF sm.state = "RECONNECTING" THEN Cancelled(t) ELSE net
    /\ UNCHANGED <<sm, manager, coord, port>>

\* The body of the reconnect loop raises: a transient error backs off, a
\* permanent one breaks out, a handle_error that finds no legal transition
\* (stop() has moved the machine) raises in turn.
AttemptRaises(t, kind, endpoint) ==
    LET to(pc, exc) == thread' = [thread EXCEPT
                          ![t].pc = pc, ![t].exc = exc, ![t].endpoint = endpoint]
    IN  /\ sm' = handle_error(sm, kind, "RECONNECTING")
        /\ IF RetryDelay(sm, kind, "RECONNECTING") THEN to("backoff", "nothing")
           ELSE IF Allowed(sm, ErrorState(sm, kind, "RECONNECTING"))
           THEN to("ending", "nothing")
           ELSE to("ending", "permanent")
        /\ UNCHANGED net

\* An attempt that registers again asks for a mapping if there has been none.
Remap(t, endpoint) ==
    /\ thread[t].endpoint => endpoint
    /\ port' = Mapped(endpoint # thread[t].endpoint)

\* RUNNING again: the background loops are created anew.
Resume(t, endpoint, loops) ==
    IF Allowed(sm, "RUNNING")
    THEN /\ sm' = Moved(sm, "RUNNING")
         /\ thread' = [thread EXCEPT ![t].pc = "run", ![t].endpoint = endpoint,
                                     ![t].health = IF loops THEN 0 ELSE @,
                                     ![t].probe = IF loops THEN 0 ELSE @]
    ELSE AttemptRaises(t, "permanent", endpoint)

\* Mutants: the background loops are not created anew; the renewal loop is
\* only where the mapping is new.
ReconnectedWithOldLoops(t) ==
    /\ At(t, "reconnect")
    /\ \E endpoint \in BOOLEAN : Remap(t, endpoint) /\ Resume(t, endpoint, FALSE)
    /\ UNCHANGED <<manager, coord, net>>

ReconnectedWithoutRenewal(t) ==
    /\ At(t, "reconnect")
    /\ \E endpoint \in BOOLEAN :
          /\ Remap(t, endpoint) /\ Resume(t, endpoint, TRUE)
          /\ Allowed(sm, "RUNNING") =>
                net' = Renewing(t, endpoint # thread[t].endpoint)
    /\ UNCHANGED <<manager, coord>>

\* The server already reports the node healthy, or the node is registered
\* again.
Reconnected(t) ==
    /\ At(t, "reconnect")
    /\ \E endpoint \in BOOLEAN :
          /\ Remap(t, endpoint) /\ Resume(t, endpoint, TRUE)
          /\ Allowed(sm, "RUNNING") => net' = Renewing(t, endpoint)
    /\ UNCHANGED <<manager, coord>>

ReconnectFails(t) ==
    /\ At(t, "reconnect")
    /\ \E endpoint \in BOOLEAN, kind \in Kinds :
          Remap(t, endpoint) /\ AttemptRaises(t, kind, endpoint)
    /\ UNCHANGED <<manager, coord>>

BackoffOver(t) ==
    /\ At(t, "backoff")
    /\ IF thread[t].stop THEN UNCHANGED sm /\ Ending(t, "nothing")
                         ELSE ReportThen(t, "RECONNECTING", "reconnect")
    /\ UNCHANGED <<manager, host>>

\* The server is closed and the background loops are cancelled.
Closed(t) == [Cancelled(t) EXCEPT !.listening = @ \ {t}, !.died = @ \ {t}]

\* Mutant: the mapping is removed with the server only.
FinallyWithServer(t) ==
    /\ At(t, "ending")
    /\ Goto(t, "left")
    /\ net' = Closed(t)
    /\ IF thread[t].endpoint /\ t \in net.listening
       THEN port' \in Removed ELSE UNCHANGED port
    /\ UNCHANGED <<sm, manager, coord>>

\* The finally clause: the server is closed, the loops are cancelled, and the
\* mapping is removed.
Finally(t) ==
    /\ At(t, "ending")
    /\ Goto(t, "left")
    /\ net' = Closed(t)
    /\ IF thread[t].endpoint THEN port' \in Removed ELSE UNCHANGED port
    /\ UNCHANGED <<sm, manager, coord>>

\* The search for the router raises, which is not caught here: this exception
\* takes the place of the one _run was leaving with.
FinallyRaises(t) ==
    /\ At(t, "ending") /\ thread[t].endpoint
    /\ thread' = [thread EXCEPT ![t].pc = "left", ![t].exc = "permanent"]
    /\ net' = Closed(t)
    /\ port' = IF port = "free" THEN "free" ELSE "kept"
    /\ UNCHANGED <<sm, manager, coord>>

\* The renewal loop asks the router once more.  Bound: not while a cancelled
\* request of the same run is still on its way.
RenewAsks(t) ==
    /\ t \in net.renewing \ (net.asking \cup net.stray)
    /\ net' = [net EXCEPT !.asking = @ \cup {t}]
    /\ UNCHANGED <<sm, thread, manager, coord, port>>

RenewAgreed(t) ==
    /\ t \in net.asking
    /\ net' = [net EXCEPT !.asking = @ \ {t}]
    /\ port' = "mapped"
    /\ UNCHANGED <<sm, thread, manager, coord>>

RenewRefused(t) ==
    /\ t \in net.asking
    /\ net' = [net EXCEPT !.asking = @ \ {t}]
    /\ UNCHANGED <<sm, thread, manager, coord, port>>

\* The request raises, and that is the end of the loop.
RenewRaises(t) ==
    /\ t \in net.renewing
    /\ net' = [net EXCEPT !.renewing = @ \ {t}, !.asking = @ \ {t},
                          !.died = @ \cup {t}]
    /\ UNCHANGED <<sm, thread, manager, coord, port>>

\* u will remove the mapping when it ends.
Owner(u) == thread[u].pc \in InLoop /\ thread[u].endpoint

\* A request nobody waits for reaches the router, which maps the port or not.
StrayLands(t) ==
    /\ t \in net.stray
    /\ net' = [net EXCEPT !.stray = @ \ {t}]
    /\ port' \in {port, IF \E u \in Threads : Owner(u) THEN "mapped"
                                                       ELSE "orphan"}
    /\ UNCHANGED <<sm, thread, manager, coord>>

-----------------------------------------------------------------------------
(* NodeManager: the end of a run loop, retry timers, the operator's calls. *)

\* The event loop is stopped from outside: _run goes no further, its finally
\* clause included, and run_until_complete raises.  A request that was awaited
\* goes on; the one for the removal may have reached the router.
LoopStopped(t) ==
    /\ thread[t].forced /\ thread[t].pc \in InLoop
    /\ thread' = [thread EXCEPT ![t].pc = "left", ![t].exc = "permanent"]
    /\ LET awaited == ~thread[t].endpoint /\ thread[t].pc \in {"map", "reconnect"}
           kept    == IF port = "mapped" /\ \A u \in Threads \ {t} : ~Owner(u)
                      THEN "orphan" ELSE port
       IN  /\ net' = [Closed(t) EXCEPT
                         !.stray = IF awaited THEN @ \cup {t} ELSE @]
           /\ port' \in {kept} \cup (IF At(t, "ending") /\ thread[t].endpoint
                                     THEN Removed ELSE {})
    /\ UNCHANGED <<sm, manager, coord>>

\* _run_loop after _run: an error that is not in the state machine yet is put
\* there, and a transient one is handed to a timer.
Handled(t) == thread[t].exc # "nothing" /\ sm.state \notin Errors

\* Mutant: a transient error is not handed to a timer.
RunLoopHandlesWithoutTimer(t) ==
    /\ At(t, "left")
    /\ Goto(t, "check")
    /\ sm' = IF Handled(t) THEN handle_error(sm, "transient", sm.state) ELSE sm
    /\ UNCHANGED <<manager, host>>

RunLoopHandles(t) ==
    /\ At(t, "left")
    /\ Goto(t, "check")
    /\ IF Handled(t)
       THEN /\ sm' = handle_error(sm, thread[t].exc, sm.state)
            /\ timers' = timers + (IF RetryDelay(sm, thread[t].exc, sm.state)
                                   THEN 1 ELSE 0)
       ELSE UNCHANGED <<sm, timers>>
    /\ UNCHANGED <<current, event, stopping, starts, overlapped, lapses, host>>

\* Then, whatever happened, a machine that is not at rest goes to IDLE.
AtRest == Errors \cup {"PASSPHRASE_REQUIRED", "IDLE"}

\* Mutant: the finally clause wipes errors.
RunLoopChecksAll(t) ==
    /\ At(t, "check")
    /\ sm' = IF Allowed(sm, "IDLE") THEN Moved(sm, "IDLE") ELSE sm
    /\ Goto(t, "close")
    /\ UNCHANGED <<manager, host>>

RunLoopChecks(t) ==
    /\ At(t, "check")
    /\ sm' = IF sm.state \notin AtRest /\ Allowed(sm, "IDLE")
             THEN Moved(sm, "IDLE") ELSE sm
    /\ Goto(t, "close")
    /\ UNCHANGED <<manager, host>>

\* The loop is closed and forgotten, and the thread is over.
RunLoopEnds(t) ==
    /\ At(t, "close")
    /\ thread' = [thread EXCEPT ![t] = NewThread("none")]
    /\ event' = NoThread
    /\ UNCHANGED <<sm, current, stopping, timers, starts, overlapped, lapses,
                   host>>

\* A thread is created and runs up to its first await: it owns the stop event
\* from here on.
Spawn(t) ==
    /\ ~Alive(t)
    /\ thread' = [thread EXCEPT ![t] = NewThread("boot")]
    /\ current' = t /\ event' = t
    /\ overlapped' = (overlapped \/ stopping # NoThread
                                 \/ \E u \in Threads : Alive(u))

\* Mutants: a timer fires twice; a timer looks for the wrong state.
TimerFiresTwice ==
    /\ timers' = timers - 1
    /\ UNCHANGED <<sm, thread, current, event, stopping, starts, overlapped,
                   lapses, host>>

TimerForgets ==
    /\ timers > 0
    /\ timers' = timers - 1
    /\ IF sm.state = "IDLE"
       THEN \E t \in Threads : Spawn(t)
       ELSE UNCHANGED <<thread, current, event, overlapped>>
    /\ UNCHANGED <<sm, stopping, starts, lapses, host>>

\* A retry timer wakes up.  No one cancels it, so it asks the machine.
TimerFires ==
    /\ timers > 0
    /\ timers' = timers - 1
    /\ IF sm.state = "ERROR_TRANSIENT"
       THEN \E t \in Threads : Spawn(t)
       ELSE UNCHANGED <<thread, current, event, overlapped>>
    /\ UNCHANGED <<sm, stopping, starts, lapses, host>>

is_running ==
    /\ Alive(current)
    /\ sm.state \in {"INITIALIZING", "BINDING", "REGISTERING", "RUNNING",
                     "RECONNECTING", "ERROR_TRANSIENT"}

\* start(); retry() is start() from ERROR_PERMANENT or IDLE.
Start ==
    /\ ~is_running /\ starts < MaxStarts
    /\ starts' = starts + 1
    /\ sm' = Fresh /\ lapses' = {}
    /\ \E t \in Threads : Spawn(t)
    /\ UNCHANGED <<stopping, timers, host>>

\* stop() finds no thread: the machine is put to rest.
StopDead ==
    /\ stopping = NoThread /\ ~Alive(current)
    /\ sm.state \notin {"IDLE", "ERROR_PERMANENT"}
    /\ sm' = IF Allowed(sm, "IDLE") THEN Moved(sm, "IDLE") ELSE Fresh
    /\ lapses' = {}
    /\ UNCHANGED <<thread, current, event, stopping, timers, starts, overlapped,
                   host>>

\* stop() signals the run loop and joins its thread.  A run loop that has had
\* its last look at the machine does not put it to rest any more.
StopAlive ==
    /\ stopping = NoThread /\ Alive(current)
    /\ sm' = IF Allowed(sm, "STOPPING") THEN Moved(sm, "STOPPING") ELSE sm
    /\ stopping' = current
    /\ thread' = IF event = NoThread THEN thread
                 ELSE [thread EXCEPT ![event].stop = TRUE]
    /\ lapses' = IF At(current, "close") THEN lapses \cup {"stop"} ELSE lapses
    /\ UNCHANGED <<current, event, timers, starts, overlapped, host>>

StopJoined ==
    /\ stopping # NoThread /\ ~Alive(stopping)
    /\ current' = NoThread /\ stopping' = NoThread
    /\ UNCHANGED <<sm, thread, event, timers, starts, overlapped, lapses, host>>

\* The join times out: the tasks are cancelled and the loop is stopped,
\* unless it is closed already (_force_cancel_loop).
StopForces ==
    /\ stopping # NoThread /\ Alive(stopping)
    /\ thread[stopping].stop /\ ~thread[stopping].forced
    /\ thread' = [thread EXCEPT ![stopping].forced = TRUE]
    /\ UNCHANGED <<sm, manager, host>>

\* So does the last one: stop() returns, with the thread alive and forgotten.
StopGivesUp ==
    /\ stopping # NoThread /\ Alive(stopping)
    /\ thread[stopping].stop => thread[stopping].forced
    /\ current' = NoThread /\ stopping' = NoThread
    /\ UNCHANGED <<sm, thread, event, timers, starts, overlapped, lapses, host>>

\* The lease runs out, or the router restarts.
LeaseEnds ==
    /\ port # "free"
    /\ port' = "free"
    /\ UNCHANGED <<sm, thread, manager, coord, net>>

CoordChanges ==
    /\ coord' = IF coord = "online" THEN "offline" ELSE "online"
    /\ UNCHANGED <<sm, thread, manager, port, net>>

-----------------------------------------------------------------------------
Phases(t) ==
    \/ PhaseDone(t, "boot", "INITIALIZING", "map") \/ BootRefused(t)
    \/ MapPort(t)
    \/ PhaseDone(t, "init", "BINDING", "bind") \/ PassphraseRequired(t)
    \/ PhaseDone(t, "bind", "REGISTERING", "register")
    \/ PhaseDone(t, "register", "RUNNING", "run")
    \/ PhaseFails(t)

ThreadStep(t) ==
    \/ Phases(t)
    \/ WaitOver(t) \/ Reconnected(t) \/ ReconnectFails(t) \/ BackoffOver(t)
    \/ Finally(t) \/ FinallyRaises(t) \/ LoopStopped(t)
    \/ RunLoopHandles(t) \/ RunLoopChecks(t) \/ RunLoopEnds(t)

Renewal(t) ==
    \/ RenewAsks(t) \/ RenewAgreed(t) \/ RenewRefused(t) \/ RenewRaises(t)
    \/ StrayLands(t)

Next ==
    \/ \E t \in Threads : ThreadStep(t) \/ HealthCheck(t) \/ SelfProbe(t)
                            \/ Renewal(t)
    \/ TimerFires \/ Start
    \/ StopDead \/ StopAlive \/ StopForces \/ StopJoined \/ StopGivesUp
    \/ CoordChanges \/ LeaseEnds

Spec == Init /\ [][Next]_vars

\* Threads, timers and the joining caller are scheduled, the loops poll for
\* ever.  A router that is asked for ever agrees in the end.  The server and
\* the operator owe nothing.
LiveSpec ==
    /\ Spec
    /\ \A t \in Threads :
          /\ WF_vars(ThreadStep(t))
          /\ WF_vars(HealthCheck(t)) /\ WF_vars(SelfProbe(t))
          /\ WF_vars(RenewAsks(t)) /\ SF_vars(RenewAgreed(t))
          /\ WF_vars(StrayLands(t))
    /\ WF_vars(TimerFires) /\ WF_vars(StopJoined)

-----------------------------------------------------------------------------
(* Properties.  They speak of histories in which no two run loops overlap: *)
(* gui/api.py does not rule that out, see the README.                      *)

NoRunLoop == \A t \in Threads : ~Alive(t)

\* What the operator sees when no run loop is alive is true: the machine is
\* at rest, and a node that says it will retry has a timer that wakes it
\* (_run_loop's except and finally clauses against stop() and the timers).
\* The code keeps this up but for two lapses: a stop() that comes after the
\* run loop's last look at the machine leaves it in STOPPING, and a retry that
\* fails before INITIALIZING leaves it in ERROR_TRANSIENT.
RestIsHonest ==
    NoRunLoop /\ stopping = NoThread /\ ~overlapped =>
        /\ \/ sm.state \in AtRest
           \/ sm.state = "STOPPING" /\ "stop" \in lapses
        /\ sm.state = "ERROR_TRANSIENT" => timers > 0 \/ "retry" \in lapses

\* A node that says it is running is looked after: one of the run loops
\* polls the server with a health loop that is still alive (_run against
\* _health_loop and stop()).
RunningIsSupervised ==
    sm.state = "RUNNING" /\ ~overlapped =>
        \E t \in Threads :
            At(t, "run") /\ thread[t].health < HEARTBEAT_FAIL_THRESHOLD

\* A permanent error stays on the screen until the operator acts: no timer,
\* no loop and no thread on its way out takes it back (handle_error,
\* _run_loop, _schedule_retry).
PermanentStays ==
    [][sm.state = "ERROR_PERMANENT" /\ sm'.state # "ERROR_PERMANENT"
          => starts' # starts \/ stopping' # stopping]_vars

\* stop() returns, whether it joins the run loop or gives it up, and the node
\* comes to rest, but for a stop() that came after the run loop's last look at
\* the machine (StopAlive, every await of _run, and the finally clauses).
StopEnds ==
    stopping # NoThread
        ~> \/ stopping = NoThread /\ sm.state \in AtRest
           \/ "stop" \in lapses \/ overlapped

\* A transient error is retried for as long as it lasts, unless a retry fails
\* before INITIALIZING (_schedule_retry, the backoff of the reconnect loop).
TransientIsRetried ==
    sm.state = "ERROR_TRANSIENT"
        ~> sm.state # "ERROR_TRANSIENT" \/ "retry" \in lapses \/ overlapped

\* A node that escalated while the server goes on calling it offline is
\* registered again, whichever loop escalated first (_health_loop,
\* _self_probe_loop, _run).
EscalationIsServed ==
    \A t \in Threads :
        At(t, "run") /\ sm.state = "RECONNECTING"
            ~> ~At(t, "run") \/ coord = "online" \/ overlapped

\* A run leaves nothing of the network behind, wherever it was stopped or
\* failed, but a mapping that the router would not remove, or that is an
\* orphan: a request that had outlived its cancelled task made it after the
\* removal, or the run was forced out of its finally clause (_run).
NothingLeftBehind ==
    NoRunLoop => /\ net.listening = {} /\ net.renewing = {} /\ net.asking = {}
                 /\ port # "mapped"

\* A node that runs and has had a mapping gets it back when the lease ends or
\* the router restarts, also while and after it reconnects, unless its renewal
\* loop was ended by an exception (_upnp_renewal_loop and the renewal loop of
\* the reconnect branch).
LostMappingReturns ==
    \A t \in Threads :
        At(t, "run") /\ thread[t].endpoint /\ port = "free"
            ~> \/ port = "mapped" \/ ~At(t, "run") \/ t \in net.died
               \/ overlapped
=============================================================================
