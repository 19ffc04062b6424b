-------------------------- MODULE NodeStateMachine --------------------------
(***************************************************************************)
(* NodeStateMachine of app/state.py: the lifecycle state the run loop and  *)
(* the GUI share.  transition and handle_error are operators on the record *)
(* of what matters later: the state and the retry count.  A transition     *)
(* outside the table raises ValueError; callers test Allowed first.        *)
(***************************************************************************)
EXTENDS Naturals

CONSTANT
    BindingRetryLimit   \* _RETRY_LIMITS[BINDING]; the other phases have none

ASSUME RetryLimitAssumption == BindingRetryLimit \in Nat

NodeStates == {"IDLE", "INITIALIZING", "BINDING", "REGISTERING", "RUNNING",
               "RECONNECTING", "PASSPHRASE_REQUIRED", "ERROR_TRANSIENT",
               "ERROR_PERMANENT", "STOPPING"}

Errors == {"ERROR_TRANSIENT", "ERROR_PERMANENT"}

Transitions ==
    [IDLE                |-> {"INITIALIZING", "STOPPING"},
     INITIALIZING        |-> {"BINDING", "PASSPHRASE_REQUIRED", "STOPPING"}
                                \cup Errors,
     BINDING             |-> {"REGISTERING", "STOPPING"} \cup Errors,
     REGISTERING         |-> {"RUNNING", "STOPPING"} \cup Errors,
     RUNNING             |-> {"RECONNECTING", "STOPPING"},
     RECONNECTING        |-> {"RUNNING", "STOPPING"} \cup Errors,
     PASSPHRASE_REQUIRED |-> {"INITIALIZING", "STOPPING"},
     ERROR_TRANSIENT     |-> {"INITIALIZING", "BINDING", "REGISTERING",
                              "RECONNECTING", "ERROR_PERMANENT", "STOPPING",
                              "IDLE"},
     ERROR_PERMANENT     |-> {"IDLE", "STOPPING"},
     STOPPING            |-> {"IDLE"}]

\* reset()
Fresh == [state |-> "IDLE", retry_count |-> 0]

Allowed(sm, to) == to \in Transitions[sm.state]

\* transition(to), when the table allows it.
Moved(sm, to) ==
    [state       |-> to,
     retry_count |-> IF to \in {"IDLE", "RUNNING", "PASSPHRASE_REQUIRED"}
                     THEN 0 ELSE sm.retry_count]

\* Where handle_error goes: kind is the class of the error, phase the phase
\* it happened in.
ErrorState(sm, kind, phase) ==
    IF \/ kind = "permanent"
       \/ phase = "BINDING" /\ sm.retry_count + 1 > BindingRetryLimit
    THEN "ERROR_PERMANENT" ELSE "ERROR_TRANSIENT"

Counted(sm, kind) ==
    IF kind = "transient" THEN [sm EXCEPT !.retry_count = @ + 1] ELSE sm

\* handle_error(error, phase): the count is spent even if the transition then
\* raises.
handle_error(sm, kind, phase) ==
    LET to == ErrorState(sm, kind, phase) IN
    IF Allowed(sm, to) THEN Moved(Counted(sm, kind), to) ELSE Counted(sm, kind)

\* A delay is returned: the caller schedules a retry.
RetryDelay(sm, kind, phase) ==
    LET to == ErrorState(sm, kind, phase) IN
    to = "ERROR_TRANSIENT" /\ Allowed(sm, to)
=============================================================================
