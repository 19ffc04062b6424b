-------------------------- MODULE ProxyConnections --------------------------
(***************************************************************************)
(* The connections a node serves (app/proxy_handler.py): the limit, the    *)
(* tunnel with its two pipes, and the byte count it is paid by.            *)
(*                                                                         *)
(* A step is what a task does between two awaits.  A chunk is one read of  *)
(* a pipe.  Clients, targets and the time between events are outside.      *)
(***************************************************************************)
EXTENDS Naturals, FiniteSets

CONSTANTS
    Conns,              \* connections open at a time
    MAX_CONNECTIONS,
    RELAY_TIMEOUT,
    PaymentEnabled,     \* is PAYMENT_ENABLED set, with a rate and a submitter?
    MaxChunks           \* bound: chunks each end of a tunnel sends

ASSUME ProxyAssumption ==
    /\ MAX_CONNECTIONS \in Nat \ {0} /\ RELAY_TIMEOUT \in Nat \ {0}
    /\ PaymentEnabled \in BOOLEAN /\ MaxChunks \in Nat
    /\ IsFiniteSet(Conns)

VARIABLES
    permits,            \* the value of _connection_semaphore
    active,             \* _active_connections
    shown,              \* activity.connections_active, what the operator sees
    conn                \* conn[c] is the progress of handle_client for c

proxyVars == <<permits, active, shown, conn>>

Directions == {"up", "down"}

\* "gone" is a connection nobody has opened, or one that is over.
ConnPc == {"gone", "refuse", "head", "answer", "dial", "greet", "relay",
           "bill", "forward", "close", "count", "release"}

\* A pipe reads, or waits in drain for the chunk it wrote; "lost" is a pipe
\* that was ended there.  written counts its chunks, counter is what it returns.
Pipe == [pc : {"read", "drain", "ended", "lost"},
         written : 0..MaxChunks, counter : 0..MaxChunks]

NewPipe == [pc |-> "read", written |-> 0, counter |-> 0]

Conn == [pc      : ConnPc,
         kind    : {"tunnel", "forward"},
         counted : BOOLEAN,             \* told record_connection of it?
         named   : BOOLEAN,             \* has it a request id?
         target  : BOOLEAN,             \* is there a connection to the target?
         pipe    : [Directions -> Pipe],
         billed  : Nat,                 \* the amount of its receipt
         age     : 0..RELAY_TIMEOUT]    \* since the relay began

Gone == [pc |-> "gone", kind |-> "tunnel", counted |-> FALSE, named |-> FALSE,
         target |-> FALSE, pipe |-> [d \in Directions |-> NewPipe],
         billed |-> 0, age |-> 0]

ProxyTypeOK ==
    /\ permits \in 0..MAX_CONNECTIONS
    /\ active \in Nat /\ shown \in Nat
    /\ conn \in [Conns -> Conn]

ProxyInit ==
    /\ permits = MAX_CONNECTIONS /\ active = 0 /\ shown = 0
    /\ conn = [c \in Conns |-> Gone]

At(c, pc) == conn[c].pc = pc
Proceed(c, r) == conn' = [conn EXCEPT ![c] = r]
Goto(c, pc) == Proceed(c, [conn[c] EXCEPT !.pc = pc])
accounts == <<permits, active, shown>>

-----------------------------------------------------------------------------
(* handle_client.                                                          *)

\* At the limit the client gets a 503.  Between the look at the semaphore and
\* its acquisition nothing is awaited.
Arrive(c) ==
    /\ At(c, "gone")
    /\ IF permits = 0
       THEN Goto(c, "refuse") /\ UNCHANGED accounts
       ELSE /\ Goto(c, "head")
            /\ permits' = permits - 1 /\ active' = active + 1
            /\ UNCHANGED shown

\* Mutant: the refusal is made inside the async with.
RefuseReleases(c) ==
    /\ At(c, "refuse") /\ Proceed(c, Gone)
    /\ permits' = permits + 1
    /\ UNCHANGED <<active, shown>>

Refuse(c) ==
    /\ At(c, "refuse") /\ Proceed(c, Gone)
    /\ UNCHANGED accounts

\* Mutant: a malformed request leaves without the finally clause.
HeadUnreadableReturns(c) ==
    /\ At(c, "head")
    /\ Goto(c, "release")
    /\ UNCHANGED accounts

\* No request in time or a malformed one gets a 400; one that cannot be taken
\* apart raises.
HeadUnreadable(c) ==
    /\ At(c, "head")
    /\ Goto(c, "answer") \/ Goto(c, "count")
    /\ UNCHANGED accounts

\* Probes of the coordination API are served and not shown.  A challenge, a
\* target that is not allowed and a URL without host are answered at once.
HeadRead(c) ==
    /\ At(c, "head")
    /\ \E kind \in {"tunnel", "forward"}, counted, named \in BOOLEAN,
          pc \in {"answer", "dial", "count"} :
          /\ kind = "forward" => counted
          /\ Proceed(c, [conn[c] EXCEPT !.pc = pc, !.kind = kind,
                                        !.counted = counted, !.named = named])
          /\ shown' = shown + (IF counted THEN 1 ELSE 0)
    /\ UNCHANGED <<permits, active>>

\* A response of the node itself; whether it arrives changes nothing.
Answer(c) ==
    /\ At(c, "answer")
    /\ Goto(c, IF conn[c].target THEN "close" ELSE "count")
    /\ UNCHANGED accounts

\* _resolve_and_connect: a refused or failed connection is answered, any other
\* exception ends the handler.
Dial(c) ==
    /\ At(c, "dial")
    /\ \/ Goto(c, "answer") \/ Goto(c, "count")
       \/ Proceed(c, [conn[c] EXCEPT
                         !.target = TRUE,
                         !.pc = IF conn[c].kind = "tunnel"
                                THEN "greet" ELSE "forward"])
    /\ UNCHANGED accounts

\* handle_http_forward: the exchange is over, or broken off by an exception; a
\* body too large or a target too slow is answered.  Nothing is billed.
Forward(c) ==
    /\ At(c, "forward")
    /\ Goto(c, "close") \/ Goto(c, "answer")
    /\ UNCHANGED accounts

CloseTarget(c) ==
    /\ At(c, "close")
    /\ Proceed(c, [conn[c] EXCEPT !.pc = "count", !.target = FALSE])
    /\ UNCHANGED accounts

\* The finally clause, and then, the client's connection being closed, the
\* permit of the async with.
CountDown(c) ==
    /\ At(c, "count")
    /\ Goto(c, "release")
    /\ active' = active - 1
    /\ shown' = IF conn[c].counted /\ shown > 0 THEN shown - 1 ELSE shown
    /\ UNCHANGED permits

Release(c) ==
    /\ At(c, "release")
    /\ Proceed(c, Gone)
    /\ permits' = permits + 1
    /\ UNCHANGED <<active, shown>>

-----------------------------------------------------------------------------
(* handle_connect and relay_streams.                                       *)

\* The 200 for the client; if that fails the handler ends here.
Greet(c) ==
    /\ At(c, "greet")
    /\ Goto(c, "relay") \/ Goto(c, "count")
    /\ UNCHANGED accounts

SetPipe(c, d, p) == [conn[c] EXCEPT !.pipe[d] = p]

PipeReads(c, d) ==
    LET p == conn[c].pipe[d] IN
    /\ At(c, "relay") /\ p.pc = "read" /\ p.written < MaxChunks
    /\ Proceed(c, SetPipe(c, d, [p EXCEPT !.pc = "drain", !.written = @ + 1]))
    /\ UNCHANGED accounts

PipeDrained(c, d) ==
    LET p == conn[c].pipe[d] IN
    /\ At(c, "relay") /\ p.pc = "drain"
    /\ Proceed(c, SetPipe(c, d, [p EXCEPT !.pc = "read", !.counter = @ + 1]))
    /\ UNCHANGED accounts

Ended(p) == [p EXCEPT !.pc = CASE p.pc = "read"  -> "ended"
                               [] p.pc = "drain" -> "lost"
                               [] OTHER          -> p.pc]
Over(p) == p.pc \in {"ended", "lost"}

\* End of file, or an error at either end.
PipeEnds(c, d) ==
    LET p == conn[c].pipe[d] IN
    /\ At(c, "relay") /\ ~Over(p)
    /\ Proceed(c, SetPipe(c, d, Ended(p)))
    /\ UNCHANGED accounts

\* Both pipes are cancelled, whatever they are at.
RelayCancelled(c) ==
    Proceed(c, [conn[c] EXCEPT
                   !.pc = "bill",
                   !.pipe = [d \in Directions |-> Ended(@[d])]])

\* One pipe is over, and that is the end of both.
RelayOver(c) ==
    /\ At(c, "relay")
    /\ \E d \in Directions : Over(conn[c].pipe[d])
    /\ RelayCancelled(c)
    /\ UNCHANGED accounts

\* Mutants: the pipes are waited for and not cancelled; the timeout leaves the
\* relay as an exception.
RelayTimeoutWaits(c) ==
    /\ At(c, "relay") /\ conn[c].age = RELAY_TIMEOUT
    /\ \A d \in Directions : Over(conn[c].pipe[d])
    /\ RelayCancelled(c)
    /\ UNCHANGED accounts

RelayTimeoutRaises(c) ==
    /\ At(c, "relay") /\ conn[c].age = RELAY_TIMEOUT
    /\ Goto(c, "close")
    /\ UNCHANGED accounts

\* The timeout counts from the start of the relay.
RelayTimesOut(c) ==
    /\ At(c, "relay") /\ conn[c].age = RELAY_TIMEOUT
    /\ RelayCancelled(c)
    /\ UNCHANGED accounts

Passes(c) ==
    /\ At(c, "relay") /\ conn[c].age < RELAY_TIMEOUT
    /\ Proceed(c, [conn[c] EXCEPT !.age = @ + 1])
    /\ UNCHANGED accounts

\* Mutant: one direction is billed.
AmountReceived(c) == conn[c].pipe["down"].counter

\* bytes_sent + bytes_received
Amount(c) == conn[c].pipe["up"].counter + conn[c].pipe["down"].counter

\* _submit_leg2_receipt: without a request id nothing is submitted; submit
\* drops an amount of zero.
Bill(c) ==
    /\ At(c, "bill")
    /\ Proceed(c, [conn[c] EXCEPT
                      !.pc = "close",
                      !.billed = IF PaymentEnabled /\ conn[c].named
                                 THEN Amount(c) ELSE 0])
    /\ UNCHANGED accounts

-----------------------------------------------------------------------------
ProxyNext ==
    \E c \in Conns :
        \/ Arrive(c) \/ Refuse(c) \/ HeadUnreadable(c) \/ HeadRead(c)
        \/ Answer(c) \/ Dial(c) \/ Forward(c) \/ CloseTarget(c)
        \/ CountDown(c) \/ Release(c)
        \/ Greet(c) \/ RelayOver(c) \/ RelayTimesOut(c) \/ Passes(c) \/ Bill(c)
        \/ \E d \in Directions :
              PipeReads(c, d) \/ PipeDrained(c, d) \/ PipeEnds(c, d)

ProxySpec == ProxyInit /\ [][ProxyNext]_proxyVars

\* A handler's task is scheduled and time passes.  Of its awaits, those on a
\* connection that is being closed end, as TCP sees to; reads and writes of
\* the pipes and of a forwarded exchange need not.
ProxyLiveSpec ==
    /\ ProxySpec
    /\ \A c \in Conns :
          /\ WF_proxyVars(RelayOver(c)) /\ WF_proxyVars(RelayTimesOut(c))
          /\ WF_proxyVars(Passes(c)) /\ WF_proxyVars(Bill(c))
          /\ WF_proxyVars(CloseTarget(c)) /\ WF_proxyVars(CountDown(c))
          /\ WF_proxyVars(Release(c))

-----------------------------------------------------------------------------
\* The three accounts of connections agree with the connections there are, on
\* every way out of handle_client: no exit keeps a permit, or leaves the
\* operator a connection that is over (its returns, except and finally).
AccountsBalance ==
    LET inside == {c \in Conns : conn[c].pc \notin {"gone", "refuse"}}
        served == {c \in inside : ~At(c, "release")}
    IN  /\ permits + Cardinality(inside) = MAX_CONNECTIONS
        /\ active = Cardinality(served)
        /\ shown = Cardinality({c \in served : conn[c].counted})

\* A receipt is for what went through the tunnel: all chunks of both
\* directions, but for the one that a direction was still writing when the
\* tunnel ended (_pipe counts after drain, relay_streams cancels).
BilledWasCarried ==
    \A c \in Conns :
        At(c, "close") /\ conn[c].kind = "tunnel" /\ conn[c].named
           /\ PaymentEnabled =>
            conn[c].billed +
                Cardinality({d \in Directions : conn[c].pipe[d].pc = "lost"})
              = conn[c].pipe["up"].written + conn[c].pipe["down"].written

\* A tunnel that carried anything for a request is billed, however it ends
\* (relay_streams returns its counters after a timeout too).
Earning(c) ==
    /\ At(c, "relay") /\ conn[c].named /\ PaymentEnabled
    /\ \E d \in Directions : conn[c].pipe[d].counter > 0

RelayIsBilled ==
    \A c \in Conns : Earning(c) ~> At(c, "close") /\ conn[c].billed > 0

\* No tunnel holds its permit for ever ("ensures no relay lives forever",
\* relay_streams).  A forwarded exchange makes no such promise.
TunnelEnds == \A c \in Conns : At(c, "relay") ~> At(c, "gone")
=============================================================================
