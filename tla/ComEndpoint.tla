----------------------------- MODULE ComEndpoint ------------------------------
(***************************************************************************)
(* The COM endpoints: com::client_session and its inbound_stream           *)
(* (src/client_endpoint_com.cpp), com::session and com::server             *)
(* (src/server_endpoint_com.cpp, coipc/com/endpoint.h).                    *)
(*                                                                         *)
(* Every client has a single-threaded apartment (src/com_init.cpp), and so *)
(* has the server.  A call into another apartment is queued there and      *)
(* dispatched when its thread waits: for work, or for the answer to a call *)
(* of its own.  So calls nest, and answers are taken last in, first out.   *)
(* An apartment's stack holds the calls its thread is in; "at" is where    *)
(* the thread is in each of them.                                          *)
(*                                                                         *)
(* COM itself is external, and modelled as these sources use it: a stub    *)
(* holds a reference to its object as long as some proxy does, drops it in *)
(* CoDisconnectObject() and in CoUninitialize(), and a call that is being  *)
(* dispatched holds one more.  Calls through a proxy that has lost its     *)
(* stub fail; the client looks at no result but CoCreateInstance()'s.      *)
(***************************************************************************)
EXTENDS Naturals, Sequences

CONSTANTS
    Clients,
    MaxWrites,      \* bound: messages a client sends
    MaxPushes,      \* bound: messages a session sends
    Talkers,        \* bound: clients that send and are sent messages
    MaySpoil        \* whether create_session() may throw

ASSUME ComAssumption ==
    /\ "server" \notin Clients /\ MaxWrites \in Nat /\ MaxPushes \in Nat
    /\ Talkers \subseteq Clients /\ MaySpoil \in BOOLEAN

VARIABLES
    stack,          \* stack[a]: the calls the thread of apartment a is in
    inbox,          \* inbox[a]: calls into apartment a that wait to be dispatched
    registered,     \* the class object is registered
    serving,        \* the server's apartment exists
    client,         \* client[k]: the life of a client_session
    sink,           \* sink[k]: who refers to the inbound_stream, "ctor" and "stub"
    session,        \* session[k]: the life of the com::session of client k
    inbound,        \* inbound[k]: that session has its inbound channel
    stub,           \* stub[k]: client k can reach it
    outbound,       \* outbound[k]: the session has its _outbound
    told,           \* told[s][k]: calls of disconnect() of the channel of side s
    sent,           \* sent[s][k]: messages that side s has sent
    received,       \* received[s][k]: those that the channel of side s was given
    crashed         \* apartments that have used a null pointer

calls == <<stack, inbox>>
server == <<registered, serving>>
ends == <<client, sink, session, inbound, stub, outbound>>
history == <<told, sent, received, crashed>>
vars == <<calls, server, ends, history>>

Sides == {"client", "server"}
Apartments == Clients \cup {"server"}
ClientOps == {"connect", "send", "destroy", "sink_write", "sink_release"}
ServerOps == {"create", "advise", "write", "release", "push", "disconnect", "end"}

\* A call: of which client, the number of the message it carries, where the thread is
\* in it, and whom it returns to: apartment, place in its stack, where to go on there.
Frame(op, k, m, at, ret) == [op |-> op, of |-> k, m |-> m, at |-> at, ret |-> ret]

TypeOK ==
    /\ \A a \in Apartments : \A q \in {stack[a], inbox[a]} : \A i \in 1..Len(q) :
        /\ q[i].op \in (IF a = "server" THEN ServerOps ELSE ClientOps)
        /\ q[i].of \in (IF a = "server" THEN Apartments ELSE {a})
        /\ q[i].m \in Nat
        /\ q[i].at \in {"start", "query", "refused", "user", "wait", "busy", "uninit",
                        "end", "drop", "leave"}
    /\ registered \in BOOLEAN /\ serving \in BOOLEAN
    /\ client \in [Clients -> {"none", "connecting", "connected", "closing", "refused", "gone"}]
    /\ sink \in [Clients -> SUBSET {"ctor", "stub"}]
    /\ session \in [Clients -> {"none", "open", "gone"}]
    /\ inbound \in [Clients -> BOOLEAN] /\ stub \in [Clients -> BOOLEAN]
    /\ outbound \in [Clients -> BOOLEAN]
    /\ told \in [Sides -> [Clients -> Nat]]
    /\ sent \in [Sides -> [Clients -> Nat]]
    /\ received \in [Sides -> [Clients -> Seq(Nat \ {0})]]
    /\ crashed \subseteq Apartments

\* run_server() has registered the class object.
Init ==
    /\ stack = [a \in Apartments |-> << >>] /\ inbox = stack
    /\ registered = TRUE /\ serving = TRUE
    /\ client = [k \in Clients |-> "none"] /\ session = client
    /\ sink = [k \in Clients |-> {}]
    /\ inbound = [k \in Clients |-> FALSE] /\ stub = inbound /\ outbound = inbound
    /\ told = [s \in Sides |-> [k \in Clients |-> 0]] /\ sent = told
    /\ received = [s \in Sides |-> [k \in Clients |-> << >>]]
    /\ crashed = {}

-----------------------------------------------------------------------------
(* Apartments and calls *)

Top(a) == stack[a][Len(stack[a])]
At(a) == IF stack[a] = << >> THEN "rest" ELSE Top(a).at
Runs(a, op, at) == At(a) = at /\ Top(a).op = op
Serves(op, k) == Runs("server", op, "start") /\ Top("server").of = k

\* The mutation of Pumping in which a thread that waits for an answer takes no calls.
PumpingAtRest(a) == At(a) = "rest"

\* The thread takes calls: it has nothing to do, waits for an answer, or is in
\* CoUninitialize().
Pumping(a) == At(a) \in {"rest", "wait", "uninit"}

\* It runs the user's code: a callback, or what is not in any call.
UserTurn(a) == At(a) \in {"rest", "user"}

\* The stacks once the thread of a has got to p in its call ...
Advanced(a, p) == [stack EXCEPT ![a][Len(stack[a])].at = p]

\* ... or has made call f, which returns to the callback it was in ...
Entered(a, op, k, m, at) ==
    IF stack[a] = << >> THEN [stack EXCEPT ![a] = <<Frame(op, k, m, at, << >>)>>]
    ELSE [Advanced(a, "busy") EXCEPT
            ![a] = Append(@, Frame(op, k, m, at, <<a, Len(stack[a]), "user">>))]

\* ... or has returned, to p if something else than usual is to be done there.
Popped(a, p) ==
    LET ret == Top(a).ret
        rest == [stack EXCEPT ![a] = SubSeq(@, 1, Len(@) - 1)]
    IN  IF ret = << >> THEN rest ELSE [rest EXCEPT ![ret[1]][ret[2]].at = p]

Return(a) ==
    /\ stack' = Popped(a, IF Top(a).ret = << >> THEN "" ELSE Top(a).ret[3])
    /\ UNCHANGED inbox

Goto(a, p) == stack' = Advanced(a, p) /\ UNCHANGED inbox

\* The call in apartment b for which place i of stack a waits, to go on at p.
Sent(b, op, k, m, a, i, p) ==
    [inbox EXCEPT ![b] = Append(@, Frame(op, k, m, "start", <<a, i, p>>))]

\* The thread calls into apartment b, and waits.
CallOut(a, b, op, p) ==
    /\ stack' = Advanced(a, "wait")
    /\ inbox' = Sent(b, op, Top(a).of, Top(a).m, a, Len(stack[a]), p)

\* The same for a call the user makes.
UserCalls(a, op, k, m, b, op2, p) ==
    /\ stack' = Entered(a, op, k, m, "wait")
    /\ inbox' = Sent(b, op2, k, m, a, Len(stack[a]) + 1, p)

Dispatch(a) ==
    /\ Pumping(a) /\ inbox[a] # << >>
    /\ stack' = [stack EXCEPT ![a] = Append(@, Head(inbox[a]))]
    /\ inbox' = [inbox EXCEPT ![a] = Tail(@)]
    /\ UNCHANGED <<server, ends, history>>

Tell(s, k) == told' = [told EXCEPT ![s][k] = @ + 1]

\* The mutation of Given that drops what arrives while the thread is in another call.
GivenAtRest(a, q, m) == IF Len(stack[a]) = 1 THEN Append(q, m) ELSE q

\* The messages a channel in apartment a has been given, once it is given m.
Given(a, q, m) == Append(q, m)

-----------------------------------------------------------------------------
(* The client *)

\* The mutation of Expired that deletes the stream with its last but one reference.
ExpiredEarly(refs) == refs # {"ctor", "stub"}

\* inbound_stream::Release() deletes the stream, whose destructor tells the channel.
Expired(refs) == refs = {}

\* The sink of client k is left to those in refs.
LeaveSink(k, refs) ==
    /\ sink' = [sink EXCEPT ![k] = refs]
    /\ IF sink[k] # {} /\ Expired(refs) THEN Tell("client", k) ELSE UNCHANGED told

\* The constructor: a sink, and CoCreateInstance().
Connect(k) ==
    /\ At(k) = "rest" /\ client[k] = "none"
    /\ client' = [client EXCEPT ![k] = "connecting"]
    /\ sink' = [sink EXCEPT ![k] = {"ctor"}]
    /\ IF registered THEN UserCalls(k, "connect", k, 0, "server", "create", "query")
       ELSE stack' = Entered(k, "connect", k, 0, "refused") /\ UNCHANGED inbox
    /\ UNCHANGED <<server, session, inbound, stub, outbound, history>>

\* connection_refused is thrown: the sink goes.
ConnectionRefused(k) ==
    /\ Runs(k, "connect", "refused")
    /\ client' = [client EXCEPT ![k] = "refused"]
    /\ LeaveSink(k, {})
    /\ Return(k)
    /\ UNCHANGED <<server, session, inbound, stub, outbound, sent, received, crashed>>

\* CComQIPtr<IConnectionPoint>(_stream), which is null when the session has been
\* disconnected by now, and is used without a look; and Advise().
Query(k) ==
    /\ Runs(k, "connect", "query")
    /\ IF stub[k] THEN CallOut(k, "server", "advise", "leave") /\ UNCHANGED crashed
       ELSE crashed' = crashed \cup {k} /\ UNCHANGED calls
    /\ UNCHANGED <<server, ends, told, sent, received>>

\* The constructor leaves the sink to the server.
Connected(k) ==
    /\ Runs(k, "connect", "leave")
    /\ client' = [client EXCEPT ![k] = "connected"]
    /\ LeaveSink(k, sink[k] \ {"ctor"})
    /\ Return(k)
    /\ UNCHANGED <<server, session, inbound, stub, outbound, sent, received, crashed>>

\* client_session::message(); a Write() that fails goes unnoticed.
Send(k) ==
    /\ UserTurn(k) /\ client[k] = "connected"
    /\ k \in Talkers /\ sent["client"][k] < MaxWrites
    /\ sent' = [sent EXCEPT !["client"][k] = @ + 1]
    /\ IF stub[k]
       THEN UserCalls(k, "send", k, sent["client"][k] + 1, "server", "write", "leave")
       ELSE UNCHANGED calls
    /\ UNCHANGED <<server, ends, told, received, crashed>>

\* The destructor releases _stream ...
Destroy(k) ==
    /\ UserTurn(k) /\ client[k] = "connected"
    /\ client' = [client EXCEPT ![k] = "closing"]
    /\ IF stub[k] THEN UserCalls(k, "destroy", k, 0, "server", "release", "uninit")
       ELSE stack' = Entered(k, "destroy", k, 0, "uninit") /\ UNCHANGED inbox
    /\ UNCHANGED <<server, sink, session, inbound, stub, outbound, history>>

\* ... and calls CoUninitialize(), which takes the calls that wait and then disconnects
\* the sink, if nothing else has initialized COM in this thread.
Uninitialize(k) ==
    /\ Runs(k, "destroy", "uninit") /\ inbox[k] = << >>
    /\ client' = [client EXCEPT ![k] = "gone"]
    /\ \/ Len(stack[k]) = 1 /\ LeaveSink(k, {})
       \/ UNCHANGED <<sink, told>>
    /\ Return(k)
    /\ UNCHANGED <<server, session, inbound, stub, outbound, sent, received, crashed>>

\* inbound_stream::Write()
SinkWrite(k) ==
    /\ Runs(k, "sink_write", "start")
    /\ received' = [received EXCEPT !["client"][k] = Given(k, @, Top(k).m)]
    /\ Goto(k, "user")
    /\ UNCHANGED <<server, ends, told, sent, crashed>>

\* The server's proxy is released, and the stub's reference to the sink with it.
SinkRelease(k) ==
    /\ Runs(k, "sink_release", "start")
    /\ LeaveSink(k, sink[k] \ {"stub"})
    /\ Goto(k, "user")
    /\ UNCHANGED <<server, client, session, inbound, stub, outbound, sent, received,
                   crashed>>

ClientReturns(k) ==
    /\ \/ Runs(k, "sink_write", "user") \/ Runs(k, "sink_release", "user")
       \/ Runs(k, "send", "leave")
    /\ Return(k)
    /\ UNCHANGED <<server, ends, history>>

-----------------------------------------------------------------------------
(* The server *)

\* server::CreateInstance().  Nothing outside refers to the session until it returns.
CreateInstance(k) ==
    /\ Serves("create", k)
    /\ IF registered
       THEN /\ session' = [session EXCEPT ![k] = "open"]
            /\ inbound' = [inbound EXCEPT ![k] = TRUE]
            /\ stub' = [stub EXCEPT ![k] = TRUE]
            /\ Return("server")
       ELSE /\ stack' = Popped("server", "refused")
            /\ UNCHANGED <<inbox, session, inbound, stub>>
    /\ UNCHANGED <<server, client, sink, outbound, history>>

\* The mutation of CreateThrows that answers with the session nevertheless.
CreateSwallows(k) ==
    /\ MaySpoil /\ registered
    /\ Serves("create", k)
    /\ session' = [session EXCEPT ![k] = "open"]
    /\ stub' = [stub EXCEPT ![k] = TRUE]
    /\ Return("server")
    /\ UNCHANGED <<server, client, sink, inbound, outbound, history>>

\* create_session() throws: the session is released without an inbound channel, and
\* FinalRelease() calls disconnect() of none, before anything is caught.
CreateThrows(k) ==
    /\ MaySpoil /\ registered
    /\ Serves("create", k)
    /\ crashed' = crashed \cup {"server"}
    /\ UNCHANGED <<calls, server, ends, told, sent, received>>

\* session::Advise() with the client's sink, the session's only one.
Advise(k) ==
    /\ Serves("advise", k)
    /\ outbound' = [outbound EXCEPT ![k] = stub[k]]
    /\ sink' = [sink EXCEPT ![k] = IF stub[k] THEN @ \cup {"stub"} ELSE @]
    /\ Goto("server", "end")
    /\ UNCHANGED <<server, client, session, inbound, stub, history>>

\* session::Write()
Write(k) ==
    /\ Serves("write", k)
    /\ IF stub[k]
       THEN /\ received' = [received EXCEPT !["server"][k] = Given("server", @, Top("server").m)]
            /\ crashed' = IF inbound[k] THEN crashed ELSE crashed \cup {"server"}
            /\ Goto("server", "user")
       ELSE Goto("server", "end") /\ UNCHANGED <<received, crashed>>
    /\ UNCHANGED <<server, ends, told, sent>>

\* inbound->message() returns, or throws, which COM turns into a result.
Written ==
    /\ Runs("server", "write", "user")
    /\ Goto("server", "end")
    /\ UNCHANGED <<server, ends, history>>

\* The client's proxy is released.
Release(k) ==
    /\ Serves("release", k)
    /\ stub' = [stub EXCEPT ![k] = FALSE]
    /\ Goto("server", "end")
    /\ UNCHANGED <<server, client, sink, session, inbound, outbound, history>>

\* session::message(), of a session that has its sink: it throws otherwise.
Push(k) ==
    /\ UserTurn("server") /\ session[k] = "open" /\ outbound[k]
    /\ k \in Talkers /\ sent["server"][k] < MaxPushes
    /\ sent' = [sent EXCEPT !["server"][k] = @ + 1]
    /\ IF "stub" \in sink[k]
       THEN UserCalls("server", "push", k, sent["server"][k] + 1, k, "sink_write", "leave")
       ELSE UNCHANGED calls
    /\ UNCHANGED <<server, ends, told, received, crashed>>

\* session::disconnect(): CoDisconnectObject()
Disconnect(k) ==
    /\ UserTurn("server") /\ session[k] = "open" /\ stub[k]
    /\ stub' = [stub EXCEPT ![k] = FALSE]
    /\ stack' = Entered("server", "disconnect", k, 0, "end")
    /\ UNCHANGED <<inbox, server, client, sink, session, inbound, outbound, history>>

\* A call that is over was the last to refer to the session of client k.
LastReference(k) ==
    /\ session[k] = "open" /\ ~stub[k]
    /\ \A i \in 1..(Len(stack["server"]) - 1) :
        stack["server"][i].of = k => stack["server"][i].op \notin {"advise", "write"}

AtEnd(k) == At("server") = "end" /\ Top("server").of = k

\* The mutation of TellServer that leaves the channel to its destructor.
TellServerNothing(k) == UNCHANGED told

\* inbound->disconnect()
TellServer(k) == Tell("server", k)

\* session::FinalRelease() ...
FinalRelease(k) ==
    /\ AtEnd(k) /\ LastReference(k)
    /\ session' = [session EXCEPT ![k] = "gone"]
    /\ TellServer(k)
    /\ crashed' = IF inbound[k] THEN crashed ELSE crashed \cup {"server"}
    /\ Goto("server", "drop")
    /\ UNCHANGED <<server, client, sink, inbound, stub, outbound, sent, received>>

\* The mutation of ReleaseSink that does not wait until the client has seen it.
PostRelease(k) ==
    /\ stack' = Advanced("server", "leave")
    /\ inbox' = [inbox EXCEPT ![k] = Append(@, Frame("sink_release", k, 0, "start", << >>))]

\* The proxy of the sink is released.
ReleaseSink(k) == CallOut("server", k, "sink_release", "leave")

\* ... and the destructor, with inbound and _outbound.
DeleteSession(k) ==
    /\ At("server") = "drop" /\ Top("server").of = k
    /\ inbound' = [inbound EXCEPT ![k] = FALSE]
    /\ outbound' = [outbound EXCEPT ![k] = FALSE]
    /\ IF outbound[k] /\ "stub" \in sink[k] THEN ReleaseSink(k) ELSE Goto("server", "leave")
    /\ UNCHANGED <<server, client, sink, session, stub, history>>

ServerReturns ==
    /\ At("server") = "leave" \/ \E k \in Clients : AtEnd(k) /\ ~LastReference(k)
    /\ Return("server")
    /\ UNCHANGED <<server, ends, history>>

\* The handle that run_server() returned is released: CoRevokeClassObject().
Revoke ==
    /\ UserTurn("server") /\ registered
    /\ registered' = FALSE
    /\ UNCHANGED <<calls, serving, ends, history>>

\* The server's thread ends with CoUninitialize() ...
End ==
    /\ At("server") = "rest" /\ serving /\ ~registered
    /\ stack' = Entered("server", "end", "server", 0, "uninit")
    /\ UNCHANGED <<inbox, server, ends, history>>

\* ... which disconnects one object after the other.
DisconnectNext(k) ==
    /\ Runs("server", "end", "uninit") /\ stub[k]
    /\ stub' = [stub EXCEPT ![k] = FALSE]
    /\ stack' = [stack EXCEPT !["server"] =
                    Append(@, Frame("disconnect", k, 0, "end", <<"server", 1, "uninit">>))]
    /\ UNCHANGED <<inbox, server, client, sink, session, inbound, outbound, history>>

Ended ==
    /\ Runs("server", "end", "uninit") /\ inbox["server"] = << >>
    /\ \A k \in Clients : ~stub[k]
    /\ serving' = FALSE
    /\ Return("server")
    /\ UNCHANGED <<registered, ends, history>>

-----------------------------------------------------------------------------
ClientStep(k) ==
    \/ Dispatch(k) \/ ConnectionRefused(k) \/ Query(k) \/ Connected(k) \/ Uninitialize(k)
    \/ SinkWrite(k) \/ SinkRelease(k) \/ ClientReturns(k)

ServerStep ==
    \/ Dispatch("server") \/ Written \/ ServerReturns \/ Ended
    \/ \E k \in Clients :
        \/ CreateInstance(k) \/ CreateThrows(k) \/ Advise(k) \/ Write(k) \/ Release(k)
        \/ FinalRelease(k) \/ DeleteSession(k) \/ DisconnectNext(k)

User ==
    \/ Revoke \/ End
    \/ \E k \in Clients : Connect(k) \/ Send(k) \/ Destroy(k) \/ Push(k) \/ Disconnect(k)

Next == crashed = {} /\ ((\E k \in Clients : ClientStep(k)) \/ ServerStep \/ User)

\* Threads are scheduled, wait in message loops, and callbacks return.
Fairness ==
    /\ \A k \in Clients : WF_vars(crashed = {} /\ ClientStep(k))
    /\ WF_vars(crashed = {} /\ ServerStep)

Spec == Init /\ [][Next]_vars /\ Fairness

-----------------------------------------------------------------------------
(* Properties *)

\* Whoever ends the connection, and from inside whatever calls, no channel is told of
\* it twice, and none is told of it while the other end can still reach it;
\* with the types of the state.
ToldOnce ==
    /\ TypeOK
    /\ \A k \in Clients :
        /\ told["client"][k] <= 1 /\ (told["client"][k] = 1 => sink[k] = {})
        /\ told["server"][k] <= 1 /\ (told["server"][k] = 1 => ~stub[k])

\* Nested calls neither reorder nor lose messages of two ends that are connected.
MessagesInOrder ==
    \A k \in Clients, s \in Sides :
        LET n == Len(received[s][k])
            other == IF s = "client" THEN "server" ELSE "client"
        IN  /\ n <= sent[other][k] /\ received[s][k] = [i \in 1..n |-> i]
            /\ (stub[k] /\ "stub" \in sink[k] /\ \A a \in Apartments : At(a) = "rest")
                => n = sent[other][k]

\* Null pointers are used while a client connects and not later: create_session()
\* has thrown, or the session was disconnected before the client could ask for its
\* connection point.
CrashesOnlyInConnect ==
    crashed # {} => \E k \in Clients : client[k] = "connecting" /\ ~stub[k]

\* The channel of a client that is destroyed is called only by a session that was in a
\* call for it then: the sink is otherwise gone by the end of the destructor.
QuietOnceGone ==
    [][\A k \in Clients :
        client[k] = "gone"
            /\ <<told["client"][k], received["client"][k]>>'
                # <<told["client"][k], received["client"][k]>>
        => \E i \in 1..Len(stack["server"]) :
            stack["server"][i].of = k /\ stack["server"][i].op # "release"]_vars

\* The test DisconnectionOnInboundChannelIsInvokedOnceServerDisconnects, and its
\* counterpart for the server: when one end goes both channels are told, provided
\* that nothing crashes.
BothEndsAreTold ==
    \A k \in Clients :
        client[k] \in {"connected", "closing", "gone"} /\ (~stub[k] \/ client[k] = "closing")
            ~> (told["client"][k] = 1 /\ told["server"][k] = 1) \/ crashed # {}

\* Apartments that call each other from inside their callbacks do not wait for each
\* other forever.
CallsReturn ==
    \A a \in Apartments : stack[a] # << >> ~> stack[a] = << >> \/ crashed # {}
=============================================================================
