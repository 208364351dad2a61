---------------------------- MODULE SocketServer ----------------------------
(***************************************************************************)
(* coipc::sockets::server (src/server_endpoint_sockets.cpp): one thread    *)
(* that runs select() over a list of handlers - the acceptor, the reading  *)
(* end of an auxiliary connection to itself, and one handler for each      *)
(* client - and hands what arrives to the sessions.  Everybody else speaks *)
(* to that thread through the auxiliary connection only: a session's       *)
(* disconnect() sends its id, the destructor sends 0.                      *)
(*                                                                         *)
(* The list of handlers is a function from ids: handlers are appended, and *)
(* each takes the next id, so the order of the list is the order of ids.   *)
(* A round of the thread is one select() and one pass over the list.       *)
(*                                                                         *)
(* A client's stream is a sequence of half frames, a size (even positions) *)
(* and a payload (odd ones), each sent by one call; counts stand for it.   *)
(***************************************************************************)
EXTENDS Integers, Sequences, FiniteSets

CONSTANTS
    Clients,        \* the client connections
    Leavers,        \* those whose peer may close the connection
    Kicked,         \* those whose session may call disconnect()
    Fds,            \* descriptors accept() may return
    Listener,       \* the listening socket
    Aux,            \* the server's connection to itself
    InitMagic,      \* init_magic, 0xFFFFFFFE
    FirstSizes,     \* sizes that the first message of a peer may have
    Empties,        \* which frames of a peer are empty, by number
    MaxBacklog,     \* max_backlog
    MaxKicks,       \* bound: disconnect() calls of one session
    MaxFrames       \* bound: frames one client sends

ASSUME ServerAssumption ==
    /\ Leavers \subseteq Clients /\ Kicked \subseteq Clients
    /\ Aux \notin Clients /\ Listener \notin Clients \cup {Aux} \cup Fds
    /\ InitMagic \notin Nat /\ Empties \subseteq Nat
    /\ Fds \subseteq Nat /\ MaxBacklog \in Nat \ {0} /\ MaxKicks \in Nat /\ MaxFrames \in Nat

\* The magic is also a size a message could have.  The code relies on nobody connecting
\* before the handshake with a first message of 4294967294 bytes; so does the model.
ASSUME MagicAssumption == InitMagic \notin FirstSizes

VARIABLES
    owner,      \* the thread that owns the server object
    server,     \* control state of _server_thread
    handlers,   \* _handlers, by id
    next_id,    \* _next_id
    ready,      \* fds, as the last select() left it
    at,         \* id of the handler the pass has reached, 0 before the first
    backlog,    \* connections accept() has not taken yet
    aux,        \* words in the auxiliary connection
    client,     \* client[c]: the peer's end of connection c
    sent,       \* sent[c]: half frames the peer has sent
    taken,      \* taken[c]: half frames the server has taken from the socket
    session,    \* session[c]: the session the factory created for c
    messages,   \* messages[c]: message() calls made on that session
    truncated,  \* clients whose session was handed a payload cut short
    kicks,      \* kicks[c]: disconnect() calls made by that session
    failed      \* history: run() was ended by a failed call or an exception

net == <<backlog, aux, client, sent>>
thread == <<server, handlers, next_id, ready, at, failed>>
sessions == <<session, messages, truncated>>
vars == <<owner, thread, net, taken, sessions, kicks>>

Conns == Clients \cup {Aux}
FirstId == 100

Handler == [conn : Conns \cup {Listener}, fd : Fds \cup {Listener},
            kind : {"accept_preinit", "accept_regular", "preinit",
                    "session", "aux"}]

TypeOK ==
    /\ owner \in {"listening", "failed", "running", "stopping", "joined"}
    /\ server \in {"select", "round", "payload", "exited"}
    /\ next_id \in Nat
    /\ DOMAIN handlers \subseteq FirstId..(next_id - 1)
    /\ \A i \in DOMAIN handlers : handlers[i] \in Handler
    /\ ready \subseteq Fds \cup {Listener}
    /\ at \in 0..(next_id - 1)
    /\ backlog \in Seq(Conns)
    /\ aux \in Seq(Nat \cup {InitMagic})
    /\ client \in [Clients -> {"new", "connected", "closed"}]
    /\ sent \in [Clients -> 0..(2 * MaxFrames)]
    /\ taken \in [Clients -> 0..(2 * MaxFrames)]
    /\ session \in [Clients -> {"none", "open", "disconnected", "destroyed"}]
    /\ messages \in [Clients -> Nat]
    /\ truncated \subseteq Clients
    /\ kicks \in [Clients -> 0..MaxKicks]
    /\ failed \in BOOLEAN

\* The constructor up to listen(): peers can connect, nobody accepts.
Init ==
    /\ owner = "listening"
    /\ server = "exited"
    /\ handlers = << >>
    /\ next_id = FirstId
    /\ ready = {}
    /\ at = 0
    /\ backlog = << >>
    /\ aux = << >>
    /\ client = [c \in Clients |-> "new"]
    /\ sent = [c \in Clients |-> 0]
    /\ taken = [c \in Clients |-> 0]
    /\ session = [c \in Clients |-> "none"]
    /\ messages = [c \in Clients |-> 0]
    /\ truncated = {}
    /\ kicks = [c \in Clients |-> 0]
    /\ failed = FALSE

-----------------------------------------------------------------------------
(* The owner of the server object *)

\* _next_id++
TakeId == next_id' = next_id + 1

\* The rest of the constructor: connect_aux() connects and sends the magic, the
\* acceptor becomes the first handler, and the thread starts.
Start ==
    /\ owner = "listening"
    /\ Len(backlog) < MaxBacklog
    /\ owner' = "running"
    /\ backlog' = Append(backlog, Aux)
    /\ aux' = <<InitMagic>>
    /\ handlers' = [i \in {next_id} |-> [conn |-> Listener, fd |-> Listener,
                                         kind |-> "accept_preinit"]]
    /\ TakeId
    /\ server' = "select"
    /\ UNCHANGED <<ready, at, failed, client, sent, taken, sessions, kicks>>

\* connect_aux() fails, as it does against a backlog that peers have filled since
\* listen(): the constructor throws initialization_failed.
ConnectAuxFails ==
    /\ owner = "listening"
    /\ owner' = "failed"
    /\ UNCHANGED <<thread, net, taken, sessions, kicks>>

\* ~server(): tell the thread to exit ...
Destroy ==
    /\ owner = "running"
    /\ owner' = "stopping"
    /\ aux' = Append(aux, 0)
    /\ UNCHANGED <<thread, backlog, client, sent, taken, sessions, kicks>>

\* ... wait for it, and release the handlers: sessions first, then their sockets.
Join ==
    /\ owner = "stopping"
    /\ server = "exited"
    /\ owner' = "joined"
    /\ handlers' = << >>
    /\ session' = [c \in Clients |->
                    IF session[c] = "open" THEN "destroyed" ELSE session[c]]
    /\ UNCHANGED <<server, next_id, ready, at, failed, net, taken, messages, truncated, kicks>>

-----------------------------------------------------------------------------
(* Clients, and the threads that use a session's outbound channel *)

Connect(c) ==
    /\ client[c] = "new"
    /\ owner \notin {"failed", "joined"}
    /\ Len(backlog) < MaxBacklog
    /\ client' = [client EXCEPT ![c] = "connected"]
    /\ backlog' = Append(backlog, c)
    /\ UNCHANGED <<owner, thread, aux, sent, taken, sessions, kicks>>

\* Whether the next half frame of c is a size; otherwise it is a payload.
AtFrame(count) == count % 2 = 0

SendHalf(c) ==
    /\ client[c] = "connected"
    /\ sent' = [sent EXCEPT ![c] = @ + 1]
    /\ UNCHANGED <<owner, thread, backlog, aux, client, taken, sessions, kicks>>

SendSize(c) == AtFrame(sent[c]) /\ sent[c] < 2 * MaxFrames /\ SendHalf(c)

SendPayload(c) == ~AtFrame(sent[c]) /\ SendHalf(c)

Close(c) ==
    /\ c \in Leavers
    /\ client[c] = "connected"
    /\ client' = [client EXCEPT ![c] = "closed"]
    /\ UNCHANGED <<owner, thread, backlog, aux, sent, taken, sessions, kicks>>

\* The mutation of send_scalar that does nothing, as disconnect() of other channels.
send_nothing(word) == UNCHANGED aux

\* A word for the server thread.
send_scalar(word) == aux' = Append(aux, word)

\* socket_handler::disconnect(), called while the session is alive.
Disconnect(c) ==
    /\ c \in Kicked
    /\ session[c] = "open"
    /\ kicks[c] < MaxKicks
    /\ kicks' = [kicks EXCEPT ![c] = @ + 1]
    /\ \E i \in DOMAIN handlers : handlers[i].conn = c /\ send_scalar(i)
    /\ UNCHANGED <<owner, thread, backlog, client, sent, taken, sessions>>

-----------------------------------------------------------------------------
(* The server thread: select() *)

\* recv() or accept() on the socket of handler i would not block.
Readable(i) ==
    LET c == handlers[i].conn
    IN  CASE c = Listener -> backlog # << >>
          [] c = Aux -> aux # << >>
          [] OTHER -> taken[c] < sent[c] \/ client[c] = "closed"

\* FD_SET for every handler.
Watched == DOMAIN handlers

\* The mutation of Selected that reuses the set of the round before (no FD_ZERO).
SelectedOnTop == ready \cup {handlers[i].fd : i \in {k \in Watched : Readable(k)}}

\* The descriptors select() leaves in the set.
Selected == {handlers[i].fd : i \in {k \in Watched : Readable(k)}}

Select ==
    /\ server = "select"
    /\ \E i \in Watched : Readable(i)
    /\ ready' = Selected
    /\ server' = "round"
    /\ at' = 0
    /\ UNCHANGED <<owner, handlers, next_id, failed, net, taken, sessions, kicks>>

\* run() ends: by itself, or by an error it does not tell anybody.
Fail == server' = "exited" /\ failed' = TRUE

\* run() returns when select() fails, for whatever reason (EINTR included).
SelectFails ==
    /\ server = "select"
    /\ Fail
    /\ UNCHANGED <<owner, handlers, next_id, ready, at, net, taken, sessions, kicks>>

\* The handlers the pass has still to call.
Pending == {i \in DOMAIN handlers : i > at /\ handlers[i].fd \in ready}

\* The pass calls handler i, which is of kind k.
Dispatch(i, k) ==
    /\ server = "round"
    /\ i \in Pending
    /\ \A j \in Pending : i <= j
    /\ handlers[i].kind = k

EndRound ==
    /\ server = "round"
    /\ Pending = {}
    /\ server' = "select"
    /\ UNCHANGED <<owner, handlers, next_id, ready, at, failed, net, taken, sessions, kicks>>

-----------------------------------------------------------------------------
(* The server thread: the handlers *)

\* accept() returns the lowest descriptor that is not in use.
NewFd(f) ==
    LET free == Fds \ {handlers[i].fd : i \in DOMAIN handlers}
    IN  f \in free /\ \A g \in free : f <= g

\* push_back(make_shared<socket_handler>(_next_id++, ...)) for connection c.
PushBack(c, f, k) ==
    handlers' = [i \in DOMAIN handlers \cup {next_id} |->
                    IF i = next_id THEN [conn |-> c, fd |-> f, kind |-> k]
                    ELSE handlers[i]]

Erase(i) == handlers' = [k \in DOMAIN handlers \ {i} |-> handlers[k]]

accept_preinit(i) ==
    /\ Dispatch(i, "accept_preinit")
    /\ backlog # << >>
    /\ \E f \in Fds : NewFd(f) /\ PushBack(Head(backlog), f, "preinit")
    /\ backlog' = Tail(backlog)
    /\ TakeId
    /\ at' = i
    /\ UNCHANGED <<owner, server, failed, ready, aux, client, sent, taken, sessions, kicks>>

\* The connection is given to the factory, and to the list if that succeeds.
accept_regular(i) ==
    /\ Dispatch(i, "accept_regular")
    /\ backlog # << >>
    /\ backlog' = Tail(backlog)
    /\ TakeId
    /\ at' = i
    /\ \/ /\ \E f \in Fds : NewFd(f) /\ PushBack(Head(backlog), f, "session")
          /\ session' = [session EXCEPT ![Head(backlog)] = "open"]
          /\ UNCHANGED <<server, failed>>
       \/ Fail /\ UNCHANGED <<handlers, session>>
    /\ UNCHANGED <<owner, ready, aux, client, sent, taken, messages, truncated, kicks>>

\* accept() fails or setup_socket() throws: the exception ends run().
AcceptFails(i) ==
    /\ Dispatch(i, "accept_preinit") \/ Dispatch(i, "accept_regular")
    /\ backlog # << >>
    /\ backlog' \in {backlog, Tail(backlog)}
    /\ Fail
    /\ UNCHANGED <<owner, handlers, next_id, ready, at, aux, client, sent, taken,
                   sessions, kicks>>

\* What the first word of a connection may be, once one has arrived: nothing but that
\* word tells whose connection it is.
Peeked(i) ==
    LET c == handlers[i].conn
    IN  CASE c = Aux /\ aux # << >> -> {Head(aux)}
          [] c \in Clients /\ taken[c] < sent[c] -> FirstSizes
          [] OTHER -> {}

\* The mutation of PeeksMagic that expects its own connection to be the first one.
PeeksFirst(i) == i = FirstId + 1 /\ InitMagic \in Peeked(i)

\* What has arrived is looked at (MSG_PEEK), and left there if it is not the magic.
PeeksMagic(i) == InitMagic \in Peeked(i)

\* The mutation of Regular that leaves the acceptor as it was.
RegularButAcceptor(i, j) ==
    CASE \A k \in DOMAIN handlers : j <= k -> handlers[j].kind
      [] j = i -> "aux"
      [] OTHER -> "session"

\* The handlers' new kinds once i has turned out to be the auxiliary connection.
Regular(i, j) ==
    CASE \A k \in DOMAIN handlers : j <= k -> "accept_regular"
      [] j = i -> "aux"
      [] OTHER -> "session"

\* The loop over the handlers, stopped before the handler last + 1.
SwitchHandlers(i, last) ==
    LET switched == {j \in DOMAIN handlers : j <= last}
    IN  /\ handlers' = [j \in DOMAIN handlers |->
                          IF j \in switched
                          THEN [handlers[j] EXCEPT !.kind = Regular(i, j)]
                          ELSE handlers[j]]
        /\ session' = [c \in Clients |->
                          IF \E j \in switched : handlers[j].conn = c
                          THEN "open" ELSE session[c]]

\* The factory may throw for any of the new sessions.
handle_preinit(i) ==
    /\ Dispatch(i, "preinit")
    /\ at' = i
    /\ \/ /\ ~PeeksMagic(i)
          /\ UNCHANGED <<server, failed, handlers, aux, session>>
       \/ /\ PeeksMagic(i)
          /\ aux' = Tail(aux)
          /\ \/ SwitchHandlers(i, next_id) /\ UNCHANGED <<server, failed>>
             \/ /\ \E j \in DOMAIN handlers :
                    Regular(i, j) = "session" /\ SwitchHandlers(i, j - 1)
                /\ Fail
    /\ UNCHANGED <<owner, next_id, ready, backlog, client, sent, taken, messages,
                   truncated, kicks>>

\* The mutation of PeerGone that does not mind what the peer has left behind.
PeerClosed(c) == client[c] = "closed"

\* recv() returns 0: the peer has closed and nothing is left.  A connection that was
\* reset, for which recv() returns -1, ends the same way: "sent" counts what has
\* reached the server's socket.
PeerGone(c) == taken[c] = sent[c] /\ client[c] = "closed"

\* The last half frame may be part of a size only, its peer having closed inside it:
\* what recv() returns is not compared with the size of a size.
Torn(c) == client[c] = "closed" /\ taken[c] + 1 = sent[c]

\* recv() of a size: the payload follows, or the peer is gone.  A torn size may be more
\* than resize() can give.
handle_session(i) ==
    LET c == handlers[i].conn
    IN  /\ Dispatch(i, "session")
        /\ at' = i
        /\ \/ /\ taken[c] < sent[c]
              /\ taken' = [taken EXCEPT ![c] = @ + 1]
              /\ \/ server' = "payload" /\ UNCHANGED failed
                 \/ Torn(c) /\ Fail
              /\ UNCHANGED <<handlers, session>>
           \/ /\ PeerGone(c)
              /\ session' = [session EXCEPT ![c] = "disconnected"]
              /\ Erase(i)
              /\ UNCHANGED <<server, failed, taken>>
        /\ UNCHANGED <<owner, next_id, ready, net, messages, truncated, kicks>>

\* The mutation of CutShort without MSG_WAITALL: what has arrived will do.
CutAtOnce(c) == taken[c] = sent[c]

\* recv(..., MSG_WAITALL) returns with less than the payload.
CutShort(c) == PeerGone(c)

\* recv(..., MSG_WAITALL) returns with the payload.  For an empty one it waits all the
\* same, as a recv() of 0 bytes on a blocking socket does, for the peer's next bytes or
\* its close.
PayloadArrived(c) ==
    /\ taken[c] < sent[c]
    /\ (taken[c] + 1) \div 2 \in Empties => taken[c] + 1 < sent[c] \/ client[c] = "closed"

\* recv() of the payload, whose result is not looked at, and message(), which may throw.
handle_payload(i) ==
    LET c == handlers[i].conn
    IN  /\ server = "payload"
        /\ i = at
        /\ \/ /\ PayloadArrived(c)
              /\ taken' = [taken EXCEPT ![c] = @ + 1]
              /\ UNCHANGED truncated
           \/ /\ CutShort(c)
              /\ truncated' = truncated \cup {c}
              /\ UNCHANGED taken
        /\ messages' = [messages EXCEPT ![c] = @ + 1]
        /\ Fail \/ (server' = "round" /\ UNCHANGED failed)
        /\ UNCHANGED <<owner, handlers, next_id, ready, at, net, session, kicks>>

\* The mutation of Addressee whose search never finds.
NoAddressee(id) == {}

\* The handler with that id, if there is one.
Addressee(id) == DOMAIN handlers \cap {id}

\* The mutation of Exit that proceeds.
KeepRunning == UNCHANGED server

Exit == server' = "exited"

\* A session's id: drop its handler.  Anything else, 0 included: exit.
handle_aux(i) ==
    /\ Dispatch(i, "aux")
    /\ aux # << >>
    /\ aux' = Tail(aux)
    /\ at' = i
    /\ \/ /\ \E k \in Addressee(Head(aux)) :
                session' = [session EXCEPT ![handlers[k].conn] = "destroyed"] /\ Erase(k)
          /\ UNCHANGED server
       \/ /\ Addressee(Head(aux)) = {}
          /\ Exit
          /\ UNCHANGED <<handlers, session>>
    /\ UNCHANGED <<owner, next_id, ready, failed, backlog, client, sent, taken, messages,
                   truncated, kicks>>

-----------------------------------------------------------------------------
run ==
    \/ Select
    \/ EndRound
    \/ \E i \in DOMAIN handlers :
        \/ accept_preinit(i)
        \/ accept_regular(i)
        \/ AcceptFails(i)
        \/ handle_preinit(i)
        \/ handle_session(i)
        \/ handle_payload(i)
        \/ handle_aux(i)

Next ==
    \/ Start
    \/ ConnectAuxFails
    \/ Destroy
    \/ Join
    \/ \E c \in Clients : Connect(c) \/ SendSize(c) \/ SendPayload(c)
                          \/ Close(c) \/ Disconnect(c)
    \/ run
    \/ SelectFails

\* The server thread and the owner's join() are scheduled, and the constructor ends.
\* Nothing is assumed of the peers.
Fairness ==
    /\ WF_vars(run)
    /\ WF_vars(Join)
    /\ WF_vars(Start \/ ConnectAuxFails)

SafeSpec == Init /\ [][Next]_vars
Spec == SafeSpec /\ Fairness

-----------------------------------------------------------------------------
(* Properties *)

\* The pass never calls a handler whose recv() or accept() would block: a
\* readiness bit outlives neither the data it stands for nor the descriptor it
\* was set for, though descriptors are closed and reused within a pass.
NeverBlocks == server = "round" => \A i \in Pending : Readable(i)

Preinit == handlers[FirstId].kind = "accept_preinit"

\* The acceptor stays the first handler, and the magic splits the server's life
\* in two: before it every connection waits unclassified, after it exactly one
\* handler is the auxiliary one, of the server's own connection, and every
\* other connection, whenever it was accepted, has its session.  That no peer's
\* first word is the magic is MagicAssumption's.
HandshakeIsClean ==
    server # "exited" =>
        /\ \A i \in DOMAIN handlers : handlers[i].conn = Listener <=> i = FirstId
        /\ FirstId \in DOMAIN handlers
        /\ \A i \in DOMAIN handlers \ {FirstId} :
            handlers[i].kind = IF Preinit THEN "preinit"
                               ELSE IF handlers[i].conn = Aux THEN "aux"
                               ELSE "session"

\* A session is alive exactly as long as the one handler that feeds it is in the
\* list, whichever way it ends: peer, disconnect() or destructor.
OneHandler ==
    \A c \in Clients :
        LET own == {i \in DOMAIN handlers : handlers[i].conn = c}
        IN  /\ Cardinality(own) <= 1
            /\ session[c] = "open" <=> \E i \in own : handlers[i].kind = "session"

\* A session is told of a disconnection when its peer is gone and all that the
\* peer sent was delivered; it is dropped in silence only when it asked for it
\* or the server is destroyed.  Nobody else's request ends it.
EndsForAReason ==
    \A c \in Clients :
        /\ session[c] = "disconnected" => client[c] = "closed" /\ taken[c] = sent[c]
        /\ session[c] = "destroyed" => kicks[c] > 0 \/ owner = "joined"

\* Sessions live with their handlers and end for a reason of their own, though one
\* handler erases another's while the list is gone through; with the types of the state.
SessionLifetimes == TypeOK /\ OneHandler /\ EndsForAReason

\* A session gets one message for each frame, in step with the stream, those
\* that arrived before the handshake included.  Only the last one can be cut
\* short, when the peer closed in the middle of it.
OneMessagePerFrame ==
    \A c \in Clients :
        /\ messages[c] = (taken[c] \div 2) + (IF c \in truncated THEN 1 ELSE 0)
        /\ c \in truncated => /\ client[c] = "closed"
                              /\ taken[c] = sent[c]
                              /\ ~AtFrame(taken[c])

\* The thread exits when the destructor asks for it, not before, unless a call fails
\* or a session throws.
ExitsOnlyOnRequest == server = "exited" => owner # "running" \/ failed

\* Disconnecting a session leaves the others alone: a connected peer, whose
\* session has not asked to be disconnected, is still being served.
DisconnectSparesOthers ==
    \A c \in Clients :
        owner = "running" /\ session[c] = "open" /\ client[c] = "connected" /\ kicks[c] = 0
            => server # "exited" \/ failed

\* The owner has given up the server, or a failure has ended its thread.
Stopping == owner \in {"failed", "stopping", "joined"} \/ failed

\* The thread waits in recv() for a payload whose peer neither sends on nor closes.
Stalled ==
    /\ server = "payload"
    /\ \E i \in DOMAIN handlers :
        i = at /\ ~PayloadArrived(handlers[i].conn) /\ ~CutShort(handlers[i].conn)

\* No peer stays inside a frame, or silent behind an empty one, for good.
NobodyStalls == []<>~Stalled

\* Every peer that connects gets a session, before or after the handshake, and what it
\* sends is taken from its socket as long as that session lives, unless some peer, itself
\* or another, stalls inside a frame: the one recv() of the payload holds up everybody.
EveryClientIsServed ==
    NobodyStalls =>
        \A c \in Clients :
            /\ client[c] # "new" ~> session[c] # "none" \/ Stopping
            /\ taken[c] < sent[c] ~> taken[c] = sent[c] \/ kicks[c] > 0 \/ Stopping

\* disconnect() ends the session, unless a peer stalls inside a frame.
DisconnectIsHonoured ==
    NobodyStalls => \A c \in Kicked : kicks[c] > 0 ~> session[c] # "open" \/ failed

\* The destructor returns, whatever the sessions do meanwhile, and also when a failure
\* has ended the thread before.  A peer can prevent it in one way only: by sending a size
\* and then neither its payload nor a close, which the thread waits for without a timeout.
DestructorReturns == NobodyStalls => (owner = "stopping" ~> owner = "joined")
=============================================================================
