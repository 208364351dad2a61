-------------------------- MODULE SocketServerProofs --------------------------
(***************************************************************************)
(* Proofs about the socket server, for any set of clients, any of them     *)
(* leaving or being disconnected any number of times, any backlog and any  *)
(* number of frames: the handshake, the lifetimes of sessions, that no     *)
(* handler is called whose call would block, that sessions get a message   *)
(* for each frame, and when the thread exits.                              *)
(***************************************************************************)
EXTENDS SocketServer, FiniteSetTheorems, TLAPS

InList(c) == \E i \in DOMAIN handlers : handlers[i].conn = c
InBacklog(c) == \E k \in 1..Len(backlog) : backlog[k] = c

\* The list of handlers is empty before the thread starts and after it was joined, and has
\* the acceptor in between.
Phases ==
    /\ next_id >= FirstId
    /\ owner \in {"listening", "failed"} =>
        server = "exited" /\ next_id = FirstId /\ aux = << >> /\ ~InBacklog(Aux)
    /\ owner \in {"listening", "failed", "joined"} => DOMAIN handlers = {}
    /\ owner = "joined" => server = "exited"
    /\ owner \in {"running", "stopping"} => FirstId \in DOMAIN handlers

\* A handler's id, connection, descriptor and kind go together.
HandlerShape(i) ==
    /\ handlers[i].conn = Listener <=> i = FirstId
    /\ handlers[i].fd = Listener <=> i = FirstId
    /\ handlers[i].kind \in {"accept_preinit", "accept_regular"} <=> i = FirstId
    /\ handlers[i].kind = "aux" => handlers[i].conn = Aux
    /\ handlers[i].kind = "session" => handlers[i].conn # Aux

\* Each connection and each descriptor has one handler.
OneEach ==
    \A i, j \in DOMAIN handlers :
        i # j => handlers[i].conn # handlers[j].conn /\ handlers[i].fd # handlers[j].fd

ListShape ==
    /\ Phases
    /\ \A i \in DOMAIN handlers : HandlerShape(i)
    /\ OneEach
    /\ FirstId \in DOMAIN handlers /\ handlers[FirstId].kind = "accept_regular" => InList(Aux)

\* A client is new, or waits to be accepted, or is in the list, or its session has ended.
Placed(c) ==
    /\ client[c] = "new" => ~InBacklog(c) /\ ~InList(c)
    /\ client[c] = "new" \/ InBacklog(c) => session[c] = "none"
    /\ \A i \in DOMAIN handlers :
        handlers[i].conn = c =>
            session[c] = (IF handlers[i].kind = "session" THEN "open" ELSE "none")
    /\ session[c] = "open" => InList(c)

Connections ==
    /\ \A k, l \in 1..Len(backlog) : k # l => backlog[k] # backlog[l]
    /\ \A c \in Conns : InBacklog(c) => ~InList(c)
    /\ \A c \in Clients : Placed(c)

\* The words of the auxiliary connection: the magic first, until its handler has seen it,
\* and then ids that sessions gave away, and the destructor's 0.
WordOK(w, k) ==
    \/ w = InitMagic /\ k = 1 /\ \A i \in DOMAIN handlers : handlers[i].kind # "aux"
    \/ w = 0 /\ owner # "running"
    \/ /\ w \in FirstId..(next_id - 1)
       /\ w \in DOMAIN handlers =>
            handlers[w].conn \in Clients /\ kicks[handlers[w].conn] > 0

Words == \A k \in 1..Len(aux) : WordOK(aux[k], k)

\* The bits of the last select(): before the pass begins they belong to handlers, and
\* while it lasts a handler that has not been called is still readable.
Bits ==
    /\ server \in {"round", "payload"} =>
        /\ \A i \in Pending : Readable(i)
        /\ at < FirstId => \A f \in ready : \E i \in DOMAIN handlers : handlers[i].fd = f

\* The thread waits for a payload exactly when the size before it was taken; a session
\* that is out of step otherwise has got its last message.
Frames ==
    /\ server = "payload" =>
        /\ at \in DOMAIN handlers
        /\ handlers[at].kind = "session"
        /\ ~AtFrame(taken[handlers[at].conn])
        /\ handlers[at].conn \notin truncated
    /\ server # "exited" \/ owner = "listening" =>
        \A c \in Clients :
            ~AtFrame(taken[c]) /\ c \notin truncated =>
                server = "payload" /\ handlers[at].conn = c
    /\ \A c \in Clients : taken[c] <= sent[c]

IInv ==
    /\ TypeOK
    /\ ListShape
    /\ Connections
    /\ HandshakeIsClean
    /\ EndsForAReason
    /\ Words
    /\ Bits
    /\ Frames
    /\ OneMessagePerFrame

\* No session disconnects a peer that may leave, or disconnects twice.
NoKickRace == Leavers \cap Kicked = {} /\ MaxKicks <= 1

\* Every id in the auxiliary connection finds its handler, once: only peers that may leave
\* have left, and only sessions that may be disconnected have been.
IdsFindHandlers ==
    /\ owner # "joined" =>
        \A k \in 1..Len(aux) : aux[k] \notin {0, InitMagic} => aux[k] \in DOMAIN handlers
    /\ \A k, l \in 1..Len(aux) : k # l /\ aux[k] \notin {0, InitMagic} => aux[k] # aux[l]
    /\ \A c \in Clients : client[c] = "closed" => c \in Leavers
    /\ \A c \in Clients : kicks[c] > 0 => c \in Kicked

USE ServerAssumption

LEMMA FirstIdType == FirstId \in Nat \ {0}
  BY DEF FirstId

LEMMA Below == \A a, b, c \in Nat : a < b /\ b <= c => a \in 0..(c - 1)
  OBVIOUS

LEMMA StillBelow ==
    ASSUME NEW a \in Nat, NEW n \in Nat, NEW m \in {n, n + 1}, NEW w \in a..(n - 1)
    PROVE  w # n /\ w \in a..(m - 1)
  OBVIOUS

\* The parts of the types, each of what one kind of step changes.
HandlersOK ==
    /\ next_id \in Nat
    /\ DOMAIN handlers \subseteq FirstId..(next_id - 1)
    /\ \A i \in DOMAIN handlers : handlers[i] \in Handler

PassOK ==
    /\ server \in {"select", "round", "payload", "exited"}
    /\ ready \subseteq Fds \cup {Listener}
    /\ at \in 0..(next_id - 1)
    /\ failed \in BOOLEAN

NetOK ==
    /\ owner \in {"listening", "failed", "running", "stopping", "joined"}
    /\ backlog \in Seq(Conns)
    /\ aux \in Seq(Nat \cup {InitMagic})
    /\ client \in [Clients -> {"new", "connected", "closed"}]

CountsOK ==
    /\ sent \in [Clients -> 0..(2 * MaxFrames)]
    /\ taken \in [Clients -> 0..(2 * MaxFrames)]
    /\ session \in [Clients -> {"none", "open", "disconnected", "destroyed"}]
    /\ messages \in [Clients -> Nat]
    /\ truncated \subseteq Clients
    /\ kicks \in [Clients -> 0..MaxKicks]

\* No peer's first word being the magic, the connection it is found in is the server's own.
LEMMA OwnMagic ==
    ASSUME NEW i, PeeksMagic(i)
    PROVE  handlers[i].conn = Aux /\ aux # << >> /\ Head(aux) = InitMagic
<1>1. CASE handlers[i].conn = Aux /\ aux # << >>
  BY <1>1 DEF PeeksMagic, Peeked
<1>2. CASE ~(handlers[i].conn = Aux /\ aux # << >>)
  <2>1. Peeked(i) \in {FirstSizes, {}}
    BY <1>2 DEF Peeked
  <2> QED
    BY <2>1, MagicAssumption DEF PeeksMagic
<1> QED
  BY <1>1, <1>2

LEMMA TypeParts == TypeOK <=> HandlersOK /\ PassOK /\ NetOK /\ CountsOK
  BY DEF TypeOK, HandlersOK, PassOK, NetOK, CountsOK

\* Every handler is the acceptor's, the auxiliary connection's or a client's.
LEMMA HandlerType ==
    ASSUME HandlersOK, NEW i \in DOMAIN handlers
    PROVE  /\ i \in Nat /\ i >= FirstId /\ i < next_id
           /\ handlers[i].conn \in Clients \cup {Aux, Listener}
           /\ handlers[i].fd \in Fds \cup {Listener}
           /\ handlers[i].kind \in {"accept_preinit", "accept_regular", "preinit",
                                    "session", "aux"}
  BY FirstIdType DEF HandlersOK, Handler, Conns

\* The four changes of the list: a handler is added, erased, all are dropped, or their
\* kinds are changed.
LEMMA PushBackHandlers ==
    ASSUME HandlersOK, ListShape, NEW c \in Conns, NEW f \in Fds,
           NEW k \in {"preinit", "session"}, PushBack(c, f, k), TakeId
    PROVE  /\ HandlersOK'
           /\ DOMAIN handlers' = DOMAIN handlers \cup {next_id}
           /\ next_id \notin DOMAIN handlers
           /\ handlers'[next_id] = [conn |-> c, fd |-> f, kind |-> k]
           /\ \A i \in DOMAIN handlers : handlers'[i] = handlers[i]
<1>1. next_id \notin DOMAIN handlers
  BY DEF HandlersOK
<1>2. DOMAIN handlers' = DOMAIN handlers \cup {next_id}
  BY DEF PushBack
<1>3. handlers'[next_id] = [conn |-> c, fd |-> f, kind |-> k]
  BY DEF PushBack
<1>4. \A i \in DOMAIN handlers : handlers'[i] = handlers[i]
  BY <1>1 DEF PushBack
<1>5. [conn |-> c, fd |-> f, kind |-> k] \in Handler
  BY DEF Handler
<1>6. DOMAIN handlers' \subseteq FirstId..(next_id' - 1) /\ next_id' \in Nat
  BY <1>2, FirstIdType DEF TakeId, HandlersOK, ListShape, Phases
<1> QED
  BY <1>1, <1>2, <1>3, <1>4, <1>5, <1>6 DEF HandlersOK

LEMMA EraseHandlers ==
    ASSUME HandlersOK, NEW i \in DOMAIN handlers, Erase(i), UNCHANGED next_id
    PROVE  /\ HandlersOK'
           /\ DOMAIN handlers' = DOMAIN handlers \ {i}
           /\ \A j \in DOMAIN handlers' : handlers'[j] = handlers[j]
  BY DEF HandlersOK, Erase

LEMMA DropHandlers ==
    ASSUME HandlersOK, handlers' = << >>, UNCHANGED next_id
    PROVE  HandlersOK' /\ DOMAIN handlers' = {}
  BY DEF HandlersOK

LEMMA StartHandlers ==
    ASSUME HandlersOK, ListShape, Start
    PROVE  /\ HandlersOK'
           /\ DOMAIN handlers' = {FirstId} /\ next_id' = FirstId + 1
           /\ handlers'[FirstId] = [conn |-> Listener, fd |-> Listener, kind |-> "accept_preinit"]
<1>1. next_id = FirstId
  BY DEF Start, ListShape, Phases
<1>2. [conn |-> Listener, fd |-> Listener, kind |-> "accept_preinit"] \in Handler
  BY DEF Handler
<1> QED
  BY <1>1, <1>2, FirstIdType DEF Start, TakeId, HandlersOK

\* The acceptor becomes the regular one, handler i the auxiliary one, the others of those up
\* to last become sessions.
LEMMA SwitchedHandlers ==
    ASSUME HandlersOK, ListShape, NEW i \in DOMAIN handlers, i # FirstId,
           FirstId \in DOMAIN handlers,
           NEW last \in Int, SwitchHandlers(i, last), UNCHANGED next_id
    PROVE  /\ HandlersOK'
           /\ DOMAIN handlers' = DOMAIN handlers
           /\ \A j \in DOMAIN handlers :
                /\ handlers'[j].conn = handlers[j].conn /\ handlers'[j].fd = handlers[j].fd
                /\ handlers'[j].kind = IF j > last THEN handlers[j].kind
                                       ELSE IF j = FirstId THEN "accept_regular"
                                       ELSE IF j = i THEN "aux" ELSE "session"
<1>1. DOMAIN handlers' = DOMAIN handlers
  BY DEF SwitchHandlers
<1>2. ASSUME NEW j \in DOMAIN handlers
      PROVE  Regular(i, j) = IF j = FirstId THEN "accept_regular"
                             ELSE IF j = i THEN "aux" ELSE "session"
  <2>1. (\A k \in DOMAIN handlers : j <= k) <=> j = FirstId
    BY FirstIdType DEF HandlersOK
  <2> QED
    BY <2>1 DEF Regular
<1>3. ASSUME NEW j \in DOMAIN handlers
      PROVE  /\ handlers'[j] \in Handler
             /\ handlers'[j].conn = handlers[j].conn /\ handlers'[j].fd = handlers[j].fd
             /\ handlers'[j].kind = IF j > last THEN handlers[j].kind
                                    ELSE IF j = FirstId THEN "accept_regular"
                                    ELSE IF j = i THEN "aux" ELSE "session"
  <2>1. handlers[j] \in Handler /\ j \in Int
    BY FirstIdType DEF HandlersOK
  <2>2. handlers'[j] = IF j <= last THEN [handlers[j] EXCEPT !.kind = Regular(i, j)]
                       ELSE handlers[j]
    BY DEF SwitchHandlers
  <2> QED
    BY <1>2, <2>1, <2>2 DEF Handler
<1> QED
  BY <1>1, <1>3 DEF HandlersOK

-----------------------------------------------------------------------------
(* Types *)

\* What the thread knows of a handler that it calls.
LEMMA Dispatched ==
    ASSUME IInv, NEW i \in DOMAIN handlers, NEW k, Dispatch(i, k)
    PROVE  /\ server = "round" /\ handlers[i].kind = k
           /\ i \in Nat /\ i >= FirstId /\ i < next_id /\ at < i
           /\ owner \in {"running", "stopping"}
           /\ FirstId \in DOMAIN handlers
           /\ k \in {"accept_preinit", "accept_regular"} => i = FirstId
           /\ k \in {"preinit", "session", "aux"} => i # FirstId
           /\ k = "aux" => handlers[i].conn = Aux
           /\ k = "session" => handlers[i].conn \in Clients
           /\ k = "preinit" => handlers[i].conn \in Clients \cup {Aux}
<1>1. HandlersOK /\ ListShape /\ NetOK
  BY TypeParts DEF IInv
<1>2. server = "round" /\ handlers[i].kind = k /\ i \in Pending
  BY DEF Dispatch
<1>3. owner \in {"running", "stopping"} /\ FirstId \in DOMAIN handlers
  BY <1>1, <1>2 DEF ListShape, Phases, NetOK
<1>4. at < i
  BY <1>2 DEF Pending
<1> QED
  BY <1>1, <1>2, <1>3, <1>4, HandlerType DEF ListShape, Phases, HandlerShape

\* The head of the backlog, and what is behind it.
LEMMA BacklogHead ==
    ASSUME NetOK, backlog # << >>
    PROVE  /\ Head(backlog) \in Conns /\ Head(backlog) = backlog[1] /\ Len(backlog) >= 1
           /\ Tail(backlog) \in Seq(Conns) /\ Len(Tail(backlog)) = Len(backlog) - 1
           /\ \A j \in 1..Len(Tail(backlog)) : Tail(backlog)[j] = backlog[j + 1]
  BY DEF NetOK

LEMMA AuxHead ==
    ASSUME NetOK, aux # << >>
    PROVE  /\ Head(aux) \in Nat \cup {InitMagic} /\ Head(aux) = aux[1] /\ Len(aux) >= 1
           /\ Tail(aux) \in Seq(Nat \cup {InitMagic}) /\ Len(Tail(aux)) = Len(aux) - 1
           /\ \A j \in 1..Len(Tail(aux)) : Tail(aux)[j] = aux[j + 1]
  BY DEF NetOK

\* The id that handle_aux() reads is of a session that asked for it, or of nobody.
LEMMA AddresseeIsKicked ==
    ASSUME IInv, aux # << >>, NEW k \in Addressee(Head(aux))
    PROVE  /\ k \in DOMAIN handlers /\ k = aux[1] /\ k # FirstId
           /\ handlers[k].conn \in Clients /\ kicks[handlers[k].conn] > 0
<1>1. k \in DOMAIN handlers /\ k = aux[1] /\ 1 \in 1..Len(aux)
  BY AuxHead, TypeParts DEF Addressee, IInv
<1>2. k \in Nat /\ k >= FirstId
  BY <1>1, HandlerType, TypeParts DEF IInv
<1>3. handlers[k].conn \in Clients /\ kicks[handlers[k].conn] > 0
  BY <1>1, <1>2, FirstIdType DEF IInv, Words, WordOK
<1> QED
  BY <1>1, <1>3 DEF IInv, ListShape, HandlerShape

\* The thread's own steps change the list as the four lemmas above say.
LEMMA HandlersStep ==
    ASSUME IInv, Next
    PROVE  HandlersOK'
<1>1. HandlersOK /\ ListShape /\ NetOK
  BY TypeParts DEF IInv
<1>2. CASE Start
  BY <1>1, <1>2, StartHandlers
<1>3. CASE Join
  BY <1>1, <1>3, DropHandlers DEF Join
<1>4. CASE ConnectAuxFails \/ Destroy \/ Select \/ EndRound \/ SelectFails
  BY <1>1, <1>4 DEF ConnectAuxFails, Destroy, Select, EndRound, SelectFails, thread, HandlersOK
<1>5. ASSUME NEW c \in Clients,
             Connect(c) \/ SendSize(c) \/ SendPayload(c) \/ Close(c) \/ Disconnect(c)
      PROVE  HandlersOK'
  BY <1>1, <1>5 DEF Connect, SendSize, SendPayload, SendHalf, Close, Disconnect, thread, HandlersOK
<1>6. ASSUME NEW i \in DOMAIN handlers, accept_preinit(i)
      PROVE  HandlersOK'
  BY <1>1, <1>6, BacklogHead, PushBackHandlers DEF accept_preinit
<1>7. ASSUME NEW i \in DOMAIN handlers, accept_regular(i)
      PROVE  HandlersOK'
  <2>1. CASE \E f \in Fds : NewFd(f) /\ PushBack(Head(backlog), f, "session")
    BY <1>1, <1>7, <2>1, BacklogHead, PushBackHandlers DEF accept_regular
  <2>2. CASE UNCHANGED handlers
    <3>1. next_id' = next_id + 1
      BY <1>7 DEF accept_regular, TakeId
    <3> QED
      BY <1>1, <2>2, <3>1, FirstIdType DEF HandlersOK
  <2> QED
    BY <1>7, <2>1, <2>2 DEF accept_regular
<1>8. ASSUME NEW i \in DOMAIN handlers, AcceptFails(i) \/ handle_payload(i)
      PROVE  HandlersOK'
  BY <1>1, <1>8 DEF AcceptFails, handle_payload, HandlersOK
<1>9. ASSUME NEW i \in DOMAIN handlers, handle_preinit(i)
      PROVE  HandlersOK'
  <2>1. i # FirstId /\ FirstId \in DOMAIN handlers /\ next_id \in Int
        /\ \A j \in DOMAIN handlers : j - 1 \in Int
    BY <1>1, <1>9, Dispatched, FirstIdType DEF handle_preinit, HandlersOK
  <2>2. UNCHANGED next_id
    BY <1>9 DEF handle_preinit
  <2>3. \/ UNCHANGED handlers
        \/ \E last \in Int : SwitchHandlers(i, last)
    BY <1>9, <2>1 DEF handle_preinit
  <2> QED
    BY <1>1, <2>1, <2>2, <2>3, SwitchedHandlers DEF HandlersOK
<1>10. ASSUME NEW i \in DOMAIN handlers, handle_session(i)
       PROVE  HandlersOK'
  <2>1. UNCHANGED handlers \/ Erase(i)
    BY <1>10 DEF handle_session
  <2>2. UNCHANGED next_id
    BY <1>10 DEF handle_session
  <2> QED
    BY <1>1, <2>1, <2>2, EraseHandlers DEF HandlersOK
<1>11. ASSUME NEW i \in DOMAIN handlers, handle_aux(i)
       PROVE  HandlersOK'
  <2>1. UNCHANGED handlers \/ \E k \in DOMAIN handlers : Erase(k)
    BY <1>11 DEF handle_aux, Addressee
  <2>2. UNCHANGED next_id
    BY <1>11 DEF handle_aux
  <2> QED
    BY <1>1, <2>1, <2>2, EraseHandlers DEF HandlersOK
<1> QED
  BY <1>2, <1>3, <1>4, <1>5, <1>6, <1>7, <1>8, <1>9, <1>10, <1>11 DEF Next, run

\* The pass stays inside the list.
LEMMA PassStep ==
    ASSUME IInv, Next
    PROVE  PassOK'
<1>1. HandlersOK /\ ListShape /\ PassOK
  BY TypeParts DEF IInv
<1>2. failed' = failed \/ failed' = TRUE
  BY DEF Next, run, Start, ConnectAuxFails, Destroy, Join, Connect, SendSize, SendPayload,
         SendHalf, Close, Disconnect, Select, EndRound, SelectFails, accept_preinit,
         accept_regular, AcceptFails, handle_preinit, handle_session, handle_payload,
         handle_aux, Fail, thread
<1>3. failed' \in BOOLEAN
  BY <1>1, <1>2, Zenon DEF PassOK
<1>4. next_id' \in Nat /\ next_id' >= next_id /\ next_id >= FirstId
  <2>1. next_id' = next_id \/ next_id' = next_id + 1
    BY DEF Next, run, Start, ConnectAuxFails, Destroy, Join, Connect, SendSize, SendPayload,
           SendHalf, Close, Disconnect, Select, EndRound, SelectFails, accept_preinit,
           accept_regular, AcceptFails, handle_preinit, handle_session, handle_payload,
           handle_aux, TakeId, thread
  <2> QED
    BY <1>1, <2>1 DEF HandlersOK, ListShape, Phases
<1>5. server' \in {"select", "round", "payload", "exited"}
  BY <1>1 DEF PassOK, Next, run, Start, ConnectAuxFails, Destroy, Join, Connect, SendSize,
         SendPayload, SendHalf, Close, Disconnect, Select, EndRound, SelectFails,
         accept_preinit, accept_regular, AcceptFails, handle_preinit, handle_session,
         handle_payload, handle_aux, Fail, Exit, thread
<1>6. ready' \subseteq Fds \cup {Listener}
  <2>1. CASE Select
    <3>1. Selected \subseteq Fds \cup {Listener}
      BY <1>1, HandlerType DEF Selected, Watched
    <3> QED
      BY <2>1, <3>1 DEF Select
  <2>2. CASE ~Select
    <3>1. ready' = ready
      BY <2>2 DEF Next, run, Start, ConnectAuxFails, Destroy, Join, Connect, SendSize,
         SendPayload, SendHalf, Close, Disconnect, EndRound, SelectFails,
         accept_preinit, accept_regular, AcceptFails, handle_preinit, handle_session,
         handle_payload, handle_aux, thread
    <3> QED
      BY <1>1, <3>1 DEF PassOK
  <2> QED
    BY <2>1, <2>2
<1>7. at' \in 0..(next_id' - 1)
  <2>1. at' = at \/ at' = 0 \/ at' \in DOMAIN handlers
    BY DEF Next, run, Start, ConnectAuxFails, Destroy, Join, Connect, SendSize,
         SendPayload, SendHalf, Close, Disconnect, Select, EndRound, SelectFails,
         accept_preinit, accept_regular, AcceptFails, handle_preinit, handle_session,
         handle_payload, handle_aux, thread
  <2>2. at \in Nat /\ at < next_id /\ next_id \in Nat /\ next_id > 0
    BY <1>1, FirstIdType DEF PassOK, HandlersOK, ListShape, Phases
  <2>3. \A i \in DOMAIN handlers : i \in Nat /\ i < next_id
    BY <1>1, FirstIdType DEF HandlersOK
  <2>4. at' \in Nat /\ at' < next_id
    BY <2>1, <2>2, <2>3
  <2> QED
    BY <1>4, <2>2, <2>4, Below
<1> QED
  BY <1>3, <1>5, <1>6, <1>7 DEF PassOK

\* Queues hold connections and words.
LEMMA NetStep ==
    ASSUME IInv, Next
    PROVE  NetOK'
<1>1. HandlersOK /\ NetOK
  BY TypeParts DEF IInv
<1>2. CASE Start \/ ConnectAuxFails \/ Destroy \/ Join
  <2>1. owner' \in {"listening", "failed", "running", "stopping", "joined"}
    BY <1>2 DEF Start, ConnectAuxFails, Destroy, Join
  <2>2. backlog' \in Seq(Conns)
    <3>1. backlog' = backlog \/ backlog' = Append(backlog, Aux)
      BY <1>2 DEF Start, ConnectAuxFails, Destroy, Join, net
    <3> QED
      BY <1>1, <3>1 DEF NetOK, Conns
  <2>3. aux' \in Seq(Nat \cup {InitMagic})
    <3>1. aux' = aux \/ aux' = Append(aux, 0) \/ aux' = <<InitMagic>>
      BY <1>2 DEF Start, ConnectAuxFails, Destroy, Join, net
    <3>2. <<InitMagic>> \in Seq(Nat \cup {InitMagic})
      OBVIOUS
    <3>3. Append(aux, 0) \in Seq(Nat \cup {InitMagic})
      BY <1>1 DEF NetOK
    <3> QED
      BY <1>1, <3>1, <3>2, <3>3 DEF NetOK
  <2>4. client' = client
    BY <1>2 DEF Start, ConnectAuxFails, Destroy, Join, net
  <2> QED
    BY <1>1, <2>1, <2>2, <2>3, <2>4 DEF NetOK
<1>3. ASSUME NEW c \in Clients, Connect(c)
      PROVE  NetOK'
  BY <1>1, <1>3 DEF NetOK, Conns, Connect
<1>4. ASSUME NEW c \in Clients, SendSize(c) \/ SendPayload(c) \/ Close(c)
      PROVE  NetOK'
  BY <1>1, <1>4 DEF NetOK, SendSize, SendPayload, SendHalf, Close
<1>5. ASSUME NEW c \in Clients, Disconnect(c)
      PROVE  NetOK'
  BY <1>1, <1>5, HandlerType DEF NetOK, Disconnect, send_scalar
<1>6. CASE Select \/ EndRound \/ SelectFails
  BY <1>1, <1>6 DEF NetOK, Select, EndRound, SelectFails, net
<1>7. ASSUME NEW i \in DOMAIN handlers,
             accept_preinit(i) \/ accept_regular(i) \/ AcceptFails(i)
      PROVE  NetOK'
  BY <1>1, <1>7, BacklogHead DEF NetOK, accept_preinit, accept_regular, AcceptFails
<1>8. ASSUME NEW i \in DOMAIN handlers, handle_preinit(i) \/ handle_aux(i)
      PROVE  NetOK'
  BY <1>1, <1>8, AuxHead, OwnMagic DEF NetOK, handle_preinit, handle_aux
<1>9. ASSUME NEW i \in DOMAIN handlers, handle_session(i) \/ handle_payload(i)
      PROVE  NetOK'
  BY <1>1, <1>9 DEF NetOK, handle_session, handle_payload, net
<1> QED
  BY <1>2, <1>3, <1>4, <1>5, <1>6, <1>7, <1>8, <1>9 DEF Next, run

\* No client sends more than its frames, and nothing is taken that was not sent.
LEMMA CountsStep ==
    ASSUME IInv, Next
    PROVE  CountsOK'
<1>1. HandlersOK /\ CountsOK /\ NetOK
  BY TypeParts DEF IInv
<1>2. CASE Start \/ ConnectAuxFails \/ Destroy \/ Select \/ EndRound \/ SelectFails
  BY <1>1, <1>2 DEF CountsOK, Start, ConnectAuxFails, Destroy, Select, EndRound, SelectFails,
                    net, sessions
<1>3. CASE Join
  BY <1>1, <1>3 DEF CountsOK, Join, net
<1>4. ASSUME NEW c \in Clients, Connect(c) \/ Close(c)
      PROVE  CountsOK'
  BY <1>1, <1>4 DEF CountsOK, Connect, Close, sessions
<1>5. ASSUME NEW c \in Clients, SendSize(c) \/ SendPayload(c)
      PROVE  CountsOK'
  <2>1. sent[c] + 1 \in 0..(2 * MaxFrames)
    BY <1>1, <1>5 DEF CountsOK, SendSize, SendPayload, AtFrame
  <2> QED
    BY <1>1, <1>5, <2>1 DEF CountsOK, SendSize, SendPayload, SendHalf, sessions
<1>6. ASSUME NEW c \in Clients, Disconnect(c)
      PROVE  CountsOK'
  BY <1>1, <1>6 DEF CountsOK, Disconnect, sessions
<1>7. ASSUME NEW i \in DOMAIN handlers, accept_preinit(i) \/ AcceptFails(i)
      PROVE  CountsOK'
  BY <1>1, <1>7 DEF CountsOK, accept_preinit, AcceptFails, sessions
<1>8. ASSUME NEW i \in DOMAIN handlers, accept_regular(i)
      PROVE  CountsOK'
  BY <1>1, <1>8 DEF CountsOK, accept_regular
<1>9. ASSUME NEW i \in DOMAIN handlers, handle_preinit(i)
      PROVE  CountsOK'
  <2>1. \/ UNCHANGED session
        \/ \E last : session' = [c \in Clients |->
                IF \E j \in {k \in DOMAIN handlers : k <= last} : handlers[j].conn = c
                THEN "open" ELSE session[c]]
    BY <1>9 DEF handle_preinit, SwitchHandlers
  <2>2. session' \in [Clients -> {"none", "open", "disconnected", "destroyed"}]
    BY <1>1, <2>1 DEF CountsOK
  <2> QED
    BY <1>1, <1>9, <2>2 DEF CountsOK, handle_preinit
<1>10. ASSUME NEW i \in DOMAIN handlers, handle_session(i)
       PROVE  CountsOK'
  BY <1>1, <1>10, Dispatched DEF CountsOK, handle_session, net
<1>11. ASSUME NEW i \in DOMAIN handlers, handle_payload(i)
       PROVE  CountsOK'
  <2>1. handlers[i].conn \in Clients
    BY <1>1, <1>11, HandlerType DEF handle_payload, IInv, Frames, ListShape, HandlerShape
  <2> QED
    BY <1>1, <1>11, <2>1 DEF CountsOK, handle_payload, PayloadArrived, net
<1>12. ASSUME NEW i \in DOMAIN handlers, handle_aux(i)
       PROVE  CountsOK'
  <2>1. UNCHANGED session \/ \E k \in DOMAIN handlers :
            handlers[k].conn \in Clients
            /\ session' = [session EXCEPT ![handlers[k].conn] = "destroyed"]
    BY <1>12, AddresseeIsKicked DEF handle_aux
  <2> QED
    BY <1>1, <1>12, <2>1 DEF CountsOK, handle_aux
<1> QED
  BY <1>2, <1>3, <1>4, <1>5, <1>6, <1>7, <1>8, <1>9, <1>10, <1>11, <1>12 DEF Next, run

LEMMA TypeStep == ASSUME IInv, Next PROVE TypeOK'
<1>1. HandlersOK' /\ PassOK' /\ NetOK' /\ CountsOK'
  BY HandlersStep, PassStep, NetStep, CountsStep
<1> QED
  BY <1>1 DEF TypeOK, HandlersOK, PassOK, NetOK, CountsOK

-----------------------------------------------------------------------------
(* The list of handlers *)

\* A connection that is accepted has no handler yet, nor has the descriptor it gets.
LEMMA NewHandler ==
    ASSUME IInv, NEW f \in Fds, NEW k \in {"preinit", "session"}, backlog # << >>,
           NewFd(f), PushBack(Head(backlog), f, k), TakeId,
           k = "session" => Head(backlog) # Aux, FirstId \in DOMAIN handlers
    PROVE  /\ \A i \in DOMAIN handlers' : HandlerShape(i)'
           /\ OneEach'
           /\ next_id # FirstId
<1> DEFINE c == Head(backlog)
<1>1. HandlersOK /\ ListShape /\ NetOK
  BY TypeParts DEF IInv
<1>2. c \in Conns /\ c = backlog[1] /\ 1 \in 1..Len(backlog)
  BY <1>1, BacklogHead
<1>3. \A i \in DOMAIN handlers : handlers[i].conn # c
  BY <1>2 DEF IInv, Connections, InList, InBacklog
<1>4. \A i \in DOMAIN handlers : handlers[i].fd # f
  BY DEF NewFd
<1>5. next_id # FirstId
  BY <1>1, HandlerType
<1>6. /\ DOMAIN handlers' = DOMAIN handlers \cup {next_id}
      /\ next_id \notin DOMAIN handlers
      /\ handlers'[next_id] = [conn |-> c, fd |-> f, kind |-> k]
      /\ \A i \in DOMAIN handlers : handlers'[i] = handlers[i]
  BY <1>1, <1>2, PushBackHandlers
<1>7. c # Listener /\ f # Listener
  BY <1>2 DEF Conns
<1> HIDE DEF c
<1>8. ASSUME NEW i \in DOMAIN handlers'
      PROVE  HandlerShape(i)'
  BY <1>1, <1>5, <1>6, <1>7 DEF ListShape, HandlerShape, c
<1>9. OneEach'
  BY <1>1, <1>3, <1>4, <1>6 DEF ListShape, OneEach
<1> QED
  BY <1>5, <1>8, <1>9

\* The connection at the head of the backlog, once there is a regular acceptor, is a client's.
LEMMA RegularHead ==
    ASSUME IInv, FirstId \in DOMAIN handlers, handlers[FirstId].kind = "accept_regular",
           backlog # << >>
    PROVE  Head(backlog) \in Clients
<1>1. Head(backlog) \in Conns /\ Head(backlog) = backlog[1] /\ 1 \in 1..Len(backlog)
  BY BacklogHead, TypeParts DEF IInv
<1>2. InList(Aux)
  BY DEF IInv, ListShape
<1>3. Head(backlog) # Aux
  BY <1>1, <1>2 DEF IInv, Connections, InBacklog
<1> QED
  BY <1>1, <1>3 DEF Conns

\* The handshake: the handlers up to last are switched, the acceptor among them.
LEMMA Handshake ==
    ASSUME IInv, NEW i \in DOMAIN handlers, handle_preinit(i)
    PROVE  /\ i # FirstId /\ UNCHANGED <<owner, next_id, ready, backlog, client, sent, taken,
                                         messages, truncated, kicks>>
           /\ server = "round" /\ at' = i /\ handlers[i].kind = "preinit" /\ i \in Pending
           /\ \A j \in Pending : i <= j
           /\ \/ UNCHANGED <<server, failed, handlers, aux, session>>
              \/ \E last \in Int :
                    /\ SwitchHandlers(i, last) /\ last >= FirstId
                    /\ PeeksMagic(i) /\ aux' = Tail(aux)
                    /\ \/ UNCHANGED <<server, failed>> /\ last >= next_id
                       \/ Fail
<1>1. HandlersOK
  BY TypeParts DEF IInv
<1>2. i # FirstId /\ FirstId \in DOMAIN handlers /\ server = "round"
  BY Dispatched DEF handle_preinit
<1>3. next_id \in Int /\ next_id >= FirstId /\ FirstId \in Int
  BY <1>1, FirstIdType DEF IInv, HandlersOK, ListShape, Phases
<1>4. ASSUME NEW j \in DOMAIN handlers, Regular(i, j) = "session"
      PROVE  j - 1 \in Int /\ j - 1 >= FirstId
  <2>1. ~(\A k \in DOMAIN handlers : j <= k)
    BY <1>4 DEF Regular
  <2>2. j # FirstId
    BY <2>1, <1>1, <1>2, HandlerType, FirstIdType
  <2> QED
    BY <2>2, <1>1, HandlerType, FirstIdType
<1>5. \/ UNCHANGED <<server, failed, handlers, aux, session>>
      \/ /\ SwitchHandlers(i, next_id) /\ UNCHANGED <<server, failed>>
         /\ PeeksMagic(i) /\ aux' = Tail(aux)
      \/ \E j \in DOMAIN handlers :
            /\ Regular(i, j) = "session" /\ SwitchHandlers(i, j - 1) /\ Fail
            /\ PeeksMagic(i) /\ aux' = Tail(aux)
  BY DEF handle_preinit
<1>6. \/ UNCHANGED <<server, failed, handlers, aux, session>>
      \/ \E last \in Int :
            /\ SwitchHandlers(i, last) /\ last >= FirstId
            /\ PeeksMagic(i) /\ aux' = Tail(aux)
            /\ \/ UNCHANGED <<server, failed>> /\ last >= next_id
               \/ Fail
  BY <1>3, <1>4, <1>5
<1> QED
  BY <1>2, <1>6 DEF handle_preinit, Dispatch

\* Steps that leave the list and its owner alone.
LEMMA SameList ==
    ASSUME IInv, UNCHANGED <<owner, handlers, backlog>>, next_id' \in {next_id, next_id + 1},
           server # "exited" \/ UNCHANGED <<server, next_id, aux>>
    PROVE  ListShape'
<1>1. ListShape /\ NetOK /\ HandlersOK
  BY TypeParts DEF IInv
<1>2. Phases'
  <2>1. CASE UNCHANGED <<server, next_id, aux>>
    BY <1>1, <2>1 DEF ListShape, Phases, InBacklog
  <2>2. CASE server # "exited"
    BY <1>1, <2>2, FirstIdType DEF ListShape, Phases, NetOK, HandlersOK
  <2> QED
    BY <2>1, <2>2
<1> QED
  BY <1>1, <1>2 DEF ListShape, HandlerShape, OneEach, InList

LEMMA ListShapeStep ==
    ASSUME IInv, Next
    PROVE  ListShape'
<1>1. ListShape /\ NetOK /\ HandlersOK
  BY TypeParts DEF IInv
<1>2. CASE Start
  <2>1. DOMAIN handlers' = {FirstId} /\ next_id' = FirstId + 1
        /\ handlers'[FirstId] = [conn |-> Listener, fd |-> Listener, kind |-> "accept_preinit"]
    BY <1>1, <1>2, StartHandlers
  <2>2. owner' = "running"
    BY <1>2 DEF Start
  <2>3. Phases'
    BY <2>1, <2>2, FirstIdType DEF Phases
  <2>4. Aux # Listener
    OBVIOUS
  <2> QED
    BY <2>1, <2>3, <2>4 DEF ListShape, HandlerShape, OneEach
<1>3. CASE ConnectAuxFails \/ Destroy
  <2>1. Phases'
    BY <1>1, <1>3 DEF ListShape, Phases, InBacklog, ConnectAuxFails, Destroy, thread, net
  <2> QED
    BY <1>1, <1>3, <2>1 DEF ListShape, HandlerShape, OneEach, InList, ConnectAuxFails, Destroy, thread
<1>4. CASE Join
  <2>1. DOMAIN handlers' = {}
    BY <1>1, <1>4, DropHandlers DEF Join
  <2>2. Phases'
    BY <1>1, <1>4, <2>1 DEF ListShape, Phases, Join
  <2> QED
    BY <2>1, <2>2 DEF ListShape, OneEach
<1>5. ASSUME NEW c \in Clients, Connect(c)
      PROVE  ListShape'
  <2>1. ~InBacklog(Aux) => ~InBacklog(Aux)'
    BY <1>1, <1>5 DEF Connect, InBacklog, NetOK
  <2>2. Phases'
    BY <1>1, <1>5, <2>1 DEF ListShape, Phases, Connect, thread
  <2> QED
    BY <1>1, <1>5, <2>2 DEF ListShape, HandlerShape, OneEach, InList, Connect, thread
<1>6. ASSUME NEW c \in Clients, SendSize(c) \/ SendPayload(c) \/ Close(c)
      PROVE  ListShape'
  BY <1>6, SameList DEF SendSize, SendPayload, SendHalf, Close, thread
<1>7. ASSUME NEW c \in Clients, Disconnect(c)
      PROVE  ListShape'
  <2>1. Phases'
    BY <1>1, <1>7 DEF Disconnect, ListShape, Phases, thread
  <2> QED
    BY <1>1, <1>7, <2>1 DEF ListShape, HandlerShape, OneEach, InList, Disconnect, thread
<1>8. CASE Select \/ EndRound \/ SelectFails
  BY <1>8, SameList DEF Select, EndRound, SelectFails, net
<1>9. ASSUME NEW i \in DOMAIN handlers, handle_payload(i)
      PROVE  ListShape'
  BY <1>9, SameList DEF handle_payload, net
<1>10. ASSUME NEW i \in DOMAIN handlers,
              accept_preinit(i) \/ accept_regular(i) \/ AcceptFails(i)
       PROVE  ListShape'
  <2>1. i = FirstId /\ owner \in {"running", "stopping"} /\ backlog # << >>
        /\ handlers[i].kind \in {"accept_preinit", "accept_regular"}
    BY <1>10, Dispatched DEF accept_preinit, accept_regular, AcceptFails
  <2>2. next_id' \in {next_id, next_id + 1} /\ owner' = owner
    BY <1>10 DEF accept_preinit, accept_regular, AcceptFails, TakeId
  <2>3. next_id' >= FirstId
    BY <2>2, <1>1, FirstIdType DEF HandlersOK, ListShape, Phases
  <2>4. CASE UNCHANGED handlers
    <3>1. Phases'
      BY <1>1, <2>1, <2>2, <2>3, <2>4 DEF ListShape, Phases
    <3> QED
      BY <1>1, <2>4, <3>1 DEF ListShape, HandlerShape, OneEach, InList
  <2>5. ASSUME NEW f \in Fds, NEW k \in {"preinit", "session"}, NewFd(f), TakeId,
               PushBack(Head(backlog), f, k), k = "session" => Head(backlog) # Aux
        PROVE  ListShape'
    <3>1. (\A j \in DOMAIN handlers' : HandlerShape(j)') /\ OneEach'
      BY <2>1, <2>5, NewHandler
    <3>2. DOMAIN handlers \subseteq DOMAIN handlers'
          /\ \A j \in DOMAIN handlers : handlers'[j] = handlers[j]
      <4>1. Head(backlog) \in Conns
        BY <1>1, <2>1, BacklogHead
      <4> QED
        BY <1>1, <2>5, <4>1, PushBackHandlers
    <3>3. Phases'
      BY <1>1, <2>1, <2>2, <2>3, <3>2 DEF ListShape, Phases
    <3>4. FirstId \in DOMAIN handlers' /\ handlers'[FirstId].kind = "accept_regular" => InList(Aux)'
      BY <1>1, <2>1, <3>2 DEF ListShape, InList
    <3> QED
      BY <3>1, <3>3, <3>4 DEF ListShape
  <2>6. CASE accept_preinit(i)
    BY <2>5, <2>6 DEF accept_preinit
  <2>7. CASE accept_regular(i)
    <3>1. Head(backlog) # Aux
      BY <2>1, <2>7, RegularHead DEF accept_regular, Dispatch
    <3> QED
      BY <2>4, <2>5, <2>7, <3>1 DEF accept_regular
  <2> QED
    BY <1>10, <2>4, <2>6, <2>7 DEF AcceptFails
<1>11. ASSUME NEW i \in DOMAIN handlers, handle_preinit(i)
       PROVE  ListShape'
  <2>1. CASE UNCHANGED <<server, handlers, aux>>
    BY <1>11, <2>1, SameList, Handshake
  <2>2. ASSUME NEW last \in Int, SwitchHandlers(i, last), last >= FirstId, PeeksMagic(i)
        PROVE  ListShape'
    <3>1. FirstId \in DOMAIN handlers /\ i # FirstId /\ owner \in {"running", "stopping"}
          /\ owner' = owner /\ next_id' = next_id
      BY <1>11, Dispatched DEF handle_preinit
    <3>2. /\ DOMAIN handlers' = DOMAIN handlers
          /\ \A j \in DOMAIN handlers :
                /\ handlers'[j].conn = handlers[j].conn /\ handlers'[j].fd = handlers[j].fd
                /\ handlers'[j].kind = IF j > last THEN handlers[j].kind
                                       ELSE IF j = FirstId THEN "accept_regular"
                                       ELSE IF j = i THEN "aux" ELSE "session"
      BY <1>1, <2>2, <3>1, SwitchedHandlers
    <3>3. Phases'
      BY <1>1, <3>1, <3>2 DEF ListShape, Phases
    <3>4. handlers[i].conn = Aux /\ InList(Aux)'
      BY <2>2, <3>2, OwnMagic DEF InList
    <3>5. OneEach'
      BY <1>1, <3>2 DEF ListShape, OneEach
    <3>6. ASSUME NEW j \in DOMAIN handlers
          PROVE  HandlerShape(j)'
      <4>1. HandlerShape(j) /\ (j # i => handlers[j].conn # Aux)
        BY <1>1, <3>4 DEF ListShape, OneEach
      <4>2. j = FirstId => j <= last
        BY <2>2
      <4> QED
        BY <3>1, <3>2, <3>4, <4>1, <4>2, FirstIdType DEF HandlerShape
    <3> QED
      BY <3>2, <3>3, <3>4, <3>5, <3>6 DEF ListShape
  <2> QED
    BY <1>11, <2>1, <2>2, Handshake
<1>12. ASSUME NEW i \in DOMAIN handlers, handle_session(i) \/ handle_aux(i)
       PROVE  ListShape'
  <2>1. owner \in {"running", "stopping"} /\ owner' = owner /\ next_id' = next_id
        /\ FirstId \in DOMAIN handlers /\ server # "exited" /\ backlog' = backlog
    BY <1>12, Dispatched DEF handle_session, handle_aux, net
  <2>2. CASE UNCHANGED handlers
    BY <1>12, <2>1, <2>2, SameList
  <2>3. ASSUME NEW k \in DOMAIN handlers, k # FirstId, handlers[k].conn # Aux, Erase(k)
        PROVE  ListShape'
    <3>1. DOMAIN handlers' = DOMAIN handlers \ {k}
          /\ \A j \in DOMAIN handlers' : handlers'[j] = handlers[j]
      BY <1>1, <2>1, <2>3, EraseHandlers
    <3>2. Phases'
      BY <1>1, <2>1, <2>3, <3>1 DEF ListShape, Phases
    <3>3. InList(Aux) => InList(Aux)'
      BY <2>3, <3>1 DEF InList
    <3> QED
      BY <1>1, <3>1, <3>2, <3>3 DEF ListShape, HandlerShape, OneEach
  <2>4. CASE handle_session(i)
    <3>1. handlers[i].conn # Aux /\ i # FirstId
      BY <2>4, Dispatched DEF handle_session
    <3> QED
      BY <2>2, <2>3, <2>4, <3>1 DEF handle_session
  <2>5. CASE handle_aux(i)
    <3>1. UNCHANGED handlers \/ \E k \in Addressee(Head(aux)) : Erase(k)
      BY <2>5 DEF handle_aux
    <3>2. ASSUME NEW k \in Addressee(Head(aux)), Erase(k)
          PROVE  ListShape'
      BY <2>3, <2>5, <3>2, AddresseeIsKicked DEF handle_aux
    <3> QED
      BY <2>2, <3>1, <3>2
  <2> QED
    BY <1>12, <2>4, <2>5
<1> QED
  BY <1>2, <1>3, <1>4, <1>5, <1>6, <1>7, <1>8, <1>9, <1>10, <1>11, <1>12 DEF Next, run

-----------------------------------------------------------------------------
(* The handshake *)

LEMMA HandshakeStep ==
    ASSUME IInv, Next
    PROVE  HandshakeIsClean'
<1>1. ListShape /\ NetOK /\ HandlersOK /\ HandshakeIsClean
  BY TypeParts DEF IInv
<1>2. CASE UNCHANGED handlers /\ (server' = "exited" \/ server # "exited")
  BY <1>1, <1>2 DEF HandshakeIsClean, Preinit
<1>3. CASE Start
  <2>1. DOMAIN handlers' = {FirstId}
        /\ handlers'[FirstId] = [conn |-> Listener, fd |-> Listener, kind |-> "accept_preinit"]
    BY <1>1, <1>3, StartHandlers
  <2> QED
    BY <2>1 DEF HandshakeIsClean
<1>4. CASE ConnectAuxFails \/ Destroy \/ Select \/ EndRound \/ SelectFails
  <2>1. UNCHANGED handlers /\ (server' = server \/ server # "exited")
    BY <1>4 DEF ConnectAuxFails, Destroy, Select, EndRound, SelectFails, thread
  <2> QED
    BY <1>2, <2>1
<1>5. CASE Join
  BY <1>5 DEF Join, HandshakeIsClean
<1>6. ASSUME NEW c \in Clients,
             Connect(c) \/ SendSize(c) \/ SendPayload(c) \/ Close(c) \/ Disconnect(c)
      PROVE  HandshakeIsClean'
  <2>1. UNCHANGED handlers /\ server' = server
    BY <1>6 DEF Connect, SendSize, SendPayload, SendHalf, Close, Disconnect, thread
  <2> QED
    BY <1>2, <2>1
<1>7. ASSUME NEW i \in DOMAIN handlers, AcceptFails(i) \/ handle_payload(i)
      PROVE  HandshakeIsClean'
  <2>1. UNCHANGED handlers /\ server # "exited"
    BY <1>7 DEF AcceptFails, handle_payload, Dispatch
  <2> QED
    BY <1>2, <2>1
<1>8. ASSUME NEW i \in DOMAIN handlers, accept_preinit(i) \/ accept_regular(i)
      PROVE  HandshakeIsClean'
  <2>1. i = FirstId /\ backlog # << >> /\ server # "exited" /\ FirstId \in DOMAIN handlers
    BY <1>8, Dispatched DEF accept_preinit, accept_regular
  <2>2. ASSUME NEW f \in Fds, NEW k \in {"preinit", "session"}, TakeId,
               PushBack(Head(backlog), f, k),
               k = "session" <=> handlers[FirstId].kind # "accept_preinit",
               k = "session" => Head(backlog) # Aux
        PROVE  HandshakeIsClean'
    <3>1. Head(backlog) \in Conns /\ Head(backlog) # Listener
      BY <1>1, <2>1, BacklogHead DEF Conns
    <3>2. /\ DOMAIN handlers' = DOMAIN handlers \cup {next_id}
          /\ next_id \notin DOMAIN handlers
          /\ handlers'[next_id] = [conn |-> Head(backlog), fd |-> f, kind |-> k]
          /\ \A j \in DOMAIN handlers : handlers'[j] = handlers[j]
      BY <1>1, <2>2, <3>1, PushBackHandlers
    <3> QED
      BY <1>1, <2>1, <2>2, <3>1, <3>2 DEF HandshakeIsClean, Preinit
  <2>3. CASE accept_preinit(i)
    BY <2>1, <2>2, <2>3 DEF accept_preinit, Dispatch
  <2>4. CASE accept_regular(i)
    <3>1. Head(backlog) # Aux /\ handlers[FirstId].kind = "accept_regular"
      BY <2>1, <2>4, RegularHead DEF accept_regular, Dispatch
    <3>2. CASE UNCHANGED handlers
      BY <1>2, <2>1, <3>2
    <3> QED
      BY <2>2, <2>4, <3>1, <3>2 DEF accept_regular
  <2> QED
    BY <1>8, <2>3, <2>4
<1>9. ASSUME NEW i \in DOMAIN handlers, handle_preinit(i)
      PROVE  HandshakeIsClean'
  <2>1. CASE UNCHANGED <<server, handlers>>
    BY <1>2, <2>1
  <2>2. CASE Fail
    BY <2>2 DEF Fail, HandshakeIsClean
  <2>3. ASSUME NEW last \in Int, SwitchHandlers(i, last), last >= next_id, PeeksMagic(i)
        PROVE  HandshakeIsClean'
    <3>1. FirstId \in DOMAIN handlers /\ i # FirstId /\ next_id' = next_id
      BY <1>9, Dispatched DEF handle_preinit
    <3>2. \A j \in DOMAIN handlers : ~(j > last)
      BY <1>1, <2>3, FirstIdType DEF HandlersOK
    <3>3. /\ DOMAIN handlers' = DOMAIN handlers
          /\ \A j \in DOMAIN handlers :
                /\ handlers'[j].conn = handlers[j].conn
                /\ handlers'[j].kind = IF j = FirstId THEN "accept_regular"
                                       ELSE IF j = i THEN "aux" ELSE "session"
      BY <1>1, <2>3, <3>1, <3>2, SwitchedHandlers
    <3>4. \A j \in DOMAIN handlers : handlers[j].conn = Aux <=> j = i
      BY <1>1, <2>3, OwnMagic DEF ListShape, OneEach
    <3>5. \A j \in DOMAIN handlers : handlers[j].conn = Listener <=> j = FirstId
      BY <1>1 DEF ListShape, HandlerShape
    <3> QED
      BY <3>1, <3>3, <3>4, <3>5 DEF HandshakeIsClean, Preinit
  <2> QED
    BY <1>9, <2>1, <2>2, <2>3, Handshake
<1>10. ASSUME NEW i \in DOMAIN handlers, handle_session(i) \/ handle_aux(i)
       PROVE  HandshakeIsClean'
  <2>1. FirstId \in DOMAIN handlers /\ server # "exited" /\ next_id' = next_id
    BY <1>10, Dispatched DEF handle_session, handle_aux
  <2>2. CASE UNCHANGED handlers
    BY <1>2, <2>1, <2>2
  <2>3. ASSUME NEW k \in DOMAIN handlers, k # FirstId, Erase(k)
        PROVE  HandshakeIsClean'
    <3>1. DOMAIN handlers' = DOMAIN handlers \ {k}
          /\ \A j \in DOMAIN handlers' : handlers'[j] = handlers[j]
      BY <1>1, <2>1, <2>3, EraseHandlers
    <3> QED
      BY <1>1, <2>1, <2>3, <3>1 DEF HandshakeIsClean, Preinit
  <2>4. CASE handle_session(i)
    <3>1. i # FirstId
      BY <2>4, Dispatched DEF handle_session
    <3> QED
      BY <2>2, <2>3, <2>4, <3>1 DEF handle_session
  <2>5. CASE handle_aux(i)
    <3>1. UNCHANGED handlers \/ \E k \in Addressee(Head(aux)) : Erase(k)
      BY <2>5 DEF handle_aux
    <3>2. ASSUME NEW k \in Addressee(Head(aux)), Erase(k)
          PROVE  HandshakeIsClean'
      BY <2>3, <2>5, <3>2, AddresseeIsKicked DEF handle_aux
    <3> QED
      BY <2>2, <3>1, <3>2
  <2> QED
    BY <1>10, <2>4, <2>5
<1> QED
  BY <1>3, <1>4, <1>5, <1>6, <1>7, <1>8, <1>9, <1>10 DEF Next, run

-----------------------------------------------------------------------------
(* Connections *)

\* What accept() leaves in the backlog was there before, and is not what it took.
LEMMA ShorterBacklog ==
    ASSUME IInv, backlog # << >>, backlog' = Tail(backlog)
    PROVE  /\ \A k, l \in 1..Len(backlog') : k # l => backlog'[k] # backlog'[l]
           /\ \A c : InBacklog(c)' => InBacklog(c) /\ c # Head(backlog)
           /\ InBacklog(Head(backlog))
<1>1. NetOK /\ Connections
  BY TypeParts DEF IInv
<1>2. Len(backlog) \in Nat
  BY <1>1 DEF NetOK
<1>3. Head(backlog) = backlog[1] /\ Len(backlog) >= 1 /\ Len(backlog') = Len(backlog) - 1
  BY <1>1, BacklogHead
<1>4. \A k \in 1..Len(backlog') : backlog'[k] = backlog[k + 1]
  BY <1>1, BacklogHead
<1>5. \A k \in 1..Len(backlog') : k + 1 \in 1..Len(backlog) /\ k + 1 # 1 /\ 1 \in 1..Len(backlog)
  BY <1>2, <1>3
<1>6. \A k, l \in 1..Len(backlog') : k # l => backlog'[k] # backlog'[l]
  BY <1>1, <1>4, <1>5 DEF Connections
<1>7. \A k \in 1..Len(backlog') : backlog'[k] # Head(backlog)
  BY <1>1, <1>3, <1>4, <1>5 DEF Connections
<1>8. \A c : InBacklog(c)' => InBacklog(c) /\ c # Head(backlog)
  BY <1>4, <1>5, <1>7 DEF InBacklog
<1> QED
  BY <1>2, <1>3, <1>6, <1>8 DEF InBacklog

\* Steps that neither move nor change a connection, except perhaps to lose one.
LEMMA SamePlaces ==
    ASSUME IInv, UNCHANGED <<handlers, session>>,
           \/ UNCHANGED backlog
           \/ backlog # << >> /\ backlog' = Tail(backlog),
           \A c \in Clients : client'[c] = "new" => client[c] = "new"
    PROVE  Connections'
<1>1. Connections
  BY DEF IInv
<1>2. \A c : InList(c)' <=> InList(c)
  BY DEF InList
<1>3. \A c : InBacklog(c)' => InBacklog(c)
  BY ShorterBacklog DEF InBacklog
<1>4. \A k, l \in 1..Len(backlog') : k # l => backlog'[k] # backlog'[l]
  BY <1>1, ShorterBacklog DEF Connections
<1>5. \A c \in Conns : InBacklog(c)' => ~InList(c)'
  BY <1>1, <1>2, <1>3 DEF Connections
<1>6. ASSUME NEW c \in Clients PROVE Placed(c)'
  BY <1>1, <1>2, <1>3 DEF Connections, Placed
<1> QED
  BY <1>4, <1>5, <1>6 DEF Connections

\* A handler is erased, and its session ends.
LEMMA ErasedPlace ==
    ASSUME IInv, NEW k \in DOMAIN handlers, Erase(k), UNCHANGED <<next_id, backlog, client>>,
           handlers[k].conn \in Clients,
           NEW s \in {"disconnected", "destroyed"},
           session' = [session EXCEPT ![handlers[k].conn] = s]
    PROVE  Connections'
<1>1. Connections /\ CountsOK /\ HandlersOK /\ ListShape
  BY TypeParts DEF IInv
<1>2. DOMAIN handlers' = DOMAIN handlers \ {k}
      /\ \A j \in DOMAIN handlers' : handlers'[j] = handlers[j]
  BY <1>1, EraseHandlers
<1>3. \A c : InList(c)' => InList(c)
  BY <1>2 DEF InList
<1>4. \A c : InBacklog(c)' <=> InBacklog(c)
  BY DEF InBacklog
<1>5. ASSUME NEW c \in Clients PROVE Placed(c)'
  <2>1. CASE c = handlers[k].conn
    <3>1. InList(c) /\ ~InBacklog(c) /\ client[c] # "new"
      BY <1>1, <2>1 DEF Connections, InList, Conns, Placed
    <3>2. ~InList(c)'
      BY <1>1, <1>2, <2>1 DEF InList, ListShape, OneEach
    <3>3. session'[c] = s
      BY <1>1, <2>1 DEF CountsOK
    <3> QED
      BY <1>4, <3>1, <3>2, <3>3 DEF Placed, InList
  <2>2. CASE c # handlers[k].conn
    <3>1. session'[c] = session[c]
      BY <1>1, <2>2 DEF CountsOK
    <3>2. InList(c) => InList(c)'
      BY <1>2, <2>2 DEF InList
    <3> QED
      BY <1>1, <1>2, <1>3, <1>4, <3>1, <3>2 DEF Connections, Placed
  <2> QED
    BY <2>1, <2>2
<1> QED
  BY <1>1, <1>3, <1>4, <1>5 DEF Connections

\* A connection moves from the backlog to the list.
LEMMA AcceptedPlace ==
    ASSUME IInv, NEW f \in Fds, NEW k \in {"preinit", "session"}, backlog # << >>,
           PushBack(Head(backlog), f, k), TakeId, backlog' = Tail(backlog), UNCHANGED client,
           \A c \in Clients : session'[c] = IF k = "session" /\ c = Head(backlog) THEN "open"
                                            ELSE session[c]
    PROVE  Connections'
<1> DEFINE h == Head(backlog)
<1>1. Connections /\ HandlersOK /\ ListShape /\ NetOK
  BY TypeParts DEF IInv
<1>2. h \in Conns /\ InBacklog(h) /\ ~InList(h)
  BY <1>1, BacklogHead, ShorterBacklog DEF Connections
<1>3. /\ DOMAIN handlers' = DOMAIN handlers \cup {next_id}
      /\ next_id \notin DOMAIN handlers
      /\ handlers'[next_id] = [conn |-> h, fd |-> f, kind |-> k]
      /\ \A i \in DOMAIN handlers : handlers'[i] = handlers[i]
  BY <1>1, <1>2, PushBackHandlers
<1>4. \A c : InBacklog(c)' => InBacklog(c) /\ c # h
  BY ShorterBacklog
<1>5. \A k1, l \in 1..Len(backlog') : k1 # l => backlog'[k1] # backlog'[l]
  BY ShorterBacklog
<1> HIDE DEF h
<1>6. \A c : InList(c)' <=> InList(c) \/ c = h
  BY <1>3 DEF InList
<1>7. ASSUME NEW c \in Clients PROVE Placed(c)'
  <2>1. session'[c] = IF k = "session" /\ c = h THEN "open" ELSE session[c]
    BY DEF h
  <2>2. CASE c = h
    <3>1. session[c] = "none" /\ client[c] # "new" /\ InList(c)' /\ ~InBacklog(c)'
      BY <1>1, <1>2, <1>4, <1>6, <2>2 DEF Connections, Placed
    <3>2. \A i \in DOMAIN handlers' : handlers'[i].conn = c => i = next_id
      BY <1>2, <1>3, <2>2 DEF InList
    <3> QED
      BY <1>3, <2>1, <2>2, <3>1, <3>2 DEF Placed
  <2>3. CASE c # h
    BY <1>1, <1>3, <1>4, <1>6, <2>1, <2>3 DEF Connections, Placed
  <2> QED
    BY <2>2, <2>3
<1>8. \A c \in Conns : InBacklog(c)' => ~InList(c)'
  BY <1>1, <1>4, <1>6 DEF Connections
<1> QED
  BY <1>5, <1>7, <1>8 DEF Connections

\* The handlers up to last get their sessions.
LEMMA SwitchedPlaces ==
    ASSUME IInv, NEW i \in DOMAIN handlers, NEW last \in Int, i # FirstId,
           FirstId \in DOMAIN handlers, SwitchHandlers(i, last), last >= FirstId, PeeksMagic(i),
           UNCHANGED <<next_id, backlog, client>>
    PROVE  Connections'
<1>1. Connections /\ HandlersOK /\ ListShape
  BY TypeParts DEF IInv
<1>2. /\ DOMAIN handlers' = DOMAIN handlers
      /\ \A j \in DOMAIN handlers :
            /\ handlers'[j].conn = handlers[j].conn
            /\ handlers'[j].kind = IF j > last THEN handlers[j].kind
                                   ELSE IF j = FirstId THEN "accept_regular"
                                   ELSE IF j = i THEN "aux" ELSE "session"
  BY <1>1, SwitchedHandlers
<1>3. \A c : InList(c)' <=> InList(c)
  BY <1>2 DEF InList
<1>4. \A c : InBacklog(c)' <=> InBacklog(c)
  BY DEF InBacklog
<1>5. handlers[i].conn = Aux /\ handlers[FirstId].conn = Listener
  BY <1>1, OwnMagic DEF ListShape, HandlerShape
<1>6. ASSUME NEW c \in Clients PROVE Placed(c)'
  <2>1. session'[c] = IF \E j \in DOMAIN handlers : j <= last /\ handlers[j].conn = c
                      THEN "open" ELSE session[c]
    BY DEF SwitchHandlers
  <2>2. CASE ~InList(c)
    <3>1. session'[c] = session[c]
      BY <2>1, <2>2 DEF InList
    <3> QED
      BY <1>1, <1>2, <1>3, <1>4, <2>2, <3>1 DEF Connections, Placed, InList
  <2>3. ASSUME NEW j \in DOMAIN handlers, handlers[j].conn = c
        PROVE  Placed(c)'
    <3>1. InList(c) /\ ~InBacklog(c) /\ client[c] # "new" /\ j # i /\ j # FirstId
      BY <1>1, <1>5, <2>3 DEF Connections, InList, Conns, Placed
    <3>2. \A l \in DOMAIN handlers : handlers[l].conn = c => l = j
      BY <1>1, <2>3 DEF ListShape, OneEach
    <3>3. session[c] = IF handlers[j].kind = "session" THEN "open" ELSE "none"
      BY <1>1, <2>3 DEF Connections, Placed
    <3>4. j \in Int
      BY <1>1, HandlerType
    <3>5. session'[c] = IF handlers'[j].kind = "session" THEN "open" ELSE "none"
      BY <1>2, <2>1, <2>3, <3>1, <3>2, <3>3, <3>4
    <3>6. InList(c)' /\ ~InBacklog(c)' /\ client'[c] # "new"
      BY <1>3, <1>4, <3>1
    <3>7. \A l \in DOMAIN handlers' : handlers'[l].conn = c => l = j
      BY <1>2, <3>2
    <3> QED
      BY <3>5, <3>6, <3>7 DEF Placed
  <2> QED
    BY <2>2, <2>3 DEF InList
<1> QED
  BY <1>1, <1>3, <1>4, <1>6 DEF Connections

LEMMA ConnectionsStep ==
    ASSUME IInv, Next
    PROVE  Connections'
<1>1. Connections /\ HandlersOK /\ ListShape /\ NetOK /\ CountsOK
  BY TypeParts DEF IInv
<1>2. CASE Start
  <2>1. DOMAIN handlers' = {FirstId} /\ handlers'[FirstId].conn = Listener
    BY <1>1, <1>2, StartHandlers
  <2>2. DOMAIN handlers = {} /\ ~InBacklog(Aux) /\ backlog' = Append(backlog, Aux)
        /\ UNCHANGED <<client, session>>
    BY <1>1, <1>2 DEF Start, ListShape, Phases, sessions
  <2>3. \A c \in Conns : ~InList(c)' /\ ~InList(c)
    BY <2>1, <2>2 DEF InList, Conns
  <2>4. \A c \in Clients : InBacklog(c)' => InBacklog(c)
    BY <1>1, <2>2 DEF InBacklog, NetOK
  <2>5. \A k, l \in 1..Len(backlog') : k # l => backlog'[k] # backlog'[l]
    BY <1>1, <2>2 DEF InBacklog, NetOK, Connections
  <2>6. ASSUME NEW c \in Clients PROVE Placed(c)'
    BY <1>1, <2>1, <2>2, <2>3, <2>4 DEF Connections, Placed, Conns
  <2> QED
    BY <2>3, <2>5, <2>6 DEF Connections
<1>3. CASE Join
  <2>1. DOMAIN handlers' = {} /\ UNCHANGED <<backlog, client>>
    BY <1>1, <1>3, DropHandlers DEF Join, net
  <2>2. ASSUME NEW c \in Clients PROVE Placed(c)'
    <3>1. session'[c] = IF session[c] = "open" THEN "destroyed" ELSE session[c]
      BY <1>3 DEF Join
    <3>2. InBacklog(c)' <=> InBacklog(c)
      BY <2>1 DEF InBacklog
    <3> QED
      BY <1>1, <2>1, <3>1, <3>2 DEF Connections, Placed, InList
  <2> QED
    BY <1>1, <2>1, <2>2 DEF Connections, InList
<1>4. CASE ConnectAuxFails \/ Destroy \/ Select \/ EndRound \/ SelectFails
  BY <1>4, SamePlaces DEF ConnectAuxFails, Destroy, Select, EndRound, SelectFails, thread, net, sessions
<1>5. ASSUME NEW c \in Clients, Connect(c)
      PROVE  Connections'
  <2>1. UNCHANGED <<handlers, session>> /\ client[c] = "new" /\ backlog' = Append(backlog, c)
    BY <1>5 DEF Connect, thread, sessions
  <2>2. \A d \in Clients : client'[d] = IF d = c THEN "connected" ELSE client[d]
    BY <1>1, <1>5 DEF Connect, NetOK
  <2>3. \A d : InList(d)' <=> InList(d)
    BY <2>1 DEF InList
  <2>4. ~InBacklog(c) /\ ~InList(c) /\ session[c] = "none"
    BY <1>1, <2>1 DEF Connections, Placed
  <2>5. \A d : InBacklog(d)' => InBacklog(d) \/ d = c
    BY <1>1, <2>1 DEF InBacklog, NetOK
  <2>6. \A k, l \in 1..Len(backlog') : k # l => backlog'[k] # backlog'[l]
    BY <1>1, <2>1, <2>4 DEF InBacklog, NetOK, Connections
  <2>7. ASSUME NEW d \in Clients PROVE Placed(d)'
    BY <1>1, <2>1, <2>2, <2>3, <2>4, <2>5 DEF Connections, Placed
  <2>8. \A d \in Conns : InBacklog(d)' => ~InList(d)'
    BY <1>1, <2>3, <2>4, <2>5 DEF Connections
  <2> QED
    BY <2>6, <2>7, <2>8 DEF Connections
<1>6. ASSUME NEW c \in Clients, SendSize(c) \/ SendPayload(c) \/ Close(c) \/ Disconnect(c)
      PROVE  Connections'
  <2>1. UNCHANGED <<handlers, session, backlog>>
    BY <1>6 DEF SendSize, SendPayload, SendHalf, Close, Disconnect, thread, sessions
  <2>2. \A d \in Clients : client'[d] = "new" => client[d] = "new"
    BY <1>1, <1>6 DEF SendSize, SendPayload, SendHalf, Close, Disconnect, NetOK
  <2> QED
    BY <2>1, <2>2, SamePlaces
<1>7. ASSUME NEW i \in DOMAIN handlers, AcceptFails(i) \/ handle_payload(i)
      PROVE  Connections'
  BY <1>7, SamePlaces DEF AcceptFails, handle_payload, sessions, net
<1>8. ASSUME NEW i \in DOMAIN handlers, accept_preinit(i)
      PROVE  Connections'
  BY <1>8, AcceptedPlace DEF accept_preinit, sessions
<1>9. ASSUME NEW i \in DOMAIN handlers, accept_regular(i)
      PROVE  Connections'
  <2>1. backlog # << >> /\ backlog' = Tail(backlog) /\ TakeId /\ UNCHANGED client
    BY <1>9 DEF accept_regular
  <2>2. CASE UNCHANGED <<handlers, session>>
    BY <2>1, <2>2, SamePlaces
  <2>3. ASSUME NEW f \in Fds, PushBack(Head(backlog), f, "session"),
               session' = [session EXCEPT ![Head(backlog)] = "open"]
        PROVE  Connections'
    <3>1. \A c \in Clients : session'[c] = IF c = Head(backlog) THEN "open" ELSE session[c]
      BY <1>1, <2>3 DEF CountsOK
    <3> QED
      BY <2>1, <2>3, <3>1, AcceptedPlace
  <2> QED
    BY <1>9, <2>2, <2>3 DEF accept_regular
<1>10. ASSUME NEW i \in DOMAIN handlers, handle_preinit(i)
       PROVE  Connections'
  <2>1. FirstId \in DOMAIN handlers
    BY <1>10, Dispatched DEF handle_preinit
  <2>2. i # FirstId /\ UNCHANGED <<next_id, backlog, client>>
        /\ \/ UNCHANGED <<handlers, session>>
           \/ \E last \in Int : SwitchHandlers(i, last) /\ last >= FirstId /\ PeeksMagic(i)
    BY <1>10, Handshake
  <2> QED
    BY <2>1, <2>2, SwitchedPlaces, SamePlaces
<1>11. ASSUME NEW i \in DOMAIN handlers, handle_session(i)
       PROVE  Connections'
  <2>1. handlers[i].conn \in Clients /\ UNCHANGED <<next_id, backlog, client>>
    BY <1>11, Dispatched DEF handle_session, net
  <2>2. CASE UNCHANGED <<handlers, session>>
    BY <2>1, <2>2, SamePlaces
  <2>3. CASE Erase(i) /\ session' = [session EXCEPT ![handlers[i].conn] = "disconnected"]
    BY <2>1, <2>3, ErasedPlace
  <2> QED
    BY <1>11, <2>2, <2>3 DEF handle_session
<1>12. ASSUME NEW i \in DOMAIN handlers, handle_aux(i)
       PROVE  Connections'
  <2>1. UNCHANGED <<next_id, backlog, client>> /\ aux # << >>
    BY <1>12 DEF handle_aux
  <2>2. CASE UNCHANGED <<handlers, session>>
    BY <2>1, <2>2, SamePlaces
  <2>3. ASSUME NEW k \in Addressee(Head(aux)), Erase(k),
               session' = [session EXCEPT ![handlers[k].conn] = "destroyed"]
        PROVE  Connections'
    <3>1. k \in DOMAIN handlers /\ handlers[k].conn \in Clients
      BY <2>1, AddresseeIsKicked
    <3> QED
      BY <2>1, <2>3, <3>1, ErasedPlace
  <2> QED
    BY <1>12, <2>2, <2>3 DEF handle_aux
<1> QED
  BY <1>2, <1>3, <1>4, <1>5, <1>6, <1>7, <1>8, <1>9, <1>10, <1>11, <1>12 DEF Next, run

-----------------------------------------------------------------------------
(* How sessions end *)

\* The session that is fed is open.
LEMMA FedSession ==
    ASSUME IInv, NEW i \in DOMAIN handlers, handlers[i].kind = "session"
    PROVE  handlers[i].conn \in Clients /\ session[handlers[i].conn] = "open"
<1>1. HandlersOK /\ ListShape /\ Connections
  BY TypeParts DEF IInv
<1>2. handlers[i].conn \in Clients
  BY <1>1, HandlerType DEF ListShape, HandlerShape
<1> QED
  BY <1>1, <1>2 DEF Connections, Placed

LEMMA EndsStep ==
    ASSUME IInv, Next
    PROVE  EndsForAReason'
<1> DEFINE Reason(c) == /\ session[c] = "disconnected" => client[c] = "closed" /\ taken[c] = sent[c]
                        /\ session[c] = "destroyed" => kicks[c] > 0 \/ owner = "joined"
<1>1. HandlersOK /\ NetOK /\ CountsOK /\ Frames
  BY TypeParts DEF IInv
<1>2. \A c \in Clients : Reason(c)
  BY DEF IInv, EndsForAReason
<1>3. SUFFICES ASSUME NEW c \in Clients PROVE Reason(c)'
  BY DEF EndsForAReason
<1>4. CASE Start \/ ConnectAuxFails \/ Destroy \/ Select \/ EndRound \/ SelectFails
  <2>1. UNCHANGED <<session, client, taken, sent, kicks>> /\ (owner = "joined" => owner' = "joined")
    BY <1>4 DEF Start, ConnectAuxFails, Destroy, Select, EndRound, SelectFails, sessions, net
  <2> QED
    BY <1>2, <2>1
<1>5. CASE Join
  <2>1. UNCHANGED <<client, taken, sent, kicks>> /\ owner' = "joined"
        /\ session'[c] = IF session[c] = "open" THEN "destroyed" ELSE session[c]
    BY <1>5 DEF Join, net
  <2> QED
    BY <1>2, <2>1
<1>6. ASSUME NEW d \in Clients, Connect(d) \/ Close(d)
      PROVE  Reason(c)'
  <2>1. UNCHANGED <<session, taken, sent, kicks, owner>>
        /\ (client[c] = "closed" => client'[c] = "closed")
    BY <1>1, <1>6 DEF Connect, Close, sessions, NetOK
  <2> QED
    BY <1>2, <2>1
<1>7. ASSUME NEW d \in Clients, SendSize(d) \/ SendPayload(d)
      PROVE  Reason(c)'
  <2>1. UNCHANGED <<session, client, taken, kicks, owner>>
        /\ (client[c] = "closed" => sent'[c] = sent[c])
    BY <1>1, <1>7 DEF SendSize, SendPayload, SendHalf, sessions, CountsOK
  <2> QED
    BY <1>2, <2>1
<1>8. ASSUME NEW d \in Clients, Disconnect(d)
      PROVE  Reason(c)'
  <2>1. UNCHANGED <<session, client, taken, sent, owner>>
        /\ (kicks[c] > 0 => kicks'[c] > 0)
    BY <1>1, <1>8 DEF Disconnect, sessions, CountsOK
  <2> QED
    BY <1>2, <2>1
<1>9. ASSUME NEW i \in DOMAIN handlers,
             accept_preinit(i) \/ accept_regular(i) \/ AcceptFails(i) \/ handle_preinit(i)
      PROVE  Reason(c)'
  <2>1. UNCHANGED <<client, taken, sent, kicks, owner>>
    BY <1>9 DEF accept_preinit, accept_regular, AcceptFails, handle_preinit
  <2>2. session'[c] \in {session[c], "open"}
    <3>1. CASE accept_preinit(i) \/ AcceptFails(i)
      BY <3>1 DEF accept_preinit, AcceptFails, sessions
    <3>2. CASE accept_regular(i)
      BY <1>1, <3>2 DEF accept_regular, CountsOK
    <3>3. CASE handle_preinit(i)
      BY <3>3 DEF handle_preinit, SwitchHandlers
    <3> QED
      BY <1>9, <3>1, <3>2, <3>3
  <2> QED
    BY <1>2, <2>1, <2>2
<1>10. ASSUME NEW i \in DOMAIN handlers, handle_session(i)
       PROVE  Reason(c)'
  <2> DEFINE d == handlers[i].conn
  <2>1. d \in Clients /\ session[d] = "open"
    BY <1>10, FedSession DEF handle_session, Dispatch
  <2>2. UNCHANGED <<client, sent, kicks, owner>>
    BY <1>10 DEF handle_session, net
  <2>3. CASE taken' = [taken EXCEPT ![d] = @ + 1] /\ UNCHANGED session
    BY <1>1, <1>2, <2>1, <2>2, <2>3 DEF CountsOK
  <2>4. CASE PeerGone(d) /\ session' = [session EXCEPT ![d] = "disconnected"] /\ UNCHANGED taken
    BY <1>1, <1>2, <2>1, <2>2, <2>4 DEF CountsOK, PeerGone
  <2> QED
    BY <1>10, <2>3, <2>4 DEF handle_session
<1>11. ASSUME NEW i \in DOMAIN handlers, handle_payload(i)
       PROVE  Reason(c)'
  <2> DEFINE d == handlers[i].conn
  <2>1. d \in Clients /\ session[d] = "open"
    BY <1>1, <1>11, FedSession DEF handle_payload, Frames
  <2>2. UNCHANGED <<client, sent, kicks, owner, session>>
    BY <1>11 DEF handle_payload, net
  <2>3. taken' = [taken EXCEPT ![d] = @ + 1] \/ UNCHANGED taken
    BY <1>11 DEF handle_payload
  <2> QED
    BY <1>1, <1>2, <2>1, <2>2, <2>3 DEF CountsOK
<1>12. ASSUME NEW i \in DOMAIN handlers, handle_aux(i)
       PROVE  Reason(c)'
  <2>1. UNCHANGED <<client, taken, sent, kicks, owner>> /\ aux # << >>
    BY <1>12 DEF handle_aux
  <2>2. UNCHANGED session \/ \E k \in Addressee(Head(aux)) :
            session' = [session EXCEPT ![handlers[k].conn] = "destroyed"]
    BY <1>12 DEF handle_aux
  <2>3. ASSUME NEW k \in Addressee(Head(aux)),
               session' = [session EXCEPT ![handlers[k].conn] = "destroyed"]
        PROVE  Reason(c)'
    <3>1. kicks[handlers[k].conn] > 0
      BY <2>1, AddresseeIsKicked
    <3> QED
      BY <1>1, <1>2, <2>1, <2>3, <3>1 DEF CountsOK
  <2> QED
    BY <1>2, <2>1, <2>2, <2>3
<1> QED
  BY <1>4, <1>5, <1>6, <1>7, <1>8, <1>9, <1>10, <1>11, <1>12 DEF Next, run

-----------------------------------------------------------------------------
(* The auxiliary connection *)

\* An id keeps its connection as long as it is in the list, whatever becomes of the others,
\* and it becomes the auxiliary handler by reading the magic.
LEMMA ListChange ==
    ASSUME IInv, Next, ~Start, NEW j \in DOMAIN handlers'
    PROVE  /\ \/ j = next_id /\ next_id' = next_id + 1 /\ handlers'[j].kind # "aux"
              \/ /\ j \in DOMAIN handlers
                 /\ handlers'[j].conn = handlers[j].conn /\ handlers'[j].fd = handlers[j].fd
                 /\ \/ handlers'[j].kind = handlers[j].kind
                    \/ aux # << >> /\ aux' = Tail(aux)
<1>1. HandlersOK /\ ListShape /\ NetOK
  BY TypeParts DEF IInv
<1>2. CASE UNCHANGED handlers
  BY <1>2
<1>3. CASE Join
  BY <1>1, <1>3, DropHandlers DEF Join
<1>4. CASE ConnectAuxFails \/ Destroy \/ Select \/ EndRound \/ SelectFails
  BY <1>2, <1>4 DEF ConnectAuxFails, Destroy, Select, EndRound, SelectFails, thread
<1>5. ASSUME NEW c \in Clients,
             Connect(c) \/ SendSize(c) \/ SendPayload(c) \/ Close(c) \/ Disconnect(c)
      PROVE  UNCHANGED handlers
  BY <1>5 DEF Connect, SendSize, SendPayload, SendHalf, Close, Disconnect, thread
<1>6. ASSUME NEW f \in Fds, NEW k \in {"preinit", "session"}, backlog # << >>, TakeId,
             PushBack(Head(backlog), f, k)
      PROVE  \/ j = next_id /\ next_id' = next_id + 1 /\ handlers'[j].kind # "aux"
             \/ j \in DOMAIN handlers /\ handlers'[j] = handlers[j]
  <2>1. Head(backlog) \in Conns
    BY <1>1, <1>6, BacklogHead
  <2>2. /\ DOMAIN handlers' = DOMAIN handlers \cup {next_id}
        /\ handlers'[next_id] = [conn |-> Head(backlog), fd |-> f, kind |-> k]
        /\ \A i \in DOMAIN handlers : handlers'[i] = handlers[i]
    BY <1>1, <1>6, <2>1, PushBackHandlers
  <2> QED
    BY <1>6, <2>2 DEF TakeId
<1>7. ASSUME NEW i \in DOMAIN handlers, accept_preinit(i) \/ accept_regular(i)
      PROVE  \/ UNCHANGED handlers
             \/ j = next_id /\ next_id' = next_id + 1 /\ handlers'[j].kind # "aux"
             \/ j \in DOMAIN handlers /\ handlers'[j] = handlers[j]
  BY <1>6, <1>7 DEF accept_preinit, accept_regular
<1>8. ASSUME NEW i \in DOMAIN handlers, AcceptFails(i) \/ handle_payload(i)
      PROVE  UNCHANGED handlers
  BY <1>8 DEF AcceptFails, handle_payload
<1>9. ASSUME NEW i \in DOMAIN handlers, handle_preinit(i), handlers' # handlers
      PROVE  /\ j \in DOMAIN handlers
             /\ handlers'[j].conn = handlers[j].conn /\ handlers'[j].fd = handlers[j].fd
             /\ aux # << >> /\ aux' = Tail(aux)
  <2>1. FirstId \in DOMAIN handlers /\ i # FirstId /\ next_id' = next_id
    BY <1>9, Dispatched DEF handle_preinit
  <2>2. PICK last \in Int : SwitchHandlers(i, last) /\ PeeksMagic(i) /\ aux' = Tail(aux)
    BY <1>9, Handshake
  <2> QED
    BY <1>1, <2>1, <2>2, SwitchedHandlers, OwnMagic
<1>10. ASSUME NEW i \in DOMAIN handlers, handle_session(i) \/ handle_aux(i), handlers' # handlers
       PROVE  j \in DOMAIN handlers /\ handlers'[j] = handlers[j]
  <2>1. \E k \in DOMAIN handlers : Erase(k)
    BY <1>10 DEF handle_session, handle_aux, Addressee
  <2>2. UNCHANGED next_id
    BY <1>10 DEF handle_session, handle_aux
  <2> QED
    BY <1>1, <2>1, <2>2, EraseHandlers
<1> QED
  BY <1>2, <1>3, <1>4, <1>5, <1>7, <1>8, <1>9, <1>10 DEF Next, run

\* Ids are given out once, in order.
LEMMA IdsGrow ==
    ASSUME IInv, Next
    PROVE  /\ next_id' \in {next_id, next_id + 1} /\ next_id \in Nat /\ next_id' \in Nat
           /\ next_id >= FirstId
<1>1. HandlersOK /\ ListShape
  BY TypeParts DEF IInv
<1>2. next_id' \in {next_id, next_id + 1}
  BY DEF Next, run, Start, ConnectAuxFails, Destroy, Join, Connect, SendSize, SendPayload,
         SendHalf, Close, Disconnect, Select, EndRound, SelectFails, accept_preinit,
         accept_regular, AcceptFails, handle_preinit, handle_session, handle_payload,
         handle_aux, TakeId, thread
<1> QED
  BY <1>1, <1>2 DEF HandlersOK, ListShape, Phases

\* A word stays what it is while it waits.
LEMMA WordKept ==
    ASSUME IInv, Next, ~Start, NEW w, NEW k, WordOK(w, k),
           w = InitMagic => ~(aux # << >> /\ aux' = Tail(aux))
    PROVE  WordOK(w, k)'
<1>1. next_id' \in {next_id, next_id + 1} /\ next_id \in Nat
  BY IdsGrow
<1>2. owner # "running" => owner' # "running"
  BY DEF Next, run, ConnectAuxFails, Destroy, Join, Connect, SendSize, SendPayload,
         SendHalf, Close, Disconnect, Select, EndRound, SelectFails, accept_preinit,
         accept_regular, AcceptFails, handle_preinit, handle_session, handle_payload,
         handle_aux
<1>3. \A c \in Clients : kicks[c] > 0 => kicks'[c] > 0
  <2>1. UNCHANGED kicks \/ \E c \in Clients : kicks' = [kicks EXCEPT ![c] = @ + 1]
    BY DEF Next, run, Start, ConnectAuxFails, Destroy, Join, Connect, SendSize, SendPayload,
           SendHalf, Close, Disconnect, Select, EndRound, SelectFails, accept_preinit,
           accept_regular, AcceptFails, handle_preinit, handle_session, handle_payload,
           handle_aux
  <2>2. kicks \in [Clients -> 0..MaxKicks]
    BY DEF IInv, TypeOK
  <2> QED
    BY <2>1, <2>2
<1>4. CASE w = InitMagic
  <2>1. k = 1 /\ \A i \in DOMAIN handlers : handlers[i].kind # "aux"
    BY <1>1, <1>4, FirstIdType DEF WordOK
  <2>2. \A i \in DOMAIN handlers' : handlers'[i].kind # "aux"
    BY <1>4, <2>1, ListChange
  <2> QED
    BY <1>4, <2>1, <2>2 DEF WordOK
<1>5. CASE w = 0 /\ owner # "running"
  BY <1>2, <1>5 DEF WordOK
<1>6. ASSUME w \in FirstId..(next_id - 1),
             w \in DOMAIN handlers => handlers[w].conn \in Clients /\ kicks[handlers[w].conn] > 0
      PROVE  WordOK(w, k)'
  <2>1. w # next_id /\ w \in FirstId..(next_id' - 1)
    BY <1>1, <1>6, FirstIdType, StillBelow
  <2>2. w \in DOMAIN handlers' => w \in DOMAIN handlers /\ handlers'[w].conn = handlers[w].conn
    BY <2>1, ListChange
  <2> QED
    BY <1>3, <1>6, <2>1, <2>2 DEF WordOK
<1> QED
  BY <1>4, <1>5, <1>6 DEF WordOK

LEMMA WordsStep ==
    ASSUME IInv, Next
    PROVE  Words'
<1>1. HandlersOK /\ ListShape /\ NetOK /\ Words /\ CountsOK
  BY TypeParts DEF IInv
<1>2. CASE Start
  <2>1. aux' = <<InitMagic>> /\ DOMAIN handlers' = {FirstId}
        /\ handlers'[FirstId] = [conn |-> Listener, fd |-> Listener, kind |-> "accept_preinit"]
    BY <1>1, <1>2, StartHandlers DEF Start
  <2>2. WordOK(InitMagic, 1)'
    BY <2>1 DEF WordOK
  <2>3. Len(aux') = 1 /\ aux'[1] = InitMagic
    BY <2>1
  <2>4. \A k \in 1..Len(aux') : k = 1
    BY <2>3
  <2> QED
    BY <2>2, <2>3, <2>4 DEF Words, WordOK
<1>3. CASE ~Start /\ aux' = aux
  <2>1. ASSUME NEW k \in 1..Len(aux) PROVE WordOK(aux[k], k)'
    <3>1. aux # << >> => aux # Tail(aux)
      BY <1>1, AuxHead DEF NetOK
    <3>2. PICK w : w = aux[k]
      OBVIOUS
    <3>3. WordOK(w, k)'
      BY <1>1, <1>3, <3>1, <3>2, WordKept DEF Words
    <3> QED
      BY <1>3, <3>2, <3>3 DEF WordOK
  <2> QED
    BY <1>3, <2>1 DEF Words, WordOK
<1>4. ASSUME ~Start, NEW w \in Nat, WordOK(w, Len(aux) + 1)', aux' = Append(aux, w)
      PROVE  Words'
  <2>1. Len(aux) \in Nat /\ Len(aux') = Len(aux) + 1 /\ aux'[Len(aux) + 1] = w
        /\ \A k \in 1..Len(aux) : aux'[k] = aux[k]
    BY <1>1, <1>4 DEF NetOK
  <2>2. ~(aux' = Tail(aux) /\ aux # << >>)
    BY <1>1, <2>1, AuxHead
  <2>3. ASSUME NEW k \in 1..Len(aux) PROVE WordOK(aux[k], k)'
    <3>1. PICK v : v = aux[k]
      OBVIOUS
    <3>2. WordOK(v, k)'
      BY <1>1, <1>4, <2>2, <3>1, WordKept DEF Words
    <3>3. v = aux'[k]
      BY <2>1, <3>1
    <3> QED
      BY <3>2, <3>3 DEF WordOK
  <2>4. ASSUME NEW k \in 1..Len(aux') PROVE WordOK(aux[k], k)'
    <3>1. CASE k \in 1..Len(aux)
      BY <2>3, <3>1
    <3>2. CASE k = Len(aux) + 1
      BY <1>4, <2>1, <3>2 DEF WordOK
    <3> QED
      BY <2>1, <3>1, <3>2
  <2> QED
    BY <2>4 DEF Words
<1>5. ASSUME ~Start, aux # << >>, aux' = Tail(aux)
      PROVE  Words'
  <2>1. Len(aux) \in Nat /\ Len(aux') = Len(aux) - 1
        /\ \A k \in 1..Len(aux') : aux'[k] = aux[k + 1] /\ k + 1 \in 1..Len(aux) /\ k + 1 # 1
    BY <1>1, <1>5, AuxHead DEF NetOK
  <2>2. ASSUME NEW k \in 1..Len(aux') PROVE WordOK(aux[k], k)'
    <3>1. PICK v : v = aux[k + 1]
      OBVIOUS
    <3>2. WordOK(v, k + 1) /\ k + 1 # 1
      BY <1>1, <2>1, <3>1 DEF Words
    <3>3. 0 # InitMagic /\ \A x \in FirstId..(next_id - 1) : x # InitMagic
      BY <1>1, FirstIdType DEF HandlersOK
    <3>4. v # InitMagic /\ WordOK(v, k)
      BY <3>2, <3>3 DEF WordOK
    <3>5. WordOK(v, k)'
      BY <1>5, <3>4, WordKept
    <3>6. v = aux'[k]
      BY <2>1, <3>1
    <3> QED
      BY <3>5, <3>6 DEF WordOK
  <2> QED
    BY <2>2 DEF Words
<1>6. CASE Destroy
  <2>1. aux' = Append(aux, 0) /\ owner' = "stopping" /\ ~Start
    BY <1>6 DEF Destroy, Start
  <2>2. WordOK(0, Len(aux) + 1)'
    BY <2>1 DEF WordOK
  <2> QED
    BY <1>4, <2>1, <2>2
<1>7. ASSUME NEW c \in Clients, Disconnect(c)
      PROVE  Words'
  <2>1. PICK i \in DOMAIN handlers : handlers[i].conn = c /\ aux' = Append(aux, i)
    BY <1>7 DEF Disconnect, send_scalar
  <2>2. i \in FirstId..(next_id - 1) /\ i \in Nat
    BY <1>1, <2>1, FirstIdType DEF HandlersOK
  <2>3. UNCHANGED <<next_id, handlers, server>> /\ kicks'[c] > 0
    BY <1>1, <1>7 DEF Disconnect, thread, CountsOK
  <2>4. WordOK(i, Len(aux) + 1)'
    BY <2>1, <2>2, <2>3 DEF WordOK
  <2>5. ~Start
    BY <1>1, <1>7 DEF Start, ListShape, Phases, Disconnect
  <2> QED
    BY <1>4, <2>1, <2>2, <2>4, <2>5
<1>8. ASSUME ~Destroy, \A c \in Clients : ~Disconnect(c)
      PROVE  Start \/ aux' = aux \/ (aux # << >> /\ aux' = Tail(aux))
  BY <1>8, OwnMagic DEF Next, run, ConnectAuxFails, Join, Connect, SendSize, SendPayload,
         SendHalf, Close, Select, EndRound, SelectFails, accept_preinit,
         accept_regular, AcceptFails, handle_preinit, handle_session, handle_payload,
         handle_aux, net
<1> QED
  BY <1>2, <1>3, <1>5, <1>6, <1>7, <1>8

-----------------------------------------------------------------------------
(* The bits of select() *)

\* A handler stays readable while the connections of others are read.
LEMMA ReadableKept ==
    ASSUME IInv, NEW i \in DOMAIN handlers, Readable(i), i \in DOMAIN handlers',
           handlers'[i].conn = handlers[i].conn,
           handlers[i].conn = Listener /\ backlog # << >> => backlog' # << >>,
           handlers[i].conn = Aux /\ aux # << >> => aux' # << >>,
           ASSUME NEW c \in Clients, handlers[i].conn = c,
                  taken[c] < sent[c] \/ client[c] = "closed"
           PROVE  taken'[c] < sent'[c] \/ client'[c] = "closed"
    PROVE  Readable(i)'
<1>1. handlers[i].conn \in Clients \cup {Aux, Listener}
  BY HandlerType, TypeParts DEF IInv
<1> QED
  BY <1>1 DEF Readable

\* What the owner and the peers do takes nothing away from the thread.
LEMMA OthersBits ==
    ASSUME IInv, UNCHANGED <<handlers, ready, at, server>>,
           backlog # << >> => backlog' # << >>, aux # << >> => aux' # << >>,
           \A c \in Clients : taken[c] < sent[c] \/ client[c] = "closed"
                                => taken'[c] < sent'[c] \/ client'[c] = "closed"
    PROVE  Bits'
<1>1. ASSUME NEW i \in DOMAIN handlers, Readable(i)
      PROVE  Readable(i)'
  BY <1>1, ReadableKept
<1>2. Pending' = Pending /\ Pending \subseteq DOMAIN handlers
  BY DEF Pending
<1> QED
  BY <1>1, <1>2 DEF IInv, Bits

\* After a handler has been called, those behind it are as they were.
LEMMA CalledBits ==
    ASSUME IInv, Next, NEW i \in Pending, \A j \in Pending : i <= j,
           server = "round", at' = i, UNCHANGED ready,
           \A j \in DOMAIN handlers' : handlers'[j].fd \in ready =>
                j \in DOMAIN handlers /\ handlers'[j].conn = handlers[j].conn
                                      /\ handlers'[j].fd = handlers[j].fd,
           handlers[i].conn # Listener /\ backlog # << >> => backlog' # << >>,
           handlers[i].conn # Aux /\ aux # << >> => aux' # << >>,
           \A c \in Clients : handlers[i].conn # c => taken'[c] = taken[c],
           UNCHANGED <<client, sent>>
    PROVE  Bits'
<1>1. HandlersOK /\ ListShape /\ Bits
  BY TypeParts DEF IInv
<1>2. i \in DOMAIN handlers /\ i >= FirstId /\ i \in Nat /\ i > at
  BY <1>1, HandlerType DEF Pending
<1>3. at \in Nat /\ \A j \in DOMAIN handlers : j \in Nat
  BY <1>1, HandlerType, FirstIdType, TypeParts DEF IInv, PassOK
<1>4. ASSUME NEW j \in Pending' PROVE Readable(j)'
  <2>1. j \in DOMAIN handlers' /\ j > i /\ handlers'[j].fd \in ready
    BY <1>4 DEF Pending
  <2>2. j \in DOMAIN handlers /\ handlers'[j].conn = handlers[j].conn
        /\ handlers'[j].fd = handlers[j].fd
    BY <2>1
  <2>3. j > at
    BY <1>2, <1>3, <2>1, <2>2
  <2>4. Readable(j)
    BY <1>1, <2>1, <2>2, <2>3 DEF Bits, Pending
  <2>5. handlers[j].conn # handlers[i].conn
    BY <1>1, <1>2, <1>3, <2>1, <2>2 DEF ListShape, OneEach
  <2> QED
    BY <2>1, <2>2, <2>4, <2>5, ReadableKept
<1>5. ~(at' < FirstId)
  BY <1>2, FirstIdType
<1> QED
  BY <1>4, <1>5 DEF Bits

LEMMA BitsStep ==
    ASSUME IInv, Next
    PROVE  Bits'
<1>1. HandlersOK /\ ListShape /\ NetOK /\ CountsOK /\ PassOK /\ Bits /\ Frames
  BY TypeParts DEF IInv
<1>2. CASE server' \notin {"round", "payload"}
  BY <1>2 DEF Bits
<1>3. CASE Select
  <2>1. at' = 0 /\ ready' = Selected /\ UNCHANGED <<handlers, backlog, aux, client, sent, taken>>
    BY <1>3 DEF Select, net
  <2>2. \A f \in ready' : \E i \in DOMAIN handlers' : handlers'[i].fd = f
    BY <2>1 DEF Selected, Watched
  <2>3. ASSUME NEW i \in Pending' PROVE Readable(i)'
    <3>1. i \in DOMAIN handlers /\ handlers[i].fd \in Selected
      BY <2>1 DEF Pending
    <3>2. PICK k \in DOMAIN handlers : Readable(k) /\ handlers[k].fd = handlers[i].fd
      BY <3>1 DEF Selected, Watched
    <3>3. k = i
      BY <1>1, <3>1, <3>2 DEF ListShape, OneEach
    <3> QED
      BY <2>1, <3>1, <3>2, <3>3, ReadableKept
  <2> QED
    BY <2>2, <2>3 DEF Bits
<1>4. CASE Start \/ EndRound \/ SelectFails \/ Join
  <2>1. server' \notin {"round", "payload"}
    BY <1>4 DEF Start, EndRound, SelectFails, Fail, Join
  <2> QED
    BY <1>2, <2>1
<1>5. CASE ConnectAuxFails \/ Destroy
  <2>1. UNCHANGED <<handlers, ready, at, server, backlog, client, sent, taken>>
    BY <1>5 DEF ConnectAuxFails, Destroy, thread, net
  <2>2. aux # << >> => aux' # << >>
    BY <1>1, <1>5 DEF ConnectAuxFails, Destroy, net, NetOK
  <2> QED
    BY <2>1, <2>2, OthersBits
<1>6. ASSUME NEW c \in Clients, Connect(c)
      PROVE  Bits'
  <2>1. UNCHANGED <<handlers, ready, at, server, aux, sent, taken>>
    BY <1>6 DEF Connect, thread
  <2>2. backlog # << >> => backlog' # << >>
    BY <1>1, <1>6, SMTT(30) DEF Connect, NetOK
  <2>3. \A d \in Clients : client[d] = "closed" => client'[d] = "closed"
    BY <1>1, <1>6 DEF Connect, NetOK
  <2> QED
    BY <2>1, <2>2, <2>3, OthersBits
<1>7. ASSUME NEW c \in Clients, Close(c)
      PROVE  Bits'
  <2>1. UNCHANGED <<handlers, ready, at, server, aux, backlog, sent, taken>>
    BY <1>7 DEF Close, thread
  <2>2. \A d \in Clients : client[d] = "closed" => client'[d] = "closed"
    BY <1>1, <1>7 DEF Close, NetOK
  <2> QED
    BY <2>1, <2>2, OthersBits
<1>8. ASSUME NEW c \in Clients, SendSize(c) \/ SendPayload(c)
      PROVE  Bits'
  <2>1. UNCHANGED <<handlers, ready, at, server, aux, backlog, client, taken>>
    BY <1>8 DEF SendSize, SendPayload, SendHalf, thread
  <2>2. \A d \in Clients : taken[d] < sent[d] => taken'[d] < sent'[d]
    BY <1>1, <1>8, <2>1 DEF SendSize, SendPayload, SendHalf, CountsOK
  <2> QED
    BY <2>1, <2>2, OthersBits
<1>9. ASSUME NEW c \in Clients, Disconnect(c)
      PROVE  Bits'
  <2>1. UNCHANGED <<handlers, ready, at, server, backlog, client, sent, taken>>
    BY <1>9 DEF Disconnect, thread
  <2>2. aux # << >> => aux' # << >>
    <3>1. PICK i : aux' = Append(aux, i)
      BY <1>9 DEF Disconnect, send_scalar
    <3> QED
      BY <1>1, <3>1 DEF NetOK
  <2> QED
    BY <2>1, <2>2, OthersBits
<1>10. ASSUME NEW i \in DOMAIN handlers, accept_preinit(i) \/ accept_regular(i) \/ AcceptFails(i)
       PROVE  Bits'
  <2>1. i \in Pending /\ (\A j \in Pending : i <= j) /\ server = "round" /\ i = FirstId /\ at < i
        /\ backlog # << >> /\ handlers[i].conn = Listener
    BY <1>1, <1>10, Dispatched DEF accept_preinit, accept_regular, AcceptFails, Dispatch,
                                   ListShape, HandlerShape
  <2>2. CASE server' = "exited"
    BY <1>2, <2>2
  <2>3. ASSUME NEW f \in Fds, NEW k \in {"preinit", "session"}, NewFd(f), TakeId,
               PushBack(Head(backlog), f, k), at' = i,
               UNCHANGED <<ready, aux, client, sent, taken>>
        PROVE  Bits'
    <3>1. Head(backlog) \in Conns
      BY <1>1, <2>1, BacklogHead
    <3>2. /\ DOMAIN handlers' = DOMAIN handlers \cup {next_id}
          /\ handlers'[next_id] = [conn |-> Head(backlog), fd |-> f, kind |-> k]
          /\ \A j \in DOMAIN handlers : handlers'[j] = handlers[j]
      BY <1>1, <2>3, <3>1, PushBackHandlers
    <3>3. f \notin ready
      BY <1>1, <2>1, <2>3 DEF Bits, NewFd
    <3>4. \A j \in DOMAIN handlers' : handlers'[j].fd \in ready =>
                j \in DOMAIN handlers /\ handlers'[j] = handlers[j]
      BY <3>2, <3>3
    <3> QED
      BY <2>1, <2>3, <3>4, CalledBits
  <2> QED
    BY <1>10, <2>2, <2>3 DEF accept_preinit, accept_regular, AcceptFails, Fail
<1>11. ASSUME NEW i \in DOMAIN handlers, handle_preinit(i)
       PROVE  Bits'
  <2>1. i \in Pending /\ (\A j \in Pending : i <= j) /\ server = "round" /\ at' = i
        /\ UNCHANGED <<ready, backlog, client, sent, taken, next_id>>
    BY <1>11, Handshake
  <2>2. ~Start
    BY <2>1, <1>1 DEF Start, ListShape, Phases
  <2>3. \A j \in DOMAIN handlers' : j \in DOMAIN handlers /\ handlers'[j].conn = handlers[j].conn
                                      /\ handlers'[j].fd = handlers[j].fd
    BY <1>1, <2>1, <2>2, ListChange DEF HandlersOK
  <2>4. handlers[i].conn # Aux => aux' = aux
    BY <1>11, Handshake, OwnMagic
  <2> QED
    BY <2>1, <2>3, <2>4, CalledBits
<1>12. ASSUME NEW i \in DOMAIN handlers, handle_session(i) \/ handle_aux(i)
       PROVE  Bits'
  <2>1. i \in Pending /\ (\A j \in Pending : i <= j) /\ server = "round" /\ at' = i
        /\ UNCHANGED <<ready, backlog, client, sent, next_id>>
    BY <1>12 DEF handle_session, handle_aux, Dispatch, net
  <2>2. ~Start
    BY <2>1, <1>1 DEF Start, ListShape, Phases
  <2>3. \A j \in DOMAIN handlers' : j \in DOMAIN handlers /\ handlers'[j].conn = handlers[j].conn
                                      /\ handlers'[j].fd = handlers[j].fd
    BY <1>1, <2>1, <2>2, ListChange DEF HandlersOK
  <2>4. handlers[i].conn # Aux => aux' = aux
    BY <1>12, Dispatched DEF handle_session, handle_aux, net
  <2>5. \A c \in Clients : handlers[i].conn # c => taken'[c] = taken[c]
    BY <1>1, <1>12 DEF handle_session, handle_aux, CountsOK
  <2> QED
    BY <2>1, <2>3, <2>4, <2>5, CalledBits
<1>13. ASSUME NEW i \in DOMAIN handlers, handle_payload(i)
       PROVE  Bits'
  <2>1. i = at /\ server = "payload" /\ UNCHANGED <<handlers, ready, at, backlog, aux, client, sent>>
    BY <1>13 DEF handle_payload, net
  <2>2. i \in Nat /\ i >= FirstId /\ ~(at' < FirstId)
    BY <1>1, <2>1, HandlerType, FirstIdType
  <2>3. \A c \in Clients : handlers[i].conn # c => taken'[c] = taken[c]
    BY <1>1, <1>13 DEF handle_payload, CountsOK
  <2>4. ASSUME NEW j \in Pending' PROVE Readable(j)'
    <3>1. j \in Pending /\ j \in DOMAIN handlers /\ j > at
      BY <2>1 DEF Pending
    <3>2. Readable(j) /\ j # i
      BY <1>1, <2>1, <3>1, <2>2, HandlerType DEF Bits
    <3>3. handlers[j].conn # handlers[i].conn
      BY <1>1, <3>1, <3>2 DEF ListShape, OneEach
    <3> QED
      BY <2>1, <2>3, <3>1, <3>2, <3>3, ReadableKept
  <2> QED
    BY <2>2, <2>4 DEF Bits
<1> QED
  BY <1>3, <1>4, <1>5, <1>6, <1>7, <1>8, <1>9, <1>10, <1>11, <1>12, <1>13 DEF Next, run

-----------------------------------------------------------------------------
(* Frames and messages *)

LEMMA Halves ==
    ASSUME NEW t \in Nat
    PROVE  /\ t \div 2 \in Nat
           /\ AtFrame(t) => ~AtFrame(t + 1) /\ (t + 1) \div 2 = t \div 2
           /\ ~AtFrame(t) => AtFrame(t + 1) /\ (t + 1) \div 2 = (t \div 2) + 1
  BY DEF AtFrame

\* Messages are in step with what was taken of one stream.
InStep(c) ==
    /\ messages[c] = (taken[c] \div 2) + (IF c \in truncated THEN 1 ELSE 0)
    /\ c \in truncated => client[c] = "closed" /\ taken[c] = sent[c] /\ ~AtFrame(taken[c])

LEMMA AllInStep == OneMessagePerFrame <=> \A c \in Clients : InStep(c)
  BY DEF OneMessagePerFrame, InStep

\* Steps that take nothing from a client's stream.
LEMMA SameFrames ==
    ASSUME IInv, Next, UNCHANGED <<taken, messages, truncated>>,
           \A c \in Clients : sent'[c] = sent[c] \/ (client[c] # "closed" /\ sent'[c] = sent[c] + 1),
           \A c \in Clients : client[c] = "closed" => client'[c] = "closed",
           \/ UNCHANGED <<server, handlers, at>>
           \/ server # "payload" /\ server' # "payload" /\ (server # "exited" \/ Start \/ Join),
           owner' = "listening" => owner = "listening"
    PROVE  Frames' /\ OneMessagePerFrame'
<1>1. CountsOK /\ Frames
  BY TypeParts DEF IInv
<1>2. \A c \in Clients : InStep(c) /\ sent[c] \in Nat /\ taken[c] \in Nat
  BY <1>1, AllInStep DEF IInv, CountsOK
<1>3. ASSUME NEW c \in Clients PROVE InStep(c)'
  BY <1>2 DEF InStep
<1>4. OneMessagePerFrame'
  BY <1>3 DEF OneMessagePerFrame, InStep
<1>5. \A c \in Clients : taken'[c] <= sent'[c]
  <2> SUFFICES ASSUME NEW c \in Clients PROVE taken'[c] <= sent'[c]
    OBVIOUS
  <2>1. taken[c] <= sent[c] /\ taken'[c] = taken[c] /\ sent'[c] \in {sent[c], sent[c] + 1}
    BY <1>1 DEF Frames
  <2>2. \A a, b, d \in Nat : a <= b /\ d \in {b, b + 1} => a <= d
    OBVIOUS
  <2> QED
    BY <1>2, <2>1, <2>2
<1>6. CASE UNCHANGED <<server, handlers, at>>
  BY <1>1, <1>4, <1>5, <1>6 DEF Frames
<1>7. CASE server # "payload" /\ server' # "payload" /\ server # "exited"
  BY <1>1, <1>4, <1>5, <1>7 DEF Frames
<1>8. CASE Start
  <2>1. owner = "listening" /\ server' = "select" /\ server # "payload"
    BY <1>8 DEF Start, IInv, ListShape, Phases
  <2>2. \A c \in Clients : AtFrame(taken[c]) \/ c \in truncated
    BY <1>1, <2>1 DEF Frames
  <2> QED
    BY <1>4, <1>5, <2>1, <2>2 DEF Frames
<1>9. CASE Join
  <2>1. server' = "exited" /\ owner' = "joined"
    BY <1>9 DEF Join
  <2> QED
    BY <1>4, <1>5, <2>1 DEF Frames
<1> QED
  BY <1>6, <1>7, <1>8, <1>9

LEMMA FramesStep ==
    ASSUME IInv, Next
    PROVE  Frames' /\ OneMessagePerFrame'
<1>1. HandlersOK /\ ListShape /\ NetOK /\ CountsOK /\ Frames
  BY TypeParts DEF IInv
<1>2. \A c \in Clients : InStep(c) /\ sent[c] \in Nat /\ taken[c] \in Nat /\ messages[c] \in Nat
  BY <1>1, AllInStep DEF IInv, CountsOK
<1>3. CASE Start \/ Join \/ ConnectAuxFails \/ Destroy \/ Select \/ EndRound \/ SelectFails
  <2>1. UNCHANGED <<taken, messages, truncated, sent, client>>
    BY <1>3 DEF Start, Join, ConnectAuxFails, Destroy, Select, EndRound, SelectFails, sessions, net
  <2>2. \/ UNCHANGED <<server, handlers, at>>
        \/ server # "payload" /\ server' # "payload" /\ (server # "exited" \/ Start \/ Join)
    BY <1>1, <1>3 DEF Start, Join, ConnectAuxFails, Destroy, Select, EndRound, SelectFails, thread,
                 Fail, ListShape, Phases
  <2>3. owner' = "listening" => owner = "listening"
    BY <1>3 DEF Start, Join, ConnectAuxFails, Destroy, Select, EndRound, SelectFails
  <2> QED
    BY <2>1, <2>2, <2>3, SameFrames
<1>4. ASSUME NEW c \in Clients,
             Connect(c) \/ SendSize(c) \/ SendPayload(c) \/ Close(c) \/ Disconnect(c)
      PROVE  Frames' /\ OneMessagePerFrame'
  <2>1. UNCHANGED <<taken, messages, truncated, server, handlers, at, owner>>
    BY <1>4 DEF Connect, SendSize, SendPayload, SendHalf, Close, Disconnect, sessions, thread
  <2>2. \A d \in Clients : sent'[d] = sent[d] \/ (client[d] # "closed" /\ sent'[d] = sent[d] + 1)
    BY <1>1, <1>4 DEF Connect, SendSize, SendPayload, SendHalf, Close, Disconnect, CountsOK
  <2>3. \A d \in Clients : client[d] = "closed" => client'[d] = "closed"
    BY <1>1, <1>4 DEF Connect, SendSize, SendPayload, SendHalf, Close, Disconnect, NetOK
  <2> QED
    BY <2>1, <2>2, <2>3, SameFrames
<1>5. ASSUME NEW i \in DOMAIN handlers,
             accept_preinit(i) \/ accept_regular(i) \/ AcceptFails(i) \/ handle_preinit(i)
             \/ handle_aux(i)
      PROVE  Frames' /\ OneMessagePerFrame'
  <2>1. UNCHANGED <<taken, messages, truncated, sent, client, owner>> /\ server = "round"
    BY <1>5 DEF accept_preinit, accept_regular, AcceptFails, handle_preinit, handle_aux, sessions,
                Dispatch
  <2>2. server' # "payload"
    BY <1>5, <2>1 DEF accept_preinit, accept_regular, AcceptFails, handle_preinit, handle_aux,
                      Fail, Exit
  <2> QED
    BY <2>1, <2>2, SameFrames
<1>6. ASSUME NEW i \in DOMAIN handlers, handle_session(i)
      PROVE  Frames' /\ OneMessagePerFrame'
  <2> DEFINE c == handlers[i].conn
  <2>1. UNCHANGED <<messages, truncated, sent, client, owner>> /\ server = "round" /\ at' = i
        /\ handlers[i].kind = "session"
    BY <1>6 DEF handle_session, Dispatch, net
  <2>2. c \in Clients
    BY <2>1, FedSession
  <2>3. CASE UNCHANGED taken /\ server' # "payload"
    BY <2>1, <2>3, SameFrames
  <2>4. CASE taken[c] < sent[c] /\ taken' = [taken EXCEPT ![c] = @ + 1] /\ UNCHANGED handlers
             /\ server' \in {"payload", "exited"}
    <3>1. c \notin truncated /\ AtFrame(taken[c])
      BY <1>1, <1>2, <2>1, <2>2, <2>4 DEF InStep, Frames
    <3>2. taken'[c] = taken[c] + 1 /\ \A d \in Clients : d # c => taken'[d] = taken[d]
      BY <1>1, <2>2, <2>4 DEF CountsOK
    <3>3. ~AtFrame(taken'[c]) /\ taken'[c] \div 2 = taken[c] \div 2
      BY <1>2, <2>2, <3>1, <3>2, Halves
    <3>4. taken'[c] <= sent'[c]
      BY <1>2, <2>1, <2>2, <2>4, <3>2
    <3>5. ASSUME NEW d \in Clients PROVE InStep(d)'
      BY <1>2, <2>1, <2>2, <3>1, <3>2, <3>3 DEF InStep
    <3>6. \A d \in Clients : d # c => AtFrame(taken[d]) \/ d \in truncated
      BY <1>1, <2>1 DEF Frames
    <3>7. \A d \in Clients : d # c => AtFrame(taken'[d]) \/ d \in truncated
      BY <3>2, <3>6
    <3>8. \A d \in Clients : taken'[d] <= sent'[d]
      BY <1>1, <2>1, <2>2, <3>2, <3>4 DEF Frames
    <3>9. handlers'[at'].conn = c /\ at' \in DOMAIN handlers' /\ handlers'[at'].kind = "session"
      BY <2>1, <2>4
    <3>10. owner' # "listening"
      BY <1>1, <2>1 DEF ListShape, Phases
    <3> HIDE DEF c
    <3>11. Frames'
      BY <2>1, <2>4, <3>1, <3>3, <3>7, <3>8, <3>9, <3>10 DEF Frames
    <3> QED
      BY <3>5, <3>11 DEF OneMessagePerFrame, InStep
  <2> QED
    BY <1>6, <2>1, <2>3, <2>4 DEF handle_session, Fail
<1>7. ASSUME NEW i \in DOMAIN handlers, handle_payload(i)
      PROVE  Frames' /\ OneMessagePerFrame'
  <2> DEFINE c == handlers[i].conn
  <2>1. UNCHANGED <<sent, client, owner, handlers>> /\ server = "payload" /\ i = at
        /\ server' \in {"round", "exited"} /\ messages' = [messages EXCEPT ![c] = @ + 1]
    BY <1>7 DEF handle_payload, net, Fail
  <2>2. handlers[i].kind = "session" /\ ~AtFrame(taken[c]) /\ c \notin truncated
    BY <1>1, <2>1 DEF Frames
  <2>3. c \in Clients
    BY <2>2, FedSession
  <2>4. messages'[c] = messages[c] + 1 /\ \A d \in Clients : d # c => messages'[d] = messages[d]
    BY <1>1, <2>1, <2>3 DEF CountsOK
  <2>5. \A d \in Clients : d # c => AtFrame(taken[d]) \/ d \in truncated
    BY <1>1, <2>1 DEF Frames
  <2>6. owner' # "listening"
    BY <1>1, <2>1 DEF ListShape, Phases
  <2>7. CASE taken[c] < sent[c] /\ taken' = [taken EXCEPT ![c] = @ + 1] /\ UNCHANGED truncated
    <3>1. taken'[c] = taken[c] + 1 /\ \A d \in Clients : d # c => taken'[d] = taken[d]
      BY <1>1, <2>3, <2>7 DEF CountsOK
    <3>2. AtFrame(taken'[c]) /\ taken'[c] \div 2 = (taken[c] \div 2) + 1 /\ taken[c] \div 2 \in Nat
      BY <1>2, <2>2, <2>3, <3>1, Halves
    <3>3. taken'[c] <= sent'[c]
      BY <1>2, <2>1, <2>3, <2>7, <3>1
    <3>4. messages'[c] = taken'[c] \div 2
      BY <1>2, <2>2, <2>3, <2>4, <3>2 DEF InStep
    <3> HIDE DEF c
    <3>5. ASSUME NEW d \in Clients PROVE InStep(d)'
      <4>1. CASE d = c
        <5>1. taken'[c] \div 2 \in Nat /\ c \notin truncated'
          BY <2>2, <2>7, <3>2
        <5> QED
          BY <3>4, <4>1, <5>1 DEF InStep
      <4>2. CASE d # c
        BY <1>2, <2>1, <2>4, <2>7, <3>1, <4>2 DEF InStep
      <4> QED
        BY <4>1, <4>2
    <3>6. \A d \in Clients : AtFrame(taken'[d]) \/ d \in truncated'
      BY <2>5, <2>7, <3>1, <3>2
    <3>7. \A d \in Clients : taken'[d] <= sent'[d]
      BY <1>1, <2>1, <3>1, <3>3 DEF Frames
    <3>8. Frames'
      BY <2>1, <2>6, <3>6, <3>7 DEF Frames
    <3> QED
      BY <3>5, <3>8 DEF OneMessagePerFrame, InStep
  <2>8. CASE PeerGone(c) /\ truncated' = truncated \cup {c} /\ UNCHANGED taken
    <3>1. client'[c] = "closed" /\ taken'[c] = sent'[c] /\ ~AtFrame(taken'[c])
      BY <2>1, <2>2, <2>8 DEF PeerGone
    <3>2. messages'[c] = (taken'[c] \div 2) + 1
      BY <1>2, <2>2, <2>3, <2>4, <2>8, Halves DEF InStep
    <3> HIDE DEF c
    <3>3. ASSUME NEW d \in Clients PROVE InStep(d)'
      <4>1. CASE d = c
        BY <2>8, <3>1, <3>2, <4>1 DEF InStep
      <4>2. CASE d # c
        BY <1>2, <2>1, <2>4, <2>8, <4>2 DEF InStep
      <4> QED
        BY <4>1, <4>2
    <3>4. \A d \in Clients : AtFrame(taken'[d]) \/ d \in truncated'
      BY <2>5, <2>8
    <3>5. \A d \in Clients : taken'[d] <= sent'[d]
      BY <1>1, <2>1, <2>8 DEF Frames
    <3>6. Frames'
      BY <2>1, <2>6, <3>4, <3>5 DEF Frames
    <3> QED
      BY <3>3, <3>6 DEF OneMessagePerFrame, InStep
  <2> QED
    BY <1>7, <2>7, <2>8 DEF handle_payload, PayloadArrived, CutShort
<1> QED
  BY <1>3, <1>4, <1>5, <1>6, <1>7 DEF Next, run

-----------------------------------------------------------------------------
(* The theorems *)

LEMMA IInvInit == Init => IInv
<1> SUFFICES ASSUME Init PROVE IInv
  OBVIOUS
<1>1. DOMAIN handlers = {} /\ Len(backlog) = 0 /\ Len(aux) = 0
  BY DEF Init
<1>2. TypeOK
  <2>1. HandlersOK /\ NetOK
    BY <1>1, FirstIdType DEF Init, HandlersOK, NetOK
  <2>2. PassOK
    <3>1. failed \in BOOLEAN
      BY Zenon DEF Init
    <3>2. at \in 0..(next_id - 1)
      BY FirstIdType DEF Init
    <3> QED
      BY <3>1, <3>2 DEF Init, PassOK
  <2>3. CountsOK
    BY DEF Init, CountsOK
  <2> QED
    BY <2>1, <2>2, <2>3, TypeParts
<1>3. ListShape
  BY <1>1, FirstIdType DEF Init, ListShape, Phases, OneEach, InBacklog
<1>4. Connections
  BY <1>1 DEF Init, Connections, Placed, InList, InBacklog
<1>5. HandshakeIsClean /\ EndsForAReason /\ Words /\ Bits
  BY <1>1 DEF Init, HandshakeIsClean, EndsForAReason, Words, Bits
<1>6. AtFrame(0) /\ 0 \div 2 = 0
  BY DEF AtFrame
<1>7. Frames /\ OneMessagePerFrame
  BY <1>6 DEF Init, Frames, OneMessagePerFrame
<1> QED
  BY <1>2, <1>3, <1>4, <1>5, <1>7 DEF IInv

LEMMA IInvStutter == ASSUME IInv, UNCHANGED vars PROVE IInv'
<1>1. UNCHANGED <<owner, server, handlers, next_id, ready, at, failed, backlog, aux, client, sent,
                  taken, session, messages, truncated, kicks>>
  BY DEF vars, thread, net, sessions
<1>2. TypeOK'
  BY <1>1 DEF IInv, TypeOK
<1>3. ListShape' /\ Connections'
  BY <1>1 DEF IInv, ListShape, Phases, OneEach, HandlerShape, InList, InBacklog, Connections, Placed
<1>4. HandshakeIsClean' /\ EndsForAReason' /\ Words'
  BY <1>1 DEF IInv, HandshakeIsClean, Preinit, EndsForAReason, Words, WordOK
<1>5. Bits'
  BY <1>1, OthersBits
<1>6. Frames' /\ OneMessagePerFrame'
  BY <1>1 DEF IInv, Frames, OneMessagePerFrame
<1> QED
  BY <1>2, <1>3, <1>4, <1>5, <1>6 DEF IInv

LEMMA IInvStep == IInv /\ [Next]_vars => IInv'
<1>1. ASSUME IInv, Next PROVE IInv'
  BY <1>1, TypeStep, ListShapeStep, ConnectionsStep, HandshakeStep, EndsStep, WordsStep, BitsStep,
     FramesStep DEF IInv
<1> QED
  BY <1>1, IInvStutter

LEMMA Inductive == SafeSpec => []IInv
  BY IInvInit, IInvStep, PTL DEF SafeSpec

\* Each connection has one handler at most, and the session of the list is the open one.
LEMMA ListedSessions == IInv => OneHandler
<1> SUFFICES ASSUME IInv, NEW c \in Clients
             PROVE  LET own == {i \in DOMAIN handlers : handlers[i].conn = c}
                    IN  /\ Cardinality(own) <= 1
                        /\ session[c] = "open" <=> \E i \in own : handlers[i].kind = "session"
  BY DEF OneHandler
<1> DEFINE own == {i \in DOMAIN handlers : handlers[i].conn = c}
<1>1. ListShape /\ Connections
  BY DEF IInv
<1>2. \A i, j \in own : i = j
  BY <1>1 DEF ListShape, OneEach
<1>3. Cardinality(own) <= 1
  <2>1. CASE own = {}
    BY <2>1, FS_EmptySet
  <2>2. ASSUME NEW i \in own PROVE Cardinality(own) <= 1
    <3>1. own = {i}
      BY <1>2, <2>2
    <3>2. Cardinality({i}) = 1
      BY FS_Singleton
    <3> HIDE DEF own
    <3> QED
      BY <3>1, <3>2
  <2> QED
    BY <2>1, <2>2
<1>4. session[c] = "open" <=> \E i \in own : handlers[i].kind = "session"
  BY <1>1 DEF Connections, Placed, InList
<1> QED
  BY <1>3, <1>4

\* The state keeps its types; a session lives exactly as long as the one handler that feeds it,
\* and it ends because its peer is gone and has been heard out, because it asked for it, or
\* because the server is destroyed: for any clients, leaving or disconnected in any order while
\* run() walks the list that its handlers change.
THEOREM SessionsLiveWithHandlers == SafeSpec => []SessionLifetimes
<1>1. IInv => SessionLifetimes
  BY ListedSessions DEF SessionLifetimes, IInv
<1> QED
  BY <1>1, Inductive, PTL

\* The magic of the server's own connection splits its life in two, whenever peers connect and
\* whatever they send: accept_preinit() and handle_preinit() leave no handler unclassified.
THEOREM HandshakeStaysClean == SafeSpec => []HandshakeIsClean
<1>1. IInv => HandshakeIsClean
  BY DEF IInv
<1> QED
  BY <1>1, Inductive, PTL

\* run() calls no handler whose accept() or recv() would block, though the handlers before it
\* in the pass close descriptors, reuse them and read the connections.
THEOREM PassNeverBlocks == SafeSpec => []NeverBlocks
<1>1. IInv => NeverBlocks
  BY DEF IInv, Bits, NeverBlocks
<1> QED
  BY <1>1, Inductive, PTL

\* handle_session() calls message() once for each frame of its own stream, of any number.
THEOREM MessagesMatchFrames == SafeSpec => []OneMessagePerFrame
<1>1. IInv => OneMessagePerFrame
  BY DEF IInv
<1> QED
  BY <1>1, Inductive, PTL

-----------------------------------------------------------------------------
(* When the thread exits *)

\* Nobody's handler is erased while an id of his waits, and ids come once.
LEMMA IdsStep ==
    ASSUME NoKickRace, IInv, IdsFindHandlers, Next
    PROVE  IdsFindHandlers'
<1>1. HandlersOK /\ ListShape /\ NetOK /\ CountsOK /\ Words
  BY TypeParts DEF IInv
<1>2. \A c \in Clients : client'[c] = "closed" => c \in Leavers
  <2>1. \A c \in Clients : client'[c] = "closed" => client[c] = "closed" \/ c \in Leavers
    BY <1>1 DEF NetOK, Next, run, Start, ConnectAuxFails, Destroy, Join, Connect, SendSize, SendPayload,
         SendHalf, Close, Disconnect, Select, EndRound, SelectFails, accept_preinit,
         accept_regular, AcceptFails, handle_preinit, handle_session, handle_payload,
         handle_aux, net
  <2> QED
    BY <2>1 DEF IdsFindHandlers
<1>3. \A c \in Clients : kicks'[c] > 0 => c \in Kicked
  <2>1. UNCHANGED kicks \/ \E c \in Clients : kicks' = [kicks EXCEPT ![c] = @ + 1] /\ c \in Kicked
    BY DEF Next, run, Start, ConnectAuxFails, Destroy, Join, Connect, SendSize, SendPayload,
         SendHalf, Close, Disconnect, Select, EndRound, SelectFails, accept_preinit,
         accept_regular, AcceptFails, handle_preinit, handle_session, handle_payload,
         handle_aux
  <2> QED
    BY <1>1, <2>1 DEF CountsOK, IdsFindHandlers
<1> DEFINE Found == owner # "joined" =>
                \A k \in 1..Len(aux) : aux[k] \notin {0, InitMagic} => aux[k] \in DOMAIN handlers
           Once == \A k, l \in 1..Len(aux) :
                        k # l /\ aux[k] \notin {0, InitMagic} => aux[k] # aux[l]
<1>4. SUFFICES Found' /\ Once'
  BY <1>2, <1>3 DEF IdsFindHandlers
<1>5. Found /\ Once
  BY DEF IdsFindHandlers
<1>6. owner = "joined" => owner' = "joined"
  BY DEF Next, run, Start, ConnectAuxFails, Destroy, Join, Connect, SendSize, SendPayload,
         SendHalf, Close, Disconnect, Select, EndRound, SelectFails, accept_preinit,
         accept_regular, AcceptFails, handle_preinit, handle_session, handle_payload,
         handle_aux
<1>7. CASE UNCHANGED aux /\ DOMAIN handlers \subseteq DOMAIN handlers'
  BY <1>5, <1>6, <1>7
<1>8. CASE Start
  <2>1. aux' = <<InitMagic>>
    BY <1>8 DEF Start
  <2>2. Len(aux') = 1 /\ \A k \in 1..Len(aux') : k = 1 /\ aux'[k] = InitMagic
    BY <2>1
  <2> QED
    BY <2>2
<1>9. CASE ConnectAuxFails \/ Select \/ EndRound \/ SelectFails
  BY <1>7, <1>9 DEF ConnectAuxFails, Select, EndRound, SelectFails, thread, net
<1>10. CASE Join
  BY <1>5, <1>10 DEF Join, net
<1>11. ASSUME NEW w, aux' = Append(aux, w), UNCHANGED <<handlers, next_id>>,
              \/ w = 0
              \/ w \in DOMAIN handlers /\ \A k \in 1..Len(aux) : aux[k] # w
       PROVE  Found' /\ Once'
  <2>1. Len(aux) \in Nat /\ Len(aux') = Len(aux) + 1 /\ aux'[Len(aux) + 1] = w
        /\ \A k \in 1..Len(aux) : aux'[k] = aux[k]
    BY <1>1, <1>11 DEF NetOK
  <2>2. \A k \in 1..Len(aux') : k \in 1..Len(aux) \/ k = Len(aux) + 1
    BY <2>1
  <2>3. Found'
    BY <1>5, <1>6, <1>11, <2>1, <2>2
  <2>4. ASSUME NEW k \in 1..Len(aux'), NEW l \in 1..Len(aux'), k # l,
               aux'[k] \notin {0, InitMagic}
        PROVE  aux'[k] # aux'[l]
    BY <1>5, <1>11, <2>1, <2>2, <2>4
  <2>5. Once'
    BY <2>4
  <2> QED
    BY <2>3, <2>5
<1>12. CASE Destroy
  BY <1>11, <1>12 DEF Destroy, thread
<1>13. ASSUME NEW c \in Clients, Connect(c) \/ SendSize(c) \/ SendPayload(c) \/ Close(c)
       PROVE  Found' /\ Once'
  BY <1>7, <1>13 DEF Connect, SendSize, SendPayload, SendHalf, Close, thread
<1>14. ASSUME NEW c \in Clients, Disconnect(c)
       PROVE  Found' /\ Once'
  <2>1. PICK i \in DOMAIN handlers : handlers[i].conn = c /\ aux' = Append(aux, i)
    BY <1>14 DEF Disconnect, send_scalar
  <2>2. ~(kicks[c] > 0)
    BY <1>1, <1>14 DEF Disconnect, CountsOK, NoKickRace
  <2>3. i # 0 /\ i # InitMagic
    BY <1>1, <2>1, HandlerType, FirstIdType
  <2>4. \A k \in 1..Len(aux) : aux[k] # i
    BY <1>1, <2>1, <2>2, <2>3 DEF Words, WordOK
  <2>5. UNCHANGED <<handlers, next_id>>
    BY <1>14 DEF Disconnect, thread
  <2> QED
    BY <1>11, <2>1, <2>4, <2>5
<1>15. ASSUME NEW i \in DOMAIN handlers, accept_preinit(i) \/ accept_regular(i)
       PROVE  Found' /\ Once'
  <2>1. UNCHANGED aux
    BY <1>15 DEF accept_preinit, accept_regular
  <2>2. DOMAIN handlers \subseteq DOMAIN handlers'
    BY <1>15 DEF accept_preinit, accept_regular, PushBack
  <2> QED
    BY <1>7, <2>1, <2>2
<1>16. ASSUME NEW i \in DOMAIN handlers, AcceptFails(i) \/ handle_payload(i)
       PROVE  Found' /\ Once'
  BY <1>7, <1>16 DEF AcceptFails, handle_payload, net
<1>17. ASSUME aux # << >>, aux' = Tail(aux),
              \A j \in DOMAIN handlers : j = Head(aux) \/ j \in DOMAIN handlers'
       PROVE  Found' /\ Once'
  <2>1. Len(aux) \in Nat /\ Len(aux') = Len(aux) - 1 /\ Head(aux) = aux[1] /\ 1 \in 1..Len(aux)
        /\ \A k \in 1..Len(aux') : aux'[k] = aux[k + 1] /\ k + 1 \in 1..Len(aux) /\ k + 1 # 1
    BY <1>1, <1>17, AuxHead DEF NetOK
  <2>2. ASSUME NEW k \in 1..Len(aux'), owner' # "joined", aux'[k] \notin {0, InitMagic}
        PROVE  aux'[k] \in DOMAIN handlers'
    BY <1>5, <1>6, <1>17, <2>1, <2>2
  <2>3. ASSUME NEW k \in 1..Len(aux'), NEW l \in 1..Len(aux'), k # l,
               aux'[k] \notin {0, InitMagic}
        PROVE  aux'[k] # aux'[l]
    <3>1. k + 1 # l + 1
      BY <2>1, <2>3
    <3> QED
      BY <1>5, <2>1, <2>3, <3>1
  <2> QED
    BY <2>2, <2>3
<1>18. ASSUME NEW i \in DOMAIN handlers, handle_preinit(i)
       PROVE  Found' /\ Once'
  <2>1. \/ UNCHANGED <<handlers, aux>>
        \/ aux # << >> /\ aux' = Tail(aux) /\ DOMAIN handlers' = DOMAIN handlers
    BY <1>18, OwnMagic DEF handle_preinit, SwitchHandlers
  <2> QED
    BY <1>7, <1>17, <2>1
<1>19. ASSUME NEW i \in DOMAIN handlers, handle_session(i)
       PROVE  Found' /\ Once'
  <2>1. UNCHANGED aux
    BY <1>19 DEF handle_session, net
  <2>2. CASE UNCHANGED handlers
    BY <1>7, <2>1, <2>2
  <2>3. CASE PeerGone(handlers[i].conn) /\ Erase(i)
    <3>1. handlers[i].conn \in Clients /\ client[handlers[i].conn] = "closed"
      BY <1>19, <2>3, Dispatched DEF handle_session, PeerGone
    <3>2. ~(kicks[handlers[i].conn] > 0)
      BY <3>1 DEF IdsFindHandlers, NoKickRace
    <3>3. i # 0 /\ i # InitMagic
      BY <1>1, HandlerType, FirstIdType
    <3>4. \A k \in 1..Len(aux) : aux[k] # i
      BY <1>1, <3>2, <3>3 DEF Words, WordOK
    <3>5. DOMAIN handlers' = DOMAIN handlers \ {i}
      BY <2>3 DEF Erase
    <3> QED
      BY <1>5, <1>6, <2>1, <3>4, <3>5
  <2> QED
    BY <1>19, <2>2, <2>3 DEF handle_session
<1>20. ASSUME NEW i \in DOMAIN handlers, handle_aux(i)
       PROVE  Found' /\ Once'
  <2>1. aux # << >> /\ aux' = Tail(aux)
    BY <1>20 DEF handle_aux
  <2>2. \A j \in DOMAIN handlers : j = Head(aux) \/ j \in DOMAIN handlers'
    BY <1>20 DEF handle_aux, Addressee, Erase
  <2> QED
    BY <1>17, <2>1, <2>2
<1> QED
  BY <1>8, <1>9, <1>10, <1>12, <1>13, <1>14, <1>15, <1>16, <1>18, <1>19, <1>20 DEF Next, run

\* handle_aux() exits for 0 only, for every other word has its handler.
LEMMA ExitStep ==
    ASSUME IInv, IdsFindHandlers, ExitsOnlyOnRequest, Next
    PROVE  ExitsOnlyOnRequest'
<1>1. HandlersOK /\ ListShape /\ NetOK /\ Words
  BY TypeParts DEF IInv
<1>2. owner # "running" => owner' # "running" \/ server' = "select"
  BY DEF Next, run, Start, ConnectAuxFails, Destroy, Join, Connect, SendSize, SendPayload,
         SendHalf, Close, Disconnect, Select, EndRound, SelectFails, accept_preinit,
         accept_regular, AcceptFails, handle_preinit, handle_session, handle_payload,
         handle_aux
<1>3. failed => failed'
  BY DEF Next, run, Start, ConnectAuxFails, Destroy, Join, Connect, SendSize, SendPayload,
         SendHalf, Close, Disconnect, Select, EndRound, SelectFails, accept_preinit,
         accept_regular, AcceptFails, handle_preinit, handle_session, handle_payload,
         handle_aux, Fail, thread
<1>4. ASSUME \A i \in DOMAIN handlers : ~handle_aux(i)
      PROVE  server' = server \/ server' # "exited" \/ failed'
  BY <1>4 DEF Next, run, Start, ConnectAuxFails, Destroy, Join, Connect, SendSize, SendPayload,
         SendHalf, Close, Disconnect, Select, EndRound, SelectFails, accept_preinit,
         accept_regular, AcceptFails, handle_preinit, handle_session, handle_payload,
         Fail, thread
<1>5. ASSUME NEW i \in DOMAIN handlers, handle_aux(i)
      PROVE  server' # "exited" \/ owner' # "running"
  <2>1. handlers[i].kind = "aux" /\ owner \in {"running", "stopping"} /\ server = "round"
        /\ owner' = owner /\ aux # << >>
    BY <1>5, Dispatched DEF handle_aux
  <2>2. 1 \in 1..Len(aux) /\ Head(aux) = aux[1]
    BY <1>1, <2>1, AuxHead
  <2>3. CASE Addressee(Head(aux)) # {}
    BY <1>5, <2>1, <2>3 DEF handle_aux
  <2>4. CASE Addressee(Head(aux)) = {}
    <3>1. aux[1] \notin DOMAIN handlers
      BY <2>2, <2>4 DEF Addressee
    <3>2. aux[1] \in {0, InitMagic}
      BY <2>1, <2>2, <3>1 DEF IdsFindHandlers
    <3>3. aux[1] = 0 /\ owner # "running"
      <4>1. WordOK(aux[1], 1)
        BY <1>1, <2>2 DEF Words
      <4>2. \A w \in FirstId..(next_id - 1) : w # 0 /\ w # InitMagic
        BY <1>1, FirstIdType DEF HandlersOK
      <4> QED
        BY <2>1, <3>2, <4>1, <4>2 DEF WordOK
    <3> QED
      BY <2>1, <3>3
  <2> QED
    BY <2>3, <2>4
<1> QED
  BY <1>2, <1>3, <1>4, <1>5 DEF ExitsOnlyOnRequest

\* As long as sessions do not disconnect peers that may leave, nor disconnect twice, the thread
\* that feeds all the sessions exits only when the destructor asks for it or a call fails.
\* (Without that hypothesis the stale id makes handle_aux() exit: run SocketServerKickRace.)
THEOREM ThreadExitsOnRequest ==
    ASSUME NoKickRace
    PROVE  SafeSpec => []ExitsOnlyOnRequest
<1> DEFINE Inv == IInv /\ IdsFindHandlers /\ ExitsOnlyOnRequest
<1>1. Init => Inv
  <2> SUFFICES ASSUME Init PROVE Inv
    OBVIOUS
  <2>1. Len(aux) = 0
    BY DEF Init
  <2>2. IdsFindHandlers
    BY <2>1 DEF Init, IdsFindHandlers
  <2>3. ExitsOnlyOnRequest
    BY DEF Init, ExitsOnlyOnRequest
  <2> QED
    BY <2>2, <2>3, IInvInit
<1>2. Inv /\ [Next]_vars => Inv'
  <2> SUFFICES ASSUME Inv, [Next]_vars PROVE Inv'
    OBVIOUS
  <2>1. CASE Next
    BY <2>1, IInvStep, IdsStep, ExitStep
  <2>2. CASE UNCHANGED vars
    <3>1. UNCHANGED <<owner, server, handlers, aux, client, kicks, failed>>
      BY <2>2 DEF vars, thread, net
    <3> QED
      BY <2>2, <3>1, IInvStutter DEF IdsFindHandlers, ExitsOnlyOnRequest
  <2> QED
    BY <2>1, <2>2
<1>3. Inv => ExitsOnlyOnRequest
  OBVIOUS
<1> QED
  BY <1>1, <1>2, <1>3, PTL DEF SafeSpec
=============================================================================
