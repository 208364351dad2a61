------------------------------- MODULE Receiver -------------------------------
(***************************************************************************)
(* The receiving thread of an endpoint, read_messages() of src/helpers.h,  *)
(* in its two settings: stream::connect (src/server_endpoint_stream.cpp),  *)
(* which reads with cancellable_read, and sockets::client_session          *)
(* (src/client_endpoint_sockets.cpp), which reads with recv().  The worker *)
(* cuts the inbound bytes into messages for the session, and the owner's   *)
(* destructor ends its reading and joins it.                               *)
(*                                                                         *)
(* A byte is named by its frame and its place there.  The peer writes      *)
(* whole frames unless it closes first, byte by byte, so that a read may   *)
(* get any part of what it asks for.  read() is cancellable_read::read()   *)
(* as the other modules describe it.  On both platforms a read begun after *)
(* cancel() throws.  On Windows it waits inside fread(), where cancel()    *)
(* interrupts it; on Unix it waits in select() until a first byte or the   *)
(* end of the stream, and what it waits for in fread() is not interrupted. *)
(* A recv() is ended by shutdown(); the socket's descriptor is closed, and *)
(* the member that holds it cleared, while the worker may still use it.    *)
(***************************************************************************)
EXTENDS Naturals, Sequences

CONSTANTS
    Transports,     \* of "unix" and "win32", streams on that platform, and "socket"
    Header,         \* sizeof(size)
    Sizes,          \* the sizes of payloads
    MaxFrames,      \* bound: the frames the peer sends
    MayThrow        \* whether the session's factory and message() may throw

ASSUME ReceiverAssumption ==
    /\ Transports \subseteq {"unix", "win32", "socket"}
    /\ Header \in Nat \ {0} /\ Sizes \subseteq Nat /\ MaxFrames \in Nat
    /\ MayThrow \in BOOLEAN

VARIABLES
    transport,      \* the setting; it does not change
    sizes,          \* sizes[k]: the size of the payload of the peer's frame k
    put,            \* bytes of the last frame written so far
    stream,         \* bytes written and not read
    closed,         \* the peer has closed its end
    lost,           \* history: the peer's close has discarded bytes on their way
    worker,         \* control state of the worker
    phase,          \* which of its two reads read_messages() is at
    want, got,      \* the size asked of that read, and the bytes it has
    buffer,         \* read_messages()'s buffer
    owner,          \* the thread that owns the endpoint
    stopped,        \* cancel() or shutdown() was called
    reused,         \* the closed socket's descriptor names something else now
    delivered,      \* messages the session was given
    disconnected    \* the session's disconnect() was called

peer == <<sizes, put, closed, lost>>
reading == <<phase, want, got, buffer>>
session == <<delivered, disconnected>>
object == <<owner, stopped, reused>>
vars == <<transport, peer, stream, worker, reading, object, session>>

Byte == [frame : 0..MaxFrames, at : Nat]
Zero == [frame |-> 0, at |-> 0]     \* the value of the bytes resize() adds

TypeOK ==
    /\ transport \in Transports
    /\ sizes \in Seq(Sizes) /\ Len(sizes) <= MaxFrames
    /\ put \in Nat
    /\ stream \in Seq(Byte)
    /\ closed \in BOOLEAN /\ lost \in BOOLEAN
    /\ worker \in {"starting", "entering", "calling", "reading", "read", "delivering",
                   "done", "astray", "terminated"}
    /\ phase \in {"size", "payload"}
    /\ want \in Nat
    /\ got \in Seq(Byte) /\ Len(got) <= want
    /\ buffer \in Seq(Byte)
    /\ owner \in {"alive", "closing", "clearing", "joining", "gone"}
    /\ stopped \in BOOLEAN /\ reused \in BOOLEAN
    /\ delivered \in Seq(Seq(Byte))
    /\ disconnected \in BOOLEAN

\* The constructor starts the worker.
Init ==
    /\ transport \in Transports
    /\ sizes = << >> /\ put = 0 /\ stream = << >> /\ closed = FALSE /\ lost = FALSE
    /\ worker = "starting"
    /\ phase = "size" /\ want = 0 /\ got = << >> /\ buffer = << >>
    /\ owner = "alive" /\ stopped = FALSE /\ reused = FALSE
    /\ delivered = << >> /\ disconnected = FALSE

-----------------------------------------------------------------------------
(* The peer *)

Length(k) == Header + sizes[k]
Payload(k) == [j \in 1..sizes[k] |-> [frame |-> k, at |-> Header + j]]

\* Byte j of frame k on the wire: a socket's sizes travel in network order.
Wire(k, j) ==
    [frame |-> k, at |-> IF transport = "socket" /\ j <= Header THEN Header + 1 - j ELSE j]

\* The peer is between frames.
Whole == put = IF sizes = << >> THEN 0 ELSE Length(Len(sizes))

\* What the peer writes arrives.
Arrives == ~closed /\ ~(transport = "socket" /\ stopped)

BeginFrame(n) ==
    /\ Arrives /\ Whole /\ Len(sizes) < MaxFrames
    /\ sizes' = Append(sizes, n)
    /\ put' = 1
    /\ stream' = Append(stream, Wire(Len(sizes) + 1, 1))
    /\ UNCHANGED <<transport, closed, lost, worker, reading, object, session>>

ContinueFrame ==
    /\ Arrives /\ ~Whole
    /\ put' = put + 1
    /\ stream' = Append(stream, Wire(Len(sizes), put + 1))
    /\ UNCHANGED <<transport, sizes, closed, lost, worker, reading, object, session>>

Close ==
    /\ ~closed
    /\ closed' = TRUE
    /\ UNCHANGED <<transport, sizes, put, stream, lost, worker, reading, object, session>>

\* The socket server's close() with SO_LINGER 0: bytes on their way are discarded.
HardClose ==
    /\ transport = "socket" /\ ~closed
    /\ closed' = TRUE
    /\ lost' = TRUE
    /\ \E k \in 0..(Len(stream) - 1) : stream' = SubSeq(stream, 1, k)
    /\ UNCHANGED <<transport, sizes, put, worker, reading, object, session>>

-----------------------------------------------------------------------------
(* The worker: a read *)

\* Call the read function for n bytes.
Read(p, n) == worker' = "entering" /\ phase' = p /\ want' = n /\ got' = << >>

\* new_server_session(*this) in a stream endpoint, and the first read of read_messages().
CreateSession ==
    /\ worker = "starting"
    /\ Read("size", Header)
    /\ UNCHANGED <<transport, peer, stream, buffer, object, session>>

\* The worker goes on, and nothing else.
Goto(w) == worker' = w /\ UNCHANGED <<transport, peer, stream, reading, object, session>>

\* catch (...) of the stream endpoint's worker.
FactoryThrows == MayThrow /\ transport # "socket" /\ worker = "starting" /\ Goto("done")

\* read() finds the cancellation; on Windows also inside fread() or after it.
ReadThrows ==
    /\ transport # "socket" /\ stopped
    /\ worker = "entering" \/ (transport = "win32" /\ worker \in {"reading", "read"})
    /\ Goto("done")

\* The mutation of Selected that does not take the stream's end for readable.
SelectedDataOnly == stream # << >>

\* select() of the Unix read() returns.
Selected == stream # << >> \/ closed

\* read() gets into fread().
EnterRead ==
    /\ transport # "socket" /\ worker = "entering"
    /\ ~stopped
    /\ transport = "unix" => Selected
    /\ Goto("reading")

\* recv(_socket, ...): the member is read first.  It is 0 once it was cleared, and
\* recv() of what is not a socket fails.
LoadSocket ==
    /\ transport = "socket" /\ worker = "entering"
    /\ Goto(IF owner \in {"joining", "gone"} THEN "read" ELSE "calling")

\* Then the descriptor is used: if it is closed by now recv() fails, unless it names
\* something else of this process.  What happens there is followed no further.
EnterRecv ==
    /\ worker = "calling"
    /\ Goto(IF owner \in {"alive", "closing"} THEN "reading"
            ELSE IF reused THEN "astray" ELSE "read")

\* fread() or recv() takes some of what there is.
TakeBytes ==
    /\ worker = "reading"
    /\ \E k \in 1..Len(stream) :
        /\ k <= want - Len(got)
        /\ got' = got \o SubSeq(stream, 1, k)
        /\ stream' = SubSeq(stream, k + 1, Len(stream))
    /\ UNCHANGED <<transport, peer, worker, phase, want, buffer, object, session>>

\* fread() or recv(..., MSG_WAITALL) returns: it has everything, or the stream has
\* ended, which shutdown() does to a socket.  A recv() of no bytes waits as well, until
\* there is something that it could take.
ReadCallReturns ==
    /\ worker = "reading"
    /\ \/ Len(got) = want /\ (transport = "socket" /\ want = 0 => stream # << >>)
       \/ stream = << >> /\ (closed \/ (transport = "socket" /\ stopped))
    /\ Goto("read")

-----------------------------------------------------------------------------
(* The worker: read_messages() *)

\* What the read has got is looked at, unless ReadThrows comes first.
ReadReturns == worker = "read" /\ (transport = "win32" => ~stopped)

\* The mutation of Resized that never makes the buffer smaller.
ResizedUp(n) ==
    [j \in 1..(IF n < Len(buffer) THEN Len(buffer) ELSE n) |->
        IF j <= Len(buffer) THEN buffer[j] ELSE Zero]

\* vector::resize(): what was there stays, what is new is zero.
Resized(n) == [j \in 1..n |-> IF j <= Len(buffer) THEN buffer[j] ELSE Zero]

\* byte_representation::reorder(), where the caller asks for it.
reorder(bytes) ==
    IF transport = "socket" THEN [j \in 1..Header |-> bytes[Header + 1 - j]] ELSE bytes

\* The size in a header; anything, had the bytes not come from a header.
Decoded(bytes) ==
    LET k == bytes[1].frame
    IN  IF bytes = [j \in 1..Header |-> [frame |-> k, at |-> j]] THEN {sizes[k]} ELSE Sizes

\* A whole size: the buffer is resized, and the payload read.
GotSize ==
    /\ ReadReturns /\ phase = "size" /\ Len(got) = Header
    /\ \E n \in Decoded(reorder(got)) : buffer' = Resized(n) /\ Read("payload", n)
    /\ UNCHANGED <<transport, peer, stream, object, session>>

\* The mutation of NoSize that takes a cancellation for the end, as if read()
\* returned what it had when interrupted.
NoSizeOrCancelled ==
    /\ ReadReturns \/ (stopped /\ worker = "entering")
    /\ phase = "size" /\ Len(got) < Header

\* Less than a size: read_messages() returns ...
NoSize == ReadReturns /\ phase = "size" /\ Len(got) < Header

\* ... and the session is told.
GotNoSize ==
    /\ NoSize
    /\ worker' = "done"
    /\ disconnected' = TRUE
    /\ UNCHANGED <<transport, peer, stream, reading, object, delivered>>

\* The payload is in the buffer, or as much of it as there was: the count that
\* this read returns is not looked at.
GotPayload ==
    /\ ReadReturns /\ phase = "payload"
    /\ buffer' = [j \in DOMAIN buffer |-> IF j <= Len(got) THEN got[j] ELSE buffer[j]]
    /\ worker' = "delivering"
    /\ UNCHANGED <<transport, peer, stream, phase, want, got, object, session>>

\* inbound.message(), and the next size.
Deliver ==
    /\ worker = "delivering"
    /\ delivered' = Append(delivered, buffer)
    /\ Read("size", Header)
    /\ UNCHANGED <<transport, peer, stream, buffer, object, disconnected>>

\* inbound.message() throws, having seen the message.  Nothing catches that in the
\* socket client's thread, and the process ends.
MessageThrows ==
    /\ MayThrow
    /\ worker = "delivering"
    /\ delivered' = Append(delivered, buffer)
    /\ worker' = IF transport = "socket" THEN "terminated" ELSE "done"
    /\ UNCHANGED <<transport, peer, stream, reading, object, disconnected>>

-----------------------------------------------------------------------------
(* The destructors *)

\* The mutation of Interrupt that goes straight on to join() a stream's worker.
InterruptSocket == stopped' = (transport = "socket")

\* _reader.cancel(), or shutdown(_socket, SHUT_RDWR)
Interrupt == stopped' = TRUE

\* What has arrived can be read after shutdown() on Unix, but not on Windows.
Stop ==
    /\ owner = "alive"
    /\ owner' = IF transport = "socket" THEN "closing" ELSE "joining"
    /\ Interrupt
    /\ stream' \in IF transport = "socket" THEN {stream, << >>} ELSE {stream}
    /\ UNCHANGED <<transport, peer, worker, reading, reused, session>>

\* _socket.reset(): close(_socket), and _socket = 0
Reset ==
    /\ owner \in {"closing", "clearing"}
    /\ owner' = IF owner = "closing" THEN "clearing" ELSE "joining"
    /\ UNCHANGED <<transport, peer, stream, worker, reading, stopped, reused, session>>

\* Another thread of the process opens something and gets the descriptor just closed.
Reuse ==
    /\ owner \in {"clearing", "joining", "gone"} /\ transport = "socket" /\ ~reused
    /\ reused' = TRUE
    /\ UNCHANGED <<transport, peer, stream, worker, reading, owner, stopped, session>>

\* join()
Join ==
    /\ owner = "joining"
    /\ worker = "done"
    /\ owner' = "gone"
    /\ UNCHANGED <<transport, peer, stream, worker, reading, stopped, reused, session>>

-----------------------------------------------------------------------------
Worker ==
    \/ CreateSession \/ FactoryThrows
    \/ ReadThrows \/ EnterRead \/ LoadSocket \/ EnterRecv \/ TakeBytes \/ ReadCallReturns
    \/ GotSize \/ GotNoSize \/ GotPayload
    \/ Deliver \/ MessageThrows

Peer == (\E n \in Sizes : BeginFrame(n)) \/ ContinueFrame \/ Close \/ HardClose

Next == Worker \/ Peer \/ (worker # "terminated" /\ (Stop \/ Reset \/ Reuse \/ Join))

\* The worker and a destructor that was called are scheduled.  The peer owes
\* nothing, and nobody owes a call of the destructor.
Spec == Init /\ [][Next]_vars /\ WF_vars(Worker) /\ WF_vars(Reset \/ Join)

-----------------------------------------------------------------------------
(* Properties *)

\* Message j was cut: the peer left in the middle of its last frame, or a socket's
\* bytes were discarded, by the peer's hard close or by the destructor.
Cut(j) ==
    \/ closed /\ ~Whole /\ j = Len(sizes)
    \/ lost
    \/ transport = "socket" /\ stopped

\* The session gets the payloads of the peer's frames, each once and in order,
\* however the stream is cut into reads; only the last message may be something
\* else, when the stream ended inside its frame.  With the types of the state.
PayloadsInOrder ==
    /\ TypeOK
    /\ \A j \in 1..Len(delivered) :
        /\ j <= Len(sizes)
        /\ delivered[j] = Payload(j) \/ (j = Len(delivered) /\ Cut(j))

\* The test SessionDoesNotReceiveDisconnectWhenServerSessionIsStoppedLocally, for
\* every interleaving: disconnect() tells of the peer's leaving, once everything
\* that arrived was read.  Only the socket client also calls it for its own destructor.
DisconnectMeansPeerLeft ==
    disconnected => (closed /\ stream = << >>) \/ (transport = "socket" /\ stopped)

\* A read() that Unix has let into fread() waits there for the rest.
Starved == transport = "unix" /\ worker = "reading" /\ stream = << >> /\ ~closed

\* The process was ended by an exception, or the worker waits for a descriptor that
\* is no longer the socket.
Broken == worker = "terminated" \/ (worker = "astray" /\ reused)

\* The destructor returns, or else waits for a read() that got part of its bytes,
\* and only on Unix.
StopReturns ==
    owner \in {"closing", "clearing", "joining"}
        ~> owner = "gone" \/ (Starved /\ got # << >>) \/ Broken

\* The peer has written all of frame k, and also something that lets the read of an
\* empty payload out of select(), on Unix, or out of recv(): the next frame's beginning
\* or the end of the stream.
Complete(k) ==
    /\ k < Len(sizes) \/ (k = Len(sizes) /\ Whole)
    /\ transport # "win32" /\ sizes[k] = 0 => k < Len(sizes) \/ closed

\* Every complete frame is delivered unless the endpoint is stopped, the session
\* throws, or a hard close has discarded it.
FramesArrive ==
    \A k \in 1..MaxFrames :
        k <= Len(sizes) /\ Complete(k)
            ~> \/ Len(delivered) >= k \/ stopped \/ lost \/ Broken
               \/ worker = "done" /\ ~disconnected
=============================================================================
