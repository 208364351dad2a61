--------------------------------- MODULE Link ---------------------------------
(***************************************************************************)
(* A strmd client and a strmd server joined by two pipes of limited        *)
(* capacity, at the grain of their writing.  A request or a response is    *)
(* serialized into the session's one buffer (server_session::message,      *)
(* client_session::request_internal, buffer_writer of coipc/strmd/         *)
(* stream.h); message() of the endpoint then writes the size and the       *)
(* payload, through a FILE that is flushed at the end or by two calls of   *)
(* send().  No lock is held.                                               *)
(*                                                                         *)
(* The reader of a side receives messages, and handlers and callbacks run  *)
(* in it.  Its user's thread makes requests, or sends messages of the      *)
(* server's own, and the server may have an apartment queue whose thread   *)
(* runs continuations.  When one of them begins a message while another of *)
(* its side is in one, they use the session's buffer at once: the outcome  *)
(* is undefined, and the model goes no further.                            *)
(*                                                                         *)
(* A payload is two words, the id and what follows it, the token first; a  *)
(* frame has a word more, its size.  A request and its response are named  *)
(* by the token, and the server's own messages by the numbers after those. *)
(***************************************************************************)
EXTENDS Naturals, Sequences

CONSTANTS
    Writes,         \* how endpoints write, of "file" and "socket"
    Capacity,       \* words a pipe can hold
    MaxRequests,    \* bound: requests the client makes
    MaxPushes,      \* bound: messages the server sends on its own
    Deferred,       \* requests whose handler defers its response, if any does
    Chained         \* responses whose callback makes another request

ASSUME LinkAssumption ==
    /\ Writes \subseteq {"file", "socket"}
    /\ Capacity \in Nat \ {0} /\ MaxRequests \in Nat /\ MaxPushes \in Nat
    /\ Deferred \subseteq Nat /\ Chained \subseteq Nat

VARIABLES
    writes,         \* how the endpoints write; it does not change
    apartment,      \* whether the server session has a queue; it does not change
    deferred,       \* requests whose handler defers; it does not change
    chaining,       \* whether callbacks make requests; it does not change
    pc,             \* pc[t]: where thread t is in sending a message
    msg,            \* msg[t]: the message it sends
    buffer,         \* buffer[s]: _outbound_buffer of the server, _buffer of the client
    file,           \* file[s]: words written by side s and not flushed
    pipe,           \* pipe[s]: words on their way from side s
    frame,          \* frame[s]: the words the reader of side s has of a frame
    tasks,          \* continuations in the apartment queue
    ended,          \* the server's reader was ended by an exception
    made,           \* requests made
    pushed,         \* messages of the server's own
    sent,           \* history: sent[s], messages that side s has sent
    received,       \* history: received[s], payloads that side s has received
    raced           \* history: sides whose buffer two threads have used at once

config == <<writes, apartment, deferred, chaining>>
counts == <<made, pushed>>
vars == <<config, pc, msg, buffer, file, pipe, frame, tasks, ended, counts, sent, received, raced>>

Sides == {"client", "server"}
Threads == (Sides \X {"reader", "user"}) \cup {<<"server", "queue">>}
Requests == 1..MaxRequests
Messages == 1..(MaxRequests + MaxPushes)

Other(s) == IF s = "client" THEN "server" ELSE "client"

\* Word j of message m, and the word that carries a payload's size.
Word == [msg : Messages, at : {1, 2}]
Size == [size : Nat]
Payload(m) == <<[msg |-> m, at |-> 1], [msg |-> m, at |-> 2]>>

TypeOK ==
    /\ writes \in Writes /\ apartment \in BOOLEAN /\ chaining \in BOOLEAN
    /\ deferred \in {{}, Deferred}
    /\ pc \in [Threads -> {"idle", "fill", "size", "drain", "payload", "flush"}]
    /\ msg \in [Threads -> Messages \cup {0}]
    /\ buffer \in [Sides -> Seq(Word)]
    /\ file \in [Sides -> Seq(Word \cup Size)]
    /\ pipe \in [Sides -> Seq(Word \cup Size)] /\ \A s \in Sides : Len(pipe[s]) <= Capacity
    /\ frame \in [Sides -> Seq(Word \cup Size)]
    /\ tasks \in Seq(Messages)
    /\ ended \in BOOLEAN
    /\ made \in 0..MaxRequests /\ pushed \in 0..MaxPushes
    /\ sent \in [Sides -> Seq(Messages)]
    /\ received \in [Sides -> Seq(Seq(Word))]
    /\ raced \subseteq Sides

Init ==
    /\ writes \in Writes /\ apartment \in BOOLEAN /\ chaining \in BOOLEAN
    /\ deferred \in {{}, Deferred}
    /\ pc = [t \in Threads |-> "idle"]
    /\ msg = [t \in Threads |-> 0]
    /\ buffer = [s \in Sides |-> << >>] /\ file = buffer /\ pipe = buffer /\ frame = buffer
    /\ tasks = << >>
    /\ ended = FALSE
    /\ made = 0 /\ pushed = 0
    /\ sent = [s \in Sides |-> << >>] /\ received = sent
    /\ raced = {}

-----------------------------------------------------------------------------
(* Sending a message *)

\* The mutation of Cleared that keeps what the buffer held.
Kept(b) == b

\* The buffer as the constructor of buffer_writer leaves it.
Cleared(b) == << >>

\* Thread t of side s begins to send message m.
Begin(s, t, m) ==
    /\ pc[t] = "idle"
    /\ pc' = [pc EXCEPT ![t] = "fill"]
    /\ msg' = [msg EXCEPT ![t] = m]
    /\ buffer' = [buffer EXCEPT ![s] = Cleared(@)]
    /\ raced' = IF \E u \in Threads \ {t} : u[1] = s /\ pc[u] # "idle"
                THEN raced \cup {s} ELSE raced

\* The serializer writes the id and the token: buffer_writer::write().
Fill(s, t) ==
    /\ pc[t] = "fill"
    /\ pc' = [pc EXCEPT ![t] = "size"]
    /\ buffer' = [buffer EXCEPT ![s] = @ \o Payload(msg[t])]
    /\ UNCHANGED <<config, msg, file, pipe, frame, tasks, ended, counts, sent, received, raced>>

\* The word that goes before the payload in buffer b.
SizeOf(b) == [size |-> Len(b)]

\* message() of the endpoint writes the size: into the FILE, or to the socket ...
WriteSize(s, t) ==
    /\ pc[t] = "size"
    /\ pc' = [pc EXCEPT ![t] = IF writes = "socket" THEN "drain" ELSE "payload"]
    /\ file' = [file EXCEPT ![s] = Append(@, SizeOf(buffer[s]))]
    /\ sent' = [sent EXCEPT ![s] = Append(@, msg[t])]
    /\ UNCHANGED <<config, msg, buffer, pipe, frame, tasks, ended, counts, received, raced>>

\* ... and the payload, from the session's buffer.
WritePayload(s, t) ==
    /\ pc[t] = "payload"
    /\ pc' = [pc EXCEPT ![t] = "flush"]
    /\ file' = [file EXCEPT ![s] = @ \o buffer[s]]
    /\ UNCHANGED <<config, msg, buffer, pipe, frame, tasks, ended, counts, sent, received, raced>>

\* fflush(), or send(): the next word goes into the pipe when there is room for it.
Drain(s, t) ==
    /\ pc[t] \in {"drain", "flush"}
    /\ file[s] # << >>
    /\ Len(pipe[s]) < Capacity
    /\ pipe' = [pipe EXCEPT ![s] = Append(@, Head(file[s]))]
    /\ file' = [file EXCEPT ![s] = Tail(@)]
    /\ UNCHANGED <<config, pc, msg, buffer, frame, tasks, ended, counts, sent, received, raced>>

\* The mutation of Flushed that leaves the words in the FILE, as without fflush().
Unflushed(s) == TRUE

\* Everything is in the pipe.
Flushed(s) == file[s] = << >>

Drained(s, t) ==
    /\ pc[t] \in {"drain", "flush"}
    /\ Flushed(s)
    /\ pc' = [pc EXCEPT ![t] = IF @ = "drain" THEN "payload" ELSE "idle"]
    /\ UNCHANGED <<config, msg, buffer, file, pipe, frame, tasks, ended, counts, sent, received, raced>>

-----------------------------------------------------------------------------
(* Receiving one *)

\* Side s has a whole frame.
Complete(s) == frame[s] # << >> /\ Len(frame[s]) = 1 + frame[s][1].size

\* read_messages() takes a word from the pipe, between two messages of its thread.
TakeWord(s) ==
    /\ pc[<<s, "reader">>] = "idle" /\ ~(s = "server" /\ ended)
    /\ pipe[Other(s)] # << >>
    /\ ~Complete(s)
    /\ frame' = [frame EXCEPT ![s] = Append(@, Head(pipe[Other(s)]))]
    /\ pipe' = [pipe EXCEPT ![Other(s)] = Tail(@)]
    /\ UNCHANGED <<config, pc, msg, buffer, file, tasks, ended, counts, sent, received, raced>>

\* The token the session reads from it: the second word of the payload.
Token(s) == frame[s][3].msg

\* The payload goes to the session.
Deliver(s) ==
    /\ frame' = [frame EXCEPT ![s] = << >>]
    /\ received' = [received EXCEPT ![s] = Append(@, Tail(frame[s]))]

\* The handler calls defer(), which is possible with a queue ...
Defers(m) == m \in deferred /\ apartment

\* ... and throws without one.
DeferThrows(m) == m \in deferred /\ ~apartment

\* server_session::message(): the handler responds, leaves it to a continuation, or
\* throws, which ends the thread that reads.
Handle ==
    LET m == Token("server")
    IN  /\ Complete("server")
        /\ Deliver("server")
        /\ \/ /\ Defers(m)
              /\ tasks' = Append(tasks, m)
              /\ UNCHANGED <<pc, msg, buffer, raced, ended>>
           \/ /\ DeferThrows(m)
              /\ ended' = TRUE
              /\ UNCHANGED <<pc, msg, buffer, raced, tasks>>
           \/ /\ m \notin deferred
              /\ Begin("server", <<"server", "reader">>, m)
              /\ UNCHANGED <<tasks, ended>>
        /\ UNCHANGED <<config, file, pipe, counts, sent>>

\* The mutation of Continue that schedules the continuation again, as if the one that
\* has run were still in its response object.
ContinueAgain ==
    /\ tasks # << >>
    /\ Begin("server", <<"server", "queue">>, Head(tasks))
    /\ tasks' = Append(Tail(tasks), Head(tasks))
    /\ UNCHANGED <<config, file, pipe, frame, ended, counts, sent, received>>

\* A continuation responds, in the thread of the apartment queue.
Continue ==
    /\ tasks # << >>
    /\ Begin("server", <<"server", "queue">>, Head(tasks))
    /\ tasks' = Tail(tasks)
    /\ UNCHANGED <<config, file, pipe, frame, ended, counts, sent, received>>

\* message(id, formatter) of the server session, called by its user.
Push ==
    /\ pushed < MaxPushes
    /\ pushed' = pushed + 1
    /\ Begin("server", <<"server", "user">>, MaxRequests + pushed + 1)
    /\ UNCHANGED <<config, file, pipe, frame, tasks, ended, made, sent, received>>

\* request_internal(), called by thread t.
Request(t) ==
    /\ made < MaxRequests
    /\ made' = made + 1
    /\ Begin("client", t, made + 1)
    /\ UNCHANGED pushed

UserRequests ==
    /\ Request(<<"client", "user">>)
    /\ UNCHANGED <<config, file, pipe, frame, tasks, ended, sent, received>>

\* client_session::message(): the callback runs, and may make a request.
Callback ==
    /\ Complete("client")
    /\ Deliver("client")
    /\ IF chaining /\ Token("client") \in Chained /\ made < MaxRequests
       THEN Request(<<"client", "reader">>)
       ELSE UNCHANGED <<pc, msg, buffer, counts, raced>>
    /\ UNCHANGED <<config, file, pipe, tasks, ended, sent>>

-----------------------------------------------------------------------------
Send(t) ==
    LET s == t[1]
    IN  Fill(s, t) \/ WriteSize(s, t) \/ WritePayload(s, t) \/ Drain(s, t) \/ Drained(s, t)

Next ==
    /\ raced = {}
    /\ \/ \E t \in Threads : Send(t)
       \/ \E s \in Sides : TakeWord(s)
       \/ Handle \/ Continue \/ Push \/ Callback \/ UserRequests

\* Threads are scheduled; nobody owes a request or a message.
Fairness ==
    /\ \A t \in Threads : WF_vars(raced = {} /\ Send(t))
    /\ \A s \in Sides : WF_vars(raced = {} /\ TakeWord(s))
    /\ WF_vars(raced = {} /\ Handle) /\ WF_vars(raced = {} /\ Continue)
    /\ WF_vars(raced = {} /\ Callback)

Spec == Init /\ [][Next]_vars /\ Fairness

-----------------------------------------------------------------------------
(* Properties *)

\* What one side has sent arrives at the other whole and in order, through either kind
\* of endpoint, whatever the pipes hold, as long as one thread sends at a time;
\* with the types of the state, the capacity of the pipes among them.
WholeUnlessRaced ==
    /\ TypeOK
    /\ raced = {} =>
        \A s \in Sides :
            /\ Len(received[s]) <= Len(sent[Other(s)])
            /\ \A j \in 1..Len(received[s]) : received[s][j] = Payload(sent[Other(s)][j])

\* The message that item j of what side s has received stands for.
Item(s, j) == received[s][j][2].msg

Got(s, m) == \E j \in 1..Len(received[s]) : Item(s, j) = m

\* The client never gets a second response to a request, a response to one that the
\* server has not received, or a message of the server's own twice, whichever threads
\* respond and whatever the pipes hold, as long as one thread sends at a time.
AnsweredOnce ==
    raced = {} =>
        /\ \A j, k \in 1..Len(received["client"]) : Item("client", j) = Item("client", k) => j = k
        /\ \A m \in Requests : Got("client", m) => Got("server", m)

\* Both pipes are full, and both readers wait for room in them: one in a handler that
\* responds, the other in a callback that makes a request.
CrossBlocked ==
    \A s \in Sides :
        /\ Len(pipe[s]) = Capacity
        /\ pc[<<s, "reader">>] \in {"drain", "flush"} /\ file[s] # << >>

\* Every request is answered, however small the pipes and whatever the server sends
\* besides, unless a handler has thrown or a callback makes requests: the handlers'
\* blocking writes are relieved by the client's reader only.
RequestsAreAnswered ==
    \A m \in Requests :
        made >= m ~> Got("client", m) \/ raced # {} \/ ended \/ (chaining /\ CrossBlocked)
=============================================================================
