# TLA+ specifications of cohesion-ipc

These modules model the parts of cohesion-ipc that carry its own logic: reads
that can be cancelled, the threads that receive messages, the socket server's thread, the
request/response sessions and the pipes between them, servers spawned as child processes,
and the COM endpoints. TLC checks them on small instances, and
TLAPS proves the most important results for every instance. `PROJECT.json` lists the
runs, the mutants every property is tried against, the source lines behind each
definition, the hazards the properties are aimed at, and the theorems.

Paths below are relative to the repository (`src/x.cpp` in the text is
`src/src/x.cpp` in `PROJECT.json`, which counts from the directory above).

## 1. Inventory of the system

| Component | State | Operations | Talks to |
|---|---|---|---|
| `cancellable_read` (`coipc/cancellable_read.h`) | Windows: `_cancelled`, `_thread_handle` under a mutex; Unix: a signal pipe | `read`, `cancel` | the platform's `fread`; used by the stream endpoint |
| socket server (`src/server_endpoint_sockets.*`) | list of handlers (acceptor, auxiliary connection, sessions), `_next_id`, `_aux_socket`, one thread | constructor, `run`, `accept_preinit/regular`, `handle_preinit/session/aux`, `disconnect`, `message`, destructor | peers over TCP; its own auxiliary connection; sessions (`create_session`, `message`, `disconnect`) |
| socket client (`src/client_endpoint_sockets.cpp`) | socket, one thread | connect, `message`, receive loop, destructor | socket server; inbound channel |
| strmd client session (`coipc/strmd/client_session.h`, `src/strmd/client_session.cpp`) | `_token`, `_callbacks`, `_message_callbacks`, buffer; the user's handles | `subscribe`, two `request`s, `message`, handle deleters | a channel in each direction |
| strmd server session (`coipc/strmd/server_session.h`, `src/strmd/server_session.cpp`) | `_handlers`, `_outbound_buffer`, private task queue | `add_handler`, `message` (both), `respond`, `defer`, continuations, `disconnect` | a channel in each direction; the apartment's queue |
| spawned servers (`src/client_endpoint_spawn*.cpp`, `src/server_endpoint_spawn.cpp`) | pipes, process, worker thread | `spawn`, worker, exit handler, destructor; the server's listen loop | the child process through two pipes |
| stream endpoint (`src/server_endpoint_stream.cpp`) | `cancellable_read`, worker thread | receive loop, `message`, destructor | a pair of `FILE`s; a session |
| framing helpers (`src/helpers.h`) | none | `read_messages`, `byte_representation::reorder`, `select` by protocol | all endpoints |
| COM endpoints (`src/*_com.cpp`, `src/com_init.cpp`, `coipc/com/`) | reference counts, `_stream`, sink, `inbound`, `_outbound`, class object | connect, `message` (both), `Write` (both), `Advise`, `disconnect`, `FinalRelease`, destructors, revoking | COM runtime; channels at both ends |
| endpoint selection, ids, serialization streams, utilities | none | lookups, parsing, byte copying | - |

**What is hard here.** Threads meet in a few narrow places: `cancel()` against a read
that is just starting or ending; everything that wants something of the server thread
against what that thread learns from its peers; a destructor against a worker; `fork()`
against every descriptor open at that moment; handlers, continuations and users at one buffer;
apartments that call each other from inside their callbacks; two readers that write into full
pipes. Failures are ordinary events: peers close
in the middle of a frame, executables are missing, sessions throw. The full list, line
by line, is under `hazards` in `PROJECT.json`.

**What makes each component correct.**
`cancellable_read`: a cancelled read ends, throws, and loses nothing silently.
Socket server: the thread never blocks on one handler for lack of data, every connection
gets exactly one session and keeps it until its peer leaves or it asks to go, and the
destructor returns.
Sessions: a response reaches the request it answers, and a callback lives exactly as long
as its handle.
Receiving threads: the session gets the messages the peer sent and hears of nothing but the
peer's leaving, and the destructor returns.
Sending: frames arrive whole, and requests are answered.
Spawned servers: exits are reported once, and destroying a session ends its server.
COM endpoints: both channels are told once when either end goes, and not called afterwards.

## 2. Modules

| Module | Models | State and actions |
|---|---|---|
| `CancellableRead` | the promise in the comments of `cancellable_read.h` | a read is idle, active, or ended with data or an exception; a `cancel()` takes effect between its call and its return |
| `BytePipe` | external: the byte stream behind a `FILE` | counts of bytes; the peer writes and closes |
| `CancellableReadWin32` | `src/cancellable_read.win32.cpp` | one action per locked section and per step outside the lock; `fread` is a loop of `ReadFile`s |
| `CancellableReadUnix` | `src/cancellable_read.unix.cpp` | `select`, the test of the signal, `fread` as a loop of `read(2)`s, the signal's `write` |
| `CancellableReadProofs`, `CancellableReadUnixProofs` | proofs about the two implementations | |
| `SocketServer` | `src/server_endpoint_sockets.cpp`, with the client's side of the connection | `_handlers` by id, the fd set, the position in the pass, backlog, auxiliary words, frames as counts; one action per handler |
| `ClientSession`, `ServerSession` | the two strmd sessions | map nodes and handles; requests, continuations and responses |
| `Rpc` | the two sessions joined by a channel | the components' actions, two queues |
| `RpcProofs`, `SocketServerProofs`, `ReceiverProofs`, `LinkProofs`, `SpawnProofs`, `ComEndpointProofs` | proofs about the modules they are named after | |
| `Receiver` | `read_messages` of `src/helpers.h` in the worker of `src/server_endpoint_stream.cpp` (both platforms) and in the thread of `src/client_endpoint_sockets.cpp` | bytes named by frame and place; the worker's read for a size or a payload, the buffer, the session's calls; the destructors, the socket's handle included |
| `Link` | a strmd client and server session with their endpoints' `message()`, at the grain of writing | a reader and a user's thread a side and the thread of the apartment queue, the sessions' buffers, what a `FILE` or `send()` has yet to write, pipes of limited capacity, continuations |
| `Spawn` | spawn client on Unix and on Windows, and the spawned `main()` | which process holds which end of which pipe; one action per system call that changes it |
| `ComEndpoint` | `src/client_endpoint_com.cpp`, `src/server_endpoint_com.cpp` | a stack of calls and a queue of calls per apartment; who refers to the sink and to the session; one action per method and per step between two calls |

Operators called "the mutation of ..." stand directly before the definition they
vary. They are the plausible bugs that the properties are tried against and are used by no
specification.

### How the state corresponds to the code

* **Locks and atomicity.** A `lock_guard` section is one action. Outside locks,
  every system call or read of shared state whose outcome another thread can change is an
  action of its own. A handler of the socket server is one action, except that the
  `recv` of a payload, which may have to wait, is a second one (`handle_payload`).
* **Handlers.** The server's `std::list` only grows at its end, by
  handlers with the next id, so a function from ids with the order of numbers is the list.
  `at` and `ready` are the iterator and the `fd_set` of the pass in `run()`.
* **Frames.** A peer's stream is a number of half frames: a size, a payload, a
  size, ... each sent by one `send`. Contents matter in two places only. The handshake
  recognises the auxiliary connection by its first word alone, and so does the model
  (`Peeked`). A payload may be empty (`Empties`), and then its `recv` waits for the peer's next
  bytes or its close. A connection that is reset ends like one that is closed: what had
  arrived is read first, and the code treats -1 as it treats 0.
* **Map nodes.** A node of `_callbacks` or `_message_callbacks` is named by the call
  that inserted it, which also names its callback because `insert` keeps the old node when
  the key is taken. A handle is the set of nodes its chain of deleters erases. The list of
  callbacks of one request is a set: its ids are distinct.
* **Reads of the receiver.** `Receiver` uses `cancellable_read` by what the modules
  above show of it: on Windows its promise, on Unix a wait in `select` that ends with a
  cancellation and a `fread` that does not. `cancel()` is one action, since it returns. A
  `recv` is three steps: the member is read, the descriptor is used, bytes are taken; the
  destructor's `shutdown`, `close` and the clearing of the member come anywhere between
  them. When the descriptor has been given to something else by then the model says so
  (`astray`) and follows that worker no further. The bytes of a size are reversed on the wire of a
  socket and put back by `reorder`.
* **Writing.** In `Link` a payload is two words and a frame three. Both kinds of endpoint
  block word by word when the pipe is full: a `FILE` in `fflush`, a socket in each `send`.
  A side has up to three senders: the reader, in which handlers and callbacks run, the user,
  who makes requests or sends messages of the server's own, and the apartment queue. When two of
  them send at once they use one buffer without a lock; that is recorded in `raced` and the model
  stops there. A handler that calls `defer()` without a queue throws, which ends the thread that
  reads.
* **Descriptors.** `Spawn` gives each process the set of pipe ends it holds. `passed`
  is what a new process gets: on Unix all that is not marked close-on-exec, on Windows
  what was made inheritable.
* **Apartments.** In `ComEndpoint` every thread has a stack of the calls it is in. It takes
  another one when it rests or waits for an answer, so calls nest. The references to a
  session are its stub's and those of the calls it serves; the sink's are the
  constructor's and its stub's. The use of a null pointer ends the behaviour (`crashed`).

### External behaviour assumed

`CancelSynchronousIo` succeeds exactly when the thread is inside a `ReadFile`, which then
fails. `accept` returns the lowest descriptor that is not in use. A pipe's or socket's reader
sees the end of the stream when no writer is left. `tasker::private_queue` runs tasks in
order and forgets the queued ones when it is destroyed (that no continuation outlives its session is
its doing, and not shown here). A `recv` of 0 bytes on a blocking socket waits until there is data or
the end of the stream. No peer that connects before the handshake begins with a message of
`init_magic` (4294967294) bytes (`MagicAssumption`). `waitid`, whose result is not looked
at, is not interrupted. `mt::thread` destroys its function
when it ends. A 4-byte `send` on the auxiliary connection is not split. `select` on Unix
fails only with `EINTR` in `cancellable_read`; in the socket server `select`, `accept` and the
sessions' calls may fail for any reason. After `shutdown` what a socket has received may still be
read (Unix) or not (Windows). Hosts are little-endian. COM: a stub keeps one reference to its
object while a proxy lives, drops it in `CoDisconnectObject` and `CoUninitialize` but not under a
call that is being served, calls into an apartment are served in the order of arrival,
the release of a proxy is a call like any other, and `CoUninitialize` serves what is queued.

## 3. Runs

| Run | Question | Result |
|---|---|---|
| `cancellable_read_win32` | Does the Windows implementation refine the promise, progress included, with two cancelling threads and repeated reads? | yes |
| `cancellable_read_unix` | Do late reads throw, is a waiting read woken, is a short read the end of the file? | yes |
| `cancellable_read_unix_ongoing` | Does every ongoing read end once `cancel()` has returned? | **no**: a read of more than one byte, let into `fread` by its first byte, waits there for the rest |
| `socket_server` | From constructor to destructor, with calls and sessions that fail, do handlers, sessions, descriptors and frames stay in step, is every client served and every `disconnect()` honoured, does the thread exit only when told to or when something failed, and does the destructor return? | yes, if a session never disconnects a peer that leaves by itself; a peer that stalls inside a frame, or falls silent after an empty one, holds up everybody and the destructor |
| `socket_server_kick_race` | Does disconnecting one session spare the others when its peer leaves at the same time? | **no**: the id finds no handler and the thread exits |
| `rpc` | Do responses reach their requests, do callbacks live as long as their handles, chained ones included, and does a response on its way to a held callback arrive? | yes, with one subscription per id |
| `rpc_resubscribe` | And when an id is subscribed twice? | **no**: the second callback is dropped or its node erased |
| `receiver` | Over streams on both platforms and over a socket, does the session get the peer's messages whole and in order, is a destructor never taken for the peer's leaving, and does it return? | yes for streams; the last message may be damaged when the stream ends inside it, an empty one waits for what follows, on Unix and over a socket, and on Unix the destructor may wait for a frame that has begun to arrive. The socket client also calls `disconnect()` for its own destructor, may deliver a damaged message then, may use a descriptor that is no longer its own, and an exception ends its process |
| `link` | Do frames arrive whole, and is every request answered, and once, however small the pipes and whatever is deferred and sent besides? | yes, until two threads of a side send at once; a handler that throws ends the answers, and callbacks that make requests and the handlers may fill both pipes and wait for each other |
| `com` | When either end goes, are both channels told, once; are messages of nested calls in order; do all calls return? | yes; a client destroyed while its session serves a call for it may still be called, and a null pointer is used when `create_session()` throws or a session is disconnected before its client has asked for the connection point |
| `spawn` | On Unix and on Windows, does `spawn` end, are exits reported once, and what can delay a destructor? | yes, with one `spawn` at a time; only servers spawned later on Unix delay it |
| `spawn_destructor` | Does the destructor of one session return while another one lives? | **no**: a server spawned later holds the pipe whose closing should end the first |

The four negative results are described under `findings`, each against the comment or
test of the repository that says otherwise.

A module's types are an invariant of their own where a proof uses them, and otherwise the
first conjunct of one of the module's safety invariants.

### Bounds

* *Cancelling:* two cancelling threads (a second one meets a read that the first has already
  interrupted), reads of 0 and 2 bytes (2 is the smallest size that can arrive in parts),
  4 bytes (two full reads, or partial ones on either side of a cancellation).
* *Socket server:* two clients, one that leaves and one that is disconnected, two frames
  each; three descriptors, so that one can be reused as soon as it is closed. `MaxBacklog`
  is 3, so that both clients can be there before the auxiliary connection; the code's value is 5. One
  `disconnect()` per session: a second one is the race of `socket_server_kick_race` again.
  The first frame of a peer is empty and the second is not, so that either can stall the
  thread and a peer that sends both is served.
* *Rpc:* two calls and two response ids, so that requests that share an id wait side by side; two
  handles, so that each is reused; one deferral of a request, one message of the server's own;
  two request ids, one without a handler. More calls and deferrals of what was already deferred
  are left to the proofs, which cover every safety property of this run.
* *Receiver:* three frames of 0 to 2 bytes behind sizes of 2 (one that can be split), so that
  the buffer grows, shrinks and grows again; the session may throw.
* *Link:* four requests, of which two may be deferred and three have callbacks that may make
  another, and one message of the server's own, with a queue and without, over pipes of two words, less than a frame: enough for both pipes to be full with a
  request and a response waiting on either side.
* *Com:* two clients, one of which sends a message and is sent two; calls nest four deep
  and more.
* *Spawn:* three sessions: one whose server may quit, one that only ends when told to, and
  one whose executable is missing.

Deadlock checking is off where the system may rest: a server waiting in `select` for peers
with nothing left to send, a session after its last call, a session that nobody destroys.

### Fairness

Weak fairness of each thread and process that the operating system schedules: the reading
thread, each `cancel()`, the server thread, the worker, the apartment's queue, the thread of
each COM apartment, whose callbacks return. The peer
of a `BytePipe`, of a receiver or of the socket server owes nothing. The server's thread waits for a
payload without a timeout (`MSG_WAITALL`), so its three liveness properties have the
premise `NobodyStalls`: the thread is not kept for good by a peer that neither sends on nor closes.
Without the premise TLC finds each of them violated. Nobody owes a call of
`read`, `cancel`, `disconnect`, `spawn` or a destructor.

## 4. Proofs

`CancellableReadProofs` proves, for every set of threads, every set of sizes and any amount
of data: the type invariant, `HandleIsOpen`, `ShortReadMeansEof`, and that every
behaviour of `CancellableReadWin32` satisfies the safety of `CancellableRead` under the
refinement mapping `Promise`. The assumption is that sizes and the bound are natural
numbers. The argument rests on an inductive invariant. `HandleIsOpen` is not inductive by
itself: it needs that the handle is published exactly while the reader is between its two
locked sections (`HandleMatchesReader`). `ShortReadMeansEof` needs the same
fact one step earlier, where an interrupted `fread` is still allowed
(`ShortMeansCancelledOrEof`). The refinement needs that a `cancel()` past its loop has
taken effect (`CancelTookEffect`).

`RpcProofs` proves, for any handles, ids and numbers of calls, answers, deferrals and messages,
the invariants `CallbacksAreHeld`, `HandlesOwnTheirNodes` and `RoutedToItsRequest` and the
action property `OnlyHeldCallbacksRun`. They assume
`RpcAssumption` (bounds are natural numbers, no id names both a response and a message of the
server's own) and a user that does not subscribe twice to an id: without that the first one is
false, as `rpc_resubscribe` shows. The inductive invariant has three parts beyond these.
`HandlesAreExact` and `KeysAreFresh` say that `insert()` always inserts: a request's key
contains a token that no living node has, so a handle gets the very node it asked
for. Every call of the user then does one thing to the nodes (`Changes`: a handle loses all or
nothing and gains new ones), and ownership is shown once for that. `TokensNameCalls` says that
nodes, requests, continuations and messages with the same token belong to the same call, which
every step preserves because tokens are only copied or taken fresh. `CalledByKey` carries that
into the history of callbacks.
For the same user it proves the types of both sessions (`TypesAreKept`).

`CancellableReadUnixProofs` proves `LateReadsThrow` and `ShortReadMeansEof` for any finite set of
threads, any sizes and any amount of data. A late read throws because the signal stays in its pipe:
`SignalCountsWriters` says that the pipe holds one byte for each thread that has written, so it is
not empty once a `cancel()` has returned, and `LateReadsSeeSignal` carries that over `select` into
the set that the reader tests.

`SocketServerProofs` proves all five invariants of `SocketServer` for any clients, descriptors,
backlog, number of frames and of `disconnect()`s, under `ServerAssumption` (the names of the
connections differ, the magic is not an id) and `MagicAssumption` (no peer's first size is the magic,
so that the connection in which the magic is found is the server's own: `OwnMagic`). Four need nothing else. They are proved together, because
each needs the others: a readiness bit is not stale (`NeverBlocks`) only if no two handlers share a
descriptor (`OneEach`) and the bits that are set before the pass begins belong to handlers (`Bits`);
a session is not fed by two handlers only if a client is new, waits, is in the list or has ended and
never two of these (`Placed`); an id read from the auxiliary connection erases only the session
that gave it away (`Words`); a message is not made of parts of two frames only if the thread
waits for a payload exactly when it has taken the size (`Frames`). The fifth,
`ExitsOnlyOnRequest`, assumes `NoKickRace`: no session disconnects a peer that may leave, or
disconnects twice. It is false otherwise, as `socket_server_kick_race` shows. Then
every id finds its handler (`IdsFindHandlers`).

`SpawnProofs` proves `DisconnectMeansServerLeft` and `ExitIsReportedOnce` for any sessions on
either platform, several threads spawning at once included. The first is a matter of who holds which
end: until the destructor has closed the server's stdin (`SessionLives`), a server that has not left
by itself holds the end that its stdout is (`ServerHolds`), so the worker does not see the end of the
stream. What a process holds goes back to how far `spawn()` had come when it was made (`SpawnOrder`).

`ReceiverProofs` proves `PayloadsInOrder` and `DisconnectMeansPeerLeft` for payloads of any length,
sizes of any width, any number of frames and every transport, under `ReceiverAssumption` (the
header has at least a byte). In the inductive invariant a worker is in step with the peer
(`Following`), or has delivered a message that was cut and will find nothing behind it (`Spent`), or has
ended. To be in step means that there is a layout of the stream (`Layout`): a function that says where
each frame begins, counted from the first unread byte, so that the unread bytes are those of the
frame being read and of the frames behind it, up to where the peer is, or fewer when bytes
were discarded. A step of the peer extends the layout, and a read shifts it.

`LinkProofs` proves `WholeUnlessRaced` and `AnsweredOnce` for pipes of any capacity, any number of
requests and of messages of the server's own, both kinds of endpoints, and any choice of deferring
handlers and of callbacks that make requests. What a side has sent and the other has not received
is, word by word, what lies in the receiver's half-read frame, in the pipe and in the `FILE`
(`Carried`), less the payload of a message that is half written. That holds while a side's buffer
belongs to one thread (`OneAtATime`, `Writing`), which is what `raced` records the end of. For
`AnsweredOnce` the invariant also keeps a `Ledger`: the client's requests leave in the order of their
tokens (`Numbered`), and what the server has sent, has begun and has in its queue are different
messages, each a response to a request that it has received or one of its own (`Owed`).

`ComEndpointProofs` proves `ToldOnce`, `MessagesInOrder`, `CrashesOnlyInConnect` and the action
property `QuietOnceGone` for any clients, any number of messages and calls nested to any depth, under
`ComAssumption` (no client is called "server", bounds are natural numbers). The inductive invariant
has four parts. `Graph`: calls and their callers match. A call from another apartment is awaited
(`Awaited`) by a call that waits there and is of the kind that makes it (`Answers`), other
calls return to the one right below them, and no two calls return to one place (`OneAnswer`).
`Claims`: what a call in progress says about the two ends, for example that a constructor is the first
call of its thread, its client is connecting, and while `CreateInstance()` is on its way there is no
session yet. `Lives`: how the lives of client and session determine references, counts and what
the channels were told. `ToServer` and `ToClient`: the messages in a queue are a contiguous line of
numbers (`Line`) that begins where the channel, or the call just begun, has got to (`Due`), and
reaches to the last one sent (`Full`) while the two are connected. `Graph` and `Claims` are kept
by five elementary changes (a call moves, is pushed, returns, is queued, is taken), from which every
action is composed; they also give the results their footing: two calls
of one constructor would return to one place, so there is one (`Sole`), and a sink that is called has
its caller on the server's stack (`SinkIsCalled`).

Model-checked only: every liveness property, the progress half of `cancellable_read`'s promise
included (progress under fairness is out of the prover's reach).

## 5. Not modelled, and the plan

Endpoint selection (a lookup in a table of two entries), address and GUID parsing and formatting,
command line quoting and environment blocks, and the template utilities have no state
or ordering of their own and stay out. Of the COM endpoints, `Unadvise`, a second
`Advise` and the interface queries are left out: the library's client makes none of these calls. The
`QueryInterface` that `Advise` makes on the sink is part of its one step, and the server channel's
`disconnect()` in `FinalRelease` calls nobody back. Two
`spawn()`s at once, an interrupted `waitid`, signals (`SIGPIPE`) and callbacks that reset their own handle are under
`hazards` with the reason. Outside the models, too: descriptors beyond `FD_SETSIZE`, descriptor 0
as a socket, an exit handler that destroys its session (`join()` of the own thread), the zombie
left by a failed `execve()`, and a COM session used inside `create_session()`.

Every safety property of a passing run has its theorem. What the runs check beyond the proofs is
liveness: the progress half of `KeepsThePromise`, `WaitingReadThrows`, `EveryClientIsServed`,
`DisconnectIsHonoured`, `DestructorReturns`, `HeldCallbacksAreCalled`, `StopReturns`,
`FramesArrive`, `RequestsAreAnswered`, `BothEndsAreTold`, `CallsReturn`, `SpawnEnds`,
`ExitsAreReported` and `OnlySiblingsDelay`.
