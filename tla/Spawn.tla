-------------------------------- MODULE Spawn --------------------------------
(***************************************************************************)
(* coipc::spawn::client_session (src/client_endpoint_spawn.cpp) with both  *)
(* of its spawn() functions (client_endpoint_spawn.unix.cpp and .win32.cpp)*)
(* and the server process (src/server_endpoint_spawn.cpp): pipes, process  *)
(* creation, the listen loop, the worker thread and the destructor.        *)
(*                                                                         *)
(* What decides who is woken when is which process holds which end of      *)
(* which pipe: a reader sees the end of the stream when no process holds   *)
(* the writing end any more.  On Unix fork() copies every end the parent   *)
(* holds at that moment, those of other sessions included, and execve()    *)
(* keeps what is not marked close-on-exec; on Windows CreateProcess()      *)
(* hands on what is marked inheritable.  Messages are left out.            *)
(***************************************************************************)
EXTENDS Naturals

CONSTANTS
    Platforms,      \* the builds to look at, of "unix" and "win32"
    Sessions,       \* client sessions, each with the process it spawns
    Parent,         \* the process they live in
    Quitters,       \* servers that may leave, or close stdout, by themselves
    Missing,        \* sessions whose executable cannot be executed
    OneAtATime      \* whether spawn() is never called by two threads at once

ASSUME SpawnAssumption ==
    /\ Platforms \subseteq {"unix", "win32"}
    /\ Parent \notin Sessions
    /\ Quitters \subseteq Sessions /\ Missing \subseteq Sessions
    /\ OneAtATime \in BOOLEAN

VARIABLES
    platform,   \* the build; it does not change
    spawner,    \* spawner[s]: the parent's thread in spawn()
    child,      \* child[s]: the spawned process
    fds,        \* fds[p]: the pipe ends process p holds
    passed,     \* passed[p]: those of them that a program p starts would get
    exec_error, \* sessions whose error pipe holds an exec_error
    worker,     \* worker[s]: the session's _thread
    owner,      \* owner[s]: the thread that owns the session object
    notified,   \* sessions whose inbound.disconnect() was called
    reports,    \* reports[s]: calls of the session's exit_handler
    quit        \* history: servers that closed their end by themselves

handles == <<fds, passed>>
told == <<notified, reports>>
vars == <<platform, spawner, child, handles, exec_error, worker, owner, told, quit>>

Processes == Sessions \cup {Parent}
PipeEnd == Sessions \X {"to", "from", "error"} \X {"read", "write"}

TypeOK ==
    /\ platform \in Platforms
    /\ spawner \in [Sessions -> {"idle", "piped", "marked", "forked", "checking",
                                 "returned", "thrown"}]
    /\ child \in [Sessions -> {"none", "forked", "listening", "exited"}]
    /\ fds \in [Processes -> SUBSET PipeEnd]
    /\ passed \in [Processes -> SUBSET PipeEnd]
    /\ \A p \in Processes : passed[p] \subseteq fds[p]
    /\ exec_error \subseteq Sessions
    /\ worker \in [Sessions -> {"none", "reading", "leaving", "waiting", "done"}]
    /\ owner \in [Sessions -> {"none", "connected", "closing", "destroyed"}]
    /\ notified \subseteq Sessions
    /\ reports \in [Sessions -> Nat]
    /\ quit \subseteq Sessions

Init ==
    /\ platform \in Platforms
    /\ spawner = [s \in Sessions |-> "idle"]
    /\ child = [s \in Sessions |-> "none"]
    /\ fds = [p \in Processes |-> {}] /\ passed = fds
    /\ exec_error = {}
    /\ worker = [s \in Sessions |-> "none"]
    /\ owner = [s \in Sessions |-> "none"]
    /\ notified = {}
    /\ reports = [s \in Sessions |-> 0]
    /\ quit = {}

-----------------------------------------------------------------------------
\* The pipes spawn() makes; only Unix has one for errors.
Own(s) == {s} \X (IF platform = "unix" THEN {"to", "from", "error"} ELSE {"to", "from"})
              \X {"read", "write"}

\* Those of them that the server and the session use.
ServerEnds(s) == {<<s, "to", "read">>, <<s, "from", "write">>}
SessionEnds(s) == {<<s, "to", "write">>, <<s, "from", "read">>}

\* Process p closes the ends in E.
Close(p, E) ==
    /\ fds' = [fds EXCEPT ![p] = @ \ E]
    /\ passed' = [passed EXCEPT ![p] = @ \ E]

\* The reader of the pipe sees the end of the stream.
Eof(s, pipe) == \A p \in Processes : <<s, pipe, "write">> \notin fds[p]

Spawning(s) == spawner[s] \in {"piped", "marked", "forked", "checking"}

\* spawn() goes on from one point to the next.
At(s, from, to) == spawner[s] = from /\ spawner' = [spawner EXCEPT ![s] = to]

-----------------------------------------------------------------------------
(* spawn(), in the parent *)

\* On Unix a new end is passed on unless told otherwise, on Windows it is not.
Pipes(s) ==
    /\ At(s, "idle", "piped")
    /\ OneAtATime => \A r \in Sessions : ~Spawning(r)
    /\ fds' = [fds EXCEPT ![Parent] = @ \cup Own(s)]
    /\ passed' = IF platform = "unix" THEN [passed EXCEPT ![Parent] = @ \cup Own(s)] ELSE passed
    /\ UNCHANGED <<platform, child, exec_error, worker, owner, told, quit>>

\* A pipe or its stream cannot be had: what was made is closed.
PipesFail(s) ==
    /\ At(s, "idle", "thrown")
    /\ UNCHANGED <<platform, child, handles, exec_error, worker, owner, told, quit>>

\* The mutation of Marked that marks nothing on Unix.
MarkedOnWindows(s) ==
    IF platform = "unix" THEN passed[Parent] ELSE passed[Parent] \cup ServerEnds(s)

\* The mutation of Marked that makes all ends inheritable on Windows.
MarkedAll(s) ==
    IF platform = "unix" THEN passed[Parent] \ {<<s, "error", "write">>}
    ELSE passed[Parent] \cup Own(s)

\* What the parent passes on once FD_CLOEXEC is set on the writing end of the error
\* pipe (Unix), or HANDLE_FLAG_INHERIT on the ends the server will use (Windows).
Marked(s) ==
    IF platform = "unix" THEN passed[Parent] \ {<<s, "error", "write">>}
    ELSE passed[Parent] \cup ServerEnds(s)

Mark(s) ==
    /\ At(s, "piped", "marked")
    /\ passed' = [passed EXCEPT ![Parent] = Marked(s)]
    /\ UNCHANGED <<platform, child, fds, exec_error, worker, owner, told, quit>>

\* fork()
Fork(s) ==
    /\ platform = "unix"
    /\ At(s, "marked", "forked")
    /\ child' = [child EXCEPT ![s] = "forked"]
    /\ fds' = [fds EXCEPT ![s] = fds[Parent]]
    /\ passed' = [passed EXCEPT ![s] = passed[Parent]]
    /\ UNCHANGED <<platform, exec_error, worker, owner, told, quit>>

\* CreateProcess(), with every inheritable handle of the parent.
CreateProcess(s) ==
    /\ platform = "win32" /\ s \notin Missing
    /\ At(s, "marked", "checking")
    /\ child' = [child EXCEPT ![s] = "listening"]
    /\ fds' = [fds EXCEPT ![s] = passed[Parent]]
    /\ passed' = [passed EXCEPT ![s] = passed[Parent]]
    /\ UNCHANGED <<platform, exec_error, worker, owner, told, quit>>

\* fork() or CreateProcess() fails: spawn() throws, and all pipes are closed.
CreateFails(s) ==
    /\ At(s, "marked", "thrown")
    /\ Close(Parent, Own(s))
    /\ UNCHANGED <<platform, child, exec_error, worker, owner, told, quit>>

\* from_error.write.reset(), before reading the other end.
CloseErrorWrite(s) ==
    /\ At(s, "forked", "checking")
    /\ Close(Parent, {<<s, "error", "write">>})
    /\ UNCHANGED <<platform, child, exec_error, worker, owner, told, quit>>

\* fread() returns the error: server_exe_not_found, and all pipes are closed.
SpawnThrows(s) ==
    /\ At(s, "checking", "thrown")
    /\ s \in exec_error
    /\ Close(Parent, Own(s))
    /\ UNCHANGED <<platform, child, exec_error, worker, owner, told, quit>>

\* The mutation of Unused that keeps the writing end of the inbound pipe.
UnusedButFrom(s) == Own(s) \ (SessionEnds(s) \cup {<<s, "from", "write">>})

\* The ends that are closed when spawn() returns.
Unused(s) == Own(s) \ SessionEnds(s)

\* On Unix fread() sees the end instead of an error: the server runs.  The
\* constructor starts the worker.
SpawnReturns(s) ==
    /\ At(s, "checking", "returned")
    /\ s \notin exec_error /\ Eof(s, "error")
    /\ Close(Parent, Unused(s))
    /\ owner' = [owner EXCEPT ![s] = "connected"]
    /\ worker' = [worker EXCEPT ![s] = "reading"]
    /\ UNCHANGED <<platform, child, exec_error, told, quit>>

-----------------------------------------------------------------------------
(* The spawned process *)

\* It closes its copies of the parent's ends; execve() closes the marked ones.
Exec(s) ==
    /\ child[s] = "forked" /\ s \notin Missing
    /\ child' = [child EXCEPT ![s] = "listening"]
    /\ Close(s, (fds[s] \ passed[s]) \cup SessionEnds(s) \cup {<<s, "error", "read">>})
    /\ UNCHANGED <<platform, spawner, exec_error, worker, owner, told, quit>>

ExecFails(s) ==
    /\ child[s] = "forked" /\ s \in Missing
    /\ child' = [child EXCEPT ![s] = "exited"]
    /\ exec_error' = exec_error \cup {s}
    /\ Close(s, fds[s])
    /\ UNCHANGED <<platform, spawner, worker, owner, told, quit>>

Exit(s) ==
    /\ child[s] = "listening"
    /\ child' = [child EXCEPT ![s] = "exited"]
    /\ Close(s, fds[s])
    /\ UNCHANGED <<platform, spawner, exec_error, worker, owner, told>>

\* main(): read_messages() ends with stdin.
ListenLoopEnds(s) == Eof(s, "to") /\ Exit(s) /\ UNCHANGED quit

\* The server returns, crashes or is killed, for reasons of its own.
Quit(s) == s \in Quitters /\ Exit(s) /\ quit' = quit \cup {s}

\* The server closes its stdout and goes on.
CloseStdout(s) ==
    /\ s \in Quitters /\ child[s] = "listening" /\ <<s, "from", "write">> \in fds[s]
    /\ Close(s, {<<s, "from", "write">>})
    /\ quit' = quit \cup {s}
    /\ UNCHANGED <<platform, spawner, child, exec_error, worker, owner, told>>

-----------------------------------------------------------------------------
(* The session object *)

\* read_messages() of the worker ends.
ReadEnds(s) ==
    /\ worker[s] = "reading"
    /\ Eof(s, "from")
    /\ worker' = [worker EXCEPT ![s] = "leaving"]
    /\ UNCHANGED <<platform, spawner, child, handles, exec_error, owner, told, quit>>

\* The mutation of LeftByItself that does not look at _outbound.
LeftSomehow(s) == TRUE

\* _outbound, as the worker finds it.
LeftByItself(s) == owner[s] = "connected"

\* if (_outbound) inbound.disconnect()
Leave(s) ==
    /\ worker[s] = "leaving"
    /\ notified' = IF LeftByItself(s) THEN notified \cup {s} ELSE notified
    /\ worker' = [worker EXCEPT ![s] = "waiting"]
    /\ UNCHANGED <<platform, spawner, child, handles, exec_error, owner, reports, quit>>

\* The mutation of HasExited that reports without waiting.
HasLeft(s) == TRUE

\* waitid(), taken not to be interrupted, or WaitForSingleObject()
HasExited(s) == child[s] = "exited"

\* The thread's function is destroyed, and with it its copy of spawned: the
\* deleter of the process handle waits for the exit and reports it, and the
\* inbound pipe is closed.
Reap(s) ==
    /\ worker[s] = "waiting"
    /\ HasExited(s)
    /\ reports' = [reports EXCEPT ![s] = @ + 1]
    /\ Close(Parent, {<<s, "from", "read">>})
    /\ worker' = [worker EXCEPT ![s] = "done"]
    /\ UNCHANGED <<platform, spawner, child, exec_error, owner, notified, quit>>

\* _outbound.reset()
Reset(s) == Close(Parent, {<<s, "to", "write">>})

\* ~client_session(): close the pipe ...
Destroy(s) ==
    /\ owner[s] = "connected"
    /\ owner' = [owner EXCEPT ![s] = "closing"]
    /\ Reset(s)
    /\ UNCHANGED <<platform, spawner, child, exec_error, worker, told, quit>>

\* ... and join().
Join(s) ==
    /\ owner[s] = "closing"
    /\ worker[s] = "done"
    /\ owner' = [owner EXCEPT ![s] = "destroyed"]
    /\ UNCHANGED <<platform, spawner, child, handles, exec_error, worker, told, quit>>

-----------------------------------------------------------------------------
\* What goes on by itself once a spawn() or a destructor has been called.
Progress(s) ==
    \/ Mark(s) \/ Fork(s) \/ CreateProcess(s) \/ CreateFails(s)
    \/ CloseErrorWrite(s) \/ SpawnThrows(s) \/ SpawnReturns(s)
    \/ Join(s)

Server(s) == Exec(s) \/ ExecFails(s) \/ ListenLoopEnds(s)

Worker(s) == ReadEnds(s) \/ Leave(s) \/ Reap(s)

Next == \E s \in Sessions :
            \/ Pipes(s) \/ PipesFail(s)
            \/ Progress(s) \/ Server(s) \/ Quit(s) \/ CloseStdout(s) \/ Worker(s) \/ Destroy(s)

\* Threads and processes are scheduled; nobody owes a spawn, a quit or a Destroy.
Fairness == \A s \in Sessions :
                WF_vars(Progress(s)) /\ WF_vars(Server(s)) /\ WF_vars(Worker(s))

SafeSpec == Init /\ [][Next]_vars
Spec == SafeSpec /\ Fairness

-----------------------------------------------------------------------------
(* Properties *)

\* inbound.disconnect() tells of a server that closed its end by itself, never of one that
\* the session's own destructor has sent away, though the two may race.
DisconnectMeansServerLeft == notified \subseteq quit

\* The exit handler is called at most once, for a process that has exited: not for one
\* that has only closed its stdout; with the types of the state.
ExitIsReportedOnce ==
    /\ TypeOK
    /\ \A s \in Sessions : reports[s] <= 1 /\ (reports[s] = 1 => child[s] = "exited")

\* spawn() returns or throws: on Unix the error pipe ends with the exec.
SpawnEnds == \A s \in Sessions : Spawning(s) ~> spawner[s] \in {"returned", "thrown"}

\* Every exit of a spawned server is noticed and reported.
ExitsAreReported ==
    \A s \in Sessions : owner[s] # "none" /\ child[s] = "exited" ~> reports[s] = 1

\* A server spawned later holds the pipe that tells this one to leave.
HeldBySibling(s) == \E r \in Sessions \ {s} : <<s, "to", "write">> \in fds[r]

\* The destructor of a session returns unless a server spawned later on Unix holds the
\* pipe it closes; handles that Windows servers inherit keep nobody waiting.
OnlySiblingsDelay ==
    \A s \in Sessions :
        owner[s] = "closing" ~> owner[s] = "destroyed" \/ (platform = "unix" /\ HeldBySibling(s))

\* "This breaks the server's listen loop, exits it, which causes its stdout to get
\* closed": the destructor of a session, having closed _outbound, returns.
DestructorReturns == \A s \in Sessions : owner[s] = "closing" ~> owner[s] = "destroyed"
=============================================================================
