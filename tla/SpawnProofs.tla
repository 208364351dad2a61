----------------------------- MODULE SpawnProofs -----------------------------
(***************************************************************************)
(* Proofs about spawned servers, for any number of sessions, spawned one   *)
(* after the other or by several threads at once, on either platform: a    *)
(* session is told of a server that left by itself and of no other, and    *)
(* an exit is reported once.                                               *)
(***************************************************************************)
EXTENDS Spawn, TLAPS

\* How far spawn() has come, what the parent holds and passes on meanwhile, and what
\* that makes of the process.
SpawnOrder(s) ==
    /\ spawner[s] \in {"idle", "piped", "marked"} => child[s] = "none"
    /\ spawner[s] \in {"piped", "marked"} => Own(s) \subseteq fds[Parent]
    /\ spawner[s] \in {"forked", "checking"} => <<s, "to", "write">> \in fds[Parent]
    /\ spawner[s] = "piped" /\ platform = "unix" => Own(s) \subseteq passed[Parent]
    /\ spawner[s] = "marked" => <<s, "from", "write">> \in passed[Parent]
    /\ spawner[s] \in {"forked", "checking", "returned"} => child[s] # "none"

\* A forked process holds the ends that tell its parent how the exec went and that will
\* be its stdout; a server that has not left holds the latter still, and leaves only when
\* the parent lets go of its stdin.
ServerHolds(s) ==
    /\ child[s] = "forked" =>
        <<s, "error", "write">> \in fds[s] /\ <<s, "from", "write">> \in passed[s]
    /\ child[s] = "listening" => s \in quit \/ <<s, "from", "write">> \in fds[s]
    /\ child[s] = "exited" =>
        s \in quit \/ s \in exec_error \/ <<s, "to", "write">> \notin fds[Parent]

\* A session object exists once spawn() has returned, and then its server runs or ran.
SessionLives(s) ==
    /\ owner[s] # "none" <=> spawner[s] = "returned"
    /\ worker[s] # "none" <=> owner[s] # "none"
    /\ spawner[s] = "returned" => s \notin exec_error /\ child[s] \in {"listening", "exited"}
    /\ owner[s] = "connected" => <<s, "to", "write">> \in fds[Parent]
    /\ worker[s] = "leaving" /\ owner[s] = "connected" => s \in quit
    /\ reports[s] = IF worker[s] = "done" THEN 1 ELSE 0
    /\ worker[s] = "done" => child[s] = "exited"

SessionInv(s) == SpawnOrder(s) /\ ServerHolds(s) /\ SessionLives(s)

IInv ==
    /\ TypeOK
    /\ \A s \in Sessions : SessionInv(s)
    /\ DisconnectMeansServerLeft

\* The steps of a session, its server and its owner.
StepOf(s) ==
    \/ Pipes(s) \/ PipesFail(s)
    \/ Progress(s) \/ Server(s) \/ Quit(s) \/ CloseStdout(s) \/ Worker(s) \/ Destroy(s)

USE SpawnAssumption

\* The ends of a session's pipes.
LEMMA EndsOfPipes ==
    ASSUME NEW s \in Sessions
    PROVE  /\ Own(s) \subseteq PipeEnd
           /\ <<s, "to", "write">> \in Own(s) /\ <<s, "from", "write">> \in Own(s)
           /\ ServerEnds(s) \subseteq Own(s)
           /\ platform = "unix" => <<s, "error", "write">> \in Own(s)
           /\ Unused(s) \subseteq Own(s) /\ <<s, "to", "write">> \notin Unused(s)
           /\ <<s, "from", "write">> \in ServerEnds(s)
           /\ SessionEnds(s) \subseteq Own(s) /\ <<s, "from", "write">> \notin SessionEnds(s)
  BY DEF Own, PipeEnd, SessionEnds, ServerEnds, Unused

\* Sessions have pipes of their own.
LEMMA EndsAreApart ==
    ASSUME NEW s \in Sessions, NEW r \in Sessions \ {s}
    PROVE  /\ Own(s) \cap Own(r) = {}
           /\ <<s, "error", "write">> \notin Own(r)
           /\ <<s, "to", "write">> \notin Own(r)
           /\ <<s, "from", "read">> \notin Own(r)
  BY DEF Own

\* The initial state satisfies the inductive invariant.
LEMMA IInvInit == Init => IInv
<1> SUFFICES ASSUME Init PROVE IInv
    OBVIOUS
<1>1. TypeOK
  BY DEF Init, TypeOK
<1>2. \A s \in Sessions : SessionInv(s)
  BY DEF Init, SessionInv, SpawnOrder, ServerHolds, SessionLives
<1>3. DisconnectMeansServerLeft
  BY DEF Init, DisconnectMeansServerLeft
<1> QED
  BY <1>1, <1>2, <1>3 DEF IInv

-----------------------------------------------------------------------------
(* Types *)

HandlesOK ==
    /\ fds \in [Processes -> SUBSET PipeEnd]
    /\ passed \in [Processes -> SUBSET PipeEnd]
    /\ \A p \in Processes : passed[p] \subseteq fds[p]

ControlOK ==
    /\ platform \in Platforms
    /\ spawner \in [Sessions -> {"idle", "piped", "marked", "forked", "checking",
                                 "returned", "thrown"}]
    /\ child \in [Sessions -> {"none", "forked", "listening", "exited"}]
    /\ exec_error \subseteq Sessions
    /\ worker \in [Sessions -> {"none", "reading", "leaving", "waiting", "done"}]
    /\ owner \in [Sessions -> {"none", "connected", "closing", "destroyed"}]
    /\ notified \subseteq Sessions
    /\ reports \in [Sessions -> Nat]
    /\ quit \subseteq Sessions

LEMMA TypeParts == TypeOK <=> HandlesOK /\ ControlOK
  BY DEF TypeOK, HandlesOK, ControlOK

\* What closing ends leaves.
LEMMA CloseKeepsHandles ==
    ASSUME HandlesOK, NEW p \in Processes, NEW E, Close(p, E)
    PROVE  HandlesOK'
  BY DEF HandlesOK, Close

\* Every step keeps the types of the handles; what CreateProcess() is told to pass on is
\* the parent's own.
LEMMA HandlesStep ==
    ASSUME IInv, NEW s \in Sessions, StepOf(s)
    PROVE  HandlesOK'
<1> USE DEF Processes
<1>1. HandlesOK /\ SpawnOrder(s) /\ platform \in {"unix", "win32"}
  BY TypeParts DEF IInv, SessionInv, ControlOK
<1>2. CASE Pipes(s)
  BY <1>1, <1>2, EndsOfPipes DEF Pipes, HandlesOK
<1>3. CASE Mark(s)
  <2>1. Marked(s) \subseteq fds[Parent] /\ Marked(s) \subseteq PipeEnd
    BY <1>1, <1>3, EndsOfPipes DEF Mark, Marked, HandlesOK, At, SpawnOrder
  <2> QED
    BY <1>1, <1>3, <2>1 DEF Mark, HandlesOK
<1>4. CASE Fork(s) \/ CreateProcess(s)
  BY <1>1, <1>4 DEF Fork, CreateProcess, HandlesOK
<1>5. CASE CreateFails(s) \/ CloseErrorWrite(s) \/ SpawnThrows(s) \/ SpawnReturns(s)
  BY <1>1, <1>5, CloseKeepsHandles
     DEF CreateFails, CloseErrorWrite, SpawnThrows, SpawnReturns
<1>6. CASE Server(s) \/ Quit(s) \/ CloseStdout(s)
  BY <1>1, <1>6, CloseKeepsHandles
     DEF Server, Exec, ExecFails, ListenLoopEnds, Exit, Quit, CloseStdout
<1>7. CASE Reap(s) \/ Destroy(s)
  BY <1>1, <1>7, CloseKeepsHandles DEF Reap, Destroy, Reset
<1>8. CASE PipesFail(s) \/ Join(s) \/ ReadEnds(s) \/ Leave(s)
  BY <1>1, <1>8 DEF PipesFail, Join, ReadEnds, Leave, handles, HandlesOK
<1> QED
  BY <1>2, <1>3, <1>4, <1>5, <1>6, <1>7, <1>8 DEF StepOf, Progress, Worker

\* Every step keeps the types of everything else.
LEMMA ControlStep ==
    ASSUME ControlOK, NEW s \in Sessions, StepOf(s)
    PROVE  ControlOK'
<1> USE DEF ControlOK, At, told
<1>1. CASE Pipes(s) \/ PipesFail(s) \/ Mark(s)
  BY <1>1 DEF Pipes, PipesFail, Mark
<1>2. CASE Fork(s) \/ CreateProcess(s) \/ CreateFails(s) \/ CloseErrorWrite(s)
  BY <1>2 DEF Fork, CreateProcess, CreateFails, CloseErrorWrite
<1>3. CASE SpawnThrows(s) \/ SpawnReturns(s) \/ Join(s)
  BY <1>3 DEF SpawnThrows, SpawnReturns, Join
<1>4. CASE Server(s) \/ Quit(s) \/ CloseStdout(s)
  BY <1>4 DEF Server, Exec, ExecFails, ListenLoopEnds, Exit, Quit, CloseStdout
<1>5. CASE Worker(s) \/ Destroy(s)
  BY <1>5 DEF Worker, ReadEnds, Leave, Reap, Destroy
<1> QED
  BY <1>1, <1>2, <1>3, <1>4, <1>5 DEF StepOf, Progress

-----------------------------------------------------------------------------
(* A step of one session does not disturb another *)

\* Nothing that the invariant of session r depends on changes.
Untouched(r) ==
    /\ platform' = platform
    /\ spawner'[r] = spawner[r] /\ child'[r] = child[r]
    /\ worker'[r] = worker[r] /\ owner'[r] = owner[r] /\ reports'[r] = reports[r]
    /\ r \in exec_error' <=> r \in exec_error
    /\ r \in quit' <=> r \in quit
    /\ fds'[r] = fds[r] /\ passed'[r] = passed[r]
    /\ Own(r) \cap fds'[Parent] = Own(r) \cap fds[Parent]
    /\ Own(r) \cap passed'[Parent] = Own(r) \cap passed[Parent]

LEMMA UntouchedStays ==
    ASSUME NEW r \in Sessions, SessionInv(r), Untouched(r)
    PROVE  SessionInv(r)'
<1>1. Own(r)' = Own(r)
  BY DEF Untouched, Own
<1>2. \A e \in Own(r) : /\ e \in fds'[Parent] <=> e \in fds[Parent]
                        /\ e \in passed'[Parent] <=> e \in passed[Parent]
  BY DEF Untouched
<1>3. SpawnOrder(r)'
  BY <1>1, <1>2, EndsOfPipes DEF SessionInv, SpawnOrder, Untouched
<1>4. ServerHolds(r)'
  BY <1>2, EndsOfPipes DEF SessionInv, ServerHolds, Untouched
<1>5. SessionLives(r)'
  BY <1>2, EndsOfPipes DEF SessionInv, SessionLives, Untouched
<1> QED
  BY <1>3, <1>4, <1>5 DEF SessionInv

\* Session s opens and closes ends of its own pipes only, its server copies and closes
\* ends of its own process only.
LEMMA OthersUntouched ==
    ASSUME TypeOK, NEW s \in Sessions, StepOf(s), NEW r \in Sessions \ {s}
    PROVE  Untouched(r)
<1> USE DEF Untouched, TypeOK, Processes, At, told
<1>1. ASSUME NEW E, E \cap Own(r) = {}, Close(Parent, E)
      PROVE  /\ fds'[r] = fds[r] /\ passed'[r] = passed[r]
             /\ Own(r) \cap fds'[Parent] = Own(r) \cap fds[Parent]
             /\ Own(r) \cap passed'[Parent] = Own(r) \cap passed[Parent]
  BY <1>1 DEF Close
<1>2. ASSUME NEW E, Close(s, E)
      PROVE  /\ fds'[r] = fds[r] /\ passed'[r] = passed[r]
             /\ fds'[Parent] = fds[Parent] /\ passed'[Parent] = passed[Parent]
  BY <1>2 DEF Close
<1>3. Own(s) \cap Own(r) = {} /\ ServerEnds(s) \cap Own(r) = {} /\ Unused(s) \cap Own(r) = {}
  BY EndsOfPipes, EndsAreApart
<1>4. CASE Pipes(s)
  BY <1>3, <1>4 DEF Pipes
<1>5. CASE Mark(s)
  <2>1. Own(r) \cap Marked(s) = Own(r) \cap passed[Parent]
    BY <1>3, EndsAreApart DEF Marked
  <2> QED
    BY <1>5, <2>1 DEF Mark
<1>6. CASE Fork(s) \/ CreateProcess(s)
  BY <1>6 DEF Fork, CreateProcess
<1>7. CASE CreateFails(s) \/ SpawnThrows(s) \/ SpawnReturns(s)
  BY <1>1, <1>3, <1>7 DEF CreateFails, SpawnThrows, SpawnReturns
<1>8. CASE CloseErrorWrite(s) \/ Reap(s) \/ Destroy(s)
  <2>1. ASSUME NEW e, e \notin Own(r) PROVE {e} \cap Own(r) = {}
    BY <2>1
  <2>2. /\ {<<s, "error", "write">>} \cap Own(r) = {}
        /\ {<<s, "to", "write">>} \cap Own(r) = {}
        /\ {<<s, "from", "read">>} \cap Own(r) = {}
    BY <2>1, EndsAreApart
  <2>3. CASE CloseErrorWrite(s)
    BY <1>1, <2>2, <2>3 DEF CloseErrorWrite
  <2>4. CASE Reap(s)
    BY <1>1, <2>2, <2>4 DEF Reap
  <2>5. CASE Destroy(s)
    BY <1>1, <2>2, <2>5 DEF Destroy, Reset
  <2> QED
    BY <1>8, <2>3, <2>4, <2>5
<1>9. CASE Server(s) \/ Quit(s) \/ CloseStdout(s)
  BY <1>2, <1>9 DEF Server, Exec, ExecFails, ListenLoopEnds, Exit, Quit, CloseStdout
<1>10. CASE PipesFail(s) \/ Join(s) \/ ReadEnds(s) \/ Leave(s)
  BY <1>10 DEF PipesFail, Join, ReadEnds, Leave, handles
<1> QED
  BY <1>4, <1>5, <1>6, <1>7, <1>8, <1>9, <1>10 DEF StepOf, Progress, Worker

-----------------------------------------------------------------------------
(* A session's own steps *)

\* What spawn() does for its session, up to a process that runs.
LEMMA SpawnKeepsInv ==
    ASSUME IInv, NEW s \in Sessions,
           \/ Pipes(s) \/ PipesFail(s) \/ Mark(s) \/ Fork(s) \/ CreateProcess(s)
           \/ CreateFails(s) \/ CloseErrorWrite(s) \/ SpawnThrows(s)
    PROVE  SessionInv(s)'
<1> USE DEF At, told, Processes
<1>1. TypeOK /\ SessionInv(s) /\ platform \in {"unix", "win32"}
  BY DEF IInv, TypeOK
<1>2. platform' = platform /\ Own(s)' = Own(s)
  BY DEF Own, Pipes, PipesFail, Mark, Fork, CreateProcess, CreateFails, CloseErrorWrite,
         SpawnThrows
<1> USE <1>1 DEF SessionInv, SpawnOrder, ServerHolds, SessionLives, TypeOK
<1>3. CASE Pipes(s)
  BY <1>2, <1>3, EndsOfPipes DEF Pipes
<1>4. CASE PipesFail(s)
  BY <1>2, <1>4, EndsOfPipes DEF PipesFail, handles
<1>5. CASE Mark(s)
  BY <1>2, <1>5, EndsOfPipes DEF Mark, Marked
<1>6. CASE Fork(s)
  BY <1>2, <1>6, EndsOfPipes DEF Fork
<1>7. CASE CreateProcess(s)
  BY <1>2, <1>7, EndsOfPipes DEF CreateProcess
<1>8. CASE CreateFails(s)
  BY <1>2, <1>8, EndsOfPipes DEF CreateFails, Close
<1>9. CASE CloseErrorWrite(s)
  BY <1>2, <1>9, EndsOfPipes DEF CloseErrorWrite, Close
<1>10. CASE SpawnThrows(s)
  BY <1>2, <1>10, EndsOfPipes DEF SpawnThrows, Close
<1> QED
  BY <1>3, <1>4, <1>5, <1>6, <1>7, <1>8, <1>9, <1>10

\* spawn() returns only for a process that has got past its exec: a forked one still
\* holds the error pipe.
LEMMA ReturnKeepsInv ==
    ASSUME IInv, NEW s \in Sessions, SpawnReturns(s)
    PROVE  SessionInv(s)'
<1> USE DEF At, told, Processes
<1>1. TypeOK /\ SessionInv(s)
  BY DEF IInv
<1>2. platform' = platform /\ Own(s)' = Own(s)
  BY DEF Own, SpawnReturns
<1>3. child[s] \in {"listening", "exited"}
  BY <1>1 DEF SpawnReturns, Eof, SessionInv, ServerHolds, SpawnOrder, TypeOK
<1>4. <<s, "to", "write">> \in fds'[Parent]
  BY <1>1, EndsOfPipes DEF SpawnReturns, Close, SessionInv, SpawnOrder, TypeOK
<1> QED
  BY <1>1, <1>2, <1>3, <1>4
     DEF SpawnReturns, SessionInv, SpawnOrder, ServerHolds, SessionLives, TypeOK, Close

\* The server's steps: it stays while the parent holds the end of its stdin.
LEMMA ServerKeepsInv ==
    ASSUME IInv, NEW s \in Sessions, Server(s) \/ Quit(s) \/ CloseStdout(s)
    PROVE  SessionInv(s)'
<1> USE DEF told, Processes
<1>1. TypeOK /\ SessionInv(s)
  BY DEF IInv
<1>2. platform' = platform /\ Own(s)' = Own(s) /\ fds'[Parent] = fds[Parent]
      /\ passed'[Parent] = passed[Parent] /\ UNCHANGED <<spawner, worker, owner, told>>
  BY <1>1 DEF Own, Server, Exec, ExecFails, ListenLoopEnds, Exit, Quit, CloseStdout, Close, TypeOK
<1> USE <1>1 DEF SessionInv, SpawnOrder, ServerHolds, SessionLives, TypeOK
<1>3. CASE Exec(s)
  BY <1>2, <1>3, EndsOfPipes DEF Exec, Close, SessionEnds
<1>4. CASE ExecFails(s)
  BY <1>2, <1>4 DEF ExecFails, Close
<1>5. CASE ListenLoopEnds(s)
  BY <1>2, <1>5 DEF ListenLoopEnds, Exit, Close, Eof
<1>6. CASE Quit(s)
  BY <1>2, <1>6 DEF Quit, Exit, Close
<1>7. CASE CloseStdout(s)
  BY <1>2, <1>7 DEF CloseStdout, Close
<1> QED
  BY <1>3, <1>4, <1>5, <1>6, <1>7 DEF Server

\* The worker sees the end of the stream of a server that has left its session, which it
\* does by itself as long as the session is connected.
LEMMA SessionKeepsInv ==
    ASSUME IInv, NEW s \in Sessions, Worker(s) \/ Destroy(s) \/ Join(s)
    PROVE  SessionInv(s)'
<1> USE DEF told, Processes
<1>1. TypeOK /\ SessionInv(s)
  BY DEF IInv
<1>2. platform' = platform /\ Own(s)' = Own(s)
      /\ UNCHANGED <<spawner, child, exec_error, quit>>
  BY DEF Own, Worker, ReadEnds, Leave, Reap, Destroy, Join
<1> USE <1>1 DEF SessionInv, SpawnOrder, ServerHolds, SessionLives, TypeOK
<1>3. CASE ReadEnds(s)
  <2>1. owner[s] = "connected" => s \in quit
    BY <1>3 DEF ReadEnds, Eof
  <2> QED
    BY <1>2, <1>3, <2>1 DEF ReadEnds, handles
<1>4. CASE Leave(s)
  BY <1>2, <1>4 DEF Leave, handles
<1>5. CASE Reap(s)
  BY <1>2, <1>5 DEF Reap, HasExited, Close
<1>6. CASE Destroy(s)
  BY <1>2, <1>6 DEF Destroy, Reset, Close
<1>7. CASE Join(s)
  BY <1>2, <1>7 DEF Join, handles
<1> QED
  BY <1>3, <1>4, <1>5, <1>6, <1>7 DEF Worker

\* Every step keeps the inductive invariant.
LEMMA IInvStep == IInv /\ [Next]_vars => IInv'
<1> SUFFICES ASSUME IInv, [Next]_vars
             PROVE  IInv'
    OBVIOUS
<1>1. CASE UNCHANGED vars
  BY <1>1 DEF vars, handles, told, IInv, TypeOK, SessionInv, SpawnOrder, ServerHolds,
              SessionLives, DisconnectMeansServerLeft, Own
<1>2. ASSUME NEW s \in Sessions, StepOf(s)
      PROVE  IInv'
  <2>1. TypeOK'
    <3>1. HandlesOK'
      BY <1>2, HandlesStep
    <3>2. ControlOK'
      BY <1>2, ControlStep, TypeParts DEF IInv
    <3> QED
      BY <3>1, <3>2 DEF TypeOK, HandlesOK, ControlOK
  <2>2. SessionInv(s)'
    BY <1>2, SpawnKeepsInv, ReturnKeepsInv, ServerKeepsInv, SessionKeepsInv
       DEF StepOf, Progress
  <2>3. ASSUME NEW r \in Sessions \ {s} PROVE SessionInv(r)'
    BY <1>2, OthersUntouched, UntouchedStays DEF IInv
  <2>4. ASSUME Leave(s) PROVE DisconnectMeansServerLeft'
    BY <2>4 DEF Leave, LeftByItself, DisconnectMeansServerLeft, IInv, SessionInv, SessionLives
  <2>5. ASSUME ~Leave(s) PROVE DisconnectMeansServerLeft'
    <3>1. notified' = notified /\ quit \subseteq quit'
      BY <1>2, <2>5
         DEF StepOf, Progress, Server, Worker, Pipes, PipesFail, Mark, Fork, CreateProcess,
             CreateFails, CloseErrorWrite, SpawnThrows, SpawnReturns, Exec, ExecFails,
             ListenLoopEnds, Exit, Quit, CloseStdout, ReadEnds, Reap, Destroy, Join, told
    <3> QED
      BY <3>1 DEF DisconnectMeansServerLeft, IInv
  <2>6. DisconnectMeansServerLeft'
    BY <2>4, <2>5
  <2> QED
    BY <2>1, <2>2, <2>3, <2>6 DEF IInv
<1> QED
  BY <1>1, <1>2 DEF Next, StepOf

\* The inductive invariant holds throughout.
LEMMA Inductive == SafeSpec => []IInv
  BY IInvInit, IInvStep, PTL DEF SafeSpec

\* inbound.disconnect() tells of a server that left by itself and never of one that the
\* session's destructor has sent away, however many sessions there are and whether or not
\* several threads spawn at once.
THEOREM DisconnectsMeanServerLeft == SafeSpec => []DisconnectMeansServerLeft
  BY Inductive, PTL DEF IInv

\* The exit handler of a session is called at most once, after the process has exited.
THEOREM ExitsAreReportedOnce == SafeSpec => []ExitIsReportedOnce
<1>1. IInv => ExitIsReportedOnce
  <2> SUFFICES ASSUME IInv PROVE ExitIsReportedOnce
      OBVIOUS
  <2>1. \A s \in Sessions : reports[s] <= 1 /\ (reports[s] = 1 => child[s] = "exited")
    <3> SUFFICES ASSUME NEW s \in Sessions
                 PROVE  reports[s] <= 1 /\ (reports[s] = 1 => child[s] = "exited")
        OBVIOUS
    <3>1. SessionLives(s)
      BY DEF IInv, SessionInv
    <3> QED
      BY <3>1 DEF SessionLives
  <2> QED
    BY <2>1 DEF IInv, ExitIsReportedOnce
<1> QED
  BY <1>1, Inductive, PTL
=============================================================================
