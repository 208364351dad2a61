------------------------ MODULE CancellableReadWin32 ------------------------
(***************************************************************************)
(* cancellable_read::impl of src/cancellable_read.win32.cpp: one thread in *)
(* read(), several in cancel().  A lock_guard section is one action; what  *)
(* runs outside the lock (OpenThread, the platform's read, the return) has *)
(* actions of its own, so that cancel() may run in every gap.              *)
(*                                                                         *)
(* The platform is external: fread() is a sequence of ReadFile calls, and  *)
(* CancelSynchronousIo(thread) succeeds exactly when that thread is inside *)
(* one, which then fails and ends the fread().                             *)
(***************************************************************************)
EXTENDS BytePipe

CONSTANT Cancellers     \* the threads that call cancel(); each calls it once

VARIABLES
    cancelled,      \* _cancelled
    thread_handle,  \* _thread_handle: TRUE when set, FALSE when null
    reader,         \* control state of the reading thread
    want, got,      \* the size asked of fread() and the bytes it has so far
    canceller       \* canceller[t]: control state of thread t in cancel()

vars == <<cancelled, thread_handle, reader, want, got, canceller, pipe>>

Outside == {"idle", "data", "thrown"}

TypeOK ==
    /\ PipeTypeOK
    /\ cancelled \in BOOLEAN
    /\ thread_handle \in BOOLEAN
    /\ reader \in Outside \cup {"precheck", "engaged", "pending", "checking"}
    /\ want \in Nat
    /\ got \in 0..want
    /\ canceller \in [Cancellers -> {"idle", "looping", "returning", "done"}]

Init ==
    /\ PipeInit
    /\ cancelled = FALSE
    /\ thread_handle = FALSE
    /\ reader = "idle"
    /\ want = 0 /\ got = 0
    /\ canceller = [t \in Cancellers |-> "idle"]

-----------------------------------------------------------------------------
(* read() *)

\* The call, and OpenThread: this_thread is a handle owned by this call.
BeginRead ==
    /\ reader \in Outside
    /\ reader' = "precheck"
    /\ want' \in Sizes
    /\ got' = 0
    /\ UNCHANGED <<cancelled, thread_handle, canceller, pipe>>

\* The first locked section, when already cancelled.
Refuse ==
    /\ reader = "precheck"
    /\ cancelled
    /\ reader' = "thrown"
    /\ UNCHANGED <<cancelled, thread_handle, want, got, canceller, pipe>>

\* The first locked section otherwise: publish the thread's handle.
Engage ==
    /\ reader = "precheck"
    /\ ~cancelled
    /\ thread_handle' = TRUE
    /\ reader' = "engaged"
    /\ UNCHANGED <<cancelled, want, got, canceller, pipe>>

\* fread() still needs bytes and enters ReadFile.
EnterReadFile ==
    /\ reader = "engaged"
    /\ got < want
    /\ reader' = "pending"
    /\ UNCHANGED <<cancelled, thread_handle, want, got, canceller, pipe>>

\* The mutation of LeaveReadFile that asks for the whole size again.
LeaveReadFileOverrun ==
    /\ reader = "pending"
    /\ Readable
    /\ \E k \in Chunks(want) :
        /\ Take(k)
        /\ got' = got + k
        /\ reader' = IF k = 0 THEN "checking" ELSE "engaged"
    /\ UNCHANGED <<cancelled, thread_handle, want, canceller>>

\* ReadFile returns data, after which fread() may need more, or the end of file.
LeaveReadFile ==
    /\ reader = "pending"
    /\ Readable
    /\ \E k \in Chunks(want - got) :
        /\ Take(k)
        /\ got' = got + k
        /\ reader' = IF k = 0 THEN "checking" ELSE "engaged"
    /\ UNCHANGED <<cancelled, thread_handle, want, canceller>>

\* fread() has all it was asked for (at once, when asked for nothing).
FreadReturns ==
    /\ reader = "engaged"
    /\ got = want
    /\ reader' = "checking"
    /\ UNCHANGED <<cancelled, thread_handle, want, got, canceller, pipe>>

\* The mutation of Finish that leaves the handle published.
FinishKeepsHandle ==
    /\ reader = "checking"
    /\ reader' = IF cancelled THEN "thrown" ELSE "data"
    /\ UNCHANGED <<cancelled, thread_handle, want, got, canceller, pipe>>

\* The mutation of Finish that returns what an interrupted fread() left.
FinishUnchecked ==
    /\ reader = "checking"
    /\ thread_handle' = FALSE
    /\ reader' = "data"
    /\ UNCHANGED <<cancelled, want, got, canceller, pipe>>

\* The second locked section; this_thread is closed on the way out.
Finish ==
    /\ reader = "checking"
    /\ thread_handle' = FALSE
    /\ reader' = IF cancelled THEN "thrown" ELSE "data"
    /\ UNCHANGED <<cancelled, want, got, canceller, pipe>>

-----------------------------------------------------------------------------
(* cancel() *)

BeginCancel(t) ==
    /\ canceller[t] = "idle"
    /\ canceller' = [canceller EXCEPT ![t] = "looping"]
    /\ UNCHANGED <<cancelled, thread_handle, reader, want, got, pipe>>

\* The mutation of CancelLoop that takes one failed cancel_io() for an answer.
CancelOnce(t) ==
    /\ canceller[t] = "looping"
    /\ cancelled' = TRUE
    /\ canceller' = [canceller EXCEPT ![t] = "returning"]
    /\ reader' = IF thread_handle /\ reader = "pending" THEN "checking" ELSE reader
    /\ UNCHANGED <<thread_handle, want, got, pipe>>

\* One locked pass of the loop: leave it when no read is engaged or when
\* cancel_io() succeeds, and go round again when it fails.
CancelLoop(t) ==
    /\ canceller[t] = "looping"
    /\ cancelled' = TRUE
    /\ \/ /\ ~thread_handle
          /\ canceller' = [canceller EXCEPT ![t] = "returning"]
          /\ UNCHANGED reader
       \/ /\ thread_handle
          /\ reader = "pending"
          /\ canceller' = [canceller EXCEPT ![t] = "returning"]
          /\ reader' = "checking"
       \/ /\ thread_handle
          /\ reader # "pending"
          /\ UNCHANGED <<canceller, reader>>
    /\ UNCHANGED <<thread_handle, want, got, pipe>>

EndCancel(t) ==
    /\ canceller[t] = "returning"
    /\ canceller' = [canceller EXCEPT ![t] = "done"]
    /\ UNCHANGED <<cancelled, thread_handle, reader, want, got, pipe>>

-----------------------------------------------------------------------------
Peer ==
    /\ PeerWrites \/ PeerCloses
    /\ UNCHANGED <<cancelled, thread_handle, reader, want, got, canceller>>

Reader ==
    Refuse \/ Engage \/ EnterReadFile \/ LeaveReadFile \/ FreadReturns \/ Finish

Next ==
    \/ BeginRead
    \/ Reader
    \/ \E t \in Cancellers : BeginCancel(t) \/ CancelLoop(t) \/ EndCancel(t)
    \/ Peer

\* Threads inside read() and cancel() are scheduled; nobody owes a call, and the
\* peer owes no data.
Fairness ==
    /\ WF_vars(Reader)
    /\ \A t \in Cancellers : WF_vars(CancelLoop(t)) /\ WF_vars(EndCancel(t))

SafeSpec == Init /\ [][Next]_vars
Spec == SafeSpec /\ Fairness

-----------------------------------------------------------------------------
(* Properties *)

\* The handle cancel() passes to CancelSynchronousIo belongs to a read() that
\* has not closed it yet: it is reset under the lock before read() returns.
HandleIsOpen == thread_handle => reader \notin Outside

\* read() returns fewer bytes than asked for at the end of the file only: what
\* an interrupted fread() leaves is never mistaken for a short read.
ShortReadMeansEof == reader = "data" /\ got < want => closed /\ avail = 0

\* read() and cancel() keep the promise of cancellable_read.h, the safety of it
\* and its progress: cancel() returns, and the read it overtakes throws.
Promise == INSTANCE CancellableRead WITH
    read <- IF reader \in Outside THEN reader ELSE "active",
    cancel <- [t \in Cancellers |-> IF canceller[t] \in {"idle", "done"}
                                   THEN canceller[t] ELSE "active"]

KeepsThePromise == Promise!Spec
=============================================================================
