------------------------- MODULE CancellableReadUnix -------------------------
(***************************************************************************)
(* cancellable_read::impl of src/cancellable_read.unix.cpp.  cancel()      *)
(* writes one byte to a pipe of the object's own; read() waits in select() *)
(* for that pipe and the data, throws if the signal is there, and calls    *)
(* fread() otherwise.  Nothing ever takes the signal out of its pipe.      *)
(*                                                                         *)
(* fread() is a sequence of read(2) calls on the unbuffered file.  A       *)
(* select() interrupted by a signal is called again (EINTR): a stuttering  *)
(* step.  select() fails otherwise only for a closed descriptor, which no  *)
(* user of the class brings about while a read is going on.                *)
(***************************************************************************)
EXTENDS BytePipe, FiniteSets

CONSTANT Cancellers     \* the threads that call cancel(); each calls it once

ASSUME CancellersAssumption == IsFiniteSet(Cancellers)

VARIABLES
    signal,     \* bytes in _signal_pipe
    reader,     \* control state of the reading thread
    ready,      \* rfds, as the last select() left it
    want, got,  \* the size asked of fread() and the bytes it has so far
    canceller,  \* canceller[t]: control state of thread t in cancel()
    late        \* history: some cancel() had returned when this read() began

vars == <<signal, reader, ready, want, got, canceller, late, pipe>>

Outside == {"idle", "data", "thrown"}

TypeOK ==
    /\ PipeTypeOK
    /\ signal \in 0..Cardinality(Cancellers)
    /\ reader \in Outside \cup {"selecting", "selected", "reading"}
    /\ ready \subseteq {"signal", "data"}
    /\ want \in Nat
    /\ got \in 0..want
    /\ canceller \in [Cancellers -> {"idle", "writing", "returning", "done"}]
    /\ late \in BOOLEAN

Init ==
    /\ PipeInit
    /\ signal = 0
    /\ reader = "idle"
    /\ ready = {}
    /\ want = 0 /\ got = 0
    /\ canceller = [t \in Cancellers |-> "idle"]
    /\ late = FALSE

-----------------------------------------------------------------------------
(* read() *)

BeginRead ==
    /\ reader \in Outside
    /\ reader' = "selecting"
    /\ want' \in Sizes
    /\ got' = 0
    /\ late' = \E t \in Cancellers : canceller[t] = "done"
    /\ UNCHANGED <<signal, ready, canceller, pipe>>

\* The mutation of Ready that leaves the signal pipe out of the set.
ReadyDataOnly == IF Readable THEN {"data"} ELSE {}

\* The descriptors of the set that are readable.
Ready == (IF signal > 0 THEN {"signal"} ELSE {}) \cup (IF Readable THEN {"data"} ELSE {})

\* select() returns once there is one, with all of them.
Select ==
    /\ reader = "selecting"
    /\ Ready # {}
    /\ ready' = Ready
    /\ reader' = "selected"
    /\ UNCHANGED <<signal, want, got, canceller, late, pipe>>

Throw ==
    /\ reader = "selected"
    /\ "signal" \in ready
    /\ reader' = "thrown"
    /\ UNCHANGED <<signal, ready, want, got, canceller, late, pipe>>

\* The mutation of MayRead that tests the data descriptor only.
MayReadData == "data" \in ready

\* There is no signal, so there is data.
MayRead == "signal" \notin ready

Proceed ==
    /\ reader = "selected"
    /\ MayRead
    /\ reader' = "reading"
    /\ UNCHANGED <<signal, ready, want, got, canceller, late, pipe>>

\* What fread() has yet to read.
Missing == want - got

\* The mutation of NoMore that takes what there is for what was asked for.
NoMoreThanThis(k) == TRUE

\* A read(2) that returns nothing has met the end of the file.
NoMore(k) == k = 0

\* One read(2) of fread(), which returns at the end of the file.
ReadCall ==
    /\ reader = "reading"
    /\ got < want
    /\ Readable
    /\ \E k \in Chunks(Missing) :
        /\ Take(k)
        /\ got' = got + k
        /\ reader' = IF NoMore(k) THEN "data" ELSE "reading"
    /\ UNCHANGED <<signal, ready, want, canceller, late>>

FreadReturns ==
    /\ reader = "reading"
    /\ got = want
    /\ reader' = "data"
    /\ UNCHANGED <<signal, ready, want, got, canceller, late, pipe>>

-----------------------------------------------------------------------------
(* cancel() *)

BeginCancel(t) ==
    /\ canceller[t] = "idle"
    /\ canceller' = [canceller EXCEPT ![t] = "writing"]
    /\ UNCHANGED <<signal, reader, ready, want, got, late, pipe>>

\* write() of one byte; the pipe holds far more of them than there are calls.
WriteSignal(t) ==
    /\ canceller[t] = "writing"
    /\ signal' = signal + 1
    /\ canceller' = [canceller EXCEPT ![t] = "returning"]
    /\ UNCHANGED <<reader, ready, want, got, late, pipe>>

EndCancel(t) ==
    /\ canceller[t] = "returning"
    /\ canceller' = [canceller EXCEPT ![t] = "done"]
    /\ UNCHANGED <<signal, reader, ready, want, got, late, pipe>>

-----------------------------------------------------------------------------
Peer ==
    /\ PeerWrites \/ PeerCloses
    /\ UNCHANGED <<signal, reader, ready, want, got, canceller, late>>

Reader == Select \/ Throw \/ Proceed \/ ReadCall \/ FreadReturns

Next ==
    \/ BeginRead
    \/ Reader
    \/ \E t \in Cancellers : BeginCancel(t) \/ WriteSignal(t) \/ EndCancel(t)
    \/ Peer

\* Threads inside read() and cancel() are scheduled; the peer owes no data.
Fairness ==
    /\ WF_vars(Reader)
    /\ \A t \in Cancellers : WF_vars(WriteSignal(t)) /\ WF_vars(EndCancel(t))

SafeSpec == Init /\ [][Next]_vars
Spec == SafeSpec /\ Fairness

-----------------------------------------------------------------------------
(* Properties *)

Cancelled == \E t \in Cancellers : canceller[t] = "done"

\* "All read requests made past this call will throw": the signal is never
\* drained and is looked at before the data, so a read() begun after a cancel()
\* returned does not even start fread().
LateReadsThrow == late => reader \notin {"reading", "data"}

\* read() returns fewer bytes than asked for at the end of the file only, and never more;
\* with the types of the state.
ShortReadMeansEof ==
    /\ TypeOK
    /\ reader = "data" /\ got < want => closed /\ avail = 0

\* A read() that waits for its first byte is woken by cancel(), and throws.
WaitingReadThrows == reader = "selecting" /\ Cancelled ~> reader = "thrown"

\* "If there's an ongoing or a starting read() operation - it'll exit": once a
\* cancel() has returned, whatever read() is going on comes to an end.
OngoingReadExits == reader \notin Outside /\ Cancelled ~> reader \in Outside
=============================================================================
