------------------------------ MODULE BytePipe ------------------------------
(***************************************************************************)
(* The byte stream behind a FILE (a pipe whose writing end belongs to the  *)
(* peer process), as cancellable_read uses it.  External to the            *)
(* repository: the operating system and the C library.  Bytes are counted, *)
(* not named; the file is unbuffered, as server_endpoint_stream.cpp sets   *)
(* it up (setvbuf(..., _IONBF, ...)).                                      *)
(***************************************************************************)
EXTENDS Naturals

CONSTANTS
    Sizes,      \* the sizes read() is called with: a header, a payload, or 0
    MaxBytes    \* bound: the bytes the peer writes altogether

ASSUME BytePipeAssumption == Sizes \subseteq Nat /\ MaxBytes \in Nat

VARIABLES
    avail,      \* bytes in the pipe
    written,    \* bytes written so far
    closed      \* the peer has closed its end

pipe == <<avail, written, closed>>

PipeTypeOK ==
    /\ avail \in 0..MaxBytes
    /\ written \in 0..MaxBytes
    /\ avail <= written
    /\ closed \in BOOLEAN

PipeInit ==
    /\ avail = 0
    /\ written = 0
    /\ closed = FALSE

PeerWrites ==
    /\ ~closed
    /\ written < MaxBytes
    /\ avail' = avail + 1
    /\ written' = written + 1
    /\ UNCHANGED closed

PeerCloses ==
    /\ ~closed
    /\ closed' = TRUE
    /\ UNCHANGED <<avail, written>>

\* A blocking read on the pipe returns: there is data, or the end of the file.
Readable == avail > 0 \/ closed

\* The counts a single system call may return when it may fill n bytes; 0 is
\* the end of the file.
Chunks(n) == IF avail > 0 THEN {k \in 1..n : k <= avail} ELSE {0}

Take(k) ==
    /\ avail' = avail - k
    /\ UNCHANGED <<written, closed>>
=============================================================================
