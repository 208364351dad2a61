---------------------- MODULE CancellableReadUnixProofs ----------------------
(***************************************************************************)
(* Proofs about the Unix implementation of cancellable_read, for any       *)
(* finite set of cancelling threads, any sizes and any amount of data:     *)
(* reads begun after a cancel() never enter fread(), and a short read is   *)
(* the end of the file.                                                    *)
(***************************************************************************)
EXTENDS CancellableReadUnix, FiniteSetTheorems, TLAPS

\* The threads that have written their byte.
Written == {t \in Cancellers : canceller[t] \in {"returning", "done"}}

\* Each byte of the signal pipe was written by one thread, and none is taken out.
SignalCountsWriters == signal = Cardinality(Written)

\* A late read() finds the signal: before select() in the pipe, after it in the set.
LateReadsSeeSignal ==
    late => /\ \E t \in Cancellers : canceller[t] = "done"
            /\ reader = "selected" => "signal" \in ready

IInv ==
    /\ ShortReadMeansEof
    /\ SignalCountsWriters
    /\ LateReadsSeeSignal
    /\ LateReadsThrow

USE DEF Outside

\* What a single system call returns fits what was asked for and what there is.
LEMMA ChunksBounded ==
    ASSUME PipeTypeOK, NEW n \in Nat, NEW k \in Chunks(n)
    PROVE  /\ k \in Nat
           /\ k <= n
           /\ k <= avail
           /\ k = 0 => avail = 0
  BY BytePipeAssumption DEF Chunks, PipeTypeOK

\* Writers are no more than threads, and some if there is one.
LEMMA WritersBounded ==
    ASSUME NEW W \in SUBSET Cancellers
    PROVE  /\ IsFiniteSet(W)
           /\ Cardinality(W) \in 0..Cardinality(Cancellers)
           /\ W # {} => Cardinality(W) > 0
<1>1. IsFiniteSet(W) /\ Cardinality(W) <= Cardinality(Cancellers)
  BY CancellersAssumption, FS_Subset
<1>2. Cardinality(W) \in Nat /\ Cardinality(Cancellers) \in Nat
  BY <1>1, CancellersAssumption, FS_CardinalityType
<1>3. W # {} => Cardinality(W) # 0
  BY <1>1, FS_EmptySet
<1> QED
  BY <1>1, <1>2, <1>3

\* One more writer is one more byte.
LEMMA WriterAdded ==
    ASSUME NEW t \in Cancellers, WriteSignal(t),
           canceller \in [Cancellers -> {"idle", "writing", "returning", "done"}]
    PROVE  Cardinality(Written') = Cardinality(Written) + 1
<1>1. Written' = Written \cup {t}
  BY DEF WriteSignal, Written
<1>2. t \notin Written
  BY DEF WriteSignal, Written
<1> QED
  <2>1. IsFiniteSet(Written)
    BY WritersBounded DEF Written
  <2> QED
    BY <1>1, <1>2, <2>1, FS_AddElement

\* The initial state satisfies the inductive invariant.
LEMMA IInvInit == Init => IInv
<1> SUFFICES ASSUME Init PROVE IInv
    OBVIOUS
<1>1. PipeTypeOK
  <2>1. avail = 0 /\ written = 0 /\ closed \in BOOLEAN
    BY DEF Init, PipeInit
  <2> QED
    BY <2>1, BytePipeAssumption DEF PipeTypeOK
<1>2. SignalCountsWriters
  <2>1. Written = {}
    BY DEF Init, Written
  <2> QED
    BY <2>1, FS_EmptySet DEF Init, SignalCountsWriters
<1>3. signal \in 0..Cardinality(Cancellers)
  BY <1>2, WritersBounded DEF SignalCountsWriters, Written
<1>4. late \in BOOLEAN
  BY Zenon DEF Init
<1>5. TypeOK
  BY <1>1, <1>3, <1>4 DEF Init, TypeOK
<1> QED
  BY <1>2, <1>5 DEF IInv, Init, ShortReadMeansEof, LateReadsSeeSignal, LateReadsThrow

\* A step that leaves cancel() alone leaves the signal's count alone.
LEMMA SignalUntouched ==
    ASSUME SignalCountsWriters, UNCHANGED <<signal, canceller>>
    PROVE  SignalCountsWriters'
<1>1. Written' = Written
  BY DEF Written
<1> QED
  BY <1>1 DEF SignalCountsWriters

\* Every step keeps the inductive invariant.
LEMMA IInvStep == IInv /\ [Next]_vars => IInv'
<1> SUFFICES ASSUME IInv, [Next]_vars
             PROVE  IInv'
    OBVIOUS
<1> USE DEF IInv, ShortReadMeansEof, TypeOK, PipeTypeOK, LateReadsSeeSignal, LateReadsThrow
<1>1. CASE BeginRead
  <2>1. late' \in BOOLEAN /\ (late' => \E t \in Cancellers : canceller'[t] = "done")
    BY <1>1, Zenon DEF BeginRead
  <2> QED
    BY <1>1, <2>1, SignalUntouched, BytePipeAssumption DEF BeginRead, pipe
<1>2. CASE Select
  <2>1. late => signal > 0
    BY WritersBounded DEF SignalCountsWriters, Written
  <2>2. late => "signal" \in ready'
    BY <1>2, <2>1 DEF Select, Ready
  <2> QED
    BY <1>2, <2>2, SignalUntouched DEF Select, Ready, pipe
<1>3. CASE Throw
  BY <1>3, SignalUntouched DEF Throw, pipe
<1>4. CASE Proceed
  BY <1>4, SignalUntouched DEF Proceed, MayRead, pipe
<1>5. CASE ReadCall
  <2>1. PICK k \in Chunks(want - got) :
          /\ Take(k)
          /\ got' = got + k
          /\ reader' = IF k = 0 THEN "data" ELSE "reading"
    BY <1>5 DEF ReadCall, Missing, NoMore
  <2>2. want - got \in Nat
    OBVIOUS
  <2>3. k \in Nat /\ k <= want - got /\ k <= avail /\ (k = 0 => avail = 0)
    BY <2>2, ChunksBounded
  <2>4. reader = "reading" /\ Readable /\ UNCHANGED <<signal, ready, want, canceller, late>>
    BY <1>5 DEF ReadCall
  <2>5. PipeTypeOK' /\ want' \in Nat /\ got' \in 0..want'
    BY <2>1, <2>3, <2>4, BytePipeAssumption DEF Take
  <2>6. TypeOK'
    BY <2>1, <2>4, <2>5
  <2>7. reader' = "data" => closed' /\ avail' = 0
    BY <2>1, <2>3, <2>4 DEF Take, Readable
  <2>8. (LateReadsSeeSignal /\ LateReadsThrow /\ SignalCountsWriters)'
    BY <2>1, <2>4, SignalUntouched
  <2> QED
    BY <2>6, <2>7, <2>8
<1>6. CASE FreadReturns
  BY <1>6, SignalUntouched DEF FreadReturns, pipe
<1>7. ASSUME NEW t \in Cancellers, BeginCancel(t)
      PROVE  IInv'
  <2>1. Written' = Written
    BY <1>7 DEF BeginCancel, Written
  <2> QED
    BY <1>7, <2>1 DEF BeginCancel, SignalCountsWriters, pipe
<1>8. ASSUME NEW t \in Cancellers, WriteSignal(t)
      PROVE  IInv'
  <2>1. SignalCountsWriters'
    BY <1>8, WriterAdded DEF WriteSignal, SignalCountsWriters
  <2>2. signal' \in 0..Cardinality(Cancellers)
    <3>1. Written' \in SUBSET Cancellers
      BY DEF Written
    <3> QED
      BY <2>1, <3>1, WritersBounded DEF SignalCountsWriters
  <2> QED
    BY <1>8, <2>1, <2>2 DEF WriteSignal, pipe
<1>9. ASSUME NEW t \in Cancellers, EndCancel(t)
      PROVE  IInv'
  <2>1. Written' = Written
    BY <1>9 DEF EndCancel, Written
  <2> QED
    BY <1>9, <2>1 DEF EndCancel, SignalCountsWriters, pipe
<1>10. CASE Peer
  <2>1. avail' \in 0..MaxBytes /\ written' \in 0..MaxBytes /\ avail' <= written'
    BY <1>10, BytePipeAssumption DEF Peer, PeerWrites, PeerCloses
  <2>2. closed' \in BOOLEAN
    BY <1>10, Zenon DEF Peer, PeerWrites, PeerCloses
  <2>3. TypeOK' /\ (LateReadsSeeSignal /\ LateReadsThrow)'
    BY <1>10, <2>1, <2>2 DEF Peer
  <2>4. reader' = "data" /\ got' < want' => closed' /\ avail' = 0
    BY <1>10 DEF Peer, PeerWrites, PeerCloses
  <2> QED
    BY <1>10, <2>3, <2>4, SignalUntouched DEF Peer
<1>11. CASE UNCHANGED vars
  BY <1>11, SignalUntouched DEF vars, pipe
<1> QED
  BY <1>1, <1>2, <1>3, <1>4, <1>5, <1>6, <1>7, <1>8, <1>9, <1>10, <1>11 DEF Next, Reader

\* The inductive invariant holds throughout.
LEMMA Inductive == SafeSpec => []IInv
  BY IInvInit, IInvStep, PTL DEF SafeSpec

\* "All read requests made past this call will throw": no read() begun after a cancel()
\* has returned enters fread(), however many threads cancel.
THEOREM LateReadsAlwaysThrow == SafeSpec => []LateReadsThrow
  BY Inductive, PTL DEF IInv

\* A short read is the end of the file, and the variables keep their types: the signal
\* pipe never holds more than a byte for each thread.
THEOREM ShortReadsAreEof == SafeSpec => []ShortReadMeansEof
  BY Inductive, PTL DEF IInv
=============================================================================
