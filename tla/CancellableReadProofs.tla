------------------------ MODULE CancellableReadProofs ------------------------
(***************************************************************************)
(* Proofs about the Windows implementation of cancellable_read, for any    *)
(* set of cancelling threads, any sizes and any amount of data: the        *)
(* published handle is open, a short read is the end of the file, and      *)
(* every step of the implementation is a step of the promise.              *)
(***************************************************************************)
EXTENDS CancellableReadWin32, TLAPS

\* The handle is published exactly while read() is between its locked sections.
HandleMatchesReader ==
    thread_handle <=> reader \in {"engaged", "pending", "checking"}

\* A cancel() past its loop has taken effect.
CancelTookEffect ==
    \A t \in Cancellers : canceller[t] \in {"returning", "done"} => cancelled

\* fread() stops short of its size only when interrupted by a cancel() or at the
\* end of the file.
ShortMeansCancelledOrEof ==
    reader = "checking" /\ got < want => cancelled \/ (closed /\ avail = 0)

IInv ==
    /\ TypeOK
    /\ HandleMatchesReader
    /\ CancelTookEffect
    /\ ShortMeansCancelledOrEof
    /\ ShortReadMeansEof

USE DEF Outside

\* What a single system call returns fits what was asked for and what there is.
LEMMA ChunksBounded ==
    ASSUME PipeTypeOK, NEW n \in Nat, NEW k \in Chunks(n)
    PROVE  /\ k \in Nat
           /\ k <= n
           /\ k <= avail
           /\ k = 0 => avail = 0
  BY BytePipeAssumption DEF Chunks, PipeTypeOK

\* The initial state satisfies the inductive invariant.
LEMMA IInvInit == Init => IInv
<1> SUFFICES ASSUME Init PROVE IInv
    OBVIOUS
<1>1. TypeOK
  <2>1. PipeTypeOK
    <3>1. avail = 0 /\ written = 0 /\ closed \in BOOLEAN
      BY DEF Init, PipeInit
    <3> QED
      BY <3>1, BytePipeAssumption DEF PipeTypeOK
  <2>2. cancelled \in BOOLEAN /\ thread_handle \in BOOLEAN
    BY Zenon DEF Init
  <2>3. want \in Nat /\ got \in 0..want
    BY DEF Init
  <2> QED
    BY <2>1, <2>2, <2>3 DEF Init, TypeOK
<1>2. HandleMatchesReader
  BY DEF Init, HandleMatchesReader
<1>3. CancelTookEffect /\ ShortMeansCancelledOrEof /\ ShortReadMeansEof
  BY DEF Init, CancelTookEffect, ShortMeansCancelledOrEof, ShortReadMeansEof
<1> QED
  BY <1>1, <1>2, <1>3 DEF IInv

\* Every step keeps the inductive invariant.
LEMMA IInvStep == IInv /\ [Next]_vars => IInv'
<1> SUFFICES ASSUME IInv, [Next]_vars
             PROVE  IInv'
    OBVIOUS
<1> USE DEF IInv, TypeOK, PipeTypeOK, HandleMatchesReader, CancelTookEffect,
            ShortMeansCancelledOrEof, ShortReadMeansEof
<1>1. CASE BeginRead
  BY <1>1, BytePipeAssumption DEF BeginRead, pipe
<1>2. CASE Refuse
  BY <1>2 DEF Refuse, pipe
<1>3. CASE Engage
  BY <1>3 DEF Engage, pipe
<1>4. CASE EnterReadFile
  BY <1>4 DEF EnterReadFile, pipe
<1>5. CASE LeaveReadFile
  <2>1. PICK k \in Chunks(want - got) :
          /\ Take(k)
          /\ got' = got + k
          /\ reader' = IF k = 0 THEN "checking" ELSE "engaged"
    BY <1>5 DEF LeaveReadFile
  <2>2. want - got \in Nat
    OBVIOUS
  <2>3. k \in Nat /\ k <= want - got /\ k <= avail /\ (k = 0 => avail = 0)
    BY <2>2, ChunksBounded
  <2>4. reader = "pending" /\ Readable
        /\ UNCHANGED <<cancelled, thread_handle, want, canceller>>
    BY <1>5 DEF LeaveReadFile
  <2>5. TypeOK'
    BY <2>1, <2>3, <2>4, BytePipeAssumption DEF Take
  <2>6. (HandleMatchesReader /\ CancelTookEffect /\ ShortReadMeansEof)'
    BY <2>1, <2>4 DEF Take
  <2>7. ShortMeansCancelledOrEof'
    BY <2>1, <2>3, <2>4, BytePipeAssumption DEF Take, Readable
  <2> QED
    BY <2>5, <2>6, <2>7
<1>6. CASE FreadReturns
  BY <1>6 DEF FreadReturns, pipe
<1>7. CASE Finish
  BY <1>7 DEF Finish, pipe
<1>8. ASSUME NEW t \in Cancellers, BeginCancel(t)
      PROVE  IInv'
  BY <1>8 DEF BeginCancel, pipe
<1>9. ASSUME NEW t \in Cancellers, CancelLoop(t)
      PROVE  IInv'
  BY <1>9 DEF CancelLoop, pipe
<1>10. ASSUME NEW t \in Cancellers, EndCancel(t)
       PROVE  IInv'
  BY <1>10 DEF EndCancel, pipe
<1>11. CASE Peer
  <2>1. PipeTypeOK'
    <3>1. avail' \in 0..MaxBytes /\ written' \in 0..MaxBytes /\ avail' <= written'
      BY <1>11, BytePipeAssumption DEF Peer, PeerWrites, PeerCloses
    <3>2. closed' \in BOOLEAN
      BY <1>11, Zenon DEF Peer, PeerWrites, PeerCloses
    <3> QED
      BY <3>1, <3>2
  <2>2. TypeOK'
    BY <1>11, <2>1 DEF Peer
  <2>3. (HandleMatchesReader /\ CancelTookEffect)'
    BY <1>11 DEF Peer
  <2>4. (ShortMeansCancelledOrEof /\ ShortReadMeansEof)'
    BY <1>11 DEF Peer, PeerWrites, PeerCloses
  <2> QED
    BY <2>2, <2>3, <2>4
<1>12. CASE UNCHANGED vars
  BY <1>12 DEF vars, pipe
<1> QED
  BY <1>1, <1>2, <1>3, <1>4, <1>5, <1>6, <1>7, <1>8, <1>9, <1>10, <1>11, <1>12
     DEF Next, Reader

\* The inductive invariant holds throughout.
LEMMA Inductive == SafeSpec => []IInv
  BY IInvInit, IInvStep, PTL DEF SafeSpec

\* The variables keep their types: no fread() is handed more than it asked for.
THEOREM TypeCorrect == SafeSpec => []TypeOK
  BY Inductive, PTL DEF IInv

\* cancel() never passes a closed thread handle to CancelSynchronousIo.
THEOREM HandleAlwaysOpen == SafeSpec => []HandleIsOpen
<1>1. IInv => HandleIsOpen
  BY DEF IInv, HandleMatchesReader, HandleIsOpen
<1> QED
  BY <1>1, Inductive, PTL

\* An interrupted fread() is never reported as a short read.
THEOREM ShortReadsAreEof == SafeSpec => []ShortReadMeansEof
  BY Inductive, PTL DEF IInv

-----------------------------------------------------------------------------
\* The initial state of the implementation is one of the promise.
LEMMA PromiseInit == Init => Promise!Init
  BY DEF Init, Promise!Init

\* Every step of the implementation is a step of the promise or a stutter.
LEMMA PromiseStep == IInv /\ [Next]_vars => [Promise!Next]_(Promise!vars)
<1> SUFFICES ASSUME IInv, [Next]_vars
             PROVE  [Promise!Next]_(Promise!vars)
    OBVIOUS
<1> USE DEF IInv, TypeOK, Promise!vars
<1>1. CASE BeginRead
  BY <1>1 DEF BeginRead, Promise!Next, Promise!BeginRead
<1>2. CASE Refuse
  BY <1>2 DEF Refuse, Promise!Next, Promise!Throw
<1>3. CASE Engage \/ EnterReadFile \/ FreadReturns
  BY <1>3 DEF Engage, EnterReadFile, FreadReturns
<1>4. CASE LeaveReadFile
  BY <1>4 DEF LeaveReadFile
<1>5. CASE Finish
  BY <1>5 DEF Finish, Promise!Next, Promise!Throw, Promise!Complete
<1>6. ASSUME NEW t \in Cancellers, BeginCancel(t)
      PROVE  [Promise!Next]_(Promise!vars)
  BY <1>6 DEF BeginCancel, Promise!Next, Promise!BeginCancel
<1>7. ASSUME NEW t \in Cancellers, CancelLoop(t)
      PROVE  [Promise!Next]_(Promise!vars)
  BY <1>7 DEF CancelLoop, Promise!Next, Promise!Cancel, HandleMatchesReader
<1>8. ASSUME NEW t \in Cancellers, EndCancel(t)
      PROVE  [Promise!Next]_(Promise!vars)
  BY <1>8 DEF EndCancel, Promise!Next, Promise!EndCancel, CancelTookEffect
<1>9. CASE Peer
  BY <1>9 DEF Peer
<1>10. CASE UNCHANGED vars
  BY <1>10 DEF vars, pipe
<1> QED
  BY <1>1, <1>2, <1>3, <1>4, <1>5, <1>6, <1>7, <1>8, <1>9, <1>10
     DEF Next, Reader

\* The implementation keeps the safety of the promise of cancellable_read.h: no
\* read() returns data once a cancel() has taken effect, and no cancel() returns
\* before it has.
THEOREM ImplementsPromise == SafeSpec => Promise!SafeSpec
  BY PromiseInit, PromiseStep, Inductive, PTL DEF SafeSpec, Promise!SafeSpec
=============================================================================
