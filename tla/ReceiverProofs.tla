---------------------------- MODULE ReceiverProofs ----------------------------
(***************************************************************************)
(* Proofs about the receiving thread, for any sizes of payloads, any size  *)
(* of the header and any number of frames, on every transport: messages    *)
(* are the peer's payloads in order, and disconnect() means that nothing   *)
(* more can come.                                                          *)
(***************************************************************************)
EXTENDS Receiver, Integers, SequenceTheorems, TLAPS

\* The frame the worker reads, and how many of its bytes it has.
Frame == Len(delivered) + 1
Pos == IF phase = "size" THEN Len(got) ELSE Header + Len(got)

\* Nothing more can come: the stream has ended, or the socket is closed and the worker
\* outside recv().
Over == stream = << >> /\ ~Arrives
Deaf == transport = "socket" /\ owner \in {"clearing", "joining", "gone"} /\ worker # "reading"
Dead == Over \/ Deaf

\* Bytes on their way may have been discarded.
Sealed == lost \/ (transport = "socket" /\ stopped)

\* s[k] is where frame k begins, counted from the first byte of the stream that is not read.
\* The stream holds the rest of the frame that is being read and the frames behind it, up to
\* where the peer is, unless bytes were discarded at its end.
Offsets(s) ==
    /\ s \in [1..(Len(sizes) + 1) -> Int]
    /\ \A k \in 1..Len(sizes) : s[k + 1] = s[k] + Length(k)
    /\ \A k, l \in 1..(Len(sizes) + 1) : k <= l => s[k] <= s[l]

Bytes(s) ==
    \A k \in Frame..Len(sizes) : \A j \in 1..Length(k) :
        s[k] + j \in 1..Len(stream) => stream[s[k] + j] = Wire(k, j)

End(s) == IF sizes = << >> THEN 0 ELSE s[Len(sizes)] + put

Layout(s) ==
    /\ Offsets(s)
    /\ s[Frame] = 0 - Pos
    /\ Bytes(s)
    /\ Len(stream) <= End(s)
    /\ ~Sealed => Len(stream) = End(s)

\* The worker reads the header of a frame, then its payload.
InHeader ==
    /\ worker # "delivering"
    /\ worker = "starting" => got = << >>
    /\ worker # "starting" => want = Header
    /\ \A i \in 1..Len(got) : got[i] = Wire(Frame, i)
    /\ got # << >> => Frame <= Len(sizes)

InPayload ==
    /\ worker # "starting"
    /\ Frame <= Len(sizes)
    /\ want = sizes[Frame] /\ Len(buffer) = want
    /\ \A i \in 1..Len(got) : got[i] = Wire(Frame, Header + i)

\* The worker is in step with the peer's frames.
Following ==
    /\ worker \in {"starting", "entering", "calling", "reading", "read", "delivering"}
    /\ Frame <= Len(sizes) + 1
    /\ \A j \in 1..Len(delivered) : delivered[j] = Payload(j)
    /\ \E s : Layout(s)
    /\ phase = "size" => InHeader
    /\ phase = "payload" => InPayload
    /\ worker = "calling" => transport = "socket"
    /\ worker = "read" /\ Len(got) < want => Dead
    /\ worker = "delivering" =>
        \/ Len(got) = want /\ buffer = Payload(Frame)
        \/ Dead /\ Cut(Frame)

\* It has delivered a message that was cut, and will find no size behind it.
Spent ==
    /\ worker \in {"entering", "calling", "reading", "read"}
    /\ Dead
    /\ phase = "size" /\ got = << >> /\ want = Header

Ended == worker \in {"done", "terminated", "astray"}

\* What the peer and the owner keep to.
Outside ==
    /\ lost => closed
    /\ owner = "alive" <=> ~stopped
    /\ IF sizes = << >> THEN put = 0 ELSE put \in 1..Length(Len(sizes))

InOrder ==
    \A j \in 1..Len(delivered) :
        /\ j <= Len(sizes)
        /\ delivered[j] = Payload(j) \/ (j = Len(delivered) /\ Cut(j))

IInv ==
    /\ TypeOK
    /\ Outside
    /\ InOrder
    /\ DisconnectMeansPeerLeft
    /\ Ended \/ Spent \/ Following

USE ReceiverAssumption

-----------------------------------------------------------------------------
(* Sequences *)

LEMMA FirstPart ==
    ASSUME NEW S, NEW t \in Seq(S), NEW k \in 0..Len(t)
    PROVE  /\ SubSeq(t, 1, k) \in Seq(S)
           /\ Len(SubSeq(t, 1, k)) = k
           /\ \A i \in 1..k : SubSeq(t, 1, k)[i] = t[i]
<1>1. Len(t) \in Nat /\ k \in Int /\ 1 \in Int /\ \A i \in 1..k : t[i] \in S
  BY ElementOfSeq, LenProperties
<1> QED
  BY <1>1, SubSeqProperties

LEMMA LastPart ==
    ASSUME NEW S, NEW t \in Seq(S), NEW k \in 0..Len(t)
    PROVE  /\ SubSeq(t, k + 1, Len(t)) \in Seq(S)
           /\ Len(SubSeq(t, k + 1, Len(t))) = Len(t) - k
           /\ \A i \in 1..(Len(t) - k) : SubSeq(t, k + 1, Len(t))[i] = t[i + k]
<1>1. Len(t) \in Int /\ k + 1 \in Int /\ \A i \in (k + 1)..Len(t) : t[i] \in S
  BY ElementOfSeq, LenProperties
<1>2. /\ SubSeq(t, k + 1, Len(t)) \in Seq(S)
      /\ Len(SubSeq(t, k + 1, Len(t))) = IF k + 1 <= Len(t) THEN Len(t) - (k + 1) + 1 ELSE 0
      /\ \A i \in 1..(Len(t) - (k + 1) + 1) : SubSeq(t, k + 1, Len(t))[i] = t[k + 1 + i - 1]
  BY <1>1, SubSeqProperties
<1>3. Len(t) - (k + 1) + 1 = Len(t) - k /\ \A i \in 1..(Len(t) - k) : k + 1 + i - 1 = i + k
  BY <1>1
<1>4. (IF k + 1 <= Len(t) THEN Len(t) - (k + 1) + 1 ELSE 0) = Len(t) - k
  BY <1>1
<1>5. Len(SubSeq(t, k + 1, Len(t))) = Len(t) - k
  BY <1>2, <1>4
<1>6. \A i \in 1..(Len(t) - k) : SubSeq(t, k + 1, Len(t))[i] = t[i + k]
  BY <1>2, <1>3
<1> QED
  BY <1>2, <1>5, <1>6

LEMMA Joined ==
    ASSUME NEW S, NEW g \in Seq(S), NEW t \in Seq(S), NEW k \in 0..Len(t)
    PROVE  /\ g \o SubSeq(t, 1, k) \in Seq(S)
           /\ Len(g \o SubSeq(t, 1, k)) = Len(g) + k
           /\ \A i \in 1..Len(g) : (g \o SubSeq(t, 1, k))[i] = g[i]
           /\ \A i \in (Len(g) + 1)..(Len(g) + k) : (g \o SubSeq(t, 1, k))[i] = t[i - Len(g)]
<1> DEFINE u == SubSeq(t, 1, k)
<1>1. u \in Seq(S) /\ Len(u) = k /\ (\A i \in 1..k : u[i] = t[i])
  BY FirstPart
<1>2. Len(g) \in Nat /\ k \in Nat /\ Len(t) \in Nat
  BY LenProperties
<1> HIDE DEF u
<1>3. /\ g \o u \in Seq(S) /\ Len(g \o u) = Len(g) + k
      /\ \A i \in 1..(Len(g) + k) : (g \o u)[i] = IF i <= Len(g) THEN g[i] ELSE u[i - Len(g)]
  BY <1>1, ConcatProperties
<1>4. \A i \in 1..Len(g) : (g \o u)[i] = g[i]
  BY <1>2, <1>3
<1>5. ASSUME NEW i \in (Len(g) + 1)..(Len(g) + k)
      PROVE  (g \o u)[i] = t[i - Len(g)]
  <2>1. i \in 1..(Len(g) + k) /\ ~(i <= Len(g)) /\ i - Len(g) \in 1..k
    BY <1>2
  <2> QED
    BY <1>1, <1>3, <2>1
<1> QED
  BY <1>3, <1>4, <1>5 DEF u

LEMMA FunctionSeq ==
    ASSUME NEW S, NEW n \in Nat, NEW fn \in [1..n -> S]
    PROVE  fn \in Seq(S) /\ Len(fn) = n
  OBVIOUS

-----------------------------------------------------------------------------
(* Bytes and sizes *)

LEMMA WireType ==
    ASSUME NEW k \in 0..MaxFrames, NEW j \in Nat
    PROVE  Wire(k, j) \in Byte
  BY DEF Wire, Byte

\* The size that the worker reads is the one that the peer has written.
LEMMA SizeIsRead ==
    ASSUME IInv, GotSize
    PROVE  /\ Following /\ InHeader /\ Frame <= Len(sizes) /\ worker = "read" /\ Len(got) = Header
           /\ buffer' = Resized(sizes[Frame]) /\ Read("payload", sizes[Frame])
<1>1. worker = "read" /\ phase = "size" /\ Len(got) = Header
  BY DEF GotSize, ReadReturns
<1>2. got \in Seq(Byte) /\ Header \in Nat \ {0}
  BY DEF IInv, TypeOK
<1>3. Following
  BY <1>1, <1>2 DEF IInv, Ended, Spent
<1>4. InHeader /\ got # << >>
  BY <1>1, <1>2, <1>3 DEF Following
<1>5. Frame <= Len(sizes)
  BY <1>4 DEF InHeader
<1>6. reorder(got) = [j \in 1..Header |-> [frame |-> Frame, at |-> j]]
  <2>1. CASE transport = "socket"
    <3>1. ASSUME NEW j \in 1..Header
          PROVE  got[Header + 1 - j] = [frame |-> Frame, at |-> j]
      <4>1. Header + 1 - j \in 1..Header /\ Header + 1 - (Header + 1 - j) = j
        BY <1>2
      <4> QED
        BY <1>1, <1>4, <2>1, <4>1 DEF InHeader, Wire
    <3> QED
      BY <2>1, <3>1 DEF reorder
  <2>2. CASE transport # "socket"
    <3>1. \A j \in 1..Header : got[j] = [frame |-> Frame, at |-> j]
      BY <1>1, <1>4, <2>2 DEF InHeader, Wire
    <3>2. got = [j \in 1..Header |-> got[j]]
      BY <1>1, <1>2
    <3> QED
      BY <2>2, <3>1, <3>2 DEF reorder
  <2> QED
    BY <2>1, <2>2
<1>7. Decoded(reorder(got)) = {sizes[Frame]}
  <2>1. reorder(got)[1].frame = Frame
    BY <1>2, <1>6
  <2> QED
    BY <1>6, <2>1 DEF Decoded
<1> QED
  BY <1>1, <1>3, <1>4, <1>5, <1>7 DEF GotSize

-----------------------------------------------------------------------------
(* Types *)

StreamOK ==
    /\ transport \in Transports
    /\ sizes \in Seq(Sizes) /\ Len(sizes) <= MaxFrames
    /\ put \in Nat
    /\ stream \in Seq(Byte)

WorkerOK ==
    /\ worker \in {"starting", "entering", "calling", "reading", "read", "delivering",
                   "done", "astray", "terminated"}
    /\ phase \in {"size", "payload"}
    /\ want \in Nat
    /\ got \in Seq(Byte) /\ Len(got) <= want

SessionOK ==
    /\ buffer \in Seq(Byte)
    /\ owner \in {"alive", "closing", "clearing", "joining", "gone"}
    /\ delivered \in Seq(Seq(Byte))

FlagsOK ==
    /\ closed \in BOOLEAN /\ lost \in BOOLEAN /\ stopped \in BOOLEAN /\ reused \in BOOLEAN
    /\ disconnected \in BOOLEAN

LEMMA SizeType ==
    ASSUME StreamOK, NEW k \in 1..Len(sizes)
    PROVE  /\ sizes[k] \in Nat
           /\ Length(k) \in Nat /\ Length(k) = Header + sizes[k] /\ Length(k) >= 1
<1>1. sizes[k] \in Sizes
  BY ElementOfSeq DEF StreamOK
<1>2. sizes[k] \in Nat
  BY <1>1
<1> QED
  BY <1>2 DEF Length

LEMMA TypeParts == TypeOK <=> StreamOK /\ WorkerOK /\ SessionOK /\ FlagsOK
  BY DEF TypeOK, StreamOK, WorkerOK, SessionOK, FlagsOK

\* The actions that only move the worker.
Moves ==
    FactoryThrows \/ ReadThrows \/ EnterRead \/ LoadSocket \/ EnterRecv \/ ReadCallReturns

\* The actions that only move the owner.
Destructor == Reset \/ Reuse \/ Join

LEMMA MovesOnly ==
    ASSUME Moves
    PROVE  /\ UNCHANGED <<transport, sizes, put, closed, lost, stream, phase, want, got, buffer,
                          owner, stopped, reused, delivered, disconnected>>
           /\ worker' \in {"calling", "reading", "read", "done", "astray"}
  BY DEF Moves, FactoryThrows, ReadThrows, EnterRead, LoadSocket, EnterRecv, ReadCallReturns, Goto,
         peer, reading, object, session

LEMMA DestructorOnly ==
    ASSUME Destructor
    PROVE  /\ UNCHANGED <<transport, sizes, put, closed, lost, stream, worker, phase, want, got,
                          buffer, stopped, delivered, disconnected>>
           /\ owner' \in {owner, "clearing", "joining", "gone"}
           /\ owner = "alive" => owner' = "alive"
           /\ owner \in {"clearing", "joining", "gone"} =>
                owner' \in {"clearing", "joining", "gone"}
           /\ owner' # "alive" \/ owner = "alive"
  BY DEF Destructor, Reset, Reuse, Join, peer, reading, session

\* The bytes that are taken.
LEMMA Taken ==
    ASSUME IInv, TakeBytes
    PROVE  /\ worker = "reading"
           /\ UNCHANGED <<transport, sizes, put, closed, lost, worker, phase, want, buffer, owner,
                          stopped, reused, delivered, disconnected>>
           /\ \E k \in 1..Len(stream) :
                /\ Len(got) + k <= want
                /\ got' \in Seq(Byte) /\ Len(got') = Len(got) + k
                /\ \A i \in 1..Len(got) : got'[i] = got[i]
                /\ \A i \in (Len(got) + 1)..(Len(got) + k) : got'[i] = stream[i - Len(got)]
                /\ stream' \in Seq(Byte) /\ Len(stream') = Len(stream) - k
                /\ \A i \in 1..(Len(stream) - k) : stream'[i] = stream[i + k]
<1>1. got \in Seq(Byte) /\ stream \in Seq(Byte) /\ want \in Nat
  BY DEF IInv, TypeOK
<1>2. PICK k \in 1..Len(stream) : /\ k <= want - Len(got)
                                  /\ got' = got \o SubSeq(stream, 1, k)
                                  /\ stream' = SubSeq(stream, k + 1, Len(stream))
  BY DEF TakeBytes
<1>3. Len(got) \in Nat /\ Len(stream) \in Nat /\ k \in 0..Len(stream)
  BY <1>1, LenProperties
<1>4. Len(got) + k <= want
  BY <1>1, <1>2, <1>3
<1>5. /\ got' \in Seq(Byte) /\ Len(got') = Len(got) + k
      /\ \A i \in 1..Len(got) : got'[i] = got[i]
      /\ \A i \in (Len(got) + 1)..(Len(got) + k) : got'[i] = stream[i - Len(got)]
  BY <1>1, <1>2, <1>3, Joined, SMTT(30)
<1>6. /\ stream' \in Seq(Byte) /\ Len(stream') = Len(stream) - k
      /\ \A i \in 1..(Len(stream) - k) : stream'[i] = stream[i + k]
  BY <1>1, <1>2, <1>3, LastPart
<1>7. /\ worker = "reading"
      /\ UNCHANGED <<transport, sizes, put, closed, lost, worker, phase, want, buffer, owner,
                     stopped, reused, delivered, disconnected>>
  BY DEF TakeBytes, peer, object, session
<1> QED
  BY <1>4, <1>5, <1>6, <1>7

LEMMA FlagsStep ==
    ASSUME IInv, Next
    PROVE  FlagsOK'
<1>1. FlagsOK
  BY TypeParts DEF IInv
<1>2. closed' \in {closed, TRUE} /\ lost' \in {lost, TRUE}
  BY DEF Next, Worker, Peer, CreateSession, FactoryThrows, ReadThrows, EnterRead, LoadSocket,
         EnterRecv, TakeBytes, ReadCallReturns, GotSize, GotNoSize, GotPayload, Deliver,
         MessageThrows, BeginFrame, ContinueFrame, Close, HardClose, Stop, Reset, Reuse, Join,
         Goto, peer
<1>3. stopped' \in {stopped, TRUE} /\ reused' \in {reused, TRUE}
  BY DEF Next, Worker, Peer, CreateSession, FactoryThrows, ReadThrows, EnterRead, LoadSocket,
         EnterRecv, TakeBytes, ReadCallReturns, GotSize, GotNoSize, GotPayload, Deliver,
         MessageThrows, BeginFrame, ContinueFrame, Close, HardClose, Stop, Interrupt, Reset, Reuse,
         Join, Goto, object
<1>4. disconnected' \in {disconnected, TRUE}
  BY DEF Next, Worker, Peer, CreateSession, FactoryThrows, ReadThrows, EnterRead, LoadSocket,
         EnterRecv, TakeBytes, ReadCallReturns, GotSize, GotNoSize, GotPayload, Deliver,
         MessageThrows, BeginFrame, ContinueFrame, Close, HardClose, Stop, Reset, Reuse,
         Join, Goto, session
<1> QED
  BY <1>1, <1>2, <1>3, <1>4, Zenon DEF FlagsOK

\* What the peer appends and what is left of the stream are bytes of its frames.
LEMMA StreamStep ==
    ASSUME IInv, Next
    PROVE  StreamOK'
<1>1. StreamOK /\ Outside
  BY TypeParts DEF IInv
<1>2. ASSUME NEW n \in Sizes, BeginFrame(n)
      PROVE  StreamOK'
  <2>1. Len(sizes) + 1 \in 0..MaxFrames /\ Len(sizes) \in Nat
    BY <1>1, <1>2 DEF StreamOK, BeginFrame
  <2>2. Wire(Len(sizes) + 1, 1) \in Byte
    BY <2>1, WireType
  <2> QED
    BY <1>1, <1>2, <2>1, <2>2 DEF StreamOK, BeginFrame
<1>3. CASE ContinueFrame
  <2>1. Len(sizes) \in 0..MaxFrames /\ put + 1 \in Nat
    BY <1>1 DEF StreamOK
  <2>2. Wire(Len(sizes), put + 1) \in Byte
    BY <2>1, WireType
  <2> QED
    BY <1>1, <1>3, <2>1, <2>2 DEF StreamOK, ContinueFrame
<1>4. CASE Close
  BY <1>1, <1>4 DEF StreamOK, Close
<1>5. CASE HardClose
  <2>1. PICK k \in 0..(Len(stream) - 1) : stream' = SubSeq(stream, 1, k)
    BY <1>5 DEF HardClose
  <2>2. k \in 0..Len(stream)
    BY <1>1, <2>1 DEF StreamOK
  <2>3. stream' \in Seq(Byte)
    BY <1>1, <2>1, <2>2, FirstPart DEF StreamOK
  <2> QED
    BY <1>1, <1>5, <2>3 DEF StreamOK, HardClose
<1>6. CASE TakeBytes
  BY <1>1, <1>6, Taken DEF StreamOK
<1>7. CASE Moves
  BY <1>1, <1>7, MovesOnly DEF StreamOK
<1>8. CASE CreateSession \/ GotSize \/ GotNoSize \/ GotPayload \/ Deliver \/ MessageThrows
  BY <1>1, <1>8 DEF StreamOK, CreateSession, GotSize, GotNoSize, GotPayload, Deliver, MessageThrows,
                    peer
<1>9. CASE Stop
  <2>1. stream' = stream \/ stream' = << >>
    BY <1>9 DEF Stop
  <2>2. stream' \in Seq(Byte)
    BY <1>1, <2>1, EmptySeq DEF StreamOK
  <2> QED
    BY <1>1, <1>9, <2>2 DEF StreamOK, Stop, peer
<1>10. CASE Destructor
  BY <1>1, <1>10, DestructorOnly DEF StreamOK
<1> QED
  BY <1>2, <1>3, <1>4, <1>5, <1>6, <1>7, <1>8, <1>9, <1>10 DEF Next, Worker, Peer, Moves, Destructor

\* A read never gets more than it asks for.
LEMMA WorkerStep ==
    ASSUME IInv, Next
    PROVE  WorkerOK'
<1>1. WorkerOK /\ StreamOK
  BY TypeParts DEF IInv
<1>2. CASE Peer \/ Stop \/ Destructor
  <2>1. UNCHANGED <<worker, phase, want, got>>
    BY <1>2 DEF Peer, BeginFrame, ContinueFrame, Close, HardClose, Stop, Destructor, Reset, Reuse,
                Join, reading
  <2> QED
    BY <1>1, <2>1 DEF WorkerOK
<1>3. CASE Moves
  BY <1>1, <1>3, MovesOnly DEF WorkerOK
<1>4. ASSUME NEW p \in {"size", "payload"}, NEW n \in Nat, Read(p, n)
      PROVE  WorkerOK'
  BY <1>4 DEF Read, WorkerOK
<1>5. CASE CreateSession \/ Deliver
  BY <1>4, <1>5 DEF CreateSession, Deliver
<1>6. CASE TakeBytes
  BY <1>1, <1>6, Taken DEF WorkerOK
<1>7. CASE GotSize
  <2>1. Frame <= Len(sizes) /\ Read("payload", sizes[Frame])
    BY <1>7, SizeIsRead
  <2>2. Frame \in 1..Len(sizes)
    BY <1>1, <2>1 DEF IInv, TypeOK, Frame
  <2>3. sizes[Frame] \in Nat
    BY <1>1, <2>2, SizeType
  <2> QED
    BY <1>4, <2>1, <2>3
<1>8. CASE GotNoSize \/ GotPayload \/ MessageThrows
  BY <1>1, <1>8 DEF WorkerOK, GotNoSize, GotPayload, MessageThrows, reading
<1> QED
  BY <1>2, <1>3, <1>5, <1>6, <1>7, <1>8 DEF Next, Worker, Moves, Destructor

LEMMA SessionStep ==
    ASSUME IInv, Next
    PROVE  SessionOK'
<1>1. SessionOK /\ StreamOK /\ WorkerOK
  BY TypeParts DEF IInv
<1>2. CASE Peer \/ CreateSession \/ TakeBytes \/ GotNoSize
  BY <1>1, <1>2 DEF SessionOK, Peer, BeginFrame, ContinueFrame, Close, HardClose, CreateSession,
                    TakeBytes, GotNoSize, reading, object, session
<1>3. CASE Moves
  BY <1>1, <1>3, MovesOnly DEF SessionOK
<1>4. CASE Destructor
  BY <1>1, <1>4, DestructorOnly DEF SessionOK
<1>5. CASE Stop
  BY <1>1, <1>5 DEF SessionOK, Stop, reading, session
<1>6. CASE Deliver \/ MessageThrows
  <2>1. delivered' = Append(delivered, buffer) /\ UNCHANGED <<buffer, owner>>
    BY <1>6 DEF Deliver, MessageThrows, reading, object
  <2>2. Append(delivered, buffer) \in Seq(Seq(Byte))
    BY <1>1 DEF SessionOK
  <2> QED
    BY <1>1, <2>1, <2>2 DEF SessionOK
<1>7. CASE GotPayload
  <2>1. buffer' = [j \in DOMAIN buffer |-> IF j <= Len(got) THEN got[j] ELSE buffer[j]]
    BY <1>7 DEF GotPayload
  <2>2. DOMAIN buffer = 1..Len(buffer) /\ Len(buffer) \in Nat
    BY <1>1, LenProperties DEF SessionOK
  <2>3. ASSUME NEW j \in 1..Len(buffer)
        PROVE  (IF j <= Len(got) THEN got[j] ELSE buffer[j]) \in Byte
    BY <1>1 DEF SessionOK, WorkerOK
  <2>4. buffer' \in [1..Len(buffer) -> Byte]
    BY <2>1, <2>2, <2>3
  <2>5. buffer' \in Seq(Byte)
    BY <2>2, <2>4, FunctionSeq
  <2> QED
    BY <1>1, <1>7, <2>5 DEF SessionOK, GotPayload, object, session
<1>8. CASE GotSize
  <2>1. Frame <= Len(sizes) /\ buffer' = Resized(sizes[Frame])
    BY <1>8, SizeIsRead
  <2>2. Frame \in 1..Len(sizes)
    BY <1>1, <2>1 DEF SessionOK, StreamOK, Frame
  <2>3. PICK n \in Nat : n = sizes[Frame]
    BY <1>1, <2>2, SizeType
  <2>4. Zero \in Byte
    BY DEF Zero, Byte
  <2>5. ASSUME NEW j \in 1..n
        PROVE  (IF j <= Len(buffer) THEN buffer[j] ELSE Zero) \in Byte
    BY <1>1, <2>4 DEF SessionOK
  <2>6. buffer' \in [1..n -> Byte]
    BY <2>1, <2>3, <2>5 DEF Resized
  <2>7. buffer' \in Seq(Byte)
    BY <2>6, FunctionSeq
  <2> QED
    BY <1>1, <1>8, <2>7 DEF SessionOK, GotSize, object, session
<1> QED
  BY <1>2, <1>3, <1>4, <1>5, <1>6, <1>7, <1>8 DEF Next, Worker, Moves, Destructor

LEMMA TypeStep == ASSUME IInv, Next PROVE TypeOK'
<1>1. StreamOK' /\ WorkerOK' /\ SessionOK' /\ FlagsOK'
  BY StreamStep, WorkerStep, SessionStep, FlagsStep
<1> QED
  BY <1>1 DEF TypeOK, StreamOK, WorkerOK, SessionOK, FlagsOK

-----------------------------------------------------------------------------
(* What stays as it is *)

LEMMA OutsideStep ==
    ASSUME IInv, Next
    PROVE  Outside'
<1>1. StreamOK /\ FlagsOK /\ SessionOK /\ Outside
  BY TypeParts DEF IInv
<1>2. lost' => closed'
  BY <1>1 DEF Outside, Next, Worker, Peer, CreateSession, FactoryThrows, ReadThrows, EnterRead,
         LoadSocket, EnterRecv, TakeBytes, ReadCallReturns, GotSize, GotNoSize, GotPayload, Deliver,
         MessageThrows, BeginFrame, ContinueFrame, Close, HardClose, Stop, Reset, Reuse, Join,
         Goto, peer
<1>3. owner' = "alive" <=> ~stopped'
  <2>1. CASE Stop
    BY <2>1 DEF Stop, Interrupt
  <2>2. CASE Destructor
    BY <1>1, <2>2, DestructorOnly DEF Outside
  <2>3. CASE Worker \/ Peer
    <3>1. UNCHANGED <<owner, stopped>>
      BY <2>3 DEF Worker, Peer, CreateSession, FactoryThrows, ReadThrows, EnterRead,
         LoadSocket, EnterRecv, TakeBytes, ReadCallReturns, GotSize, GotNoSize, GotPayload, Deliver,
         MessageThrows, BeginFrame, ContinueFrame, Close, HardClose, Goto, object
    <3> QED
      BY <1>1, <3>1 DEF Outside
  <2> QED
    BY <2>1, <2>2, <2>3 DEF Next, Destructor
<1>4. IF sizes' = << >> THEN put' = 0 ELSE put' \in 1..Length(Len(sizes))'
  <2>1. ASSUME NEW n \in Sizes, BeginFrame(n)
        PROVE  sizes' # << >> /\ put' \in 1..Length(Len(sizes))'
    <3>1. sizes' = Append(sizes, n) /\ put' = 1
      BY <2>1 DEF BeginFrame
    <3>2. sizes' # << >> /\ Len(sizes') = Len(sizes) + 1 /\ sizes'[Len(sizes) + 1] = n
      BY <1>1, <3>1 DEF StreamOK
    <3>3. 1 \in 1..(Header + n)
      OBVIOUS
    <3> QED
      BY <3>1, <3>2, <3>3 DEF Length
  <2>2. CASE ContinueFrame
    <3>1. sizes # << >> /\ put # Length(Len(sizes)) /\ put' = put + 1 /\ sizes' = sizes
      BY <1>1, <2>2 DEF ContinueFrame, Whole, Outside
    <3>2. Len(sizes) \in 1..Len(sizes) /\ put \in 1..Length(Len(sizes))
      BY <1>1, <3>1 DEF Outside, StreamOK
    <3>3. Length(Len(sizes)) \in Nat
      BY <1>1, <3>2, SizeType
    <3>4. put + 1 \in 1..Length(Len(sizes))
      BY <3>1, <3>2, <3>3
    <3>5. Length(Len(sizes))' = Length(Len(sizes))
      BY <3>1 DEF Length
    <3> QED
      BY <3>1, <3>4, <3>5
  <2>3. CASE Worker \/ Close \/ HardClose \/ Stop \/ Destructor
    <3>1. UNCHANGED <<sizes, put>>
      BY <2>3 DEF Worker, CreateSession, FactoryThrows, ReadThrows, EnterRead,
         LoadSocket, EnterRecv, TakeBytes, ReadCallReturns, GotSize, GotNoSize, GotPayload, Deliver,
         MessageThrows, Close, HardClose, Stop, Destructor, Reset, Reuse, Join, Goto, peer
    <3> QED
      BY <1>1, <3>1 DEF Outside, Length
  <2> QED
    BY <2>1, <2>2, <2>3 DEF Next, Peer, Destructor
<1> QED
  BY <1>2, <1>3, <1>4 DEF Outside

\* The sizes of frames that were begun stay.
LEMMA SizesKept ==
    ASSUME IInv, Next
    PROVE  /\ transport' = transport
           /\ Len(sizes) \in Nat /\ Len(sizes') \in {Len(sizes), Len(sizes) + 1}
           /\ \A k \in 1..Len(sizes) : k \in 1..Len(sizes') /\ sizes'[k] = sizes[k]
           /\ closed => UNCHANGED <<sizes, put>>
<1>1. StreamOK
  BY TypeParts DEF IInv
<1>2. transport' = transport
  BY DEF Next, Worker, Peer, CreateSession, FactoryThrows, ReadThrows, EnterRead,
         LoadSocket, EnterRecv, TakeBytes, ReadCallReturns, GotSize, GotNoSize, GotPayload, Deliver,
         MessageThrows, BeginFrame, ContinueFrame, Close, HardClose, Stop, Reset, Reuse, Join,
         Goto
<1>3. \/ UNCHANGED sizes
      \/ \E n \in Sizes : sizes' = Append(sizes, n) /\ ~closed
  BY DEF Next, Worker, Peer, CreateSession, FactoryThrows, ReadThrows, EnterRead,
         LoadSocket, EnterRecv, TakeBytes, ReadCallReturns, GotSize, GotNoSize, GotPayload, Deliver,
         MessageThrows, BeginFrame, ContinueFrame, Close, HardClose, Stop, Reset, Reuse, Join,
         Goto, peer, Arrives
<1>4. UNCHANGED put \/ ~closed
  BY DEF Next, Worker, Peer, CreateSession, FactoryThrows, ReadThrows, EnterRead,
         LoadSocket, EnterRecv, TakeBytes, ReadCallReturns, GotSize, GotNoSize, GotPayload, Deliver,
         MessageThrows, BeginFrame, ContinueFrame, Close, HardClose, Stop, Reset, Reuse, Join,
         Goto, peer, Arrives
<1>5. /\ Len(sizes) \in Nat /\ Len(sizes') \in {Len(sizes), Len(sizes) + 1}
      /\ \A k \in 1..Len(sizes) : k \in 1..Len(sizes') /\ sizes'[k] = sizes[k]
  BY <1>1, <1>3 DEF StreamOK
<1> QED
  BY <1>2, <1>3, <1>4, <1>5

LEMMA PayloadKept ==
    ASSUME IInv, Next, NEW k \in 1..Len(sizes)
    PROVE  Payload(k)' = Payload(k)
  BY SizesKept DEF Payload

\* Flags are only raised.
LEMMA FlagsRise ==
    ASSUME Next
    PROVE  /\ closed => closed'
           /\ lost => lost'
           /\ stopped => stopped'
<1>1. closed => closed'
  BY DEF Next, Worker, Peer, CreateSession, FactoryThrows, ReadThrows, EnterRead,
         LoadSocket, EnterRecv, TakeBytes, ReadCallReturns, GotSize, GotNoSize, GotPayload, Deliver,
         MessageThrows, BeginFrame, ContinueFrame, Close, HardClose, Stop, Reset, Reuse, Join,
         Goto, peer
<1>2. lost => lost'
  BY DEF Next, Worker, Peer, CreateSession, FactoryThrows, ReadThrows, EnterRead,
         LoadSocket, EnterRecv, TakeBytes, ReadCallReturns, GotSize, GotNoSize, GotPayload, Deliver,
         MessageThrows, BeginFrame, ContinueFrame, Close, HardClose, Stop, Reset, Reuse, Join,
         Goto, peer
<1>3. stopped => stopped'
  BY DEF Next, Worker, Peer, CreateSession, FactoryThrows, ReadThrows, EnterRead,
         LoadSocket, EnterRecv, TakeBytes, ReadCallReturns, GotSize, GotNoSize, GotPayload, Deliver,
         MessageThrows, BeginFrame, ContinueFrame, Close, HardClose, Stop, Interrupt, Reset, Reuse,
         Join, Goto, object
<1> QED
  BY <1>1, <1>2, <1>3

LEMMA CutKept ==
    ASSUME IInv, Next, NEW j, Cut(j)
    PROVE  Cut(j)'
<1>1. CASE closed /\ ~Whole /\ j = Len(sizes)
  BY <1>1, SizesKept, FlagsRise DEF Cut, Whole, Length
<1>2. CASE lost \/ (transport = "socket" /\ stopped)
  BY <1>2, SizesKept, FlagsRise DEF Cut
<1> QED
  BY <1>1, <1>2 DEF Cut

\* What has ended stays so.
LEMMA OverKept ==
    ASSUME IInv, Next, Over
    PROVE  Over'
<1>1. stream = << >> /\ ~Arrives /\ Len(stream) = 0
  BY DEF Over
<1>2. ~Arrives'
  BY <1>1, SizesKept, FlagsRise DEF Arrives
<1>3. stream' = << >>
  BY <1>1 DEF Next, Worker, Peer, CreateSession, FactoryThrows, ReadThrows, EnterRead,
         LoadSocket, EnterRecv, TakeBytes, ReadCallReturns, GotSize, GotNoSize, GotPayload, Deliver,
         MessageThrows, BeginFrame, ContinueFrame, Close, HardClose, Stop, Reset, Reuse, Join,
         Goto
<1> QED
  BY <1>2, <1>3 DEF Over

LEMMA DeafKept ==
    ASSUME IInv, Next, Deaf
    PROVE  Deaf'
<1>1. transport' = transport
  BY SizesKept
<1>2. owner' \in {"clearing", "joining", "gone"}
  <2>1. CASE Destructor
    BY <2>1, DestructorOnly DEF Deaf
  <2>2. CASE Worker \/ Peer \/ Stop
    BY <2>2 DEF Deaf, Worker, Peer, CreateSession, FactoryThrows, ReadThrows, EnterRead,
         LoadSocket, EnterRecv, TakeBytes, ReadCallReturns, GotSize, GotNoSize, GotPayload, Deliver,
         MessageThrows, BeginFrame, ContinueFrame, Close, HardClose, Stop, Goto, object
  <2> QED
    BY <2>1, <2>2 DEF Next, Destructor
<1>3. worker' # "reading"
  BY DEF Deaf, Next, Worker, Peer, CreateSession, FactoryThrows, ReadThrows, EnterRead,
         LoadSocket, EnterRecv, TakeBytes, ReadCallReturns, GotSize, GotNoSize, GotPayload, Deliver,
         MessageThrows, BeginFrame, ContinueFrame, Close, HardClose, Stop, Reset, Reuse, Join,
         Goto, Read
<1> QED
  BY <1>1, <1>2, <1>3 DEF Deaf

LEMMA DeadKept == ASSUME IInv, Next, Dead PROVE Dead'
  BY OverKept, DeafKept DEF Dead

-----------------------------------------------------------------------------
(* Messages and the end *)

\* A worker that delivers is in step, or what it delivers was cut.
LEMMA AtDelivery ==
    ASSUME IInv, worker = "delivering"
    PROVE  /\ Following /\ phase = "payload" /\ InPayload
           /\ Frame <= Len(sizes) /\ Frame \in 1..Len(sizes)
           /\ \A j \in 1..Len(delivered) : delivered[j] = Payload(j)
           /\ \/ Len(got) = want /\ buffer = Payload(Frame)
              \/ Dead /\ Cut(Frame)
<1>1. Following
  BY DEF IInv, Ended, Spent
<1>2. phase = "payload"
  BY <1>1 DEF IInv, TypeOK, Following, InHeader
<1>3. InPayload
  BY <1>1, <1>2 DEF Following
<1>4. Frame \in 1..Len(sizes)
  BY <1>3 DEF IInv, TypeOK, InPayload, Frame
<1> QED
  BY <1>1, <1>2, <1>3, <1>4 DEF Following, InPayload

LEMMA InOrderStep ==
    ASSUME IInv, Next
    PROVE  InOrder'
<1>1. InOrder /\ StreamOK /\ SessionOK
  BY TypeParts DEF IInv
<1>2. Len(sizes) \in Nat /\ Len(delivered) \in Nat
  BY <1>1 DEF StreamOK, SessionOK
<1>3. ASSUME NEW j \in 1..Len(delivered), delivered[j] = Payload(j)
      PROVE  j <= Len(sizes') /\ delivered[j] = Payload(j)'
  <2>1. j \in 1..Len(sizes)
    BY <1>1, <1>2, <1>3 DEF InOrder
  <2> QED
    BY <1>3, <2>1, PayloadKept, SizesKept
<1>4. CASE UNCHANGED delivered
  <2>1. ASSUME NEW j \in 1..Len(delivered)
        PROVE  j <= Len(sizes') /\ (delivered[j] = Payload(j)' \/ (j = Len(delivered) /\ Cut(j)'))
    <3>1. j \in 1..Len(sizes')
      BY <1>1, <1>2, <2>1, SizesKept DEF InOrder
    <3>2. j <= Len(sizes')
      BY <3>1, SizesKept
    <3> QED
      BY <1>1, <1>3, <3>2, CutKept DEF InOrder
  <2> QED
    BY <1>4, <2>1 DEF InOrder
<1>5. CASE Deliver \/ MessageThrows
  <2>1. worker = "delivering" /\ delivered' = Append(delivered, buffer)
        /\ UNCHANGED <<sizes, put, closed, lost, transport, stopped>>
    BY <1>5 DEF Deliver, MessageThrows, peer, object
  <2>2. /\ Frame <= Len(sizes)
        /\ \A j \in 1..Len(delivered) : delivered[j] = Payload(j)
        /\ buffer = Payload(Frame) \/ Cut(Frame)
    BY <2>1, AtDelivery
  <2>3. Len(delivered') = Frame /\ delivered'[Frame] = buffer
        /\ \A j \in 1..Len(delivered) : delivered'[j] = delivered[j]
    BY <1>1, <2>1 DEF SessionOK, Frame
  <2>4. ASSUME NEW j \in 1..Frame
        PROVE  /\ j <= Len(sizes)
               /\ delivered'[j] = Payload(j) \/ (j = Frame /\ Cut(j))
    <3>1. CASE j = Frame
      BY <2>2, <2>3, <3>1
    <3>2. CASE j # Frame
      <4>1. j \in 1..Len(delivered) /\ j <= Len(sizes)
        BY <1>2, <2>2, <3>2 DEF Frame
      <4> QED
        BY <2>2, <2>3, <4>1
    <3> QED
      BY <3>1, <3>2
  <2>5. \A j : Payload(j)' = Payload(j) /\ (Cut(j)' <=> Cut(j))
    BY <2>1 DEF Payload, Cut, Whole, Length
  <2> QED
    BY <2>1, <2>3, <2>4, <2>5 DEF InOrder
<1>6. ASSUME ~Deliver, ~MessageThrows PROVE UNCHANGED delivered
  BY <1>6 DEF Next, Worker, Peer, CreateSession, FactoryThrows, ReadThrows, EnterRead,
         LoadSocket, EnterRecv, TakeBytes, ReadCallReturns, GotSize, GotNoSize, GotPayload,
         BeginFrame, ContinueFrame, Close, HardClose, Stop, Reset, Reuse, Join, Goto, session
<1> QED
  BY <1>4, <1>5, <1>6

\* Nothing more can come: the peer has left, or the socket was shut down.
LEMMA DeadMeansEnd ==
    ASSUME IInv, Dead
    PROVE  (closed /\ stream = << >>) \/ (transport = "socket" /\ stopped)
<1>1. Outside
  BY DEF IInv
<1> QED
  BY <1>1 DEF Dead, Over, Deaf, Arrives, Outside

\* A read that returns less than it was asked for has come to the end.
LEMMA ShortRead ==
    ASSUME IInv, worker = "read", Len(got) < want
    PROVE  Dead
  BY DEF IInv, Ended, Spent, Following

LEMMA DisconnectStep ==
    ASSUME IInv, Next
    PROVE  DisconnectMeansPeerLeft'
<1>1. DisconnectMeansPeerLeft
  BY DEF IInv
<1>2. CASE closed /\ stream = << >>
  <2>1. Over
    BY <1>2 DEF Over, Arrives
  <2>2. stream' = << >> /\ closed'
    BY <1>2, <2>1, OverKept, FlagsRise DEF Over
  <2> QED
    BY <2>2 DEF DisconnectMeansPeerLeft
<1>3. CASE transport = "socket" /\ stopped
  BY <1>3, SizesKept, FlagsRise DEF DisconnectMeansPeerLeft
<1>4. CASE GotNoSize
  <2>1. worker = "read" /\ phase = "size" /\ Len(got) < Header
    BY <1>4 DEF GotNoSize, NoSize, ReadReturns
  <2>2. want = Header
    BY <2>1 DEF IInv, Ended, Spent, Following, InHeader
  <2>3. Dead
    BY <2>1, <2>2, ShortRead
  <2> QED
    BY <1>2, <1>3, <2>3, DeadMeansEnd
<1>5. ASSUME ~GotNoSize PROVE disconnected' = disconnected
  BY <1>5 DEF Next, Worker, Peer, CreateSession, FactoryThrows, ReadThrows, EnterRead,
         LoadSocket, EnterRecv, TakeBytes, ReadCallReturns, GotSize, GotPayload, Deliver,
         MessageThrows, BeginFrame, ContinueFrame, Close, HardClose, Stop, Reset, Reuse, Join,
         Goto, session
<1> QED
  BY <1>1, <1>2, <1>3, <1>4, <1>5 DEF DisconnectMeansPeerLeft

-----------------------------------------------------------------------------
(* The layout of the stream *)

\* Steps that touch neither the stream nor the place in it.
LEMMA LayoutSame ==
    ASSUME NEW s, Layout(s), UNCHANGED <<transport, sizes, put, stream, lost, stopped>>,
           Frame' = Frame, Pos' = Pos
    PROVE  Layout(s)'
  BY DEF Layout, Offsets, Bytes, End, Length, Wire, Sealed

\* The end of the stream is lost.
LEMMA LayoutCut ==
    ASSUME IInv, NEW s, Layout(s), UNCHANGED <<transport, sizes, put>>, Sealed',
           Frame' = Frame, Pos' = Pos, Len(stream') \in 0..Len(stream),
           \A i \in 1..Len(stream') : stream'[i] = stream[i]
    PROVE  Layout(s)'
<1>1. Len(stream) \in Nat
  BY DEF IInv, TypeOK
<1>2. \A i \in 1..Len(stream') : i \in 1..Len(stream)
  BY <1>1
<1>3. Bytes(s)'
  BY <1>2, SMTT(30) DEF Layout, Bytes, Length, Wire
<1>4. Offsets(s)' /\ s[Frame'] = 0 - Pos'
  BY DEF Layout, Offsets, Length
<1>5. End(s) \in Int /\ End(s)' = End(s)
  <2>1. CASE sizes = << >>
    BY <2>1 DEF End
  <2>2. CASE sizes # << >>
    <3>1. Len(sizes) \in 1..(Len(sizes) + 1) /\ put \in Int
      BY <2>2 DEF IInv, TypeOK
    <3>2. s[Len(sizes)] \in Int
      BY <3>1 DEF Layout, Offsets
    <3> QED
      BY <2>2, <3>1, <3>2 DEF End
  <2> QED
    BY <2>1, <2>2
<1>6. Len(stream') <= End(s)'
  BY <1>1, <1>5 DEF Layout
<1> QED
  BY <1>3, <1>4, <1>6 DEF Layout

\* Bytes are taken from the front.
LEMMA LayoutTaken ==
    ASSUME IInv, NEW s, Layout(s), Frame \in 1..(Len(sizes) + 1),
           UNCHANGED <<transport, sizes, put, lost, stopped>>,
           NEW n \in 1..Len(stream), Frame' = Frame, Pos \in Int, Pos' = Pos + n,
           Len(stream') = Len(stream) - n,
           \A i \in 1..(Len(stream) - n) : stream'[i] = stream[i + n]
    PROVE  \E t : Layout(t)'
<1>1. Len(stream) \in Nat /\ Len(sizes) \in Nat /\ put \in Nat /\ n \in Nat
  BY DEF IInv, TypeOK
<1>2. s \in [1..(Len(sizes) + 1) -> Int]
  BY DEF Layout, Offsets
<1>3. PICK t : t = [k \in 1..(Len(sizes) + 1) |-> s[k] - n]
  OBVIOUS
<1>4. \A k \in 1..(Len(sizes) + 1) : s[k] \in Int /\ t[k] = s[k] - n
  BY <1>2, <1>3
<1>5. t \in [1..(Len(sizes) + 1) -> Int]
  BY <1>1, <1>2, <1>3
<1>6. ASSUME NEW k \in 1..Len(sizes) PROVE t[k + 1] = t[k] + Length(k)
  <2>1. k + 1 \in 1..(Len(sizes) + 1) /\ k \in 1..(Len(sizes) + 1)
    BY <1>1
  <2>2. Length(k) \in Nat
    BY SizeType, TypeParts DEF IInv
  <2>3. s[k + 1] = s[k] + Length(k)
    BY DEF Layout, Offsets
  <2>4. s[k] \in Int /\ t[k] = s[k] - n /\ t[k + 1] = s[k + 1] - n
    BY <1>4, <2>1
  <2> QED
    BY <1>1, <2>2, <2>3, <2>4
<1>7. ASSUME NEW k \in 1..(Len(sizes) + 1), NEW l \in 1..(Len(sizes) + 1), k <= l
      PROVE  t[k] <= t[l]
  <2>1. s[k] <= s[l]
    BY <1>7 DEF Layout, Offsets
  <2>2. s[k] \in Int /\ s[l] \in Int /\ t[k] = s[k] - n /\ t[l] = s[l] - n
    BY <1>4
  <2> QED
    BY <1>1, <2>1, <2>2
<1>8. Offsets(t)'
  BY <1>5, <1>6, <1>7 DEF Offsets, Length
<1>9. t[Frame] = 0 - (Pos + n)
  BY <1>1, <1>4 DEF Layout
<1>10. ASSUME NEW k \in Frame..Len(sizes), NEW j \in 1..Length(k), t[k] + j \in 1..(Len(stream) - n)
       PROVE  stream'[t[k] + j] = Wire(k, j)
  <2>1. k \in 1..Len(sizes) /\ k \in 1..(Len(sizes) + 1)
    BY <1>1
  <2>2. Length(k) \in Nat
    BY <2>1, SizeType, TypeParts DEF IInv
  <2>3. j \in Int /\ s[k] \in Int /\ t[k] = s[k] - n
    BY <1>4, <2>1, <2>2, SMTT(30)
  <2>4. t[k] + j + n = s[k] + j
    BY <1>1, <2>3
  <2>5. s[k] + j \in 1..Len(stream)
    BY <1>1, <1>10, <2>3, SMTT(30)
  <2>6. stream'[t[k] + j] = stream[s[k] + j]
    BY <1>10, <2>4
  <2> QED
    BY <2>5, <2>6 DEF Layout, Bytes
<1>11. Bytes(t)'
  BY <1>10 DEF Bytes, Length, Wire
<1>12. End(t)' = End(s) - n /\ End(s) \in Int
  <2>1. CASE sizes = << >>
    <3>1. End(s) = 0
      BY <2>1 DEF End
    <3>2. Len(stream) <= 0
      BY <3>1 DEF Layout
    <3> QED
      BY <1>1, <3>2
  <2>2. CASE sizes # << >>
    <3>1. Len(sizes) \in 1..(Len(sizes) + 1)
      BY <2>2 DEF IInv, TypeOK
    <3>2. s[Len(sizes)] \in Int /\ t[Len(sizes)] = s[Len(sizes)] - n
      BY <1>4, <3>1
    <3>3. End(s) = s[Len(sizes)] + put /\ End(t)' = t[Len(sizes)] + put
      BY <2>2 DEF End
    <3> QED
      BY <1>1, <3>2, <3>3, SMTT(30)
  <2> QED
    BY <2>1, <2>2
<1>13. Len(stream') <= End(t)' /\ (~Sealed' => Len(stream') = End(t)')
  BY <1>1, <1>12 DEF Layout, Sealed
<1>14. t[Frame'] = 0 - Pos'
  BY <1>9
<1>15. Layout(t)'
  BY <1>8, <1>11, <1>13, <1>14 DEF Layout
<1> QED
  BY <1>15

\* Where the peer is, when nothing was discarded.
LEMMA PeerAt ==
    ASSUME IInv, NEW s, Layout(s), Arrives, sizes = << >> => Pos = 0, Frame \in 1..(Len(sizes) + 1)
    PROVE  /\ ~Sealed
           /\ sizes # << >> => Len(stream) = s[Len(sizes)] + put
           /\ Whole => Len(stream) = s[Len(sizes) + 1]
<1>1. ~Sealed
  BY DEF IInv, Outside, Sealed, Arrives
<1>2. Len(stream) = End(s)
  BY <1>1 DEF Layout
<1>3. CASE sizes = << >>
  <2>1. Len(sizes) = 0 /\ Frame = 1
    BY <1>3
  <2>2. s[1] = 0
    BY <1>3, <2>1 DEF Layout
  <2> QED
    BY <1>1, <1>2, <1>3, <2>1, <2>2 DEF End
<1>4. CASE sizes # << >>
  <2>1. Len(sizes) \in 1..Len(sizes)
    BY <1>4 DEF IInv, TypeOK
  <2>2. Len(stream) = s[Len(sizes)] + put
    BY <1>2, <1>4 DEF End
  <2>3. s[Len(sizes) + 1] = s[Len(sizes)] + Length(Len(sizes))
    BY <2>1 DEF Layout, Offsets
  <2> QED
    BY <1>1, <1>4, <2>2, <2>3 DEF Whole
<1> QED
  BY <1>3, <1>4

\* The bytes of the frames before frame l are before it.
LEMMA Before ==
    ASSUME IInv, NEW s, Offsets(s), NEW k \in 1..Len(sizes), NEW l \in 1..(Len(sizes) + 1), k < l
    PROVE  s[k] \in Int /\ s[l] \in Int /\ s[k] + Length(k) <= s[l]
<1>1. Len(sizes) \in Nat
  BY DEF IInv, TypeOK
<1>2. k + 1 \in 1..(Len(sizes) + 1) /\ k \in 1..(Len(sizes) + 1) /\ k + 1 <= l
  BY <1>1
<1>3. s[k + 1] <= s[l] /\ s[k + 1] = s[k] + Length(k) /\ s[k] \in Int /\ s[l] \in Int
  BY <1>2 DEF Offsets
<1> QED
  BY <1>3

\* The peer begins a frame.
LEMMA LayoutBegin ==
    ASSUME IInv, NEW s, Layout(s), Frame \in 1..(Len(sizes) + 1), sizes = << >> => Pos = 0,
           NEW n \in Sizes, BeginFrame(n)
    PROVE  \E t : Layout(t)'
<1>0. PICK L : L = Len(sizes)
  OBVIOUS
<1> USE <1>0
<1>1. StreamOK /\ L \in Nat /\ Len(stream) \in Nat /\ Header \in Nat \ {0} /\ n \in Nat
  BY TypeParts DEF IInv, TypeOK
<1>2. /\ sizes' = Append(sizes, n) /\ put' = 1 /\ stream' = Append(stream, Wire(L + 1, 1))
      /\ UNCHANGED <<transport, lost, stopped, delivered, phase, got>>
      /\ Arrives /\ Whole
  BY DEF BeginFrame, reading, object, session
<1>3. ~Sealed /\ Len(stream) = s[L + 1]
  BY <1>2, PeerAt
<1>4. Offsets(s) /\ s \in [1..(L + 1) -> Int]
  BY DEF Layout, Offsets
<1>5. Len(sizes') = L + 1 /\ sizes'[L + 1] = n /\ \A k \in 1..L : sizes'[k] = sizes[k]
  BY <1>1, <1>2 DEF StreamOK
<1>6. Length(L + 1)' = Header + n /\ \A k \in 1..L : Length(k)' = Length(k)
  <2>1. Length(L + 1)' = Header + sizes'[L + 1]
    BY <1>1, <1>5 DEF Length
  <2> QED
    BY <1>5, <2>1 DEF Length
<1>7. PICK t : t = [k \in 1..(L + 2) |-> IF k <= L + 1 THEN s[k] ELSE s[L + 1] + (Header + n)]
  OBVIOUS
<1>8. /\ \A k \in 1..(L + 1) : k \in 1..(L + 2) /\ t[k] = s[k] /\ s[k] \in Int
      /\ t[L + 2] = s[L + 1] + (Header + n) /\ t[L + 2] \in Int
  <2>1. \A k \in 1..(L + 1) : k \in 1..(L + 2) /\ k <= L + 1 /\ s[k] \in Int
    BY <1>1, <1>4
  <2>2. L + 2 \in 1..(L + 2) /\ ~(L + 2 <= L + 1) /\ L + 1 \in 1..(L + 1)
    BY <1>1
  <2>3. t[L + 2] = s[L + 1] + (Header + n) /\ s[L + 1] \in Int
    BY <1>7, <2>1, <2>2
  <2> QED
    BY <1>1, <1>7, <2>1, <2>3
<1>9. t \in [1..(L + 2) -> Int]
  <2>1. \A k \in 1..(L + 2) : k \in 1..(L + 1) \/ k = L + 2
    BY <1>1
  <2>2. \A k \in 1..(L + 2) : t[k] \in Int
    BY <1>8, <2>1
  <2> QED
    BY <1>7, <2>2
<1>10. ASSUME NEW k \in 1..(L + 1) PROVE t[k + 1] = t[k] + Length(k)'
  <2>1. CASE k = L + 1
    BY <1>1, <1>6, <1>8, <2>1
  <2>2. CASE k # L + 1
    <3>1. k \in 1..L /\ k + 1 \in 1..(L + 1)
      BY <1>1, <2>2
    <3> QED
      BY <1>4, <1>6, <1>8, <3>1 DEF Offsets
  <2> QED
    BY <2>1, <2>2
<1>11. ASSUME NEW k \in 1..(L + 2), NEW l \in 1..(L + 2), k <= l PROVE t[k] <= t[l]
  <2>1. CASE l \in 1..(L + 1)
    <3>1. k \in 1..(L + 1)
      BY <1>1, <1>11, <2>1
    <3> QED
      BY <1>4, <1>8, <1>11, <2>1, <3>1 DEF Offsets
  <2>2. CASE l = L + 2 /\ k = L + 2
    BY <1>8, <2>2
  <2>3. CASE l = L + 2 /\ k \in 1..(L + 1)
    <3>1. s[k] <= s[L + 1]
      BY <1>1, <1>4, <2>3 DEF Offsets
    <3> QED
      BY <1>1, <1>8, <2>3, <3>1, SMTT(30)
  <2> QED
    BY <1>1, <2>1, <2>2, <2>3
<1>12. Offsets(t)'
  <2>1. L + 1 + 1 = L + 2
    BY <1>1
  <2> QED
    BY <1>5, <1>9, <1>10, <1>11, <2>1 DEF Offsets
<1>13. Frame' = Frame /\ Pos' = Pos
  BY <1>2 DEF Frame, Pos
<1>14. t[Frame'] = 0 - Pos'
  BY <1>8, <1>13 DEF Layout
<1>15. /\ Len(stream') = Len(stream) + 1 /\ stream'[Len(stream) + 1] = Wire(L + 1, 1)
       /\ \A i \in 1..Len(stream) : stream'[i] = stream[i]
  BY <1>1, <1>2 DEF StreamOK
<1>16. ASSUME NEW k \in Frame..(L + 1), NEW j \in 1..Length(k)', t[k] + j \in 1..(Len(stream) + 1)
       PROVE  stream'[t[k] + j] = Wire(k, j)
  <2>1. CASE k = L + 1
    <3>1. t[k] = Len(stream) /\ j \in 1..(Header + n)
      BY <1>1, <1>3, <1>6, <1>8, <2>1
    <3>2. j = 1
      BY <1>1, <1>16, <3>1
    <3> QED
      BY <1>15, <2>1, <3>1, <3>2
  <2>2. CASE k # L + 1
    <3>1. k \in 1..L /\ k \in Frame..L
      BY <1>1, <2>2
    <3>2. j \in 1..Length(k) /\ Length(k) \in Nat /\ t[k] = s[k]
      BY <1>1, <1>6, <1>8, <3>1, SizeType
    <3>3. s[k] \in Int /\ s[k] + Length(k) <= s[L + 1]
      BY <1>1, <1>4, <3>1, Before, SMTT(30)
    <3>4. s[k] + j \in 1..Len(stream)
      BY <1>1, <1>3, <1>16, <3>2, <3>3
    <3>5. stream[s[k] + j] = Wire(k, j)
      BY <3>1, <3>2, <3>4 DEF Layout, Bytes
    <3> QED
      BY <1>15, <3>2, <3>4, <3>5
  <2> QED
    BY <2>1, <2>2
<1>17. Bytes(t)'
  <2>1. \A k, j : Wire(k, j)' = Wire(k, j)
    BY <1>2 DEF Wire
  <2> QED
    BY <1>5, <1>13, <1>15, <1>16, <2>1 DEF Bytes
<1>18. End(t)' = s[L + 1] + 1
  <2>1. sizes' # << >>
    BY <1>1, <1>5
  <2> QED
    BY <1>1, <1>2, <1>5, <1>8, <2>1, SMTT(30) DEF End
<1>19. Len(stream') = End(t)' /\ Len(stream') <= End(t)'
  BY <1>1, <1>3, <1>15, <1>18
<1>20. Layout(t)'
  BY <1>12, <1>14, <1>17, <1>19 DEF Layout
<1> QED
  BY <1>20

\* The peer goes on with its last frame.
LEMMA LayoutContinue ==
    ASSUME IInv, NEW s, Layout(s), Frame \in 1..(Len(sizes) + 1), sizes = << >> => Pos = 0,
           ContinueFrame
    PROVE  Layout(s)'
<1>0. PICK L : L = Len(sizes)
  OBVIOUS
<1> USE <1>0
<1>1. StreamOK /\ Outside /\ Len(stream) \in Nat
  BY TypeParts DEF IInv, TypeOK
<1>2. /\ put' = put + 1 /\ stream' = Append(stream, Wire(L, put + 1))
      /\ UNCHANGED <<transport, sizes, lost, stopped, delivered, phase, got>>
      /\ Arrives /\ ~Whole
  BY DEF ContinueFrame, reading, object, session
<1>3. sizes # << >> /\ L \in 1..L /\ L \in Nat /\ put \in Nat
  BY <1>1, <1>2 DEF StreamOK, Outside, Whole
<1>4. ~Sealed /\ Len(stream) = s[L] + put
  BY <1>2, <1>3, PeerAt
<1>5. Offsets(s) /\ s \in [1..(L + 1) -> Int]
  BY DEF Layout, Offsets
<1>6. s[L] \in Int
  BY <1>3, <1>5
<1>7. Frame' = Frame /\ Pos' = Pos
  BY <1>2 DEF Frame, Pos
<1>8. Offsets(s)' /\ s[Frame'] = 0 - Pos'
  BY <1>2, <1>5, <1>7 DEF Layout, Offsets, Length
<1>9. /\ Len(stream') = Len(stream) + 1 /\ stream'[Len(stream) + 1] = Wire(L, put + 1)
      /\ \A i \in 1..Len(stream) : stream'[i] = stream[i]
  BY <1>1, <1>2 DEF StreamOK
<1>10. ASSUME NEW k \in Frame..L, NEW j \in 1..Length(k), s[k] + j \in 1..(Len(stream) + 1)
       PROVE  stream'[s[k] + j] = Wire(k, j)
  <2>0. k \in 1..L /\ s[k] \in Int
    BY <1>3, <1>5
  <2>1. k \in 1..L /\ s[k] \in Int /\ Length(k) \in Nat /\ j \in Nat
    BY <1>1, <2>0, SizeType
  <2>2. CASE s[k] + j \in 1..Len(stream)
    <3>1. stream[s[k] + j] = Wire(k, j)
      BY <2>2 DEF Layout, Bytes
    <3> QED
      BY <1>9, <2>2, <3>1
  <2>3. CASE s[k] + j = Len(stream) + 1
    <3>1. ASSUME k # L PROVE FALSE
      <4>1. s[k] + Length(k) <= s[L]
        <5>1. k < L /\ L \in 1..(L + 1)
          BY <1>3, <2>1, <3>1
        <5> QED
          BY <1>5, <2>1, <5>1, Before
      <4> QED
        BY <1>3, <1>4, <1>6, <2>1, <2>3, <4>1, SMTT(30)
    <3>2. j = put + 1
      BY <1>3, <1>4, <1>6, <2>1, <2>3, <3>1
    <3> QED
      BY <1>9, <2>3, <3>1, <3>2
  <2> QED
    BY <1>1, <1>10, <2>1, <2>2, <2>3
<1>11. Bytes(s)'
  <2>1. \A k, j : Wire(k, j)' = Wire(k, j) /\ Length(k)' = Length(k)
    BY <1>2 DEF Wire, Length
  <2> QED
    BY <1>2, <1>7, <1>9, <1>10, <2>1 DEF Bytes
<1>12. End(s)' = s[L] + (put + 1)
  BY <1>2, <1>3 DEF End
<1>13. Len(stream') = End(s)' /\ Len(stream') <= End(s)'
  <2>1. s[L] + put + 1 = s[L] + (put + 1) /\ s[L] + (put + 1) \in Int
    BY <1>3, <1>6
  <2> QED
    BY <1>4, <1>9, <1>12, <2>1
<1> QED
  BY <1>8, <1>11, <1>13 DEF Layout

\* A frame is read to its end.
LEMMA LayoutNext ==
    ASSUME IInv, NEW s, Layout(s), Frame \in 1..Len(sizes), Pos = Length(Frame),
           UNCHANGED <<transport, sizes, put, stream, lost, stopped>>,
           Frame' = Frame + 1, Pos' = 0
    PROVE  Layout(s)'
<1>1. StreamOK /\ Len(sizes) \in Nat /\ Frame \in Nat
  BY TypeParts DEF IInv, TypeOK
<1>2. Length(Frame) \in Nat
  BY <1>1, SizeType
<1>3. s[Frame + 1] = 0
  BY <1>2 DEF Layout, Offsets
<1>4. Offsets(s)' /\ s[Frame'] = 0 - Pos'
  BY <1>3 DEF Layout, Offsets, Length
<1>5. \A k \in (Frame + 1)..Len(sizes) : k \in Frame..Len(sizes)
  BY <1>1
<1>6. Bytes(s)'
  BY <1>5 DEF Layout, Bytes, Length, Wire
<1> QED
  BY <1>4, <1>6 DEF Layout, End, Sealed

-----------------------------------------------------------------------------
(* The worker keeps in step *)

LEMMA Started ==
    ASSUME IInv, Following
    PROVE  /\ Frame \in 1..(Len(sizes) + 1)
           /\ Pos \in Nat
           /\ sizes = << >> => Pos = 0
<1>1. /\ Len(got) \in Nat /\ Len(delivered) \in Nat /\ Len(sizes) \in Nat /\ Header \in Nat
      /\ phase \in {"size", "payload"} /\ got \in Seq(Byte)
  BY DEF IInv, TypeOK
<1>2. Frame \in 1..(Len(sizes) + 1)
  BY <1>1 DEF Following, Frame
<1>3. Pos \in Nat
  BY <1>1 DEF Pos
<1>4. ASSUME sizes = << >> PROVE Pos = 0
  <2>1. Len(sizes) = 0 /\ Frame = 1
    BY <1>2, <1>4
  <2>2. phase = "size" /\ InHeader
    BY <1>1, <2>1 DEF Following, InPayload
  <2>3. got = << >>
    BY <2>1, <2>2 DEF InHeader
  <2> QED
    BY <2>2, <2>3 DEF Pos
<1> QED
  BY <1>2, <1>3, <1>4

\* Whatever happens elsewhere, as long as there is a layout.
LEMMA FollowingKept ==
    ASSUME IInv, Next, Following, UNCHANGED <<worker, phase, want, got, buffer, delivered>>,
           \E s : Layout(s)'
    PROVE  Following'
<1>1. /\ Len(sizes) \in Nat /\ Len(delivered) \in Nat
      /\ Len(sizes') \in {Len(sizes), Len(sizes) + 1} /\ transport' = transport
      /\ \A k \in 1..Len(sizes) : sizes'[k] = sizes[k]
  BY SizesKept DEF IInv, TypeOK
<1>2. Frame' = Frame /\ Frame \in Nat /\ Frame >= 1
  BY <1>1 DEF Frame
<1>3. Frame' <= Len(sizes') + 1 /\ (Frame <= Len(sizes) => Frame' <= Len(sizes'))
  BY <1>1, <1>2 DEF Following
<1>4. \A k, j : Wire(k, j)' = Wire(k, j)
  BY <1>1 DEF Wire
<1>5. \A j \in 1..Len(delivered) : delivered'[j] = Payload(j)'
  <2>1. \A j \in 1..Len(delivered) : j \in 1..Len(sizes)
    BY <1>1, <1>2 DEF Following, Frame
  <2> QED
    BY <2>1, PayloadKept DEF Following
<1>6. phase = "size" => InHeader'
  BY <1>2, <1>3, <1>4 DEF Following, InHeader
<1>7. phase = "payload" => InPayload'
  <2>1. Frame <= Len(sizes) => Frame \in 1..Len(sizes)
    BY <1>1, <1>2
  <2> QED
    BY <1>1, <1>2, <1>3, <1>4, <2>1 DEF Following, InPayload
<1>8. worker' = "read" /\ Len(got') < want' => Dead'
  BY DeadKept DEF Following
<1>9. ASSUME worker = "delivering"
      PROVE  \/ Len(got') = want' /\ buffer' = Payload(Frame)'
             \/ Dead' /\ Cut(Frame)'
  <2>1. /\ Frame \in 1..Len(sizes)
        /\ (Len(got) = want /\ buffer = Payload(Frame)) \/ (Dead /\ Cut(Frame))
    BY <1>9, AtDelivery
  <2>2. PICK f \in 1..Len(sizes) : f = Frame
    BY <2>1
  <2>3. Payload(f)' = Payload(f) /\ (Cut(f) => Cut(f)')
    BY PayloadKept, CutKept
  <2>4. Cut(f)' => Cut(Frame)'
    BY <1>2, <2>2 DEF Cut, Whole, Length
  <2>5. Payload(f)' = Payload(Frame)'
    BY <1>2, <2>2 DEF Payload
  <2> QED
    BY <2>1, <2>2, <2>3, <2>4, <2>5, DeadKept
<1> QED
  BY <1>1, <1>3, <1>5, <1>6, <1>7, <1>8, <1>9 DEF Following

LEMMA PeerStep ==
    ASSUME IInv, Next, Following, Peer
    PROVE  Following'
<1>1. /\ UNCHANGED <<worker, phase, want, got, buffer, delivered, transport, stopped>>
      /\ Frame' = Frame /\ Pos' = Pos
  BY DEF Peer, BeginFrame, ContinueFrame, Close, HardClose, reading, session, object, Frame, Pos
<1>2. PICK s : Layout(s)
  BY DEF Following
<1>3. \E t : Layout(t)'
  <2>1. ASSUME NEW n \in Sizes, BeginFrame(n) PROVE \E t : Layout(t)'
    BY <1>2, <2>1, LayoutBegin, Started
  <2>2. CASE ContinueFrame
    BY <1>2, <2>2, LayoutContinue, Started
  <2>3. CASE Close
    BY <1>1, <1>2, <2>3, LayoutSame DEF Close
  <2>4. CASE HardClose
    <3>1. PICK k \in 0..(Len(stream) - 1) : stream' = SubSeq(stream, 1, k)
      BY <2>4 DEF HardClose
    <3>2. stream \in Seq(Byte) /\ Len(stream) \in Nat /\ k \in 0..Len(stream)
      BY <3>1 DEF IInv, TypeOK
    <3>3. Len(stream') \in 0..Len(stream) /\ \A i \in 1..Len(stream') : stream'[i] = stream[i]
      BY <3>1, <3>2, FirstPart
    <3>4. Sealed'
      BY <2>4 DEF HardClose, Sealed
    <3>5. UNCHANGED <<transport, sizes, put>>
      BY <2>4 DEF HardClose
    <3> QED
      BY <1>1, <1>2, <3>3, <3>4, <3>5, LayoutCut
  <2> QED
    BY <2>1, <2>2, <2>3, <2>4 DEF Peer
<1> QED
  BY <1>1, <1>3, FollowingKept

LEMMA OwnerStep ==
    ASSUME IInv, Next, Following, Stop \/ Destructor
    PROVE  Following'
<1>1. /\ UNCHANGED <<worker, phase, want, got, buffer, delivered, transport, sizes, put, lost>>
      /\ Frame' = Frame /\ Pos' = Pos
  BY DestructorOnly DEF Stop, peer, reading, session, Frame, Pos
<1>2. PICK s : Layout(s)
  BY DEF Following
<1>3. Layout(s)'
  <2>1. CASE Destructor
    BY <1>1, <1>2, <2>1, LayoutSame, DestructorOnly
  <2>2. CASE Stop /\ transport = "socket"
    <3>1. Sealed'
      BY <1>1, <2>2 DEF Stop, Interrupt, Sealed
    <3>2. stream' = stream \/ stream' = << >>
      BY <2>2 DEF Stop
    <3>3. Len(stream') \in 0..Len(stream) /\ \A i \in 1..Len(stream') : stream'[i] = stream[i]
      BY <3>2 DEF IInv, TypeOK
    <3> QED
      BY <1>1, <1>2, <3>1, <3>3, LayoutCut
  <2>3. CASE Stop /\ transport # "socket"
    <3>1. stream' = stream /\ (Sealed' <=> Sealed)
      BY <1>1, <2>3 DEF Stop, Sealed
    <3> QED
      BY <1>1, <1>2, <3>1 DEF Layout, Offsets, Bytes, End, Length, Wire
  <2> QED
    BY <2>1, <2>2, <2>3
<1> QED
  BY <1>1, <1>3, FollowingKept

LEMMA MovesStep ==
    ASSUME IInv, Next, Following, Moves
    PROVE  Ended' \/ Following'
<1>1. /\ UNCHANGED <<transport, sizes, put, closed, lost, stream, phase, want, got, buffer, owner,
                     stopped, reused, delivered, disconnected>>
      /\ worker' \in {"calling", "reading", "read", "done", "astray"}
  BY MovesOnly
<1>2. CASE worker' \in {"done", "astray"}
  BY <1>2 DEF Ended
<1>3. CASE worker' \in {"calling", "reading", "read"}
  <2>1. worker \in {"entering", "calling", "reading"}
    BY <1>3 DEF Moves, FactoryThrows, ReadThrows, EnterRead, LoadSocket, EnterRecv,
                ReadCallReturns, Goto
  <2>2. worker' = "calling" => transport' = "socket"
    BY <1>1 DEF Moves, FactoryThrows, ReadThrows, EnterRead, LoadSocket, EnterRecv,
                ReadCallReturns, Goto
  <2>3. Frame' = Frame /\ Pos' = Pos
    BY <1>1 DEF Frame, Pos
  <2>4. PICK s : Layout(s)
    BY DEF Following
  <2>5. Layout(s)'
    BY <1>1, <2>3, <2>4, LayoutSame
  <2>6. \A j : Payload(j)' = Payload(j)
    BY <1>1 DEF Payload
  <2>7. \A k, j : Wire(k, j)' = Wire(k, j)
    BY <1>1 DEF Wire
  <2>8. phase = "size" => InHeader'
    BY <1>1, <1>3, <2>1, <2>3, <2>7 DEF Following, InHeader
  <2>9. phase = "payload" => InPayload'
    BY <1>1, <1>3, <2>1, <2>3, <2>7 DEF Following, InPayload
  <2>10. ASSUME worker' = "read", Len(got) < want PROVE Dead'
    <3>1. CASE worker \in {"entering", "calling"}
      <4>1. transport = "socket" /\ owner \in {"clearing", "joining", "gone"}
        BY <2>10, <3>1 DEF Moves, FactoryThrows, ReadThrows, EnterRead, LoadSocket, EnterRecv,
                ReadCallReturns, Goto, Following, IInv, TypeOK
      <4> QED
        BY <1>1, <2>10, <4>1 DEF Dead, Deaf
    <3>2. CASE worker = "reading"
      <4>1. Len(got) # want /\ (Len(got) = want \/ (stream = << >> /\ ~Arrives))
        BY <2>10, <3>2 DEF Moves, FactoryThrows, ReadThrows, EnterRead, LoadSocket, EnterRecv,
                ReadCallReturns, Goto, Arrives, IInv, TypeOK
      <4> QED
        BY <1>1, <4>1 DEF Dead, Over, Arrives
    <3> QED
      BY <2>1, <3>1, <3>2
  <2>11. Frame' <= Len(sizes') + 1 /\ \A j \in 1..Len(delivered') : delivered'[j] = Payload(j)'
    BY <1>1, <2>3, <2>6 DEF Following
  <2>12. worker' # "delivering" /\ worker' \in {"calling", "reading", "read"}
    BY <1>3
  <2>13. (phase' = "size" => InHeader') /\ (phase' = "payload" => InPayload')
    BY <1>1, <2>8, <2>9
  <2>14. worker' = "read" /\ Len(got') < want' => Dead'
    BY <1>1, <2>10
  <2> QED
    BY <2>2, <2>5, <2>11, <2>12, <2>13, <2>14 DEF Following
<1> QED
  BY <1>1, <1>2, <1>3

\* The first read.
LEMMA CreateStep ==
    ASSUME IInv, Next, Following, CreateSession
    PROVE  Following'
<1>1. /\ UNCHANGED <<transport, sizes, put, closed, lost, stream, buffer, owner, stopped,
                     reused, delivered, disconnected>>
      /\ worker = "starting" /\ worker' = "entering" /\ phase' = "size" /\ want' = Header
      /\ got' = << >>
  BY DEF CreateSession, Read, peer, object, session
<1>2. phase = "size" /\ got = << >>
  BY <1>1 DEF IInv, TypeOK, Following, InHeader, InPayload
<1>3. Frame' = Frame /\ Pos' = Pos
  BY <1>1, <1>2 DEF Frame, Pos
<1>4. PICK s : Layout(s)
  BY DEF Following
<1>5. Layout(s)'
  BY <1>1, <1>3, <1>4, LayoutSame
<1>6. \A j : Payload(j)' = Payload(j)
  BY <1>1 DEF Payload
<1>7. Frame' <= Len(sizes') + 1 /\ \A j \in 1..Len(delivered') : delivered'[j] = Payload(j)'
  BY <1>1, <1>3, <1>6 DEF Following
<1>8. InHeader'
  BY <1>1 DEF InHeader
<1> QED
  BY <1>1, <1>5, <1>7, <1>8 DEF Following

\* Bytes that can be read belong to a frame that was begun.
LEMMA FrameBegun ==
    ASSUME IInv, Following, NEW s, Layout(s), Len(stream) >= 1
    PROVE  Frame \in 1..Len(sizes)
<1>1. /\ Frame \in 1..(Len(sizes) + 1) /\ Pos \in Nat /\ StreamOK /\ Outside
      /\ Len(sizes) \in Nat /\ Len(stream) \in Nat /\ put \in Nat
  BY Started, TypeParts DEF IInv, TypeOK
<1>2. ASSUME Frame = Len(sizes) + 1 PROVE FALSE
  <2>1. s[Len(sizes) + 1] = 0 - Pos
    BY <1>2 DEF Layout
  <2>2. CASE sizes = << >>
    BY <1>1, <2>2 DEF Layout, End
  <2>3. CASE sizes # << >>
    <3>1. Len(sizes) \in 1..Len(sizes) /\ put <= Length(Len(sizes))
      BY <1>1, <2>3 DEF Outside
    <3>2. s[Len(sizes) + 1] = s[Len(sizes)] + Length(Len(sizes)) /\ s[Len(sizes)] \in Int
      BY <1>1, <3>1 DEF Layout, Offsets
    <3>3. Len(stream) <= s[Len(sizes)] + put
      BY <2>3 DEF Layout, End
    <3>4. Length(Len(sizes)) \in Nat
      BY <1>1, <3>1, SizeType
    <3> QED
      BY <1>1, <2>1, <3>1, <3>2, <3>3, <3>4
  <2> QED
    BY <2>2, <2>3
<1> QED
  BY <1>1, <1>2

LEMMA TakeStep ==
    ASSUME IInv, Next, Following, TakeBytes
    PROVE  Following'
<1>1. /\ worker = "reading"
      /\ UNCHANGED <<transport, sizes, put, closed, lost, worker, phase, want, buffer, owner,
                     stopped, reused, delivered, disconnected>>
  BY Taken
<1>2. PICK n \in 1..Len(stream) :
                /\ Len(got) + n <= want
                /\ got' \in Seq(Byte) /\ Len(got') = Len(got) + n
                /\ \A i \in 1..Len(got) : got'[i] = got[i]
                /\ \A i \in (Len(got) + 1)..(Len(got) + n) : got'[i] = stream[i - Len(got)]
                /\ stream' \in Seq(Byte) /\ Len(stream') = Len(stream) - n
                /\ \A i \in 1..(Len(stream) - n) : stream'[i] = stream[i + n]
  BY Taken
<1>3. /\ Len(got) \in Nat /\ Len(stream) \in Nat /\ want \in Nat /\ Header \in Nat \ {0}
      /\ phase \in {"size", "payload"} /\ n \in Nat /\ n >= 1 /\ StreamOK
  BY TypeParts DEF IInv, TypeOK
<1>4. PICK s : Layout(s)
  BY DEF Following
<1>5. Frame \in 1..Len(sizes) /\ Frame \in 1..(Len(sizes) + 1)
  BY <1>3, <1>4, FrameBegun, Started
<1>6. Frame' = Frame /\ Pos \in Nat
  BY <1>1, Started DEF Frame
<1>7. Pos' = Pos + n
  <2>1. Header + (Len(got) + n) = Header + Len(got) + n
    BY <1>3
  <2> QED
    BY <1>1, <1>2, <1>3, <2>1 DEF Pos
<1>8. \E t : Layout(t)'
  BY <1>1, <1>2, <1>3, <1>4, <1>5, <1>6, <1>7, LayoutTaken
<1>9. Length(Frame) = Header + sizes[Frame] /\ sizes[Frame] \in Nat /\ Length(Frame) \in Nat
  BY <1>3, <1>5, SizeType
<1>10. ASSUME NEW i \in 1..n, Pos + i <= Length(Frame)
       PROVE  stream[i] = Wire(Frame, Pos + i)
  <2>1. Pos + i \in 1..Length(Frame) /\ (0 - Pos) + (Pos + i) = i /\ i \in 1..Len(stream)
    BY <1>3, <1>6, <1>9, <1>10
  <2>2. s[Frame] + (Pos + i) = i /\ Frame \in Frame..Len(sizes)
    BY <1>4, <1>5, <2>1 DEF Layout
  <2> QED
    BY <1>4, <2>1, <2>2 DEF Layout, Bytes
<1>11. \A k, j : Wire(k, j)' = Wire(k, j)
  BY <1>1 DEF Wire
<1>12. ASSUME NEW i \in 1..(Len(got) + n)
       PROVE  i \in 1..Len(got) \/ (i \in (Len(got) + 1)..(Len(got) + n) /\ i - Len(got) \in 1..n)
  BY <1>3
<1>13. ASSUME phase = "size" PROVE InHeader'
  <2>1. InHeader /\ want = Header /\ Pos = Len(got)
    BY <1>1, <1>13 DEF Following, InHeader, Pos
  <2>2. ASSUME NEW i \in 1..(Len(got) + n) PROVE got'[i] = Wire(Frame, i)
    <3>1. CASE i \in 1..Len(got)
      BY <1>2, <2>1, <3>1 DEF InHeader
    <3>2. CASE i \in (Len(got) + 1)..(Len(got) + n) /\ i - Len(got) \in 1..n
      <4>1. Pos + (i - Len(got)) = i /\ Pos + (i - Len(got)) <= Length(Frame)
        BY <1>2, <1>3, <1>9, <2>1, <3>2, SMTT(30)
      <4> QED
        BY <1>2, <1>10, <3>2, <4>1
    <3> QED
      BY <1>12, <3>1, <3>2
  <2>3. \A i \in 1..Len(got') : got'[i] = Wire(Frame, i)'
    BY <1>1, <1>2, <1>6, <2>2 DEF Wire
  <2> QED
    BY <1>1, <1>5, <1>6, <2>1, <2>3 DEF InHeader
<1>14. ASSUME phase = "payload" PROVE InPayload'
  <2>1. InPayload /\ want = sizes[Frame] /\ Pos = Header + Len(got)
    BY <1>14 DEF Following, InPayload, Pos
  <2>2. ASSUME NEW i \in 1..(Len(got) + n) PROVE got'[i] = Wire(Frame, Header + i)
    <3>1. CASE i \in 1..Len(got)
      BY <1>2, <2>1, <3>1 DEF InPayload
    <3>2. CASE i \in (Len(got) + 1)..(Len(got) + n) /\ i - Len(got) \in 1..n
      <4>1. Pos + (i - Len(got)) = Header + i /\ Pos + (i - Len(got)) <= Length(Frame)
        BY <1>2, <1>3, <1>9, <2>1, <3>2, SMTT(30)
      <4> QED
        BY <1>2, <1>10, <3>2, <4>1
    <3> QED
      BY <1>12, <3>1, <3>2
  <2>3. \A i \in 1..Len(got') : got'[i] = Wire(Frame, Header + i)'
    BY <1>1, <1>2, <1>6, <2>2 DEF Wire
  <2> QED
    BY <1>1, <1>6, <2>1, <2>3 DEF InPayload
<1>15. \A j : Payload(j)' = Payload(j)
  BY <1>1 DEF Payload
<1>16. Frame' <= Len(sizes') + 1 /\ \A j \in 1..Len(delivered') : delivered'[j] = Payload(j)'
  BY <1>1, <1>6, <1>15 DEF Following
<1> QED
  BY <1>1, <1>8, <1>13, <1>14, <1>16 DEF Following

\* A whole size.
LEMMA SizeStep ==
    ASSUME IInv, Next, GotSize
    PROVE  Following'
<1>1. /\ Following /\ InHeader /\ Frame <= Len(sizes) /\ worker = "read" /\ Len(got) = Header
      /\ buffer' = Resized(sizes[Frame]) /\ Read("payload", sizes[Frame])
  BY SizeIsRead
<1>2. /\ UNCHANGED <<transport, sizes, put, closed, lost, stream, owner, stopped, reused,
                     delivered, disconnected>>
      /\ phase = "size" /\ worker' = "entering" /\ phase' = "payload" /\ want' = sizes[Frame]
      /\ got' = << >> /\ Len(got') = 0
  BY <1>1 DEF GotSize, Read, peer, object, session
<1>3. Frame' = Frame /\ Frame \in 1..Len(sizes) /\ Header \in Nat /\ StreamOK
  BY <1>1, <1>2, Started, TypeParts DEF IInv, TypeOK, Frame
<1>4. Pos' = Pos
  BY <1>1, <1>2, <1>3 DEF Pos
<1>5. PICK s : Layout(s)
  BY <1>1 DEF Following
<1>6. Layout(s)'
  BY <1>2, <1>3, <1>4, <1>5, LayoutSame
<1>7. Len(buffer') = sizes[Frame]
  <2>1. sizes[Frame] \in Nat
    BY <1>3, SizeType
  <2>2. buffer' \in [1..sizes[Frame] -> {Resized(sizes[Frame])[j] : j \in 1..sizes[Frame]}]
    BY <1>1 DEF Resized
  <2> QED
    BY <2>1, <2>2, FunctionSeq
<1>8. InPayload'
  BY <1>1, <1>2, <1>3, <1>7 DEF InPayload
<1>9. \A j : Payload(j)' = Payload(j)
  BY <1>2 DEF Payload
<1>10. Frame' <= Len(sizes') + 1 /\ \A j \in 1..Len(delivered') : delivered'[j] = Payload(j)'
  BY <1>1, <1>2, <1>3, <1>9 DEF Following
<1> QED
  BY <1>2, <1>6, <1>8, <1>10 DEF Following

\* A payload that ends early is the peer's last, or bytes were discarded.
LEMMA ShortPayload ==
    ASSUME IInv, Following, worker = "read", phase = "payload", Len(got) < want
    PROVE  Dead /\ Cut(Frame)
<1>1. Dead
  BY ShortRead
<1>2. /\ InPayload /\ StreamOK /\ Outside /\ Len(got) \in Nat /\ want \in Nat /\ Len(sizes) \in Nat
      /\ put \in Nat /\ Header \in Nat /\ Frame \in 1..(Len(sizes) + 1)
  BY TypeParts, Started DEF IInv, TypeOK, Following
<1>3. Frame \in 1..Len(sizes) /\ sizes # << >>
  BY <1>2 DEF InPayload
<1>4. CASE Deaf
  BY <1>1, <1>2, <1>4 DEF Deaf, Outside, Cut
<1>5. CASE Sealed
  BY <1>1, <1>5 DEF Sealed, Cut
<1>6. CASE Over /\ ~Sealed
  <2>1. closed /\ Len(stream) = 0
    BY <1>6 DEF Over, Arrives, Sealed
  <2>2. PICK s : Layout(s)
    BY DEF Following
  <2>3. s[Len(sizes)] + put = 0
    BY <1>3, <1>6, <2>1, <2>2 DEF Layout, End
  <2>4. s[Frame] = 0 - Pos /\ Offsets(s)
    BY <2>2 DEF Layout
  <2>5. Length(Frame) = Header + sizes[Frame] /\ Length(Frame) \in Nat
    BY <1>2, <1>3, SizeType
  <2>6. Pos \in Nat /\ Pos < Length(Frame)
    BY <1>2, <2>5 DEF Pos, InPayload
  <2>7. ASSUME Frame # Len(sizes) PROVE FALSE
    <3>1. Frame < Len(sizes) /\ Len(sizes) \in 1..(Len(sizes) + 1)
      BY <1>2, <1>3, <2>7
    <3>2. s[Len(sizes)] \in Int /\ s[Frame] + Length(Frame) <= s[Len(sizes)]
      BY <1>3, <2>4, <3>1, Before
    <3> QED
      BY <1>2, <2>3, <2>4, <2>5, <2>6, <3>2
  <2>8. put = Pos
    BY <1>2, <2>3, <2>4, <2>6, <2>7
  <2>9. ~Whole
    BY <1>3, <2>5, <2>6, <2>7, <2>8 DEF Whole
  <2> QED
    BY <1>1, <2>1, <2>7, <2>9 DEF Cut
<1> QED
  BY <1>1, <1>4, <1>5, <1>6 DEF Dead

LEMMA PayloadStep ==
    ASSUME IInv, Next, GotPayload
    PROVE  Following'
<1>1. /\ UNCHANGED <<transport, sizes, put, closed, lost, stream, owner, stopped, reused,
                     delivered, disconnected, phase, want, got>>
      /\ buffer' = [j \in DOMAIN buffer |-> IF j <= Len(got) THEN got[j] ELSE buffer[j]]
      /\ worker = "read" /\ worker' = "delivering" /\ phase = "payload"
  BY DEF GotPayload, ReadReturns, peer, object, session
<1>2. Following
  BY <1>1 DEF IInv, Ended, Spent
<1>3. /\ InPayload /\ StreamOK /\ Len(got) \in Nat /\ want \in Nat /\ Len(got) <= want
      /\ Header \in Nat /\ buffer \in Seq(Byte) /\ got \in Seq(Byte)
  BY <1>1, <1>2, TypeParts DEF IInv, TypeOK, Following
<1>4. Frame' = Frame /\ Pos' = Pos
  BY <1>1 DEF Frame, Pos
<1>5. PICK s : Layout(s)
  BY <1>2 DEF Following
<1>6. Layout(s)'
  BY <1>1, <1>4, <1>5, LayoutSame
<1>7. Len(buffer) = want /\ DOMAIN buffer = 1..want /\ want = sizes[Frame]
  BY <1>3 DEF InPayload
<1>8. Len(buffer') = want
  <2>1. buffer' \in [1..want -> {buffer'[j] : j \in 1..want}]
    BY <1>1, <1>7
  <2> QED
    BY <1>3, <2>1, FunctionSeq
<1>9. \A i \in 1..Len(got) : got[i] = Wire(Frame, Header + i)
  BY <1>3 DEF InPayload
<1>10. InPayload'
  BY <1>1, <1>3, <1>4, <1>8 DEF InPayload, Wire
<1>11. ASSUME Len(got) = want PROVE buffer' = Payload(Frame)
  <2>1. ASSUME NEW j \in 1..want PROVE got[j] = [frame |-> Frame, at |-> Header + j]
    <3>1. ~(Header + j <= Header)
      BY <1>3
    <3> QED
      BY <1>9, <1>11, <3>1 DEF Wire
  <2>2. \A j \in 1..want : j <= Len(got)
    BY <1>3, <1>11
  <2>3. buffer' = [j \in 1..want |-> [frame |-> Frame, at |-> Header + j]]
    BY <1>1, <1>7, <2>1, <2>2
  <2> QED
    BY <1>7, <2>3 DEF Payload
<1>12. ASSUME Len(got) # want PROVE Dead' /\ Cut(Frame)'
  <2>1. Dead /\ Cut(Frame)
    BY <1>1, <1>2, <1>3, <1>12, ShortPayload
  <2>2. Dead'
    BY <2>1, DeadKept
  <2>3. Cut(Frame)'
    BY <1>1, <1>4, <2>1 DEF Cut, Whole, Length
  <2> QED
    BY <2>2, <2>3
<1>13. \A j : Payload(j)' = Payload(j)
  BY <1>1 DEF Payload
<1>14. Frame' <= Len(sizes') + 1 /\ \A j \in 1..Len(delivered') : delivered'[j] = Payload(j)'
  BY <1>1, <1>2, <1>4, <1>13 DEF Following
<1>15. \/ Len(got') = want' /\ buffer' = Payload(Frame)'
       \/ Dead' /\ Cut(Frame)'
  <2>1. Payload(Frame)' = Payload(Frame)
    BY <1>1, <1>4 DEF Payload
  <2> QED
    BY <1>1, <1>11, <1>12, <2>1
<1> QED
  BY <1>1, <1>6, <1>10, <1>14, <1>15 DEF Following

\* A message: the next frame, or nothing behind one that was cut.
LEMMA DeliverStep ==
    ASSUME IInv, Next, Deliver
    PROVE  Spent' \/ Following'
<1>1. /\ UNCHANGED <<transport, sizes, put, closed, lost, stream, owner, stopped, reused,
                     buffer, disconnected>>
      /\ delivered' = Append(delivered, buffer)
      /\ worker = "delivering" /\ worker' = "entering" /\ phase' = "size" /\ want' = Header
      /\ got' = << >> /\ Len(got') = 0
  BY DEF Deliver, Read, peer, object
<1>2. /\ Following /\ phase = "payload" /\ InPayload /\ Frame \in 1..Len(sizes)
      /\ \A j \in 1..Len(delivered) : delivered[j] = Payload(j)
      /\ \/ Len(got) = want /\ buffer = Payload(Frame)
         \/ Dead /\ Cut(Frame)
  BY <1>1, AtDelivery
<1>3. CASE Dead
  <2>1. Dead'
    BY <1>3, DeadKept
  <2> QED
    BY <1>1, <2>1 DEF Spent
<1>4. CASE Len(got) = want /\ buffer = Payload(Frame)
  <2>1. StreamOK /\ SessionOK /\ Len(delivered) \in Nat /\ Len(sizes) \in Nat
    BY TypeParts DEF IInv, TypeOK
  <2>2. /\ Len(delivered') = Frame /\ delivered'[Frame] = buffer
        /\ \A j \in 1..Len(delivered) : delivered'[j] = delivered[j]
    BY <1>1, <2>1 DEF SessionOK, Frame
  <2>3. Frame' = Frame + 1 /\ Pos' = 0
    BY <1>1, <2>2 DEF Frame, Pos
  <2>4. Pos = Length(Frame)
    BY <1>2, <1>4 DEF Pos, Length, InPayload
  <2>5. PICK s : Layout(s)
    BY <1>2 DEF Following
  <2>6. Layout(s)'
    BY <1>1, <1>2, <2>3, <2>4, <2>5, LayoutNext
  <2>7. ASSUME NEW j \in 1..Frame PROVE delivered'[j] = Payload(j)
    <3>1. j = Frame \/ j \in 1..Len(delivered)
      BY <2>1 DEF Frame
    <3> QED
      BY <1>2, <1>4, <2>2, <3>1
  <2>8. \A j : Payload(j)' = Payload(j)
    BY <1>1 DEF Payload
  <2>9. \A j \in 1..Len(delivered') : delivered'[j] = Payload(j)'
    BY <2>2, <2>7, <2>8
  <2>10. Frame' <= Len(sizes') + 1
    BY <1>1, <1>2, <2>1, <2>3
  <2>11. InHeader'
    BY <1>1 DEF InHeader
  <2> QED
    BY <1>1, <2>6, <2>9, <2>10, <2>11 DEF Following
<1> QED
  BY <1>2, <1>3, <1>4

\* Behind a message that was cut there is nothing to read.
LEMMA SpentStep ==
    ASSUME IInv, Next, Spent
    PROVE  Ended' \/ Spent'
<1>1. Dead'
  BY DeadKept DEF Spent
<1>2. CASE Moves
  BY <1>1, <1>2, MovesOnly DEF Spent, Ended
<1>3. CASE Peer \/ Stop
  <2>1. UNCHANGED <<worker, phase, want, got>>
    BY <1>3 DEF Peer, BeginFrame, ContinueFrame, Close, HardClose, Stop, reading
  <2> QED
    BY <1>1, <2>1 DEF Spent
<1>4. CASE Destructor
  BY <1>1, <1>4, DestructorOnly DEF Spent
<1>5. ~TakeBytes
  <2>1. SUFFICES ASSUME TakeBytes PROVE FALSE
    OBVIOUS
  <2>2. worker = "reading" /\ \E k : k \in 1..Len(stream)
    BY <2>1, Taken
  <2>3. stream = << >>
    BY <2>2 DEF Spent, Dead, Over, Deaf
  <2> QED
    BY <2>2, <2>3
<1>6. ~GotSize /\ ~GotPayload /\ ~CreateSession /\ ~Deliver /\ ~MessageThrows
  BY DEF Spent, GotSize, GotPayload, CreateSession, Deliver, MessageThrows
<1>7. CASE GotNoSize
  BY <1>7 DEF GotNoSize, Ended
<1> QED
  BY <1>2, <1>3, <1>4, <1>5, <1>6, <1>7 DEF Next, Worker, Moves, Destructor

LEMMA EndedStep ==
    ASSUME IInv, Next, Ended
    PROVE  Ended'
  BY DEF Ended, Next, Worker, Peer, CreateSession, FactoryThrows, ReadThrows, EnterRead,
         LoadSocket, EnterRecv, TakeBytes, ReadCallReturns, GotSize, GotNoSize, NoSize, GotPayload,
         ReadReturns, Deliver, MessageThrows, BeginFrame, ContinueFrame, Close, HardClose, Stop,
         Reset, Reuse, Join, Goto

LEMMA ModeStep ==
    ASSUME IInv, Next
    PROVE  (Ended \/ Spent \/ Following)'
<1>1. CASE Ended
  BY <1>1, EndedStep
<1>2. CASE Spent
  BY <1>2, SpentStep
<1>3. CASE Following
  <2>1. CASE Moves
    BY <1>3, <2>1, MovesStep
  <2>2. CASE CreateSession
    BY <1>3, <2>2, CreateStep
  <2>3. CASE TakeBytes
    BY <1>3, <2>3, TakeStep
  <2>4. CASE GotSize
    BY <2>4, SizeStep
  <2>5. CASE GotNoSize \/ MessageThrows
    BY <2>5 DEF GotNoSize, MessageThrows, Ended
  <2>6. CASE GotPayload
    BY <2>6, PayloadStep
  <2>7. CASE Deliver
    BY <2>7, DeliverStep
  <2>8. CASE Peer
    BY <1>3, <2>8, PeerStep
  <2>9. CASE Stop \/ Destructor
    BY <1>3, <2>9, OwnerStep
  <2> QED
    BY <2>1, <2>2, <2>3, <2>4, <2>5, <2>6, <2>7, <2>8, <2>9 DEF Next, Worker, Moves, Destructor
<1> QED
  BY <1>1, <1>2, <1>3 DEF IInv

-----------------------------------------------------------------------------
(* The theorems *)

LEMMA IInvInit == Init => IInv
<1> SUFFICES ASSUME Init PROVE IInv
  OBVIOUS
<1>1. TypeOK
  <2>1. StreamOK /\ WorkerOK /\ SessionOK
    BY DEF Init, StreamOK, WorkerOK, SessionOK
  <2>2. FlagsOK
    BY Zenon DEF Init, FlagsOK
  <2> QED
    BY <2>1, <2>2, TypeParts
<1>2. Outside /\ InOrder /\ DisconnectMeansPeerLeft
  BY DEF Init, Outside, InOrder, DisconnectMeansPeerLeft
<1>3. Frame = 1 /\ Pos = 0 /\ Len(sizes) = 0
  BY DEF Init, Frame, Pos
<1>4. PICK s : s = [k \in 1..1 |-> 0]
  OBVIOUS
<1>5. Layout(s)
  <2>1. Offsets(s)
    BY <1>3, <1>4 DEF Offsets
  <2>2. Bytes(s) /\ s[Frame] = 0 - Pos
    BY <1>3, <1>4 DEF Bytes
  <2>3. End(s) = 0 /\ Len(stream) = 0
    BY DEF Init, End
  <2> QED
    BY <2>1, <2>2, <2>3 DEF Layout
<1>6. Following
  <2>1. InHeader
    BY DEF Init, InHeader
  <2>2. Len(delivered) = 0
    BY DEF Init
  <2> QED
    BY <1>3, <1>5, <2>1, <2>2 DEF Following, Init
<1> QED
  BY <1>1, <1>2, <1>6 DEF IInv

LEMMA IInvStep == IInv /\ [Next]_vars => IInv'
<1>1. ASSUME IInv, Next PROVE IInv'
  BY <1>1, TypeStep, OutsideStep, InOrderStep, DisconnectStep, ModeStep DEF IInv
<1>2. ASSUME IInv, UNCHANGED vars PROVE IInv'
  <2>1. UNCHANGED <<transport, sizes, put, closed, lost, stream, worker, phase, want, got, buffer,
                    owner, stopped, reused, delivered, disconnected>>
    BY <1>2 DEF vars, peer, reading, object, session
  <2>2. TypeOK' /\ Outside' /\ InOrder' /\ DisconnectMeansPeerLeft'
    BY <1>2, <2>1 DEF IInv, TypeOK, Outside, InOrder, DisconnectMeansPeerLeft, Payload, Cut, Whole,
                      Length
  <2>3. (Ended => Ended') /\ (Spent => Spent')
    BY <2>1 DEF Ended, Spent, Dead, Over, Deaf, Arrives
  <2>4. ASSUME Following PROVE Following'
    <3>1. Frame' = Frame /\ Pos' = Pos
      BY <2>1 DEF Frame, Pos
    <3>2. PICK s : Layout(s)
      BY <2>4 DEF Following
    <3>3. Layout(s)'
      BY <2>1, <3>1, <3>2, LayoutSame
    <3>4. (InHeader => InHeader') /\ (InPayload => InPayload')
      BY <2>1, <3>1 DEF InHeader, InPayload, Wire
    <3>5. (Dead => Dead') /\ (Cut(Frame) => Cut(Frame)') /\ Payload(Frame)' = Payload(Frame)
      BY <2>1, <3>1 DEF Dead, Over, Deaf, Arrives, Cut, Whole, Length, Payload
    <3>6. \A j : Payload(j)' = Payload(j)
      BY <2>1 DEF Payload
    <3> QED
      BY <2>1, <2>4, <3>1, <3>3, <3>4, <3>5, <3>6 DEF Following
  <2> QED
    BY <1>2, <2>2, <2>3, <2>4 DEF IInv
<1> QED
  BY <1>1, <1>2

LEMMA Inductive == Spec => []IInv
  BY IInvInit, IInvStep, PTL DEF Spec

\* read_messages() gives the session the payloads of the peer's frames, each once and in order,
\* however the transport cuts the stream into reads; only a last message may be something else,
\* when the stream ended inside its frame.
THEOREM MessagesAreThePeersPayloads == Spec => []PayloadsInOrder
<1>1. IInv => PayloadsInOrder
  BY DEF IInv, InOrder, PayloadsInOrder
<1> QED
  BY <1>1, Inductive, PTL

\* The session is told of a disconnection only once the peer has left and all that arrived was
\* read, or when the socket client's own destructor has shut the socket down.
THEOREM DisconnectsAreReal == Spec => []DisconnectMeansPeerLeft
<1>1. IInv => DisconnectMeansPeerLeft
  BY DEF IInv
<1> QED
  BY <1>1, Inductive, PTL
=============================================================================
