------------------------------ MODULE LinkProofs ------------------------------
(***************************************************************************)
(* Proofs about a client and a server joined by two pipes, for pipes of    *)
(* any capacity, any number of requests and of messages of the server's    *)
(* own, either kind of endpoint and any choice of deferring handlers and   *)
(* of callbacks that make requests: as long as one thread of a side sends  *)
(* at a time messages arrive whole and in order, and no request is         *)
(* answered twice, or before the server has it.                            *)
(***************************************************************************)
EXTENDS Link, Integers, SequenceTheorems, TLAPS

\* The words between the writing of one side and the session of the other, in the order
\* they were written.
Wire(s) == frame[Other(s)] \o (pipe[s] \o file[s])

\* A frame's words: the size, the id and the token.
WordOf(m, r) == IF r = 1 THEN [size |-> 2] ELSE [msg |-> m, at |-> r - 1]

\* w holds the frames of the messages of q after the first n, without the missing words
\* of the last one: its payload, or none.
Framed(w, q, n, missing) ==
    /\ n <= Len(q) /\ (missing = 2 => n < Len(q))
    /\ Len(w) = 3 * (Len(q) - n) - missing
    /\ \A k \in 1..(Len(q) - n), r \in 1..3 :
        3 * k - 3 + r <= Len(w) => w[3 * k - 3 + r] = WordOf(q[n + k], r)

Arrived(p, q) == \A j \in 1..Len(p) : p[j] = Payload(q[j])

\* The words that a thread of side s has not written when it is between size and payload.
HalfWritten(s) == \E t \in Threads : t[1] = s /\ pc[t] \in {"drain", "payload"}
Missing(s) == IF HalfWritten(s) THEN 2 ELSE 0

\* The session's buffer holds what the thread that uses it has put there.
Writing(t) ==
    /\ pc[t] # "idle" => msg[t] \in Messages
    /\ pc[t] = "fill" => buffer[t[1]] = << >>
    /\ pc[t] \in {"size", "drain", "payload", "flush"} => buffer[t[1]] = Payload(msg[t])
    /\ pc[t] \in {"drain", "payload"} =>
        sent[t[1]] # << >> /\ sent[t[1]][Len(sent[t[1]])] = msg[t]

OneAtATime ==
    \A t, u \in Threads : pc[t] # "idle" /\ pc[u] # "idle" /\ t[1] = u[1] => t = u

\* What side s has sent has arrived at the other or is on its way.
Carried(s) ==
    /\ Framed(Wire(s), sent[s], Len(received[Other(s)]), Missing(s))
    /\ Arrived(received[Other(s)], sent[s])

InStep ==
    /\ OneAtATime
    /\ \A t \in Threads : Writing(t)
    /\ \A s \in Sides : Carried(s)

\* The messages that threads of side s have begun and not sent.
Unsent(s) == {msg[t] : t \in {u \in Threads : u[1] = s /\ pc[u] \in {"fill", "size"}}}

\* Of n requests made, in their order, those of q are sent and those of begun are not.
Numbered(q, n, begun) ==
    /\ \A j \in 1..Len(q) : q[j] = j
    /\ \/ begun = {} /\ n = Len(q)
       \/ begun = {Len(q) + 1} /\ n = Len(q) + 1

\* One of the first n requests or of the first p messages of the server's own.
Known(m, n, p) == m \in 1..n \/ m \in (MaxRequests + 1)..(MaxRequests + p)

\* Messages sent, in the queue and begun are all known, and all different.
Owed(q, queue, begun, n, p) ==
    /\ \A j \in 1..Len(q) : Known(q[j], n, p)
    /\ \A i \in 1..Len(queue) : Known(queue[i], n, p)
    /\ \A m \in begun : Known(m, n, p)
    /\ \A j, k \in 1..Len(q) : q[j] = q[k] => j = k
    /\ \A i, k \in 1..Len(queue) : queue[i] = queue[k] => i = k
    /\ \A j \in 1..Len(q), i \in 1..Len(queue) : q[j] # queue[i]
    /\ \A m \in begun :
        (\A j \in 1..Len(q) : q[j] # m) /\ (\A i \in 1..Len(queue) : queue[i] # m)

ClientLedger == Numbered(sent["client"], made, Unsent("client"))
ServerLedger ==
    Owed(sent["server"], tasks, Unsent("server"), Len(received["server"]), pushed)
Ledger == ClientLedger /\ ServerLedger

IInv ==
    /\ TypeOK
    /\ raced = {} => InStep /\ Ledger

USE LinkAssumption

Words == Word \cup Size

-----------------------------------------------------------------------------
(* Words in a row *)

\* A word that moves from the head of one sequence to the end of the one before it
\* leaves the whole as it was.
LEMMA Moved ==
    ASSUME NEW S, NEW p \in Seq(S), NEW f \in Seq(S), f # << >>
    PROVE  /\ Append(p, Head(f)) \in Seq(S) /\ Tail(f) \in Seq(S)
           /\ Append(p, Head(f)) \o Tail(f) = p \o f
<1>1. Head(f) \in S /\ Tail(f) \in Seq(S) /\ f = <<Head(f)>> \o Tail(f)
  BY HeadTailProperties, ConcatProperties
<1>2. <<Head(f)>> \in Seq(S) /\ Append(p, Head(f)) = p \o <<Head(f)>>
  BY <1>1, AppendIsConcat
<1>3. (p \o <<Head(f)>>) \o Tail(f) = p \o (<<Head(f)>> \o Tail(f))
  BY <1>1, <1>2, ConcatAssociative
<1> QED
  BY <1>1, <1>2, <1>3

LEMMA ThreeTail ==
    ASSUME NEW S, NEW f \in Seq(S), Len(f) = 3
    PROVE  /\ Tail(f) \in Seq(S) /\ Len(Tail(f)) = 2
           /\ Tail(f)[1] = f[2] /\ Tail(f)[2] = f[3]
<1>1. f # << >>
  OBVIOUS
<1> QED
  BY <1>1, HeadTailProperties, SMTT(30)

LEMMA PayloadType ==
    ASSUME NEW m \in Messages
    PROVE  /\ Payload(m) \in Seq(Word) /\ Len(Payload(m)) = 2 /\ Payload(m) \in Seq(Words)
           /\ Payload(m)[1] = [msg |-> m, at |-> 1] /\ Payload(m)[2] = [msg |-> m, at |-> 2]
  BY DEF Payload, Word, Words

LEMMA SizeType ==
    ASSUME NEW m \in Messages
    PROVE  SizeOf(Payload(m)) = [size |-> 2] /\ [size |-> 2] \in Words
  BY PayloadType DEF SizeOf, Size, Words

\* A size is written behind whole frames.
LEMMA SizeAdded ==
    ASSUME NEW w \in Seq(Words), NEW q \in Seq(Messages), NEW n \in Nat, NEW m \in Messages,
           Framed(w, q, n, 0)
    PROVE  Framed(Append(w, [size |-> 2]), Append(q, m), n, 2)
<1> DEFINE v == Append(w, [size |-> 2])
           p == Append(q, m)
<1>1. Len(w) \in Nat /\ Len(q) \in Nat /\ n <= Len(q) /\ Len(w) = 3 * (Len(q) - n)
  BY LenProperties DEF Framed
<1>2. /\ Len(v) = Len(w) + 1 /\ v[Len(w) + 1] = [size |-> 2]
      /\ \A i \in 1..Len(w) : v[i] = w[i]
  BY SizeType, AppendProperties
<1>3. Len(p) = Len(q) + 1 /\ p[Len(q) + 1] = m /\ \A i \in 1..Len(q) : p[i] = q[i]
  BY AppendProperties
<1> HIDE DEF v, p
<1>4. n <= Len(p) /\ n < Len(p) /\ Len(v) = 3 * (Len(p) - n) - 2
  BY <1>1, <1>2, <1>3
<1>5. ASSUME NEW k \in 1..(Len(p) - n), NEW r \in 1..3, 3 * k - 3 + r <= Len(v)
      PROVE  v[3 * k - 3 + r] = WordOf(p[n + k], r)
  <2>1. k \in Nat /\ r \in Nat /\ k >= 1 /\ k <= Len(q) + 1 - n
    BY <1>1, <1>3
  <2>2. CASE k <= Len(q) - n
    <3>1. /\ 3 * k - 3 + r \in 1..Len(w) /\ 3 * k - 3 + r <= Len(w)
          /\ k \in 1..(Len(q) - n) /\ n + k \in 1..Len(q)
      BY <1>1, <2>1, <2>2
    <3>2. w[3 * k - 3 + r] = WordOf(q[n + k], r)
      BY <3>1 DEF Framed
    <3> QED
      BY <1>2, <1>3, <3>1, <3>2
  <2>3. CASE k = Len(q) + 1 - n
    <3>1. 3 * k - 3 = Len(w)
      BY <1>1, <2>3
    <3>2. r = 1 /\ 3 * k - 3 + r = Len(w) + 1
      BY <1>1, <1>2, <1>5, <2>1, <3>1, SMTT(30)
    <3> QED
      BY <1>2, <3>2 DEF WordOf
  <2> QED
    BY <1>1, <2>1, <2>2, <2>3
<1> QED
  BY <1>4, <1>5 DEF Framed, v, p

\* The payload follows.
LEMMA PayloadAdded ==
    ASSUME NEW w \in Seq(Words), NEW q \in Seq(Messages), NEW n \in Nat, NEW m \in Messages,
           Framed(w, q, n, 2), q[Len(q)] = m
    PROVE  Framed(w \o Payload(m), q, n, 0)
<1> DEFINE v == w \o Payload(m)
<1>1. /\ Len(w) \in Nat /\ Len(q) \in Nat /\ n <= Len(q) /\ n < Len(q)
      /\ Len(w) = 3 * (Len(q) - n) - 2
  BY LenProperties DEF Framed
<1>2. /\ Len(v) = Len(w) + 2
      /\ \A i \in 1..(Len(w) + 2) : v[i] = IF i <= Len(w) THEN w[i] ELSE Payload(m)[i - Len(w)]
  <2>1. Payload(m) \in Seq(Words) /\ Len(Payload(m)) = 2
    BY PayloadType
  <2>2. PICK p \in Seq(Words) : p = Payload(m)
    BY <2>1
  <2>3. /\ Len(w \o p) = Len(w) + Len(p)
        /\ \A i \in 1..(Len(w) + Len(p)) : (w \o p)[i] = IF i <= Len(w) THEN w[i] ELSE p[i - Len(w)]
    BY ConcatProperties
  <2> QED
    BY <2>1, <2>2, <2>3
<1> HIDE DEF v
<1>3. \A i \in 1..Len(w) : v[i] = w[i]
  BY <1>1, <1>2
<1>4. v[Len(w) + 1] = [msg |-> m, at |-> 1] /\ v[Len(w) + 2] = [msg |-> m, at |-> 2]
  <2>1. /\ Len(w) + 1 \in 1..(Len(w) + 2) /\ ~(Len(w) + 1 <= Len(w)) /\ Len(w) + 1 - Len(w) = 1
        /\ Len(w) + 2 \in 1..(Len(w) + 2) /\ ~(Len(w) + 2 <= Len(w)) /\ Len(w) + 2 - Len(w) = 2
    BY <1>1
  <2> QED
    BY <1>2, <2>1, PayloadType
<1>5. Len(v) = 3 * (Len(q) - n)
  BY <1>1, <1>2
<1>6. ASSUME NEW k \in 1..(Len(q) - n), NEW r \in 1..3, 3 * k - 3 + r <= Len(v)
      PROVE  v[3 * k - 3 + r] = WordOf(q[n + k], r)
  <2>1. k \in Nat /\ r \in Nat /\ k >= 1 /\ k <= Len(q) - n
    BY <1>1
  <2>2. CASE 3 * k - 3 + r <= Len(w)
    <3>1. 3 * k - 3 + r \in 1..Len(w)
      BY <1>1, <2>1, <2>2
    <3> QED
      BY <1>3, <2>2, <3>1 DEF Framed
  <2>3. CASE ~(3 * k - 3 + r <= Len(w))
    <3>1. k = Len(q) - n /\ r \in {2, 3} /\ 3 * k - 3 + r = Len(w) + (r - 1)
      BY <1>1, <2>1, <2>3
    <3>2. n + k = Len(q)
      BY <1>1, <3>1
    <3>3. v[Len(w) + (r - 1)] = [msg |-> m, at |-> r - 1]
      <4>1. CASE r = 2
        BY <1>4, <4>1
      <4>2. CASE r = 3
        BY <1>4, <4>2
      <4> QED
        BY <3>1, <4>1, <4>2
    <3>4. WordOf(m, r) = [msg |-> m, at |-> r - 1]
      BY <3>1 DEF WordOf
    <3> QED
      BY <3>1, <3>2, <3>3, <3>4
  <2> QED
    BY <2>2, <2>3
<1> QED
  BY <1>1, <1>5, <1>6, SMTT(30) DEF Framed, v

\* The first frame is read.
LEMMA FrameTaken ==
    ASSUME NEW f \in Seq(Words), NEW w \in Seq(Words), NEW q \in Seq(Messages), NEW n \in Nat,
           NEW missing \in {0, 2}, Framed(f \o w, q, n, missing), Len(f) = 3
    PROVE  /\ n + 1 <= Len(q) /\ q[n + 1] \in Messages
           /\ f[3].msg = q[n + 1] /\ Tail(f) = Payload(q[n + 1])
           /\ Framed(w, q, n + 1, missing)
<1> DEFINE v == f \o w
<1>1. Len(w) \in Nat /\ Len(q) \in Nat /\ 3 \in Nat
  BY LenProperties
<1>2. /\ v \in Seq(Words) /\ Len(v) = 3 + Len(w)
      /\ \A i \in 1..(3 + Len(w)) : v[i] = IF i <= 3 THEN f[i] ELSE w[i - 3]
  <2>1. /\ v \in Seq(Words) /\ Len(v) = Len(f) + Len(w)
        /\ \A i \in 1..(Len(f) + Len(w)) : v[i] = IF i <= Len(f) THEN f[i] ELSE w[i - Len(f)]
    BY ConcatProperties
  <2> HIDE DEF v
  <2> QED
    BY <2>1
<1> HIDE DEF v
<1>3. /\ n <= Len(q) /\ (missing = 2 => n < Len(q))
      /\ Len(v) = 3 * (Len(q) - n) - missing
      /\ \A k \in 1..(Len(q) - n), r \in 1..3 :
            3 * k - 3 + r <= Len(v) => v[3 * k - 3 + r] = WordOf(q[n + k], r)
  BY DEF Framed, v
<1>4. n + 1 <= Len(q) /\ 1 \in 1..(Len(q) - n) /\ (missing = 2 => n + 1 < Len(q))
  BY <1>1, <1>2, <1>3
<1>5. q[n + 1] \in Messages
  BY <1>1, <1>4, ElementOfSeq
<1>6. \A r \in 1..3 : f[r] = WordOf(q[n + 1], r)
  <2>1. \A r \in 1..3 : 3 * 1 - 3 + r = r /\ r <= Len(v) /\ r \in 1..(3 + Len(w)) /\ r <= 3
    BY <1>1, <1>2
  <2>2. ASSUME NEW r \in 1..3 PROVE v[r] = WordOf(q[n + 1], r)
    BY <1>3, <1>4, <2>1
  <2>3. \A r \in 1..3 : v[r] = f[r]
    BY <1>2, <2>1
  <2> QED
    BY <2>2, <2>3
<1>7. f[2] = [msg |-> q[n + 1], at |-> 1] /\ f[3] = [msg |-> q[n + 1], at |-> 2]
  BY <1>6 DEF WordOf
<1>8. Tail(f) = Payload(q[n + 1])
  <2>2. /\ Tail(f) \in Seq(Words) /\ Len(Tail(f)) = 2
        /\ Tail(f)[1] = f[2] /\ Tail(f)[2] = f[3]
    BY ThreeTail
  <2> QED
    <3>1. PICK t \in Seq(Words) : t = Tail(f)
      BY <2>2
    <3>2. PICK p \in Seq(Words) : p = Payload(q[n + 1]) /\ Len(p) = 2 /\ p[1] = f[2] /\ p[2] = f[3]
      BY <1>5, <1>7, PayloadType
    <3>3. Len(t) = Len(p) /\ \A i \in 1..Len(t) : t[i] = p[i]
      <4>1. Len(t) = 2 /\ t[1] = p[1] /\ t[2] = p[2]
        BY <2>2, <3>1, <3>2, Zenon
      <4>2. \A i \in 1..2 : i = 1 \/ i = 2
        OBVIOUS
      <4> QED
        BY <3>2, <4>1, <4>2
    <3>4. t = p
      BY <3>3, SeqEqual
    <3> QED
      BY <3>1, <3>2, <3>4
<1>9. Len(w) = 3 * (Len(q) - (n + 1)) - missing
  BY <1>1, <1>2, <1>3, SMTT(30)
<1>10. ASSUME NEW k \in 1..(Len(q) - (n + 1)), NEW r \in 1..3, 3 * k - 3 + r <= Len(w)
       PROVE  w[3 * k - 3 + r] = WordOf(q[n + 1 + k], r)
  <2>1. /\ k + 1 \in 1..(Len(q) - n) /\ 3 * (k + 1) - 3 + r = 3 * k - 3 + r + 3
        /\ n + (k + 1) = n + 1 + k
    BY <1>1
  <2>2. /\ 3 * k - 3 + r + 3 \in 1..(3 + Len(w)) /\ ~(3 * k - 3 + r + 3 <= 3)
        /\ 3 * k - 3 + r + 3 - 3 = 3 * k - 3 + r /\ 3 * (k + 1) - 3 + r <= Len(v)
    BY <1>1, <1>2, <1>10, SMTT(30)
  <2>3. v[3 * (k + 1) - 3 + r] = WordOf(q[n + (k + 1)], r)
    BY <1>3, <2>1, <2>2
  <2>4. v[3 * k - 3 + r + 3] = w[3 * k - 3 + r]
    <3>1. PICK i \in 1..(3 + Len(w)) : i = 3 * k - 3 + r + 3
      BY <2>2
    <3>2. v[i] = w[i - 3] /\ i - 3 = 3 * k - 3 + r
      BY <1>2, <2>2, <3>1
    <3> QED
      BY <3>1, <3>2
  <2> QED
    BY <2>1, <2>3, <2>4
<1> QED
  BY <1>4, <1>5, <1>7, <1>8, <1>9, <1>10 DEF Framed

\* A frame that has begun is at most as long as its size says.
LEMMA FrameLength ==
    ASSUME NEW f \in Seq(Words), NEW w \in Seq(Words), NEW q \in Seq(Messages), NEW n \in Nat,
           NEW missing \in {0, 2}, Framed(f \o w, q, n, missing), f # << >>
    PROVE  f[1] = [size |-> 2]
<1> DEFINE v == f \o w
<1>1. Len(w) \in Nat /\ Len(q) \in Nat /\ Len(f) \in Nat /\ Len(f) >= 1
  BY LenProperties
<1>2. v \in Seq(Words) /\ Len(v) = Len(f) + Len(w) /\ v[1] = f[1]
  BY <1>1, ConcatProperties
<1> HIDE DEF v
<1>3. 1 \in 1..(Len(q) - n) /\ 3 * 1 - 3 + 1 = 1 /\ 1 \in 1..3 /\ 1 <= Len(v)
  BY <1>1, <1>2 DEF Framed, v
<1>4. v[1] = WordOf(q[n + 1], 1)
  BY <1>3 DEF Framed, v
<1> QED
  BY <1>2, <1>4 DEF WordOf

-----------------------------------------------------------------------------
(* Threads and sides *)

LEMMA SidesAre ==
    ASSUME NEW s \in Sides
    PROVE  Other(s) \in Sides /\ Other(s) # s /\ Other(Other(s)) = s
           /\ \A x \in Sides : x = s \/ x = Other(s)
  BY DEF Sides, Other

LEMMA ThreadsAre ==
    /\ \A t \in Threads : t[1] \in Sides
    /\ <<"client", "reader">> \in Threads /\ <<"client", "user">> \in Threads
    /\ <<"server", "reader">> \in Threads /\ <<"server", "user">> \in Threads
    /\ <<"server", "queue">> \in Threads
  BY DEF Threads, Sides

\* The rest of a side's threads wait while one of them sends, or begins to.
Alone(t) == \A u \in Threads : u[1] = t[1] /\ u # t => pc[u] = "idle"

LEMMA WhoSends ==
    ASSUME InStep, NEW t \in Threads, pc[t] # "idle"
    PROVE  Alone(t)
  BY DEF InStep, OneAtATime, Alone

\* What one thread's step leaves to the others.
LEMMA OthersKept ==
    ASSUME TypeOK, InStep, NEW t \in Threads, NEW p, Alone(t), pc' = [pc EXCEPT ![t] = p],
           \A u \in Threads : u # t => msg'[u] = msg[u],
           \A x \in Sides : x # t[1] => buffer'[x] = buffer[x] /\ sent'[x] = sent[x]
    PROVE  /\ OneAtATime'
           /\ \A u \in Threads : u # t => Writing(u)'
           /\ \A x \in Sides : x # t[1] => (HalfWritten(x)' <=> HalfWritten(x))
           /\ HalfWritten(t[1])' <=> p \in {"drain", "payload"}
           /\ HalfWritten(t[1]) <=> pc[t] \in {"drain", "payload"}
<1>1. pc'[t] = p /\ \A u \in Threads : u # t => pc'[u] = pc[u]
  BY DEF TypeOK
<1>2. OneAtATime'
  BY <1>1 DEF InStep, OneAtATime, Alone
<1>3. ASSUME NEW u \in Threads, u # t PROVE Writing(u)'
  <2>1. CASE u[1] = t[1]
    <3>1. pc'[u] = "idle"
      BY <1>1, <1>3, <2>1 DEF Alone
    <3> QED
      BY <3>1 DEF Writing
  <2>2. CASE u[1] # t[1]
    <3>1. u[1] \in Sides
      BY ThreadsAre
    <3>2. Writing(u)
      BY DEF InStep
    <3> QED
      BY <1>1, <1>3, <2>2, <3>1, <3>2 DEF Writing
  <2> QED
    BY <2>1, <2>2
<1>4. ASSUME NEW x \in Sides, x # t[1] PROVE HalfWritten(x)' <=> HalfWritten(x)
  <2>1. \A u \in Threads : u[1] = x => pc'[u] = pc[u]
    BY <1>1, <1>4
  <2> QED
    BY <2>1 DEF HalfWritten
<1>5. HalfWritten(t[1])' <=> p \in {"drain", "payload"}
  <2>1. \A u \in Threads : u[1] = t[1] => u = t \/ pc'[u] = "idle"
    BY <1>1 DEF Alone
  <2> QED
    BY <1>1, <2>1 DEF HalfWritten
<1>6. HalfWritten(t[1]) <=> pc[t] \in {"drain", "payload"}
  BY DEF HalfWritten, Alone
<1> QED
  BY <1>2, <1>3, <1>4, <1>5, <1>6

LEMMA CarriedSame ==
    ASSUME NEW x \in Sides, Carried(x), Wire(x)' = Wire(x), sent'[x] = sent[x],
           received'[Other(x)] = received[Other(x)], HalfWritten(x)' <=> HalfWritten(x)
    PROVE  Carried(x)'
<1>1. Missing(x)' = Missing(x)
  BY DEF Missing
<1> QED
  BY <1>1 DEF Carried

LEMMA WireSame ==
    ASSUME NEW x \in Sides, frame'[Other(x)] = frame[Other(x)], pipe'[x] = pipe[x],
           file'[x] = file[x]
    PROVE  Wire(x)' = Wire(x)
  BY DEF Wire, Other

LEMMA WireTypes ==
    ASSUME TypeOK, NEW x \in Sides
    PROVE  /\ frame[Other(x)] \in Seq(Words) /\ pipe[x] \in Seq(Words) /\ file[x] \in Seq(Words)
           /\ pipe[x] \o file[x] \in Seq(Words) /\ Wire(x) \in Seq(Words)
           /\ sent[x] \in Seq(Messages) /\ Len(received[Other(x)]) \in Nat
           /\ received[Other(x)] \in Seq(Seq(Word))
           /\ Missing(x) \in {0, 2}
<1>1. /\ frame[Other(x)] \in Seq(Words) /\ pipe[x] \in Seq(Words) /\ file[x] \in Seq(Words)
      /\ sent[x] \in Seq(Messages) /\ received[Other(x)] \in Seq(Seq(Word))
  BY SidesAre DEF TypeOK, Words
<1>2. pipe[x] \o file[x] \in Seq(Words)
  BY <1>1, ConcatProperties
<1>3. Wire(x) \in Seq(Words)
  BY <1>1, <1>2, ConcatProperties DEF Wire
<1>4. Len(received[Other(x)]) \in Nat /\ Missing(x) \in {0, 2}
  BY <1>1 DEF Missing
<1> QED
  BY <1>1, <1>2, <1>3, <1>4

Cat(a, b) == a \o b

LEMMA CatType ==
    ASSUME NEW a \in Seq(Words), NEW b \in Seq(Words)
    PROVE  Cat(a, b) \in Seq(Words)
  BY ConcatProperties DEF Cat

LEMMA CatAssociative ==
    ASSUME NEW a \in Seq(Words), NEW b \in Seq(Words), NEW c \in Seq(Words)
    PROVE  Cat(Cat(a, b), c) = Cat(a, Cat(b, c))
<1>1. (a \o b) \o c = a \o (b \o c)
  BY ConcatAssociative, SMTT(30)
<1> QED
  BY <1>1 DEF Cat

LEMMA Behind ==
    ASSUME NEW a \in Seq(Words), NEW b \in Seq(Words), NEW c \in Seq(Words), NEW d \in Seq(Words)
    PROVE  Cat(a, Cat(b, Cat(c, d))) = Cat(Cat(a, Cat(b, c)), d)
<1>1. Cat(b, c) \in Seq(Words)
  BY CatType
<1>2. Cat(Cat(b, c), d) = Cat(b, Cat(c, d))
  BY CatAssociative
<1>3. Cat(Cat(a, Cat(b, c)), d) = Cat(a, Cat(Cat(b, c), d))
  BY <1>1, CatAssociative
<1> QED
  BY <1>2, <1>3

-----------------------------------------------------------------------------
(* Sending a message *)

\* The parts of InStep after a step of thread t in its own side.
LEMMA Assembled ==
    ASSUME NEW t \in Threads, OneAtATime', \A u \in Threads : u # t => Writing(u)', Writing(t)',
           \A x \in Sides : Carried(x)'
    PROVE  InStep'
<1>1. \A u \in Threads : Writing(u)'
  OBVIOUS
<1> QED
  BY <1>1 DEF InStep

LEMMA FillStep ==
    ASSUME TypeOK, InStep, NEW t \in Threads, Fill(t[1], t)
    PROVE  InStep' /\ buffer' \in [Sides -> Seq(Word)]
<1>1. /\ pc[t] = "fill" /\ pc' = [pc EXCEPT ![t] = "size"]
      /\ buffer' = [buffer EXCEPT ![t[1]] = @ \o Payload(msg[t])]
      /\ UNCHANGED <<msg, file, pipe, frame, sent, received>>
  BY DEF Fill
<1>2. t[1] \in Sides /\ msg[t] \in Messages /\ buffer[t[1]] = << >>
  BY <1>1, ThreadsAre DEF InStep, Writing
<1>3. Payload(msg[t]) \in Seq(Word) /\ << >> \o Payload(msg[t]) = Payload(msg[t])
  BY <1>2, PayloadType, ConcatEmptySeq
<1>4. /\ buffer'[t[1]] = Payload(msg[t])
      /\ \A x \in Sides : x # t[1] => buffer'[x] = buffer[x]
      /\ buffer' \in [Sides -> Seq(Word)]
  BY <1>1, <1>2, <1>3 DEF TypeOK
<1>5. Alone(t)
  BY <1>1, WhoSends
<1>6. /\ OneAtATime'
      /\ \A u \in Threads : u # t => Writing(u)'
      /\ \A x \in Sides : HalfWritten(x)' <=> HalfWritten(x)
  <2>1. /\ \A u \in Threads : u # t => msg'[u] = msg[u]
        /\ \A x \in Sides : x # t[1] => buffer'[x] = buffer[x] /\ sent'[x] = sent[x]
        /\ "size" \notin {"drain", "payload"} /\ pc[t] \notin {"drain", "payload"}
    BY <1>1, <1>4
  <2>2. /\ OneAtATime'
        /\ \A u \in Threads : u # t => Writing(u)'
        /\ \A x \in Sides : x # t[1] => (HalfWritten(x)' <=> HalfWritten(x))
        /\ HalfWritten(t[1])' <=> "size" \in {"drain", "payload"}
        /\ HalfWritten(t[1]) <=> pc[t] \in {"drain", "payload"}
    BY <1>1, <1>5, <2>1, OthersKept
  <2> QED
    BY <2>1, <2>2
<1>7. Writing(t)'
  <2>1. pc'[t] = "size" /\ msg' = msg
    BY <1>1 DEF TypeOK
  <2> QED
    BY <1>2, <1>4, <2>1 DEF Writing
<1>8. \A x \in Sides : Carried(x)'
  BY <1>1, <1>6, WireSame, CarriedSame DEF InStep
<1> QED
  BY <1>4, <1>6, <1>7, <1>8, Assembled

LEMMA WriteSizeStep ==
    ASSUME TypeOK, InStep, NEW t \in Threads, WriteSize(t[1], t)
    PROVE  InStep' /\ file' \in [Sides -> Seq(Words)] /\ sent' \in [Sides -> Seq(Messages)]
<1>1. /\ pc[t] = "size"
      /\ file' = [file EXCEPT ![t[1]] = Append(@, SizeOf(buffer[t[1]]))]
      /\ sent' = [sent EXCEPT ![t[1]] = Append(@, msg[t])]
      /\ UNCHANGED <<msg, buffer, pipe, frame, received>>
  BY DEF WriteSize
<1>2. PICK p \in {"drain", "payload"} : pc' = [pc EXCEPT ![t] = p]
  BY DEF WriteSize
<1>3. PICK s \in Sides : s = t[1]
  BY ThreadsAre
<1>4. PICK m \in Messages : m = msg[t]
  BY <1>1 DEF InStep, Writing
<1>5. buffer[s] = Payload(m) /\ SizeOf(buffer[s]) = [size |-> 2] /\ [size |-> 2] \in Words
  BY <1>1, <1>3, <1>4, SizeType DEF InStep, Writing
<1>6. file \in [Sides -> Seq(Words)] /\ sent \in [Sides -> Seq(Messages)]
  BY DEF TypeOK, Words
<1>7. /\ file' \in [Sides -> Seq(Words)] /\ file'[s] = Append(file[s], [size |-> 2])
      /\ \A x \in Sides : x # s => file'[x] = file[x]
  BY <1>1, <1>3, <1>5, <1>6
<1>8. /\ sent' \in [Sides -> Seq(Messages)] /\ sent'[s] = Append(sent[s], m)
      /\ \A x \in Sides : x # s => sent'[x] = sent[x]
  BY <1>1, <1>3, <1>4, <1>6
<1>9. Alone(t)
  BY <1>1, WhoSends
<1>10. /\ OneAtATime'
       /\ \A u \in Threads : u # t => Writing(u)'
       /\ \A x \in Sides : x # s => (HalfWritten(x)' <=> HalfWritten(x))
       /\ HalfWritten(s)' /\ ~HalfWritten(s)
  BY <1>1, <1>2, <1>3, <1>8, <1>9, OthersKept
<1>11. Writing(t)'
  <2>1. pc'[t] = p /\ msg'[t] = m /\ buffer'[s] = Payload(m)
    BY <1>1, <1>2, <1>4, <1>5 DEF TypeOK
  <2>2. sent'[s] # << >> /\ sent'[s][Len(sent'[s])] = m
    <3>1. sent[s] \in Seq(Messages)
      BY <1>6
    <3> QED
      BY <1>8, <3>1, AppendProperties
  <2> QED
    BY <1>3, <2>1, <2>2 DEF Writing
<1>12. ASSUME NEW x \in Sides, x # s PROVE Carried(x)'
  BY <1>1, <1>7, <1>8, <1>10, <1>12, WireSame, CarriedSame DEF InStep
<1>13. Carried(s)'
  <2>1. /\ frame[Other(s)] \in Seq(Words) /\ pipe[s] \in Seq(Words) /\ file[s] \in Seq(Words)
        /\ Wire(s) \in Seq(Words) /\ sent[s] \in Seq(Messages)
        /\ Len(received[Other(s)]) \in Nat /\ received[Other(s)] \in Seq(Seq(Word))
    BY WireTypes
  <2>2. Wire(s)' = Append(Wire(s), [size |-> 2])
    <3>1. <<[size |-> 2]>> \in Seq(Words) /\ file'[s] = file[s] \o <<[size |-> 2]>>
      BY <1>5, <1>7, <2>1, AppendIsConcat
    <3>2. Append(Wire(s), [size |-> 2]) = Wire(s) \o <<[size |-> 2]>>
      BY <1>5, <2>1, AppendIsConcat
    <3>3. frame[Other(s)] \o (pipe[s] \o (file[s] \o <<[size |-> 2]>>))
                = (frame[Other(s)] \o (pipe[s] \o file[s])) \o <<[size |-> 2]>>
      <4>1. PICK a \in Seq(Words), b \in Seq(Words), c \in Seq(Words), d \in Seq(Words) :
                a = frame[Other(s)] /\ b = pipe[s] /\ c = file[s] /\ d = <<[size |-> 2]>>
        BY <2>1, <3>1
      <4>2. Cat(a, Cat(b, Cat(c, d))) = Cat(Cat(a, Cat(b, c)), d)
        BY Behind
      <4> QED
        BY <4>1, <4>2, Zenon DEF Cat
    <3>4. Wire(s)' = frame[Other(s)] \o (pipe[s] \o file'[s])
      BY <1>1 DEF Wire, Other
    <3> QED
      BY <3>1, <3>2, <3>3, <3>4 DEF Wire
  <2>3. Framed(Wire(s), sent[s], Len(received[Other(s)]), 0)
    BY <1>10 DEF InStep, Carried, Missing
  <2>4. Framed(Append(Wire(s), [size |-> 2]), Append(sent[s], m), Len(received[Other(s)]), 2)
    BY <2>1, <2>3, SizeAdded
  <2>5. Missing(s)' = 2
    BY <1>10 DEF Missing
  <2>6. Framed(Wire(s)', sent'[s], Len(received'[Other(s)]), Missing(s)')
    BY <1>1, <1>8, <2>2, <2>4, <2>5
  <2>7. Arrived(received[Other(s)], Append(sent[s], m))
    <3>1. \A j \in 1..Len(received[Other(s)]) : j \in 1..Len(sent[s])
      BY <2>1, <2>3 DEF Framed
    <3>2. \A j \in 1..Len(sent[s]) : Append(sent[s], m)[j] = sent[s][j]
      BY <2>1
    <3> QED
      BY <3>1, <3>2 DEF InStep, Carried, Arrived
  <2> QED
    BY <1>1, <1>8, <2>6, <2>7 DEF Carried
<1>14. \A x \in Sides : Carried(x)'
  BY <1>12, <1>13
<1> QED
  BY <1>7, <1>8, <1>10, <1>11, <1>14, Assembled

LEMMA WritePayloadStep ==
    ASSUME TypeOK, InStep, NEW t \in Threads, WritePayload(t[1], t)
    PROVE  InStep' /\ file' \in [Sides -> Seq(Words)]
<1>1. /\ pc[t] = "payload" /\ pc' = [pc EXCEPT ![t] = "flush"]
      /\ file' = [file EXCEPT ![t[1]] = @ \o buffer[t[1]]]
      /\ UNCHANGED <<msg, buffer, pipe, frame, sent, received>>
  BY DEF WritePayload
<1>2. PICK s \in Sides : s = t[1]
  BY ThreadsAre
<1>3. PICK m \in Messages : m = msg[t]
  BY <1>1 DEF InStep, Writing
<1>4. buffer[s] = Payload(m) /\ Payload(m) \in Seq(Words) /\ sent[s][Len(sent[s])] = m
  BY <1>1, <1>2, <1>3, PayloadType DEF InStep, Writing
<1>5. file \in [Sides -> Seq(Words)]
  BY DEF TypeOK, Words
<1>6. /\ file' \in [Sides -> Seq(Words)] /\ file'[s] = file[s] \o Payload(m)
      /\ \A x \in Sides : x # s => file'[x] = file[x]
  <2>1. file[s] \o Payload(m) \in Seq(Words)
    BY <1>4, <1>5, ConcatProperties
  <2> QED
    BY <1>1, <1>2, <1>4, <1>5, <2>1
<1>7. Alone(t)
  BY <1>1, WhoSends
<1>8. /\ OneAtATime'
      /\ \A u \in Threads : u # t => Writing(u)'
      /\ \A x \in Sides : x # s => (HalfWritten(x)' <=> HalfWritten(x))
      /\ ~HalfWritten(s)' /\ HalfWritten(s)
  <2>1. /\ \A u \in Threads : u # t => msg'[u] = msg[u]
        /\ \A x \in Sides : x # t[1] => buffer'[x] = buffer[x] /\ sent'[x] = sent[x]
        /\ "flush" \notin {"drain", "payload"} /\ pc[t] \in {"drain", "payload"}
    BY <1>1
  <2>2. /\ OneAtATime'
        /\ \A u \in Threads : u # t => Writing(u)'
        /\ \A x \in Sides : x # t[1] => (HalfWritten(x)' <=> HalfWritten(x))
        /\ HalfWritten(t[1])' <=> "flush" \in {"drain", "payload"}
        /\ HalfWritten(t[1]) <=> pc[t] \in {"drain", "payload"}
    BY <1>1, <1>7, <2>1, OthersKept
  <2>3. ~HalfWritten(t[1])' /\ (HalfWritten(t[1])' <=> HalfWritten(s)')
    BY <1>2, <2>1, <2>2 DEF HalfWritten
  <2> QED
    BY <1>2, <2>1, <2>2, <2>3
<1>9. Writing(t)'
  <2>1. pc'[t] = "flush" /\ msg'[t] = m /\ buffer'[s] = Payload(m)
    BY <1>1, <1>3, <1>4 DEF TypeOK
  <2> QED
    BY <1>2, <2>1 DEF Writing
<1>10. ASSUME NEW x \in Sides, x # s PROVE Carried(x)'
  BY <1>1, <1>6, <1>8, <1>10, WireSame, CarriedSame DEF InStep
<1>11. Carried(s)'
  <2>1. /\ frame[Other(s)] \in Seq(Words) /\ pipe[s] \in Seq(Words) /\ file[s] \in Seq(Words)
        /\ Wire(s) \in Seq(Words) /\ sent[s] \in Seq(Messages)
        /\ Len(received[Other(s)]) \in Nat
    BY WireTypes
  <2>2. Wire(s)' = Wire(s) \o Payload(m)
    <3>1. frame[Other(s)] \o (pipe[s] \o (file[s] \o Payload(m)))
                = (frame[Other(s)] \o (pipe[s] \o file[s])) \o Payload(m)
      <4>1. PICK a \in Seq(Words), b \in Seq(Words), c \in Seq(Words), d \in Seq(Words) :
                a = frame[Other(s)] /\ b = pipe[s] /\ c = file[s] /\ d = Payload(m)
        BY <1>4, <2>1
      <4>2. Cat(a, Cat(b, Cat(c, d))) = Cat(Cat(a, Cat(b, c)), d)
        BY Behind
      <4> QED
        BY <4>1, <4>2, Zenon DEF Cat
    <3>2. Wire(s)' = frame[Other(s)] \o (pipe[s] \o file'[s])
      BY <1>1 DEF Wire, Other
    <3> QED
      BY <1>6, <3>1, <3>2 DEF Wire
  <2>3. Framed(Wire(s), sent[s], Len(received[Other(s)]), 2)
    BY <1>8 DEF InStep, Carried, Missing
  <2>4. Framed(Wire(s) \o Payload(m), sent[s], Len(received[Other(s)]), 0)
    BY <1>4, <2>1, <2>3, PayloadAdded
  <2>5. Missing(s)' = 0
    BY <1>8 DEF Missing
  <2>6. Framed(Wire(s)', sent'[s], Len(received'[Other(s)]), Missing(s)')
    BY <1>1, <2>2, <2>4, <2>5
  <2> QED
    BY <1>1, <2>6 DEF InStep, Carried
<1>12. \A x \in Sides : Carried(x)'
  BY <1>10, <1>11
<1> QED
  BY <1>6, <1>8, <1>9, <1>12, Assembled

\* Words move, and the wire stays as it was.
LEMMA DrainStep ==
    ASSUME TypeOK, InStep, NEW t \in Threads, Drain(t[1], t)
    PROVE  /\ InStep' /\ file' \in [Sides -> Seq(Words)] /\ pipe' \in [Sides -> Seq(Words)]
           /\ \A x \in Sides : Len(pipe'[x]) <= Capacity
<1>1. /\ file[t[1]] # << >> /\ Len(pipe[t[1]]) < Capacity
      /\ pipe' = [pipe EXCEPT ![t[1]] = Append(@, Head(file[t[1]]))]
      /\ file' = [file EXCEPT ![t[1]] = Tail(@)]
      /\ UNCHANGED <<pc, msg, buffer, frame, sent, received>>
  BY DEF Drain
<1>2. PICK s \in Sides : s = t[1]
  BY ThreadsAre
<1>3. /\ file \in [Sides -> Seq(Words)] /\ pipe \in [Sides -> Seq(Words)]
      /\ \A x \in Sides : Len(pipe[x]) <= Capacity
  BY DEF TypeOK, Words
<1>4. PICK p \in Seq(Words), f \in Seq(Words) : p = pipe[s] /\ f = file[s]
  BY <1>3
<1>5. /\ Append(p, Head(f)) \in Seq(Words) /\ Tail(f) \in Seq(Words)
      /\ Append(p, Head(f)) \o Tail(f) = p \o f
  <2>1. f # << >>
    BY <1>1, <1>2, <1>4
  <2> QED
    BY <2>1, Moved, Zenon
<1>6. Len(Append(p, Head(f))) <= Capacity
  <2>1. Head(f) \in Words
    BY <1>1, <1>2, <1>4, HeadTailProperties
  <2>2. Len(Append(p, Head(f))) = Len(p) + 1 /\ Len(p) \in Nat
    BY <2>1, AppendProperties
  <2> QED
    BY <1>1, <1>2, <1>4, <2>2
<1>7. /\ pipe'[s] = Append(p, Head(f)) /\ file'[s] = Tail(f)
      /\ \A x \in Sides : x # s => pipe'[x] = pipe[x] /\ file'[x] = file[x]
  BY <1>1, <1>2, <1>3, <1>4
<1>8. file' \in [Sides -> Seq(Words)] /\ pipe' \in [Sides -> Seq(Words)]
  BY <1>1, <1>2, <1>3, <1>4, <1>5
<1>9. \A x \in Sides : Len(pipe'[x]) <= Capacity
  BY <1>3, <1>6, <1>7
<1>10. Wire(s)' = Wire(s)
  BY <1>1, <1>4, <1>5, <1>7 DEF Wire, Other
<1>11. ASSUME NEW x \in Sides PROVE Carried(x)'
  <2>1. Wire(x)' = Wire(x)
    BY <1>1, <1>7, <1>10, WireSame
  <2>2. HalfWritten(x)' <=> HalfWritten(x)
    BY <1>1 DEF HalfWritten
  <2> QED
    BY <1>1, <2>1, <2>2, CarriedSame DEF InStep
<1>12. OneAtATime' /\ \A u \in Threads : Writing(u)'
  BY <1>1 DEF InStep, OneAtATime, Writing
<1>13. InStep'
  BY <1>11, <1>12 DEF InStep
<1> QED
  BY <1>8, <1>9, <1>13

LEMMA DrainedStep ==
    ASSUME TypeOK, InStep, NEW t \in Threads, Drained(t[1], t)
    PROVE  InStep'
<1>1. /\ pc[t] \in {"drain", "flush"}
      /\ UNCHANGED <<msg, buffer, file, pipe, frame, sent, received>>
  BY DEF Drained
<1>2. PICK p \in {"payload", "idle"} : /\ pc' = [pc EXCEPT ![t] = p]
                                       /\ p = "payload" <=> pc[t] = "drain"
  BY <1>1 DEF Drained
<1>3. Alone(t)
  BY <1>1, WhoSends
<1>4. /\ \A u \in Threads : u # t => msg'[u] = msg[u]
      /\ \A x \in Sides : x # t[1] => buffer'[x] = buffer[x] /\ sent'[x] = sent[x]
      /\ p \in {"drain", "payload"} <=> pc[t] \in {"drain", "payload"}
  BY <1>1, <1>2
<1>5. /\ OneAtATime'
      /\ \A u \in Threads : u # t => Writing(u)'
      /\ \A x \in Sides : x # t[1] => (HalfWritten(x)' <=> HalfWritten(x))
      /\ HalfWritten(t[1])' <=> p \in {"drain", "payload"}
      /\ HalfWritten(t[1]) <=> pc[t] \in {"drain", "payload"}
  BY <1>2, <1>3, <1>4, OthersKept
<1>6. \A x \in Sides : HalfWritten(x)' <=> HalfWritten(x)
  BY <1>4, <1>5
<1>7. Writing(t)'
  <2>1. pc'[t] = p /\ Writing(t)
    BY <1>2 DEF TypeOK, InStep
  <2> QED
    BY <1>1, <1>2, <2>1 DEF Writing
<1>8. \A x \in Sides : Carried(x)'
  BY <1>1, <1>6, WireSame, CarriedSame DEF InStep
<1> QED
  BY <1>5, <1>7, <1>8, Assembled

-----------------------------------------------------------------------------
(* Receiving one *)

LEMMA TakeWordStep ==
    ASSUME TypeOK, InStep, NEW s \in Sides, TakeWord(s)
    PROVE  /\ InStep' /\ frame' \in [Sides -> Seq(Words)] /\ pipe' \in [Sides -> Seq(Words)]
           /\ \A x \in Sides : Len(pipe'[x]) <= Capacity
<1>1. PICK z \in Sides : z = Other(s) /\ s = Other(z) /\ z # s /\ \A x \in Sides : x = s \/ x = z
  BY SidesAre
<1>2. /\ pipe[z] # << >>
      /\ frame' = [frame EXCEPT ![s] = Append(@, Head(pipe[z]))]
      /\ pipe' = [pipe EXCEPT ![z] = Tail(@)]
      /\ UNCHANGED <<pc, msg, buffer, file, sent, received>>
  BY <1>1 DEF TakeWord
<1>3. /\ frame \in [Sides -> Seq(Words)] /\ pipe \in [Sides -> Seq(Words)]
      /\ file \in [Sides -> Seq(Words)] /\ \A x \in Sides : Len(pipe[x]) <= Capacity
  BY DEF TypeOK, Words
<1>4. PICK g \in Seq(Words), p \in Seq(Words), f \in Seq(Words) :
            g = frame[s] /\ p = pipe[z] /\ f = file[z]
  BY <1>3
<1>5. /\ Append(g, Head(p)) \in Seq(Words) /\ Tail(p) \in Seq(Words)
      /\ Append(g, Head(p)) \o Tail(p) = g \o p
  <2>1. p # << >>
    BY <1>2, <1>4
  <2> QED
    BY <2>1, Moved, Zenon
<1>6. Len(Tail(p)) <= Capacity
  <2>1. Len(Tail(p)) = Len(p) - 1 /\ Len(p) \in Nat /\ Len(p) <= Capacity
    BY <1>2, <1>3, <1>4, HeadTailProperties, LenProperties
  <2> QED
    BY <2>1
<1>7. /\ frame'[s] = Append(g, Head(p)) /\ pipe'[z] = Tail(p) /\ frame'[z] = frame[z]
      /\ pipe'[s] = pipe[s]
  BY <1>1, <1>2, <1>3, <1>4
<1>8. frame' \in [Sides -> Seq(Words)] /\ pipe' \in [Sides -> Seq(Words)]
  BY <1>1, <1>2, <1>3, <1>4, <1>5
<1>9. \A x \in Sides : Len(pipe'[x]) <= Capacity
  BY <1>1, <1>3, <1>6, <1>7
<1>10. Wire(z)' = Wire(z)
  <2>1. Append(g, Head(p)) \o (Tail(p) \o f) = (Append(g, Head(p)) \o Tail(p)) \o f
    BY <1>5, ConcatAssociative, SMTT(30)
  <2>2. (g \o p) \o f = g \o (p \o f)
    BY ConcatAssociative, SMTT(30)
  <2>3. Wire(z) = g \o (p \o f)
    BY <1>1, <1>4 DEF Wire
  <2>4. Wire(z)' = Append(g, Head(p)) \o (Tail(p) \o f)
    BY <1>1, <1>2, <1>4, <1>7 DEF Wire, Other
  <2> QED
    BY <1>5, <2>1, <2>2, <2>3, <2>4
<1>11. Wire(s)' = Wire(s)
  BY <1>1, <1>2, <1>7, WireSame
<1>12. ASSUME NEW x \in Sides PROVE Carried(x)'
  <2>1. Wire(x)' = Wire(x)
    BY <1>1, <1>10, <1>11
  <2>2. HalfWritten(x)' <=> HalfWritten(x)
    BY <1>2 DEF HalfWritten
  <2> QED
    BY <1>2, <2>1, <2>2, CarriedSame DEF InStep
<1>13. OneAtATime' /\ \A u \in Threads : Writing(u)'
  BY <1>2 DEF InStep, OneAtATime, Writing
<1>14. InStep'
  BY <1>12, <1>13 DEF InStep
<1> QED
  BY <1>8, <1>9, <1>14

\* A whole frame is that of the next message.
LEMMA WholeFrame ==
    ASSUME TypeOK, InStep, NEW s \in Sides, Complete(s)
    PROVE  /\ Token(s) \in Messages /\ Tail(frame[s]) = Payload(Token(s))
           /\ Len(received[s]) + 1 <= Len(sent[Other(s)])
           /\ sent[Other(s)][Len(received[s]) + 1] = Token(s)
           /\ Framed(pipe[Other(s)] \o file[Other(s)], sent[Other(s)], Len(received[s]) + 1,
                     Missing(Other(s)))
<1>1. PICK z \in Sides : z = Other(s) /\ s = Other(z)
  BY SidesAre
<1>2. /\ frame[s] \in Seq(Words) /\ pipe[z] \o file[z] \in Seq(Words)
      /\ sent[z] \in Seq(Messages) /\ Len(received[s]) \in Nat /\ Missing(z) \in {0, 2}
  BY <1>1, WireTypes
<1>3. Framed(frame[s] \o (pipe[z] \o file[z]), sent[z], Len(received[s]), Missing(z))
  BY <1>1 DEF InStep, Carried, Wire
<1>4. frame[s] # << >> /\ Len(frame[s]) = 1 + frame[s][1].size
  BY DEF Complete
<1>5. frame[s][1] = [size |-> 2]
  BY <1>2, <1>3, <1>4, FrameLength
<1>6. Len(frame[s]) = 3
  BY <1>4, <1>5
<1>7. PICK f \in Seq(Words), w \in Seq(Words), q \in Seq(Messages), n \in Nat, h \in {0, 2} :
        /\ f = frame[s] /\ w = pipe[z] \o file[z] /\ q = sent[z] /\ n = Len(received[s])
        /\ h = Missing(z)
  BY <1>2
<1>8. Framed(f \o w, q, n, h) /\ Len(f) = 3
  BY <1>3, <1>6, <1>7
<1>9. /\ n + 1 <= Len(q) /\ q[n + 1] \in Messages
      /\ f[3].msg = q[n + 1] /\ Tail(f) = Payload(q[n + 1])
      /\ Framed(w, q, n + 1, h)
  BY <1>8, FrameTaken, SMTT(30)
<1> QED
  BY <1>1, <1>7, <1>9 DEF Token

LEMMA DeliverStep ==
    ASSUME TypeOK, InStep, NEW s \in Sides, Complete(s), Deliver(s), UNCHANGED <<file, pipe, sent>>,
           \A x \in Sides : HalfWritten(x)' <=> HalfWritten(x)
    PROVE  /\ \A x \in Sides : Carried(x)'
           /\ frame' \in [Sides -> Seq(Words)] /\ received' \in [Sides -> Seq(Seq(Word))]
<1>1. PICK z \in Sides : z = Other(s) /\ s = Other(z) /\ z # s /\ \A x \in Sides : x = s \/ x = z
  BY SidesAre
<1>2. PICK m \in Messages : m = Token(s)
  BY WholeFrame
<1>3. /\ Tail(frame[s]) = Payload(m) /\ Len(received[s]) + 1 <= Len(sent[z])
      /\ sent[z][Len(received[s]) + 1] = m
      /\ Framed(pipe[z] \o file[z], sent[z], Len(received[s]) + 1, Missing(z))
  BY <1>1, <1>2, WholeFrame
<1>4. /\ frame \in [Sides -> Seq(Words)] /\ received \in [Sides -> Seq(Seq(Word))]
      /\ Payload(m) \in Seq(Word) /\ received[s] \in Seq(Seq(Word))
      /\ pipe[z] \o file[z] \in Seq(Words) /\ Len(received[s]) \in Nat
  BY <1>1, WireTypes, PayloadType DEF TypeOK, Words
<1>5. /\ frame' = [frame EXCEPT ![s] = << >>]
      /\ received' = [received EXCEPT ![s] = Append(@, Payload(m))]
  BY <1>3 DEF Deliver
<1>6. /\ frame' \in [Sides -> Seq(Words)] /\ received' \in [Sides -> Seq(Seq(Word))]
      /\ frame'[s] = << >> /\ frame'[z] = frame[z] /\ received'[z] = received[z]
      /\ received'[s] = Append(received[s], Payload(m))
  BY <1>1, <1>4, <1>5
<1>7. Wire(s)' = Wire(s)
  BY <1>1, <1>6, WireSame
<1>8. Carried(s)'
  BY <1>1, <1>6, <1>7, CarriedSame DEF InStep
<1>9. Wire(z)' = pipe[z] \o file[z]
  <2>1. << >> \o (pipe[z] \o file[z]) = pipe[z] \o file[z]
    BY <1>4, ConcatEmptySeq
  <2>2. Wire(z)' = << >> \o (pipe[z] \o file[z])
    BY <1>1, <1>6 DEF Wire, Other
  <2> QED
    BY <2>1, <2>2
<1>10. Missing(z)' = Missing(z)
  BY <1>1 DEF Missing
<1>11. /\ Len(received'[s]) = Len(received[s]) + 1 /\ received'[s][Len(received[s]) + 1] = Payload(m)
       /\ \A j \in 1..Len(received[s]) : received'[s][j] = received[s][j]
  BY <1>4, <1>6
<1>12. Arrived(received'[s], sent[z])
  <2>1. ASSUME NEW j \in 1..(Len(received[s]) + 1) PROVE received'[s][j] = Payload(sent[z][j])
    <3>1. CASE j = Len(received[s]) + 1
      BY <1>3, <1>11, <3>1
    <3>2. CASE j \in 1..Len(received[s])
      BY <1>1, <1>11, <3>2 DEF InStep, Carried, Arrived
    <3> QED
      BY <1>4, <3>1, <3>2, SMTT(30)
  <2> QED
    BY <1>11, <2>1 DEF Arrived
<1>13. Carried(z)'
  <2>1. Framed(Wire(z)', sent'[z], Len(received'[s]), Missing(z)')
    BY <1>3, <1>9, <1>10, <1>11
  <2>2. /\ Framed(Wire(z)', sent'[z], Len(received'[Other(z)]), Missing(z)')
        /\ Arrived(received'[Other(z)], sent'[z])
    BY <1>1, <1>12, <2>1
  <2> QED
    BY <1>1, <2>2 DEF Carried, Other
<1> QED
  BY <1>1, <1>6, <1>8, <1>13

-----------------------------------------------------------------------------
(* Beginning one *)

LEMMA BeginTypes ==
    ASSUME TypeOK, raced = {}, NEW t \in Threads, NEW m \in Messages, Begin(t[1], t, m)
    PROVE  /\ pc' \in [Threads -> {"idle", "fill", "size", "drain", "payload", "flush"}]
           /\ msg' \in [Threads -> Messages \cup {0}]
           /\ buffer' \in [Sides -> Seq(Word)]
           /\ raced' \subseteq {t[1]} /\ raced' \subseteq Sides
           /\ raced' = {} => Alone(t)
           /\ t[1] \in raced' => \E u \in Threads \ {t} : u[1] = t[1] /\ pc[u] # "idle"
<1>1. t[1] \in Sides
  BY ThreadsAre
<1>2. pc' \in [Threads -> {"idle", "fill", "size", "drain", "payload", "flush"}]
  BY DEF TypeOK, Begin
<1>3. msg' \in [Threads -> Messages \cup {0}]
  BY DEF TypeOK, Begin
<1>4. buffer' \in [Sides -> Seq(Word)]
  BY <1>1 DEF TypeOK, Begin, Cleared
<1>5. raced' = IF \E u \in Threads \ {t} : u[1] = t[1] /\ pc[u] # "idle" THEN {t[1]} ELSE {}
  BY DEF Begin
<1> QED
  BY <1>1, <1>2, <1>3, <1>4, <1>5 DEF Alone

LEMMA BeginStep ==
    ASSUME TypeOK, InStep, raced = {}, raced' = {}, UNCHANGED sent,
           NEW t \in Threads, NEW m \in Messages, Begin(t[1], t, m)
    PROVE  /\ OneAtATime' /\ \A u \in Threads : Writing(u)'
           /\ \A x \in Sides : HalfWritten(x)' <=> HalfWritten(x)
<1>1. /\ pc[t] = "idle" /\ pc' = [pc EXCEPT ![t] = "fill"] /\ msg' = [msg EXCEPT ![t] = m]
      /\ buffer' = [buffer EXCEPT ![t[1]] = << >>]
  BY DEF Begin, Cleared
<1>2. Alone(t) /\ t[1] \in Sides
  BY BeginTypes, ThreadsAre
<1>3. /\ \A u \in Threads : u # t => msg'[u] = msg[u]
      /\ \A x \in Sides : x # t[1] => buffer'[x] = buffer[x] /\ sent'[x] = sent[x]
      /\ "fill" \notin {"drain", "payload"} /\ pc[t] \notin {"drain", "payload"}
  BY <1>1 DEF TypeOK
<1>4. /\ OneAtATime'
      /\ \A u \in Threads : u # t => Writing(u)'
      /\ \A x \in Sides : x # t[1] => (HalfWritten(x)' <=> HalfWritten(x))
      /\ HalfWritten(t[1])' <=> "fill" \in {"drain", "payload"}
      /\ HalfWritten(t[1]) <=> pc[t] \in {"drain", "payload"}
  BY <1>1, <1>2, <1>3, OthersKept
<1>5. Writing(t)'
  <2>1. pc'[t] = "fill" /\ msg'[t] = m /\ buffer'[t[1]] = << >>
    BY <1>1, <1>2 DEF TypeOK
  <2> QED
    BY <2>1 DEF Writing
<1> QED
  BY <1>3, <1>4, <1>5

\* A step in which thread t begins message m and nothing is sent or received.
LEMMA OnlyBegins ==
    ASSUME TypeOK, InStep, raced = {}, raced' = {}, UNCHANGED <<file, pipe, frame, sent, received>>,
           NEW t \in Threads, NEW m \in Messages, Begin(t[1], t, m)
    PROVE  InStep'
<1>1. /\ OneAtATime' /\ \A u \in Threads : Writing(u)'
      /\ \A x \in Sides : HalfWritten(x)' <=> HalfWritten(x)
  BY BeginStep
<1>2. \A x \in Sides : Carried(x)'
  BY <1>1, WireSame, CarriedSame DEF InStep
<1> QED
  BY <1>1, <1>2 DEF InStep

\* A message is received by side s, and thread t of that side begins another, or none does.
LEMMA DeliveredAndBegun ==
    ASSUME TypeOK, InStep, raced = {}, raced' = {}, UNCHANGED <<file, pipe, sent>>,
           NEW s \in Sides, Complete(s), Deliver(s),
           \/ UNCHANGED <<pc, msg, buffer>>
           \/ \E t \in Threads, m \in Messages : Begin(t[1], t, m)
    PROVE  InStep'
<1>1. /\ OneAtATime' /\ \A u \in Threads : Writing(u)'
      /\ \A x \in Sides : HalfWritten(x)' <=> HalfWritten(x)
  <2>1. CASE UNCHANGED <<pc, msg, buffer>>
    BY <2>1 DEF InStep, OneAtATime, Writing, HalfWritten
  <2>2. ASSUME NEW t \in Threads, NEW m \in Messages, Begin(t[1], t, m)
        PROVE  /\ OneAtATime' /\ \A u \in Threads : Writing(u)'
               /\ \A x \in Sides : HalfWritten(x)' <=> HalfWritten(x)
    BY <2>2, BeginStep
  <2> QED
    BY <2>1, <2>2
<1>2. \A x \in Sides : Carried(x)'
  BY <1>1, DeliverStep
<1> QED
  BY <1>1, <1>2 DEF InStep

-----------------------------------------------------------------------------
(* The steps *)

PcType == {"idle", "fill", "size", "drain", "payload", "flush"}

LEMMA DeliverTypes ==
    ASSUME TypeOK, InStep, NEW s \in Sides, Complete(s), Deliver(s)
    PROVE  /\ frame' \in [Sides -> Seq(Words)] /\ received' \in [Sides -> Seq(Seq(Word))]
           /\ Token(s) \in Messages
<1>1. Token(s) \in Messages /\ Tail(frame[s]) = Payload(Token(s))
  BY WholeFrame
<1>2. Payload(Token(s)) \in Seq(Word)
  BY <1>1, PayloadType
<1>3. frame \in [Sides -> Seq(Words)] /\ received \in [Sides -> Seq(Seq(Word))]
  BY DEF TypeOK, Words
<1>4. PICK p \in Seq(Word) : p = Tail(frame[s])
  BY <1>1, <1>2
<1>5. received' = [received EXCEPT ![s] = Append(@, p)] /\ frame' = [frame EXCEPT ![s] = << >>]
  BY <1>4 DEF Deliver
<1>6. received' \in [Sides -> Seq(Seq(Word))]
  BY <1>3, <1>5
<1>7. frame' \in [Sides -> Seq(Words)]
  BY <1>3, <1>5
<1> QED
  BY <1>1, <1>6, <1>7

\* What a step of sending leaves alone.
LEMMA SendOnly ==
    ASSUME TypeOK, NEW t \in Threads, Send(t)
    PROVE  /\ UNCHANGED <<config, msg, frame, tasks, ended, counts, received, raced>>
           /\ pc[t] # "idle" /\ pc' \in [Threads -> PcType]
           /\ \A u \in Threads : u # t => pc'[u] = pc[u]
<1>1. UNCHANGED <<config, msg, frame, tasks, ended, counts, received, raced>> /\ pc[t] # "idle"
  BY DEF Send, Fill, WriteSize, WritePayload, Drain, Drained
<1>2. \E p \in PcType : pc' = [pc EXCEPT ![t] = p]
  <2>1. CASE Fill(t[1], t)
    BY <2>1 DEF Fill, PcType
  <2>2. CASE WriteSize(t[1], t)
    BY <2>2 DEF WriteSize, PcType
  <2>3. CASE WritePayload(t[1], t)
    BY <2>3 DEF WritePayload, PcType
  <2>4. CASE Drain(t[1], t)
    <3>1. pc' = [pc EXCEPT ![t] = pc[t]] /\ pc[t] \in PcType
      BY <2>4 DEF Drain, TypeOK, PcType
    <3> QED
      BY <3>1
  <2>5. CASE Drained(t[1], t)
    BY <2>5 DEF Drained, PcType
  <2> QED
    BY <2>1, <2>2, <2>3, <2>4, <2>5 DEF Send
<1> QED
  BY <1>1, <1>2 DEF TypeOK, PcType

LEMMA SendStep ==
    ASSUME TypeOK, InStep, NEW t \in Threads, Send(t)
    PROVE  /\ InStep' /\ buffer' \in [Sides -> Seq(Word)] /\ file' \in [Sides -> Seq(Words)]
           /\ pipe' \in [Sides -> Seq(Words)] /\ (\A s \in Sides : Len(pipe'[s]) <= Capacity)
           /\ sent' \in [Sides -> Seq(Messages)]
<1>1. /\ buffer \in [Sides -> Seq(Word)] /\ file \in [Sides -> Seq(Words)]
      /\ pipe \in [Sides -> Seq(Words)] /\ (\A s \in Sides : Len(pipe[s]) <= Capacity)
      /\ sent \in [Sides -> Seq(Messages)]
  BY DEF TypeOK, Words
<1>2. CASE Fill(t[1], t)
  <2>1. UNCHANGED <<file, pipe, sent>>
    BY <1>2 DEF Fill
  <2> QED
    BY <1>1, <1>2, <2>1, FillStep
<1>3. CASE WriteSize(t[1], t)
  <2>1. UNCHANGED <<buffer, pipe>>
    BY <1>3 DEF WriteSize
  <2> QED
    BY <1>1, <1>3, <2>1, WriteSizeStep
<1>4. CASE WritePayload(t[1], t)
  <2>1. UNCHANGED <<buffer, pipe, sent>>
    BY <1>4 DEF WritePayload
  <2> QED
    BY <1>1, <1>4, <2>1, WritePayloadStep
<1>5. CASE Drain(t[1], t)
  <2>1. UNCHANGED <<buffer, sent>>
    BY <1>5 DEF Drain
  <2> QED
    BY <1>1, <1>5, <2>1, DrainStep
<1>6. CASE Drained(t[1], t)
  <2>1. UNCHANGED <<buffer, file, pipe, sent>>
    BY <1>6 DEF Drained
  <2> QED
    BY <1>1, <1>6, <2>1, DrainedStep
<1> QED
  BY <1>2, <1>3, <1>4, <1>5, <1>6 DEF Send

-----------------------------------------------------------------------------
(* Numbers *)

LEMMA NumberedBegun ==
    ASSUME NEW q \in Seq(Messages), NEW n \in Nat, Numbered(q, n, {})
    PROVE  Numbered(q, n + 1, {n + 1})
  BY DEF Numbered

LEMMA NumberedSent ==
    ASSUME NEW q \in Seq(Messages), NEW n \in Nat, NEW m \in Messages, Numbered(q, n, {m})
    PROVE  Numbered(Append(q, m), n, {})
<1>1. m = Len(q) + 1 /\ n = Len(q) + 1 /\ \A j \in 1..Len(q) : q[j] = j
  BY DEF Numbered
<1>2. PICK v \in Seq(Messages) : v = Append(q, m)
  BY AppendProperties
<1>3. Len(v) = Len(q) + 1 /\ v[Len(q) + 1] = m /\ \A j \in 1..Len(q) : v[j] = q[j]
  BY <1>2, AppendProperties
<1>4. \A j \in 1..Len(v) : v[j] = j
  BY <1>1, <1>3
<1> QED
  BY <1>1, <1>2, <1>3, <1>4 DEF Numbered

LEMMA KnownMore ==
    ASSUME NEW m, NEW n \in Nat, NEW p \in Nat, Known(m, n, p)
    PROVE  Known(m, n + 1, p) /\ Known(m, n, p + 1)
  BY DEF Known

\* Another request is received, or another message of the server's own begun.
LEMMA OwedMore ==
    ASSUME NEW q, NEW z, NEW b, NEW n \in Nat, NEW p \in Nat, Owed(q, z, b, n, p)
    PROVE  Owed(q, z, b, n + 1, p) /\ Owed(q, z, b, n, p + 1)
  BY KnownMore DEF Owed

\* What the next number is not.
LEMMA NextUnknown ==
    ASSUME NEW m, NEW n \in Nat, NEW p \in Nat, Known(m, n, p)
    PROVE  /\ n < MaxRequests => m # n + 1
           /\ n <= MaxRequests => m # MaxRequests + p + 1
  BY DEF Known

LEMMA OwedSent ==
    ASSUME NEW q \in Seq(Messages), NEW z \in Seq(Messages), NEW n \in Nat, NEW p \in Nat,
           NEW m \in Messages, Owed(q, z, {m}, n, p)
    PROVE  Owed(Append(q, m), z, {}, n, p)
<1>1. PICK v \in Seq(Messages) : v = Append(q, m)
  BY AppendProperties
<1>2. Len(v) = Len(q) + 1 /\ v[Len(q) + 1] = m /\ \A j \in 1..Len(q) : v[j] = q[j]
  BY <1>1, AppendProperties
<1>3. /\ Known(m, n, p) /\ \A j \in 1..Len(q) : q[j] # m /\ Known(q[j], n, p)
      /\ \A i \in 1..Len(z) : z[i] # m
  BY DEF Owed
<1>4. Len(q) \in Nat /\ \A j \in 1..(Len(q) + 1) : j = Len(q) + 1 \/ j \in 1..Len(q)
  BY LenProperties
<1>5. \A j \in 1..Len(v) : Known(v[j], n, p)
  BY <1>2, <1>3, <1>4
<1>6. \A j, k \in 1..Len(v) : v[j] = v[k] => j = k
  BY <1>2, <1>3, <1>4 DEF Owed
<1>7. \A j \in 1..Len(v), i \in 1..Len(z) : v[j] # z[i]
  BY <1>2, <1>3, <1>4 DEF Owed
<1>8. Owed(v, z, {}, n, p)
  BY <1>5, <1>6, <1>7 DEF Owed
<1> QED
  BY <1>1, <1>8

LEMMA OwedDeferred ==
    ASSUME NEW q \in Seq(Messages), NEW z \in Seq(Messages), NEW b, NEW n \in Nat, NEW p \in Nat,
           NEW m \in Messages, m = n + 1, n < MaxRequests, Owed(q, z, b, n, p)
    PROVE  Owed(q, Append(z, m), b, n + 1, p)
<1>1. PICK v \in Seq(Messages) : v = Append(z, m)
  BY AppendProperties
<1>2. Len(v) = Len(z) + 1 /\ v[Len(z) + 1] = m /\ \A j \in 1..Len(z) : v[j] = z[j]
  BY <1>1, AppendProperties
<1>3. /\ \A j \in 1..Len(q) : q[j] # m /\ Known(q[j], n + 1, p)
      /\ \A i \in 1..Len(z) : z[i] # m /\ Known(z[i], n + 1, p)
      /\ \A x \in b : x # m /\ Known(x, n + 1, p)
  BY NextUnknown, KnownMore DEF Owed
<1>4. Len(z) \in Nat /\ \A j \in 1..(Len(z) + 1) : j = Len(z) + 1 \/ j \in 1..Len(z)
  BY LenProperties
<1>5. Known(m, n + 1, p)
  BY DEF Known
<1>6. \A j \in 1..Len(v) : Known(v[j], n + 1, p)
  BY <1>2, <1>3, <1>4, <1>5
<1>7. \A j, k \in 1..Len(v) : v[j] = v[k] => j = k
  BY <1>2, <1>3, <1>4 DEF Owed
<1>8. \A j \in 1..Len(q), i \in 1..Len(v) : q[j] # v[i]
  BY <1>2, <1>3, <1>4 DEF Owed
<1>9. \A x \in b : \A i \in 1..Len(v) : v[i] # x
  BY <1>2, <1>3, <1>4 DEF Owed
<1>10. Owed(q, v, b, n + 1, p)
  BY <1>3, <1>6, <1>7, <1>8, <1>9 DEF Owed
<1> QED
  BY <1>1, <1>10

LEMMA OwedBegun ==
    ASSUME NEW q \in Seq(Messages), NEW z \in Seq(Messages), NEW n \in Nat, NEW p \in Nat,
           NEW m \in Messages, m = n + 1, n < MaxRequests, Owed(q, z, {}, n, p)
    PROVE  Owed(q, z, {m}, n + 1, p)
<1>1. /\ \A j \in 1..Len(q) : q[j] # m
      /\ \A i \in 1..Len(z) : z[i] # m
  BY NextUnknown DEF Owed
<1>2. Known(m, n + 1, p)
  BY DEF Known
<1>3. Owed(q, z, {}, n + 1, p)
  BY OwedMore
<1> QED
  BY <1>1, <1>2, <1>3 DEF Owed

LEMMA OwedPushed ==
    ASSUME NEW q \in Seq(Messages), NEW z \in Seq(Messages), NEW n \in Nat, NEW p \in Nat,
           NEW m \in Messages, m = MaxRequests + p + 1, n <= MaxRequests, Owed(q, z, {}, n, p)
    PROVE  Owed(q, z, {m}, n, p + 1)
<1>1. /\ \A j \in 1..Len(q) : q[j] # m
      /\ \A i \in 1..Len(z) : z[i] # m
  BY NextUnknown DEF Owed
<1>2. Known(m, n, p + 1)
  BY DEF Known
<1>3. Owed(q, z, {}, n, p + 1)
  BY OwedMore
<1> QED
  BY <1>1, <1>2, <1>3 DEF Owed

LEMMA OwedContinued ==
    ASSUME NEW q \in Seq(Messages), NEW z \in Seq(Messages), NEW n \in Nat, NEW p \in Nat,
           z # << >>, Owed(q, z, {}, n, p)
    PROVE  Owed(q, Tail(z), {Head(z)}, n, p)
<1>1. PICK v \in Seq(Messages), m \in Messages : v = Tail(z) /\ m = Head(z)
  BY HeadTailProperties
<1>2. /\ Len(z) \in Nat /\ Len(z) >= 1 /\ Len(v) = Len(z) - 1 /\ m = z[1]
      /\ \A i \in 1..Len(v) : v[i] = z[i + 1]
  BY <1>1, HeadTailProperties, LenProperties
<1>3. 1 \in 1..Len(z) /\ \A i \in 1..Len(v) : i + 1 \in 1..Len(z) /\ i + 1 # 1
  BY <1>2
<1>4. Known(m, n, p) /\ \A i \in 1..Len(v) : Known(v[i], n, p)
  BY <1>2, <1>3 DEF Owed
<1>5. \A i \in 1..Len(v) : v[i] # m
  BY <1>2, <1>3 DEF Owed
<1>6. \A i, k \in 1..Len(v) : v[i] = v[k] => i = k
  <2> SUFFICES ASSUME NEW i \in 1..Len(v), NEW k \in 1..Len(v), v[i] = v[k] PROVE i = k
    OBVIOUS
  <2>1. z[i + 1] = z[k + 1] /\ i + 1 \in 1..Len(z) /\ k + 1 \in 1..Len(z)
    BY <1>2, <1>3
  <2>2. i + 1 = k + 1
    BY <2>1 DEF Owed
  <2> QED
    BY <1>2, <2>2
<1>7. \A j \in 1..Len(q) : q[j] # m /\ \A i \in 1..Len(v) : q[j] # v[i]
  BY <1>2, <1>3 DEF Owed
<1>8. Owed(q, v, {m}, n, p)
  BY <1>4, <1>5, <1>6, <1>7 DEF Owed
<1> QED
  BY <1>1, <1>8

-----------------------------------------------------------------------------
(* Messages begun and not sent *)

LEMMA UnsentSame ==
    ASSUME NEW x \in Sides,
           \A u \in Threads : u[1] = x => /\ msg'[u] = msg[u]
                                          /\ pc'[u] \in {"fill", "size"} <=> pc[u] \in {"fill", "size"}
    PROVE  Unsent(x)' = Unsent(x)
  BY DEF Unsent

LEMMA UnsentBegun ==
    ASSUME TypeOK, raced = {}, raced' = {}, NEW t \in Threads, NEW m \in Messages, Begin(t[1], t, m)
    PROVE  /\ Unsent(t[1]) = {} /\ Unsent(t[1])' = {m}
           /\ \A x \in Sides : x # t[1] => Unsent(x)' = Unsent(x)
<1>1. Alone(t) /\ pc[t] = "idle"
  BY BeginTypes DEF Begin
<1>2. /\ pc'[t] = "fill" /\ msg'[t] = m
      /\ \A u \in Threads : u # t => pc'[u] = pc[u] /\ msg'[u] = msg[u]
  BY DEF Begin, TypeOK
<1>3. Unsent(t[1]) = {}
  BY <1>1 DEF Unsent, Alone
<1>4. \A u \in Threads : u[1] = t[1] /\ pc'[u] \in {"fill", "size"} <=> u = t
  BY <1>1, <1>2 DEF Alone
<1>5. Unsent(t[1])' = {m}
  BY <1>2, <1>4 DEF Unsent
<1>6. ASSUME NEW x \in Sides, x # t[1] PROVE Unsent(x)' = Unsent(x)
  BY <1>2, <1>6, UnsentSame
<1> QED
  BY <1>3, <1>5, <1>6

\* A step of sending keeps what is begun, but for the one that writes the size.
LEMMA UnsentInSend ==
    ASSUME TypeOK, InStep, NEW t \in Threads, Send(t)
    PROVE  /\ \A x \in Sides : x # t[1] => Unsent(x)' = Unsent(x) /\ sent'[x] = sent[x]
           /\ \/ Unsent(t[1])' = Unsent(t[1]) /\ sent'[t[1]] = sent[t[1]]
              \/ /\ Unsent(t[1]) = {msg[t]} /\ Unsent(t[1])' = {}
                 /\ sent'[t[1]] = Append(sent[t[1]], msg[t]) /\ msg[t] \in Messages
<1>1. /\ UNCHANGED msg /\ pc[t] # "idle"
      /\ \A u \in Threads : u # t => pc'[u] = pc[u]
  BY SendOnly
<1>2. Alone(t) /\ t[1] \in Sides /\ Writing(t)
  BY <1>1, WhoSends, ThreadsAre DEF InStep
<1>3. ASSUME NEW x \in Sides, x # t[1] PROVE Unsent(x)' = Unsent(x)
  BY <1>1, <1>3, UnsentSame
<1>4. CASE WriteSize(t[1], t)
  <2>1. /\ pc[t] = "size" /\ pc'[t] \in {"drain", "payload"}
        /\ sent' = [sent EXCEPT ![t[1]] = Append(@, msg[t])]
    BY <1>4 DEF WriteSize, TypeOK
  <2>2. sent'[t[1]] = Append(sent[t[1]], msg[t]) /\ \A x \in Sides : x # t[1] => sent'[x] = sent[x]
    BY <1>2, <2>1 DEF TypeOK
  <2>3. \A u \in Threads : u[1] = t[1] /\ pc[u] \in {"fill", "size"} <=> u = t
    BY <1>2, <2>1 DEF Alone
  <2>4. Unsent(t[1]) = {msg[t]}
    BY <2>3 DEF Unsent
  <2>5. \A u \in Threads : u[1] = t[1] => pc'[u] \notin {"fill", "size"}
    BY <1>1, <1>2, <2>1 DEF Alone
  <2>6. Unsent(t[1])' = {}
    BY <2>5 DEF Unsent
  <2> QED
    BY <1>1, <1>2, <1>3, <2>2, <2>4, <2>6 DEF Writing
<1>5. CASE ~WriteSize(t[1], t)
  <2>1. /\ UNCHANGED sent
        /\ pc'[t] \in {"fill", "size"} <=> pc[t] \in {"fill", "size"}
    <3>1. CASE Fill(t[1], t)
      BY <3>1 DEF Fill, TypeOK
    <3>2. CASE WritePayload(t[1], t)
      BY <3>2 DEF WritePayload, TypeOK
    <3>3. CASE Drain(t[1], t)
      BY <3>3 DEF Drain, TypeOK
    <3>4. CASE Drained(t[1], t)
      BY <3>4 DEF Drained, TypeOK
    <3> QED
      BY <1>5, <3>1, <3>2, <3>3, <3>4 DEF Send
  <2>2. Unsent(t[1])' = Unsent(t[1])
    BY <1>1, <1>2, <2>1, UnsentSame
  <2> QED
    BY <1>3, <2>1, <2>2
<1> QED
  BY <1>4, <1>5

\* The request that the server gets next is the one after those it has.
LEMMA NextRequest ==
    ASSUME TypeOK, InStep, ClientLedger, Complete("server"), Deliver("server")
    PROVE  /\ Token("server") = Len(received["server"]) + 1
           /\ Len(received["server"]) < MaxRequests
           /\ Len(received'["server"]) = Len(received["server"]) + 1
<1>1. "server" \in Sides /\ "client" \in Sides /\ Other("server") = "client"
  BY DEF Sides, Other
<1>2. PICK n \in Nat : n = Len(received["server"])
  BY <1>1, LenProperties DEF TypeOK
<1>3. n + 1 <= Len(sent["client"]) /\ sent["client"][n + 1] = Token("server")
  BY <1>1, <1>2, WholeFrame
<1>4. Len(sent["client"]) \in Nat /\ made \in 0..MaxRequests
  BY <1>1, LenProperties DEF TypeOK
<1>5. /\ \A j \in 1..Len(sent["client"]) : sent["client"][j] = j
      /\ made = Len(sent["client"]) \/ made = Len(sent["client"]) + 1
  BY DEF ClientLedger, Numbered
<1>6. n + 1 \in 1..Len(sent["client"]) /\ n < MaxRequests
  BY <1>3, <1>4, <1>5
<1>7. Token("server") = n + 1
  BY <1>3, <1>5, <1>6
<1>8. received["server"] \in Seq(Seq(Word)) /\ received'["server"] = Append(received["server"], Tail(frame["server"]))
  BY <1>1 DEF TypeOK, Deliver
<1>9. Len(received'["server"]) = n + 1
  BY <1>2, <1>8
<1> QED
  BY <1>2, <1>6, <1>7, <1>9

LEMMA LedgerTypes ==
    ASSUME TypeOK
    PROVE  /\ sent["client"] \in Seq(Messages) /\ sent["server"] \in Seq(Messages)
           /\ tasks \in Seq(Messages) /\ Len(received["server"]) \in Nat
           /\ made \in Nat /\ pushed \in Nat /\ made <= MaxRequests /\ pushed <= MaxPushes
<1>1. "server" \in Sides /\ "client" \in Sides
  BY DEF Sides
<1> QED
  BY <1>1, LenProperties DEF TypeOK

\* The server never has more requests than there can be.
LEMMA ReceivedBound ==
    ASSUME TypeOK, InStep, ClientLedger
    PROVE  Len(received["server"]) <= MaxRequests
<1>1. "server" \in Sides /\ "client" \in Sides /\ Other("client") = "server"
  BY DEF Sides, Other
<1>2. Len(received["server"]) <= Len(sent["client"])
  BY <1>1 DEF InStep, Carried, Framed
<1>3. made = Len(sent["client"]) \/ made = Len(sent["client"]) + 1
  BY DEF ClientLedger, Numbered
<1> QED
  BY <1>2, <1>3, LedgerTypes, LenProperties

LEMMA ClientLedgerSame ==
    ASSUME ClientLedger, sent'["client"] = sent["client"], made' = made,
           Unsent("client")' = Unsent("client")
    PROVE  ClientLedger'
  BY DEF ClientLedger

-----------------------------------------------------------------------------
(* The steps keep the invariant *)

LEMMA SendInv ==
    ASSUME IInv, raced = {}, NEW t \in Threads, Send(t)
    PROVE  IInv'
<1>1. TypeOK /\ InStep /\ ClientLedger /\ ServerLedger
  BY DEF IInv, Ledger
<1>2. /\ UNCHANGED <<config, msg, frame, tasks, ended, counts, received, raced>>
      /\ pc[t] # "idle" /\ pc' \in [Threads -> PcType]
      /\ \A u \in Threads : u # t => pc'[u] = pc[u]
  BY <1>1, SendOnly
<1>3. /\ InStep' /\ buffer' \in [Sides -> Seq(Word)] /\ file' \in [Sides -> Seq(Words)]
      /\ pipe' \in [Sides -> Seq(Words)] /\ (\A s \in Sides : Len(pipe'[s]) <= Capacity)
      /\ sent' \in [Sides -> Seq(Messages)]
  BY <1>1, SendStep
<1>4. TypeOK'
  BY <1>1, <1>2, <1>3 DEF TypeOK, PcType, Words, config, counts
<1>5. /\ \A x \in Sides : x # t[1] => Unsent(x)' = Unsent(x) /\ sent'[x] = sent[x]
      /\ \/ Unsent(t[1])' = Unsent(t[1]) /\ sent'[t[1]] = sent[t[1]]
         \/ /\ Unsent(t[1]) = {msg[t]} /\ Unsent(t[1])' = {}
            /\ sent'[t[1]] = Append(sent[t[1]], msg[t]) /\ msg[t] \in Messages
  BY <1>1, UnsentInSend
<1>6. "client" \in Sides /\ "server" \in Sides /\ t[1] \in Sides
  BY ThreadsAre DEF Sides
<1>7. made' = made /\ pushed' = pushed /\ tasks' = tasks /\ received' = received
  BY <1>2 DEF counts
<1>8. ClientLedger'
  <2>1. CASE Unsent("client")' = Unsent("client") /\ sent'["client"] = sent["client"]
    BY <1>1, <1>7, <2>1, ClientLedgerSame
  <2>2. CASE /\ Unsent("client") = {msg[t]} /\ Unsent("client")' = {}
             /\ sent'["client"] = Append(sent["client"], msg[t]) /\ msg[t] \in Messages
    <3>1. Numbered(sent["client"], made, {msg[t]})
      BY <1>1, <2>2 DEF ClientLedger
    <3>2. Numbered(Append(sent["client"], msg[t]), made, {})
      BY <1>1, <2>2, <3>1, LedgerTypes, NumberedSent
    <3> QED
      BY <1>7, <2>2, <3>2 DEF ClientLedger
  <2> QED
    BY <1>5, <1>6, <2>1, <2>2
<1>9. ServerLedger'
  <2>1. CASE Unsent("server")' = Unsent("server") /\ sent'["server"] = sent["server"]
    BY <1>1, <1>7, <2>1 DEF ServerLedger
  <2>2. CASE /\ Unsent("server") = {msg[t]} /\ Unsent("server")' = {}
             /\ sent'["server"] = Append(sent["server"], msg[t]) /\ msg[t] \in Messages
    <3>1. Owed(sent["server"], tasks, {msg[t]}, Len(received["server"]), pushed)
      BY <1>1, <2>2 DEF ServerLedger
    <3>2. Owed(Append(sent["server"], msg[t]), tasks, {}, Len(received["server"]), pushed)
      BY <1>1, <2>2, <3>1, LedgerTypes, OwedSent
    <3> QED
      BY <1>7, <2>2, <3>2 DEF ServerLedger
  <2> QED
    BY <1>5, <1>6, <2>1, <2>2
<1> QED
  BY <1>3, <1>4, <1>8, <1>9 DEF IInv, Ledger

LEMMA TakeWordInv ==
    ASSUME IInv, raced = {}, NEW s \in Sides, TakeWord(s)
    PROVE  IInv'
<1>1. TypeOK /\ InStep /\ ClientLedger /\ ServerLedger
  BY DEF IInv, Ledger
<1>2. UNCHANGED <<config, pc, msg, buffer, file, tasks, ended, counts, sent, received, raced>>
  BY DEF TakeWord
<1>3. /\ InStep' /\ frame' \in [Sides -> Seq(Words)] /\ pipe' \in [Sides -> Seq(Words)]
      /\ \A x \in Sides : Len(pipe'[x]) <= Capacity
  BY <1>1, TakeWordStep
<1>4. TypeOK'
  BY <1>1, <1>2, <1>3 DEF TypeOK, Words, config, counts
<1>5. Ledger'
  BY <1>1, <1>2 DEF Ledger, ClientLedger, ServerLedger, Unsent, counts
<1> QED
  BY <1>3, <1>4, <1>5 DEF IInv

LEMMA HandleInv ==
    ASSUME IInv, raced = {}, Handle
    PROVE  IInv'
<1>1. TypeOK /\ InStep /\ ClientLedger /\ ServerLedger /\ "server" \in Sides /\ "client" \in Sides
  BY DEF IInv, Ledger, Sides
<1>2. Complete("server") /\ Deliver("server") /\ UNCHANGED <<config, file, pipe, counts, sent>>
  BY DEF Handle
<1>3. /\ frame' \in [Sides -> Seq(Words)] /\ received' \in [Sides -> Seq(Seq(Word))]
      /\ Token("server") \in Messages
  BY <1>1, <1>2, DeliverTypes
<1>4. PICK m \in Messages : m = Token("server")
  BY <1>3
<1>5. PICK n \in Nat : n = Len(received["server"])
  BY <1>1, LedgerTypes
<1>6. m = n + 1 /\ n < MaxRequests /\ Len(received'["server"]) = n + 1
  BY <1>1, <1>2, <1>4, <1>5, NextRequest
<1>7. made' = made /\ pushed' = pushed /\ sent' = sent
  BY <1>2 DEF counts
<1>8. Owed(sent["server"], tasks, Unsent("server"), n, pushed)
  BY <1>1, <1>5 DEF ServerLedger
<1>9. CASE Defers(m) /\ tasks' = Append(tasks, m) /\ UNCHANGED <<pc, msg, buffer, raced, ended>>
  <2>1. tasks' \in Seq(Messages)
    BY <1>1, <1>9, LedgerTypes, AppendProperties
  <2>2. TypeOK'
    BY <1>1, <1>2, <1>3, <1>9, <2>1 DEF TypeOK, Words, config, counts
  <2>3. InStep'
    BY <1>1, <1>2, <1>9, DeliveredAndBegun
  <2>4. Unsent("server")' = Unsent("server") /\ Unsent("client")' = Unsent("client")
    BY <1>9 DEF Unsent
  <2>5. ClientLedger'
    BY <1>1, <1>7, <2>4, ClientLedgerSame
  <2>6. Owed(sent["server"], Append(tasks, m), Unsent("server"), n + 1, pushed)
    BY <1>1, <1>6, <1>8, LedgerTypes, OwedDeferred
  <2>7. ServerLedger'
    BY <1>6, <1>7, <1>9, <2>4, <2>6 DEF ServerLedger
  <2> QED
    BY <2>2, <2>3, <2>5, <2>7 DEF IInv, Ledger
<1>10. CASE ended' = TRUE /\ UNCHANGED <<pc, msg, buffer, raced, tasks>>
  <2>1. ended' \in BOOLEAN
    BY <1>10, Zenon
  <2>2. TypeOK'
    BY <1>1, <1>2, <1>3, <1>10, <2>1 DEF TypeOK, Words, config, counts
  <2>3. InStep'
    BY <1>1, <1>2, <1>10, DeliveredAndBegun
  <2>4. Unsent("server")' = Unsent("server") /\ Unsent("client")' = Unsent("client")
    BY <1>10 DEF Unsent
  <2>5. ClientLedger'
    BY <1>1, <1>7, <2>4, ClientLedgerSame
  <2>6. Owed(sent["server"], tasks, Unsent("server"), n + 1, pushed)
    BY <1>1, <1>8, LedgerTypes, OwedMore
  <2>7. ServerLedger'
    BY <1>6, <1>7, <1>10, <2>4, <2>6 DEF ServerLedger
  <2> QED
    BY <2>2, <2>3, <2>5, <2>7 DEF IInv, Ledger
<1>11. CASE Begin("server", <<"server", "reader">>, m) /\ UNCHANGED <<tasks, ended>>
  <2>1. PICK t \in Threads : t = <<"server", "reader">> /\ t[1] = "server"
    BY ThreadsAre
  <2>2. Begin(t[1], t, m)
    BY <1>11, <2>1
  <2>3. /\ pc' \in [Threads -> {"idle", "fill", "size", "drain", "payload", "flush"}]
        /\ msg' \in [Threads -> Messages \cup {0}]
        /\ buffer' \in [Sides -> Seq(Word)] /\ raced' \subseteq Sides
    BY <1>1, <2>2, BeginTypes
  <2>4. TypeOK'
    BY <1>1, <1>2, <1>3, <1>11, <2>3 DEF TypeOK, Words, config, counts
  <2>5. ASSUME raced' = {} PROVE InStep' /\ Ledger'
    <3>1. InStep'
      BY <1>1, <1>2, <2>2, <2>5, DeliveredAndBegun
    <3>2. Unsent("server") = {} /\ Unsent("server")' = {m} /\ Unsent("client")' = Unsent("client")
      BY <1>1, <2>1, <2>2, <2>5, UnsentBegun
    <3>3. ClientLedger'
      BY <1>1, <1>7, <3>2, ClientLedgerSame
    <3>4. Owed(sent["server"], tasks, {m}, n + 1, pushed)
      BY <1>1, <1>6, <1>8, <3>2, LedgerTypes, OwedBegun
    <3>5. ServerLedger'
      BY <1>6, <1>7, <1>11, <3>2, <3>4 DEF ServerLedger
    <3> QED
      BY <3>1, <3>3, <3>5 DEF Ledger
  <2> QED
    BY <2>4, <2>5 DEF IInv
<1> QED
  BY <1>4, <1>9, <1>10, <1>11 DEF Handle

LEMMA ContinueInv ==
    ASSUME IInv, raced = {}, Continue
    PROVE  IInv'
<1>1. TypeOK /\ InStep /\ ClientLedger /\ ServerLedger /\ "server" \in Sides /\ "client" \in Sides
  BY DEF IInv, Ledger, Sides
<1>2. /\ tasks # << >> /\ tasks' = Tail(tasks)
      /\ UNCHANGED <<config, file, pipe, frame, ended, counts, sent, received>>
  BY DEF Continue
<1>3. tasks \in Seq(Messages)
  BY <1>1 DEF TypeOK
<1>4. PICK m \in Messages : m = Head(tasks)
  BY <1>2, <1>3, HeadTailProperties
<1>5. PICK t \in Threads : t = <<"server", "queue">> /\ t[1] = "server"
  BY ThreadsAre
<1>6. Begin(t[1], t, m)
  BY <1>4, <1>5 DEF Continue
<1>7. /\ pc' \in [Threads -> {"idle", "fill", "size", "drain", "payload", "flush"}]
      /\ msg' \in [Threads -> Messages \cup {0}]
      /\ buffer' \in [Sides -> Seq(Word)] /\ raced' \subseteq Sides
  BY <1>1, <1>6, BeginTypes
<1>8. tasks' \in Seq(Messages)
  BY <1>2, <1>3, HeadTailProperties
<1>9. TypeOK'
  BY <1>1, <1>2, <1>7, <1>8 DEF TypeOK, config, counts
<1>10. ASSUME raced' = {} PROVE InStep' /\ Ledger'
  <2>1. InStep'
    BY <1>1, <1>2, <1>6, <1>10, OnlyBegins
  <2>2. Unsent("server") = {} /\ Unsent("server")' = {m} /\ Unsent("client")' = Unsent("client")
    BY <1>1, <1>5, <1>6, <1>10, UnsentBegun
  <2>3. made' = made /\ pushed' = pushed /\ sent' = sent /\ received' = received
    BY <1>2 DEF counts
  <2>4. ClientLedger'
    BY <1>1, <2>2, <2>3, ClientLedgerSame
  <2>5. Owed(sent["server"], tasks, {}, Len(received["server"]), pushed)
    BY <1>1, <2>2 DEF ServerLedger
  <2>6. Owed(sent["server"], Tail(tasks), {Head(tasks)}, Len(received["server"]), pushed)
    BY <1>1, <1>2, <2>5, LedgerTypes, OwedContinued
  <2>7. ServerLedger'
    BY <1>2, <1>4, <2>2, <2>3, <2>6 DEF ServerLedger
  <2> QED
    BY <2>1, <2>4, <2>7 DEF Ledger
<1> QED
  BY <1>9, <1>10 DEF IInv

LEMMA PushInv ==
    ASSUME IInv, raced = {}, Push
    PROVE  IInv'
<1>1. TypeOK /\ InStep /\ ClientLedger /\ ServerLedger /\ "server" \in Sides /\ "client" \in Sides
  BY DEF IInv, Ledger, Sides
<1>2. /\ pushed < MaxPushes /\ pushed' = pushed + 1
      /\ UNCHANGED <<config, file, pipe, frame, tasks, ended, made, sent, received>>
  BY DEF Push
<1>3. pushed \in Nat /\ pushed' \in 0..MaxPushes
  BY <1>1, <1>2, LedgerTypes
<1>4. PICK m \in Messages : m = MaxRequests + pushed + 1
  BY <1>2, <1>3 DEF Messages
<1>5. PICK t \in Threads : t = <<"server", "user">> /\ t[1] = "server"
  BY ThreadsAre
<1>6. Begin(t[1], t, m)
  BY <1>4, <1>5 DEF Push
<1>7. /\ pc' \in [Threads -> {"idle", "fill", "size", "drain", "payload", "flush"}]
      /\ msg' \in [Threads -> Messages \cup {0}]
      /\ buffer' \in [Sides -> Seq(Word)] /\ raced' \subseteq Sides
  BY <1>1, <1>6, BeginTypes
<1>8. TypeOK'
  BY <1>1, <1>2, <1>3, <1>7 DEF TypeOK, config
<1>9. ASSUME raced' = {} PROVE InStep' /\ Ledger'
  <2>1. InStep'
    BY <1>1, <1>2, <1>6, <1>9, OnlyBegins
  <2>2. Unsent("server") = {} /\ Unsent("server")' = {m} /\ Unsent("client")' = Unsent("client")
    BY <1>1, <1>5, <1>6, <1>9, UnsentBegun
  <2>3. ClientLedger'
    BY <1>1, <1>2, <2>2, ClientLedgerSame
  <2>4. Owed(sent["server"], tasks, {}, Len(received["server"]), pushed)
    BY <1>1, <2>2 DEF ServerLedger
  <2>5. Len(received["server"]) <= MaxRequests
    BY <1>1, ReceivedBound
  <2>6. Owed(sent["server"], tasks, {m}, Len(received["server"]), pushed + 1)
    BY <1>1, <1>4, <2>4, <2>5, LedgerTypes, OwedPushed
  <2>7. ServerLedger'
    BY <1>2, <2>2, <2>6 DEF ServerLedger
  <2> QED
    BY <2>1, <2>3, <2>7 DEF Ledger
<1> QED
  BY <1>8, <1>9 DEF IInv

\* Thread t of the client begins a request; the server's part is as it was.
LEMMA RequestLedger ==
    ASSUME TypeOK, InStep, Ledger, raced = {}, raced' = {}, NEW t \in Threads, t[1] = "client",
           NEW m \in Messages, m = made + 1, made' = made + 1, Begin(t[1], t, m),
           UNCHANGED <<sent, tasks, pushed>>, received'["server"] = received["server"]
    PROVE  Ledger'
<1>1. "server" \in Sides /\ "client" \in Sides /\ ClientLedger /\ ServerLedger
  BY DEF Ledger, Sides
<1>2. Unsent("client") = {} /\ Unsent("client")' = {m} /\ Unsent("server")' = Unsent("server")
  BY <1>1, UnsentBegun
<1>3. Numbered(sent["client"], made, {})
  BY <1>1, <1>2 DEF ClientLedger
<1>4. Numbered(sent["client"], made + 1, {made + 1})
  BY <1>3, LedgerTypes, NumberedBegun
<1>5. ClientLedger'
  BY <1>2, <1>4 DEF ClientLedger
<1>6. ServerLedger'
  BY <1>1, <1>2 DEF ServerLedger
<1> QED
  BY <1>5, <1>6 DEF Ledger

LEMMA UserRequestsInv ==
    ASSUME IInv, raced = {}, UserRequests
    PROVE  IInv'
<1>1. TypeOK /\ InStep /\ Ledger
  BY DEF IInv
<1>2. /\ made < MaxRequests /\ made' = made + 1
      /\ UNCHANGED <<config, file, pipe, frame, tasks, ended, pushed, sent, received>>
  BY DEF UserRequests, Request
<1>3. PICK m \in Messages : m = made + 1
  BY <1>1, <1>2 DEF TypeOK, Messages
<1>4. PICK t \in Threads : t = <<"client", "user">> /\ t[1] = "client"
  BY ThreadsAre
<1>5. Begin(t[1], t, m)
  BY <1>3, <1>4 DEF UserRequests, Request
<1>6. /\ pc' \in [Threads -> {"idle", "fill", "size", "drain", "payload", "flush"}]
      /\ msg' \in [Threads -> Messages \cup {0}]
      /\ buffer' \in [Sides -> Seq(Word)] /\ raced' \subseteq Sides
  BY <1>1, <1>5, BeginTypes
<1>7. made' \in 0..MaxRequests
  BY <1>1, <1>2, LedgerTypes
<1>8. TypeOK'
  BY <1>1, <1>2, <1>6, <1>7 DEF TypeOK, config
<1>9. ASSUME raced' = {} PROVE InStep' /\ Ledger'
  <2>1. InStep'
    BY <1>1, <1>2, <1>5, <1>9, OnlyBegins
  <2>2. Ledger'
    BY <1>1, <1>2, <1>3, <1>4, <1>5, <1>9, RequestLedger
  <2> QED
    BY <2>1, <2>2
<1> QED
  BY <1>8, <1>9 DEF IInv

LEMMA CallbackInv ==
    ASSUME IInv, raced = {}, Callback
    PROVE  IInv'
<1>1. TypeOK /\ InStep /\ Ledger /\ "client" \in Sides /\ "server" \in Sides
  BY DEF IInv, Sides
<1>2. Complete("client") /\ Deliver("client") /\ UNCHANGED <<config, file, pipe, tasks, ended, sent>>
  BY DEF Callback
<1>3. frame' \in [Sides -> Seq(Words)] /\ received' \in [Sides -> Seq(Seq(Word))]
  BY <1>1, <1>2, DeliverTypes
<1>4. received'["server"] = received["server"]
  BY <1>1, <1>2 DEF Deliver, TypeOK
<1>5. CASE UNCHANGED <<pc, msg, buffer, counts, raced>>
  <2>1. TypeOK'
    BY <1>1, <1>2, <1>3, <1>5 DEF TypeOK, Words, config, counts
  <2>2. InStep'
    BY <1>1, <1>2, <1>5, DeliveredAndBegun
  <2>3. Unsent("server")' = Unsent("server") /\ Unsent("client")' = Unsent("client")
    BY <1>5 DEF Unsent
  <2>4. Ledger'
    BY <1>1, <1>2, <1>4, <1>5, <2>3 DEF Ledger, ClientLedger, ServerLedger, counts
  <2> QED
    BY <2>1, <2>2, <2>4 DEF IInv
<1>6. CASE Request(<<"client", "reader">>)
  <2>1. PICK t \in Threads : t = <<"client", "reader">> /\ t[1] = "client"
    BY ThreadsAre
  <2>2. made < MaxRequests /\ made' = made + 1 /\ UNCHANGED pushed
    BY <1>6 DEF Request
  <2>3. PICK m \in Messages : m = made + 1
    BY <1>1, <2>2 DEF TypeOK, Messages
  <2>4. Begin(t[1], t, m)
    BY <1>6, <2>1, <2>3 DEF Request
  <2>5. /\ pc' \in [Threads -> {"idle", "fill", "size", "drain", "payload", "flush"}]
        /\ msg' \in [Threads -> Messages \cup {0}]
        /\ buffer' \in [Sides -> Seq(Word)] /\ raced' \subseteq Sides
    BY <1>1, <2>4, BeginTypes
  <2>6. made' \in 0..MaxRequests
    BY <1>1, <2>2, LedgerTypes
  <2>7. TypeOK'
    BY <1>1, <1>2, <1>3, <2>2, <2>5, <2>6 DEF TypeOK, Words, config
  <2>8. ASSUME raced' = {} PROVE InStep' /\ Ledger'
    <3>1. InStep'
      BY <1>1, <1>2, <2>4, <2>8, DeliveredAndBegun
    <3>2. Ledger'
      BY <1>1, <1>2, <1>4, <2>1, <2>2, <2>3, <2>4, <2>8, RequestLedger
    <3> QED
      BY <3>1, <3>2
  <2> QED
    BY <2>7, <2>8 DEF IInv
<1> QED
  BY <1>5, <1>6 DEF Callback

-----------------------------------------------------------------------------
(* The theorems *)

LEMMA IInvInit == Init => IInv
<1> SUFFICES ASSUME Init PROVE IInv
  OBVIOUS
<1>1. TypeOK
  <2>1. apartment \in BOOLEAN /\ chaining \in BOOLEAN /\ ended \in BOOLEAN
    BY Zenon DEF Init
  <2>2. << >> \in Seq(Word) /\ << >> \in Seq(Word \cup Size) /\ << >> \in Seq(Messages)
        /\ << >> \in Seq(Seq(Word)) /\ Len(<< >>) <= Capacity
    OBVIOUS
  <2> QED
    BY <2>1, <2>2 DEF Init, TypeOK
<1>2. Ledger
  <2>1. /\ sent["client"] = << >> /\ sent["server"] = << >> /\ tasks = << >> /\ made = 0
        /\ Unsent("client") = {} /\ Unsent("server") = {}
    BY DEF Init, Sides, Unsent
  <2>2. ClientLedger
    BY <2>1 DEF ClientLedger, Numbered
  <2>3. ServerLedger
    BY <2>1 DEF ServerLedger, Owed
  <2> QED
    BY <2>2, <2>3 DEF Ledger
<1>3. OneAtATime /\ \A t \in Threads : Writing(t)
  BY DEF Init, OneAtATime, Writing
<1>4. ASSUME NEW s \in Sides PROVE Carried(s)
  <2>1. /\ frame[Other(s)] = << >> /\ pipe[s] = << >> /\ file[s] = << >>
        /\ sent[s] = << >> /\ received[Other(s)] = << >>
    BY SidesAre DEF Init
  <2>2. Wire(s) = << >>
    BY <2>1, ConcatEmptySeq DEF Wire
  <2>3. Missing(s) = 0
    BY DEF Init, Missing, HalfWritten
  <2> QED
    BY <2>1, <2>2, <2>3 DEF Carried, Framed, Arrived
<1> QED
  BY <1>1, <1>2, <1>3, <1>4 DEF IInv, InStep

LEMMA IInvStep == IInv /\ [Next]_vars => IInv'
<1>1. ASSUME IInv, Next PROVE IInv'
  BY <1>1, SendInv, TakeWordInv, HandleInv, ContinueInv, PushInv, UserRequestsInv, CallbackInv
     DEF Next
<1>2. ASSUME IInv, UNCHANGED vars PROVE IInv'
  <2>1. UNCHANGED <<writes, apartment, deferred, chaining, pc, msg, buffer, file, pipe, frame, tasks,
                    ended, made, pushed, sent, received, raced>>
    BY <1>2 DEF vars, config, counts
  <2>2. TypeOK'
    BY <1>2, <2>1 DEF IInv, TypeOK
  <2>3. ASSUME InStep PROVE InStep'
    <3>1. OneAtATime' /\ \A t \in Threads : Writing(t)'
      BY <2>1, <2>3 DEF InStep, OneAtATime, Writing
    <3>2. ASSUME NEW x \in Sides PROVE Carried(x)'
      <4>1. Wire(x)' = Wire(x) /\ (HalfWritten(x)' <=> HalfWritten(x))
        BY <2>1 DEF Wire, HalfWritten
      <4> QED
        BY <2>1, <2>3, <4>1, CarriedSame DEF InStep
    <3> QED
      BY <3>1, <3>2 DEF InStep
  <2>4. ASSUME Ledger PROVE Ledger'
    BY <2>1, <2>4 DEF Ledger, ClientLedger, ServerLedger, Unsent
  <2> QED
    BY <1>2, <2>1, <2>2, <2>3, <2>4 DEF IInv
<1> QED
  BY <1>1, <1>2

LEMMA Inductive == Spec => []IInv
  BY IInvInit, IInvStep, PTL DEF Spec

\* Messages cross the pipes whole and in order, in both directions, whatever the capacity, with
\* stdio and with send(), as long as no two threads of a session have serialized at once.
THEOREM MessagesArriveWhole == Spec => []WholeUnlessRaced
<1>1. IInv => WholeUnlessRaced
  <2> SUFFICES ASSUME IInv PROVE WholeUnlessRaced
    OBVIOUS
  <2>1. ASSUME raced = {}, NEW s \in Sides
        PROVE  /\ Len(received[s]) <= Len(sent[Other(s)])
               /\ \A j \in 1..Len(received[s]) : received[s][j] = Payload(sent[Other(s)][j])
    <3>1. PICK z \in Sides : z = Other(s) /\ s = Other(z)
      BY SidesAre
    <3>2. Carried(z)
      BY <2>1 DEF IInv, InStep
    <3> QED
      BY <3>1, <3>2 DEF Carried, Framed, Arrived
  <2> QED
    BY <2>1 DEF IInv, WholeUnlessRaced
<1> QED
  BY <1>1, Inductive, PTL

\* What an item received names is the message sent in its place.
LEMMA ItemSent ==
    ASSUME TypeOK, InStep, NEW s \in Sides, NEW j \in 1..Len(received[s])
    PROVE  j \in 1..Len(sent[Other(s)]) /\ Item(s, j) = sent[Other(s)][j]
<1>1. PICK z \in Sides : z = Other(s) /\ s = Other(z)
  BY SidesAre
<1>2. Len(received[s]) <= Len(sent[z]) /\ received[s][j] = Payload(sent[z][j])
  BY <1>1 DEF InStep, Carried, Framed, Arrived
<1>3. sent[z] \in Seq(Messages) /\ Len(received[s]) \in Nat
  BY <1>1, WireTypes
<1>4. j \in 1..Len(sent[z])
  BY <1>2, <1>3, LenProperties
<1>5. PICK m \in Messages : m = sent[z][j]
  BY <1>3, <1>4, ElementOfSeq
<1>6. Payload(m)[2].msg = m
  <2>1. Payload(m)[2] = [msg |-> m, at |-> 2]
    BY PayloadType
  <2> QED
    BY <2>1
<1> QED
  BY <1>1, <1>2, <1>4, <1>5, <1>6 DEF Item

\* Whatever is deferred, pushed and chained, the client gets no response twice and none to a request
\* that the server has not received, as long as no two threads of a session have serialized at once.
THEOREM EachIsAnsweredOnce == Spec => []AnsweredOnce
<1>1. IInv => AnsweredOnce
  <2> SUFFICES ASSUME IInv, raced = {}
               PROVE  /\ \A j, k \in 1..Len(received["client"]) :
                            Item("client", j) = Item("client", k) => j = k
                      /\ \A m \in Requests : Got("client", m) => Got("server", m)
    BY DEF AnsweredOnce
  <2>1. TypeOK /\ InStep /\ ClientLedger /\ ServerLedger
    BY DEF IInv, Ledger
  <2>2. /\ "client" \in Sides /\ "server" \in Sides
        /\ Other("client") = "server" /\ Other("server") = "client"
    BY DEF Sides, Other
  <2>3. \A j \in 1..Len(received["client"]) :
            j \in 1..Len(sent["server"]) /\ Item("client", j) = sent["server"][j]
    BY <2>1, <2>2, ItemSent
  <2>4. \A j, k \in 1..Len(sent["server"]) : sent["server"][j] = sent["server"][k] => j = k
    BY <2>1 DEF ServerLedger, Owed
  <2>5. ASSUME NEW m \in Requests, Got("client", m) PROVE Got("server", m)
    <3>1. PICK j \in 1..Len(received["client"]) : Item("client", j) = m
      BY <2>5 DEF Got
    <3>2. Known(m, Len(received["server"]), pushed)
      BY <2>1, <2>3, <3>1 DEF ServerLedger, Owed
    <3>3. m \in 1..Len(received["server"])
      BY <3>2 DEF Known, Requests
    <3>4. m \in 1..Len(sent["client"]) /\ Item("server", m) = sent["client"][m]
      BY <2>1, <2>2, <3>3, ItemSent
    <3>5. sent["client"][m] = m
      BY <2>1, <3>4 DEF ClientLedger, Numbered
    <3> QED
      BY <3>3, <3>4, <3>5 DEF Got
  <2> QED
    BY <2>3, <2>4, <2>5
<1> QED
  BY <1>1, Inductive, PTL
=============================================================================
