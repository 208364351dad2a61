-------------------------- MODULE ComEndpointProofs ---------------------------
(***************************************************************************)
(* Proofs about the COM endpoints, for any clients and any number of       *)
(* messages, however deep their calls nest: each channel is told once,     *)
(* messages keep their order, null pointers are used while a client        *)
(* connects and not later, and a client that is gone is called only by a   *)
(* session that was in a call for it.                                      *)
(***************************************************************************)
EXTENDS ComEndpoint, Integers, SequenceTheorems, TLAPS

-----------------------------------------------------------------------------
(* The calls, for stacks st and queues ib *)

Places == {"start", "query", "refused", "user", "wait", "busy", "uninit", "end", "drop", "leave"}
Returns == Apartments \X Nat \X {"query", "leave", "uninit", "user"}

Call == [op : ClientOps \cup ServerOps, of : Apartments, m : Nat, at : Places,
         ret : {<< >>} \cup Returns]

Queues == [Apartments -> Seq(Call)]

\* Calls into another apartment.
Remote == {"create", "advise", "write", "release", "sink_write", "sink_release"}
IntoClient == {"sink_write", "sink_release"}

\* Who calls whom, and where it goes on.
Answers(f, t) ==
    /\ f.op = "create" => t.op = "connect" /\ f.ret[3] = "query"
    /\ f.op = "advise" => t.op = "connect" /\ f.ret[3] = "leave"
    /\ f.op = "write" => t.op = "send" /\ f.ret[3] = "leave"
    /\ f.op = "release" => t.op = "destroy" /\ f.ret[3] = "uninit"
    /\ f.op = "sink_write" => t.op = "push" /\ f.ret[3] = "leave"
    /\ f.op = "sink_release" =>
        t.op \in {"advise", "write", "release", "disconnect"} /\ f.ret[3] = "leave"

\* The caller of f waits for it.
Awaited(st, f) ==
    /\ f.ret \in Returns
    /\ f.ret[1] = IF f.op \in IntoClient THEN "server" ELSE f.of
    /\ f.ret[2] \in 1..Len(st[f.ret[1]])
    /\ st[f.ret[1]][f.ret[2]].at = "wait"
    /\ st[f.ret[1]][f.ret[2]].of = f.of
    /\ Answers(f, st[f.ret[1]][f.ret[2]])

\* Calls are in the apartments that serve them.
InPlace(a, f) ==
    /\ f.op \in (IF a = "server" THEN ServerOps ELSE ClientOps)
    /\ a # "server" => f.of = a
    /\ f.op \notin Remote =>
        \/ f.ret = << >>
        \/ f.ret \in Returns /\ f.ret[3] \in {"user", "uninit"}

\* A call on a stack: its caller waits in another apartment or is right below it.
Stacked(st, a, i) ==
    /\ InPlace(a, st[a][i])
    /\ st[a][i].op \in Remote => Awaited(st, st[a][i])
    /\ st[a][i].op \notin Remote =>
        st[a][i].ret = << >> \/ (st[a][i].ret[1] = a /\ i > 1 /\ st[a][i].ret[2] = i - 1)
    /\ i < Len(st[a]) => st[a][i].at # "start"

\* A call in a queue.
Queued(st, ib, a, i) ==
    /\ InPlace(a, ib[a][i])
    /\ ib[a][i].op \in Remote /\ ib[a][i].at = "start"
    /\ Awaited(st, ib[a][i])

ReturnsTo(f, b, j) == f.ret # << >> /\ f.ret[1] = b /\ f.ret[2] = j

\* No call returns to place j of stack b.
Unawaiting(st, ib, b, j) ==
    /\ \A a \in Apartments : \A i \in 1..Len(st[a]) : ~ReturnsTo(st[a][i], b, j)
    /\ \A a \in Apartments : \A i \in 1..Len(ib[a]) : ~ReturnsTo(ib[a][i], b, j)

\* No two calls return to one place.
Apart(f, g) ==
    f.ret # << >> /\ g.ret # << >> => f.ret[1] # g.ret[1] \/ f.ret[2] # g.ret[2]

OneAnswer(st, ib) ==
    /\ \A a, b \in Apartments : \A i \in 1..Len(st[a]), j \in 1..Len(st[b]) :
        a # b \/ i # j => Apart(st[a][i], st[b][j])
    /\ \A a, b \in Apartments : \A i \in 1..Len(ib[a]), j \in 1..Len(ib[b]) :
        a # b \/ i # j => Apart(ib[a][i], ib[b][j])
    /\ \A a, b \in Apartments : \A i \in 1..Len(st[a]), j \in 1..Len(ib[b]) :
        Apart(st[a][i], ib[b][j])

Graph(st, ib) ==
    /\ st \in Queues /\ ib \in Queues
    /\ \A a \in Apartments : \A i \in 1..Len(st[a]) : Stacked(st, a, i)
    /\ \A a \in Apartments : \A i \in 1..Len(ib[a]) : Queued(st, ib, a, i)
    /\ OneAnswer(st, ib)

-----------------------------------------------------------------------------
(* What calls say about the two ends, for clients cl, sessions se, and those clients fr *)
(* whose sink the server has not got yet                                                *)

Fresh(k) == ~outbound[k] /\ sent["server"][k] = 0 /\ "stub" \notin sink[k]
FreshOnes == {k \in Clients : Fresh(k)}

\* Calls that may be the last to refer to a session.
Enders == {"advise", "write", "release", "disconnect"}

OnStack(a, i, f, cl, se, fr) ==
    /\ f.op \in {"connect", "end"} => i = 1
    /\ f.at \in {"end", "drop"} => f.op \in Enders
    /\ f.op = "connect" => cl[a] = "connecting" /\ (f.at = "query" => a \in fr)
    /\ f.op = "destroy" => cl[a] = "closing"
    /\ f.of \in Clients =>
        /\ f.at = "drop" => se[f.of] = "gone"
        /\ f.op = "create" => se[f.of] = "none" /\ f.of \in fr
        /\ f.op = "advise" /\ f.at = "start" => f.of \in fr

InQueue(f, se, fr) ==
    f.of \in Clients =>
        /\ f.op = "create" => se[f.of] = "none" /\ f.of \in fr
        /\ f.op = "advise" => f.of \in fr

OneDestroy(p) ==
    \A i, j \in 1..Len(p) : p[i].op = "destroy" /\ p[j].op = "destroy" => i = j

Claims(st, ib, cl, se, fr) ==
    /\ \A a \in Apartments : \A i \in 1..Len(st[a]) : OnStack(a, i, st[a][i], cl, se, fr)
    /\ \A a \in Apartments : \A i \in 1..Len(ib[a]) : InQueue(ib[a][i], se, fr)
    /\ \A a \in Apartments : OneDestroy(st[a])

\* The lives of client and session.
Lives(k) ==
    /\ client[k] = "none" => session[k] = "none" /\ Fresh(k) /\ sink[k] = {}
                             /\ told["client"][k] = 0
    /\ client[k] = "connecting" <=> "ctor" \in sink[k]
    /\ client[k] \in {"none", "connecting"} => sent["client"][k] = 0
    /\ told["client"][k] <= 1 /\ (told["client"][k] = 1 => sink[k] = {})
    /\ told["server"][k] = IF session[k] = "gone" THEN 1 ELSE 0
    /\ stub[k] => session[k] = "open"
    /\ session[k] = "open" => inbound[k]

-----------------------------------------------------------------------------
(* Messages *)

Carries(f, op, k) == f.op = op /\ f.of = k

\* The messages that calls op of client k carry in queue q are e, e + 1, ..., in order, and
\* none is later than s; all of them, if full.
Line(q, op, k, e, s) ==
    \A i \in 1..Len(q) :
        Carries(q[i], op, k) =>
            /\ q[i].m \in e..s
            /\ \A m \in e..q[i].m : \E j \in 1..i : Carries(q[j], op, k) /\ q[j].m = m
            /\ \A j \in 1..(i - 1) : Carries(q[j], op, k) => q[j].m < q[i].m

Full(q, op, k, e, s) ==
    \A m \in e..s : \E j \in 1..Len(q) : Carries(q[j], op, k) /\ q[j].m = m

\* The thread has such a call before it.
Begun(p, op, k) == p # << >> /\ Carries(p[Len(p)], op, k) /\ p[Len(p)].at = "start"

\* The first message that is not given yet to the channel, nor begun with.
Due(p, op, k, n) == IF Begun(p, op, k) THEN n + 2 ELSE n + 1

\* Messages of one direction: r is received, s sent, q the queue and p the stack of the
\* receiving apartment.
Numbers(n) == [i \in 1..n |-> i]

AsSent(r, s) == r = Numbers(Len(r)) /\ Len(r) <= s
Bounded(p, q, op, k, s) ==
    /\ \A i \in 1..Len(q) : Carries(q[i], op, k) => q[i].m \in 1..s
    /\ Begun(p, op, k) => p[Len(p)].m \in 1..s
InLine(p, q, op, k, r, s) ==
    /\ Begun(p, op, k) => p[Len(p)].m = Len(r) + 1
    /\ Line(q, op, k, Due(p, op, k, Len(r)), s)
NoneLost(p, q, op, k, r, s) == Full(q, op, k, Due(p, op, k, Len(r)), s)

ToServer(k) ==
    /\ AsSent(received["server"][k], sent["client"][k])
    /\ Bounded(stack["server"], inbox["server"], "write", k, sent["client"][k])
    /\ stub[k] =>
        /\ InLine(stack["server"], inbox["server"], "write", k, received["server"][k], sent["client"][k])
        /\ NoneLost(stack["server"], inbox["server"], "write", k, received["server"][k], sent["client"][k])

ToClient(k) ==
    /\ AsSent(received["client"][k], sent["server"][k])
    /\ Bounded(stack[k], inbox[k], "sink_write", k, sent["server"][k])
    /\ InLine(stack[k], inbox[k], "sink_write", k, received["client"][k], sent["server"][k])
    /\ "stub" \in sink[k] =>
        NoneLost(stack[k], inbox[k], "sink_write", k, received["client"][k], sent["server"][k])

IInv ==
    /\ TypeOK
    /\ Graph(stack, inbox)
    /\ Claims(stack, inbox, client, session, FreshOnes)
    /\ \A k \in Clients : Lives(k)
    /\ \A k \in Clients : ToServer(k) /\ ToClient(k)
    /\ CrashesOnlyInConnect

-----------------------------------------------------------------------------
(* Changes of stacks and queues *)

\* Place j of stack b gets to p.
Moved(st, st2, b, j, p) ==
    /\ st2 \in Queues
    /\ \A a \in Apartments : Len(st2[a]) = Len(st[a])
    /\ \A a \in Apartments : \A i \in 1..Len(st[a]) :
        /\ st2[a][i].op = st[a][i].op /\ st2[a][i].of = st[a][i].of
        /\ st2[a][i].m = st[a][i].m /\ st2[a][i].ret = st[a][i].ret
        /\ st2[a][i].at = IF a = b /\ i = j THEN p ELSE st[a][i].at

\* f comes to the end of q[a].
Grown(q, q2, a, f) ==
    /\ q2 \in Queues
    /\ \A b \in Apartments : Len(q2[b]) = IF b = a THEN Len(q[b]) + 1 ELSE Len(q[b])
    /\ \A b \in Apartments : \A i \in 1..Len(q[b]) : q2[b][i] = q[b][i]
    /\ q2[a][Len(q[a]) + 1] = f

\* The last of q[a] goes ...
Shrunk(q, q2, a) ==
    /\ q2 \in Queues
    /\ \A b \in Apartments : Len(q2[b]) = IF b = a THEN Len(q[b]) - 1 ELSE Len(q[b])
    /\ \A b \in Apartments : \A i \in 1..Len(q2[b]) : i \in 1..Len(q[b]) /\ q2[b][i] = q[b][i]

\* ... or the first.
Shifted(q, q2, a) ==
    /\ q2 \in Queues
    /\ \A b \in Apartments : Len(q2[b]) = IF b = a THEN Len(q[b]) - 1 ELSE Len(q[b])
    /\ \A b \in Apartments \ {a} : \A i \in 1..Len(q2[b]) : q2[b][i] = q[b][i]
    /\ \A i \in 1..Len(q2[a]) : i + 1 \in 1..Len(q[a]) /\ q2[a][i] = q[a][i + 1]

\* A queue is a finite sequence of calls.
LEMMA Lengths ==
    ASSUME NEW q \in Queues, NEW a \in Apartments
    PROVE  q[a] \in Seq(Call) /\ Len(q[a]) \in Nat /\ \A i \in 1..Len(q[a]) : q[a][i] \in Call
  BY LenProperties, ElementOfSeq DEF Queues

\* The place on top of a stack that is not empty.
LEMMA TopPlace ==
    ASSUME NEW q \in Queues, NEW a \in Apartments, q[a] # << >>
    PROVE  Len(q[a]) \in Nat /\ Len(q[a]) >= 1 /\ Len(q[a]) \in 1..Len(q[a])
<1>1. PICK c \in Seq(Call) : c = q[a]
  BY Lengths
<1>2. Len(c) \in Nat \ {0}
  BY <1>1, EmptySeq
<1> QED
  BY <1>1, <1>2

\* The fields of a call.
LEMMA Fields ==
    ASSUME NEW f \in Call
    PROVE  /\ f.op \in ClientOps \cup ServerOps /\ f.of \in Apartments /\ f.m \in Nat
           /\ f.at \in Places /\ f.ret \in {<< >>} \cup Returns
  BY DEF Call

\* The parts of a place to return to, which is never none.
LEMMA ReturnParts ==
    /\ \A r \in Returns : r[1] \in Apartments /\ r[2] \in Nat
                          /\ r[3] \in {"query", "leave", "uninit", "user"}
    /\ \A a, i, p : << a, i, p >> # << >>
    /\ \A r \in Returns : r # << >>
<1>1. \A a, i, p : << a, i, p >> # << >>
  OBVIOUS
<1> QED
  BY <1>1 DEF Returns

\* Setting "at" of one call moves it ...
LEMMA MovedIs ==
    ASSUME NEW st \in Queues, NEW b \in Apartments, NEW j \in 1..Len(st[b]), NEW p \in Places
    PROVE  Moved(st, [st EXCEPT ![b][j].at = p], b, j, p)
<1>1. PICK c \in Seq(Call) : c = st[b]
  BY Lengths
<1>2. Len(c) \in Nat /\ j \in 1..Len(c) /\ c[j] \in Call
  BY <1>1, Lengths
<1>3. PICK f \in Call : f = c[j]
  BY <1>2
<1>4. /\ [f EXCEPT !.at = p] \in Call /\ [f EXCEPT !.at = p].at = p
      /\ [f EXCEPT !.at = p].op = f.op /\ [f EXCEPT !.at = p].of = f.of
      /\ [f EXCEPT !.at = p].m = f.m /\ [f EXCEPT !.at = p].ret = f.ret
  BY DEF Call
<1>5. PICK g \in Call : g = [f EXCEPT !.at = p]
  BY <1>4
<1>6. /\ [c EXCEPT ![j] = g] \in Seq(Call) /\ Len([c EXCEPT ![j] = g]) = Len(c)
      /\ \A i \in 1..Len(c) : [c EXCEPT ![j] = g][i] = IF i = j THEN g ELSE c[i]
  BY <1>2, ExceptSeq
<1>7. PICK q \in Seq(Call) : q = [c EXCEPT ![j] = g]
  BY <1>6
<1>8. [st EXCEPT ![b][j].at = p] = [st EXCEPT ![b] = q]
  BY <1>1, <1>3, <1>5, <1>7
<1>9. [st EXCEPT ![b] = q] \in Queues
  BY DEF Queues
<1>10. \A a \in Apartments : [st EXCEPT ![b] = q][a] = IF a = b THEN q ELSE st[a]
  BY DEF Queues
<1>11. PICK st2 \in Queues : /\ st2 = [st EXCEPT ![b][j].at = p]
                             /\ \A a \in Apartments : st2[a] = IF a = b THEN q ELSE st[a]
  BY <1>8, <1>9, <1>10
<1>12. Len(q) = Len(c) /\ \A i \in 1..Len(c) : q[i] = IF i = j THEN g ELSE c[i]
  BY <1>6, <1>7
<1>13. g.at = p /\ g.op = f.op /\ g.of = f.of /\ g.m = f.m /\ g.ret = f.ret
  BY <1>4, <1>5
<1> QED
  BY <1>1, <1>3, <1>11, <1>12, <1>13 DEF Moved

\* ... appending to a queue makes it grow ...
LEMMA GrownIs ==
    ASSUME NEW q \in Queues, NEW a \in Apartments, NEW f \in Call
    PROVE  Grown(q, [q EXCEPT ![a] = Append(@, f)], a, f)
<1>1. PICK c \in Seq(Call) : c = q[a]
  BY Lengths
<1>2. Len(c) \in Nat
  BY <1>1, Lengths
<1>3. /\ Append(c, f) \in Seq(Call) /\ Len(Append(c, f)) = Len(c) + 1
      /\ Append(c, f)[Len(c) + 1] = f /\ \A i \in 1..Len(c) : Append(c, f)[i] = c[i]
  BY <1>2, AppendProperties
<1>4. PICK r \in Seq(Call) : r = Append(c, f)
  BY <1>3
<1>5. [q EXCEPT ![a] = Append(@, f)] = [q EXCEPT ![a] = r]
  BY <1>1, <1>4
<1>6. [q EXCEPT ![a] = r] \in Queues
  BY DEF Queues
<1>7. \A b \in Apartments : [q EXCEPT ![a] = r][b] = IF b = a THEN r ELSE q[b]
  BY DEF Queues
<1>8. PICK q2 \in Queues : /\ q2 = [q EXCEPT ![a] = Append(@, f)]
                           /\ \A b \in Apartments : q2[b] = IF b = a THEN r ELSE q[b]
  BY <1>5, <1>6, <1>7
<1>9. Len(r) = Len(c) + 1 /\ r[Len(c) + 1] = f /\ \A i \in 1..Len(c) : r[i] = c[i]
  BY <1>3, <1>4
<1> QED
  BY <1>1, <1>8, <1>9 DEF Grown

\* ... dropping its last shrinks it ...
LEMMA ShrunkIs ==
    ASSUME NEW q \in Queues, NEW a \in Apartments, q[a] # << >>
    PROVE  Shrunk(q, [q EXCEPT ![a] = SubSeq(@, 1, Len(@) - 1)], a)
<1>1. PICK c \in Seq(Call) : c = q[a] /\ c # << >>
  BY Lengths
<1>2. PICK n \in Nat : n = Len(c) /\ n >= 1
  BY <1>1, EmptySeq
<1>3. \A i \in 1..(n - 1) : 1 + i - 1 = i /\ i \in 1..n
  BY <1>2
<1>4. \A i \in 1..(n - 1) : c[i] \in Call
  BY <1>2, <1>3, ElementOfSeq
<1>5. /\ SubSeq(c, 1, n - 1) \in Seq(Call)
      /\ Len(SubSeq(c, 1, n - 1)) = IF 1 <= n - 1 THEN (n - 1) - 1 + 1 ELSE 0
      /\ \A i \in 1..((n - 1) - 1 + 1) : SubSeq(c, 1, n - 1)[i] = c[1 + i - 1]
  BY <1>2, <1>4, SubSeqProperties
<1>6. PICK r \in Seq(Call) : r = SubSeq(c, 1, n - 1)
  BY <1>5
<1>7. Len(r) = n - 1 /\ \A i \in 1..(n - 1) : r[i] = c[i]
  BY <1>2, <1>3, <1>5, <1>6
<1>8. [q EXCEPT ![a] = SubSeq(@, 1, Len(@) - 1)] = [q EXCEPT ![a] = r]
  BY <1>1, <1>2, <1>6
<1>9. [q EXCEPT ![a] = r] \in Queues
  BY DEF Queues
<1>10. \A b \in Apartments : [q EXCEPT ![a] = r][b] = IF b = a THEN r ELSE q[b]
  BY DEF Queues
<1>11. PICK q2 \in Queues : /\ q2 = [q EXCEPT ![a] = SubSeq(@, 1, Len(@) - 1)]
                            /\ \A b \in Apartments : q2[b] = IF b = a THEN r ELSE q[b]
  BY <1>8, <1>9, <1>10
<1> QED
  BY <1>1, <1>2, <1>3, <1>7, <1>11, SMTT(30) DEF Shrunk

\* ... and dropping its first shifts it.
LEMMA ShiftedIs ==
    ASSUME NEW q \in Queues, NEW a \in Apartments, q[a] # << >>
    PROVE  Shifted(q, [q EXCEPT ![a] = Tail(@)], a) /\ Head(q[a]) = q[a][1] /\ Len(q[a]) >= 1
<1>1. PICK c \in Seq(Call) : c = q[a] /\ c # << >>
  BY Lengths
<1>2. PICK n \in Nat : n = Len(c) /\ n >= 1
  BY <1>1, EmptySeq
<1>3. /\ Tail(c) \in Seq(Call) /\ Len(Tail(c)) = n - 1
      /\ \A i \in 1..Len(Tail(c)) : Tail(c)[i] = c[i + 1]
  BY <1>1, <1>2, HeadTailProperties
<1>4. PICK r \in Seq(Call) : r = Tail(c)
  BY <1>3
<1>5. Len(r) = n - 1 /\ \A i \in 1..(n - 1) : r[i] = c[i + 1] /\ i + 1 \in 1..n
  BY <1>2, <1>3, <1>4
<1>6. [q EXCEPT ![a] = Tail(@)] = [q EXCEPT ![a] = r]
  BY <1>1, <1>4
<1>7. [q EXCEPT ![a] = r] \in Queues
  BY DEF Queues
<1>8. \A b \in Apartments : [q EXCEPT ![a] = r][b] = IF b = a THEN r ELSE q[b]
  BY DEF Queues
<1>9. PICK q2 \in Queues : /\ q2 = [q EXCEPT ![a] = Tail(@)]
                           /\ \A b \in Apartments : q2[b] = IF b = a THEN r ELSE q[b]
  BY <1>6, <1>7, <1>8
<1>10. Head(c) = c[1]
  BY <1>1
<1> QED
  BY <1>1, <1>2, <1>5, <1>9, <1>10 DEF Shifted

-----------------------------------------------------------------------------
(* Changes keep the calls in order *)

\* No call returns to a thread that does not wait.
LEMMA TopIsFree ==
    ASSUME NEW st, NEW ib, Graph(st, ib), NEW a \in Apartments, NEW n \in 1..Len(st[a]),
           n = Len(st[a]), st[a][n].at # "wait"
    PROVE  Unawaiting(st, ib, a, n)
<1>1. ASSUME NEW b \in Apartments, NEW i \in 1..Len(st[b]), ReturnsTo(st[b][i], a, n)
      PROVE  FALSE
  <2>1. Stacked(st, b, i)
    BY DEF Graph
  <2>2. CASE st[b][i].op \in Remote
    BY <1>1, <2>1, <2>2 DEF Stacked, Awaited, ReturnsTo
  <2>3. CASE st[b][i].op \notin Remote
    <3>1. b = a /\ n = i - 1
      BY <1>1, <2>1, <2>3 DEF Stacked, ReturnsTo
    <3> QED
      BY <3>1, Lengths DEF Graph
  <2> QED
    BY <2>2, <2>3
<1>2. ASSUME NEW b \in Apartments, NEW i \in 1..Len(ib[b]), ReturnsTo(ib[b][i], a, n)
      PROVE  FALSE
  <2>1. PICK g : g = ib[b][i] /\ Awaited(st, g)
    BY DEF Graph, Queued
  <2>2. g.ret[1] = a /\ g.ret[2] = n
    BY <1>2, <2>1 DEF ReturnsTo
  <2>3. st[g.ret[1]][g.ret[2]].at = "wait"
    BY <2>1 DEF Awaited
  <2> QED
    BY <2>2, <2>3
<1> QED
  BY <1>1, <1>2 DEF Unawaiting

\* A call whose caller is untouched is awaited still.
LEMMA StillAwaited ==
    ASSUME NEW st, NEW st2, NEW f, Awaited(st, f),
           Len(st2[f.ret[1]]) >= f.ret[2], Len(st2[f.ret[1]]) \in Nat,
           st2[f.ret[1]][f.ret[2]].at = st[f.ret[1]][f.ret[2]].at,
           st2[f.ret[1]][f.ret[2]].of = st[f.ret[1]][f.ret[2]].of,
           st2[f.ret[1]][f.ret[2]].op = st[f.ret[1]][f.ret[2]].op
    PROVE  Awaited(st2, f)
<1>1. f.ret[2] \in Nat
  BY ReturnParts DEF Awaited
<1>2. f.ret[2] \in 1..Len(st2[f.ret[1]])
  BY <1>1 DEF Awaited
<1> QED
  BY <1>2 DEF Awaited, Answers

\* The graph of calls is kept when a call nobody returns to moves ...
LEMMA GraphMoved ==
    ASSUME NEW st, NEW ib, Graph(st, ib), NEW b \in Apartments, NEW j \in 1..Len(st[b]),
           Unawaiting(st, ib, b, j), NEW p \in Places, p # "start", NEW st2,
           Moved(st, st2, b, j, p)
    PROVE  Graph(st2, ib)
<1>1. st \in Queues /\ ib \in Queues /\ st2 \in Queues
  BY DEF Graph, Moved
<1>2. ASSUME NEW f, Awaited(st, f), ~ReturnsTo(f, b, j)
      PROVE  Awaited(st2, f)
  <2>1. f.ret[1] \in Apartments /\ f.ret[2] \in 1..Len(st[f.ret[1]]) /\ f.ret # << >>
    BY <1>2, ReturnParts DEF Awaited
  <2>2. f.ret[1] # b \/ f.ret[2] # j
    BY <1>2, <2>1 DEF ReturnsTo
  <2>3. Len(st2[f.ret[1]]) = Len(st[f.ret[1]]) /\ Len(st[f.ret[1]]) \in Nat
    BY <1>1, <2>1, Lengths DEF Moved
  <2>4. /\ st2[f.ret[1]][f.ret[2]].at = st[f.ret[1]][f.ret[2]].at
        /\ st2[f.ret[1]][f.ret[2]].of = st[f.ret[1]][f.ret[2]].of
        /\ st2[f.ret[1]][f.ret[2]].op = st[f.ret[1]][f.ret[2]].op
    BY <2>1, <2>2 DEF Moved
  <2>5. Len(st2[f.ret[1]]) >= f.ret[2]
    BY <2>1, <2>3
  <2> QED
    BY <1>2, <2>3, <2>4, <2>5, StillAwaited
<1>3. ASSUME NEW a \in Apartments, NEW i \in 1..Len(st2[a])
      PROVE  Stacked(st2, a, i)
  <2>1. i \in 1..Len(st[a]) /\ Len(st2[a]) = Len(st[a])
    BY DEF Moved
  <2>2. Stacked(st, a, i) /\ ~ReturnsTo(st[a][i], b, j)
    BY <2>1 DEF Graph, Unawaiting
  <2>3. /\ st2[a][i].op = st[a][i].op /\ st2[a][i].of = st[a][i].of
        /\ st2[a][i].ret = st[a][i].ret
        /\ st2[a][i].at = IF a = b /\ i = j THEN p ELSE st[a][i].at
    BY <2>1 DEF Moved
  <2>4. InPlace(a, st2[a][i])
    BY <2>2, <2>3 DEF Stacked, InPlace
  <2>5. ASSUME st2[a][i].op \in Remote PROVE Awaited(st2, st2[a][i])
    <3>1. Awaited(st2, st[a][i])
      BY <1>2, <2>2, <2>3, <2>5 DEF Stacked
    <3> QED
      BY <2>3, <3>1 DEF Awaited, Answers
  <2> QED
    BY <2>1, <2>2, <2>3, <2>4, <2>5 DEF Stacked
<1>4. ASSUME NEW a \in Apartments, NEW i \in 1..Len(ib[a])
      PROVE  Queued(st2, ib, a, i)
  <2>1. Queued(st, ib, a, i) /\ ~ReturnsTo(ib[a][i], b, j)
    BY DEF Graph, Unawaiting
  <2> QED
    BY <1>2, <2>1 DEF Queued
<1>5. \A a \in Apartments : \A i \in 1..Len(st2[a]) : i \in 1..Len(st[a]) /\ st2[a][i].ret = st[a][i].ret
  BY DEF Moved
<1>6. OneAnswer(st2, ib)
  <2>0. OneAnswer(st, ib)
    BY DEF Graph
  <2>1. ASSUME NEW x \in Apartments, NEW y \in Apartments,
               NEW i \in 1..Len(st2[x]), NEW k \in 1..Len(st2[y]), x # y \/ i # k
        PROVE  Apart(st2[x][i], st2[y][k])
    <3>1. Apart(st[x][i], st[y][k])
      BY <1>5, <2>0, <2>1 DEF OneAnswer
    <3> QED
      BY <1>5, <3>1 DEF Apart
  <2>2. ASSUME NEW x \in Apartments, NEW y \in Apartments,
               NEW i \in 1..Len(st2[x]), NEW k \in 1..Len(ib[y])
        PROVE  Apart(st2[x][i], ib[y][k])
    <3>1. Apart(st[x][i], ib[y][k])
      BY <1>5, <2>0 DEF OneAnswer
    <3> QED
      BY <1>5, <3>1 DEF Apart
  <2> QED
    BY <2>0, <2>1, <2>2 DEF OneAnswer
<1> QED
  BY <1>1, <1>3, <1>4, <1>6 DEF Graph

\* ... as is who returns where;
LEMMA FreeMoved ==
    ASSUME NEW st, NEW ib, NEW b, NEW j, NEW p, NEW st2, Moved(st, st2, b, j, p), NEW x, NEW y,
           Unawaiting(st, ib, x, y)
    PROVE  Unawaiting(st2, ib, x, y)
  BY DEF Moved, Unawaiting, ReturnsTo
\* ... when a call is pushed ...
LEMMA GraphGrown ==
    ASSUME NEW st, NEW ib, Graph(st, ib), NEW a \in Apartments, NEW f \in Call,
           InPlace(a, f), st[a] # << >> => st[a][Len(st[a])].at # "start",
           f.op \in Remote => Awaited(st, f),
           f.op \notin Remote =>
                f.ret = << >> \/ (f.ret[1] = a /\ f.ret[2] = Len(st[a]) /\ Len(st[a]) >= 1),
           f.ret # << >> => Unawaiting(st, ib, f.ret[1], f.ret[2]), NEW st2,
           Grown(st, st2, a, f)
    PROVE  Graph(st2, ib)
<1>1. st \in Queues /\ ib \in Queues /\ st2 \in Queues
  BY DEF Graph, Grown
<1>2. PICK n \in Nat : n = Len(st[a]) /\ Len(st2[a]) = n + 1 /\ st2[a][n + 1] = f
  BY <1>1, Lengths DEF Grown
<1>3. ASSUME NEW g, Awaited(st, g)
      PROVE  Awaited(st2, g)
  <2>1. g.ret[1] \in Apartments /\ g.ret[2] \in 1..Len(st[g.ret[1]]) /\ g.ret[2] \in Nat
    BY <1>3, ReturnParts DEF Awaited
  <2>2. Len(st2[g.ret[1]]) >= Len(st[g.ret[1]]) /\ Len(st2[g.ret[1]]) \in Nat /\ Len(st[g.ret[1]]) \in Nat
    BY <1>1, <2>1, Lengths DEF Grown
  <2>3. st2[g.ret[1]][g.ret[2]] = st[g.ret[1]][g.ret[2]]
    BY <2>1 DEF Grown
  <2>4. Len(st2[g.ret[1]]) >= g.ret[2]
    BY <2>1, <2>2
  <2> QED
    BY <1>3, <2>2, <2>3, <2>4, StillAwaited
<1>4. ASSUME NEW b \in Apartments, NEW i \in 1..Len(st2[b])
      PROVE  (b = a /\ i = n + 1 /\ st2[b][i] = f) \/ (i \in 1..Len(st[b]) /\ st2[b][i] = st[b][i])
  <2>1. CASE b = a
    <3>1. i \in 1..n \/ i = n + 1
      BY <1>2, <2>1
    <3> QED
      BY <1>2, <2>1, <3>1 DEF Grown
  <2>2. CASE b # a
    BY <2>2 DEF Grown
  <2> QED
    BY <2>1, <2>2
<1>5. ASSUME NEW b \in Apartments, NEW i \in 1..Len(st2[b])
      PROVE  Stacked(st2, b, i)
  <2>1. CASE b = a /\ i = n + 1 /\ st2[b][i] = f
    <3>1. f.op \in Remote => Awaited(st2, f)
      BY <1>3
    <3>2. f.op \notin Remote => f.ret = << >> \/ (f.ret[1] = a /\ n + 1 > 1 /\ f.ret[2] = (n + 1) - 1)
      BY <1>2
    <3>3. ~(i < Len(st2[b]))
      BY <1>2, <2>1
    <3> QED
      BY <2>1, <3>1, <3>2, <3>3 DEF Stacked
  <2>2. CASE i \in 1..Len(st[b]) /\ st2[b][i] = st[b][i]
    <3>1. Stacked(st, b, i)
      BY <2>2 DEF Graph
    <3>2. ASSUME i < Len(st2[b]) PROVE st[b][i].at # "start"
      <4>1. CASE i < Len(st[b])
        BY <3>1, <4>1 DEF Stacked
      <4>2. CASE ~(i < Len(st[b]))
        <5>1. b = a /\ i = n
          BY <1>1, <1>2, <2>2, <3>2, <4>2, Lengths DEF Grown
        <5>2. st[a] # << >>
          BY <1>2, <2>2, <5>1
        <5> QED
          BY <1>2, <5>1, <5>2
      <4> QED
        BY <4>1, <4>2
    <3>3. st[b][i].op \in Remote => Awaited(st2, st[b][i])
      BY <1>3, <3>1 DEF Stacked
    <3> QED
      BY <2>2, <3>1, <3>2, <3>3 DEF Stacked
  <2> QED
    BY <1>4, <2>1, <2>2
<1>6. ASSUME NEW b \in Apartments, NEW i \in 1..Len(ib[b])
      PROVE  Queued(st2, ib, b, i)
  BY <1>3 DEF Graph, Queued
<1>7. ASSUME f.ret # << >>
      PROVE  /\ \A b \in Apartments : \A i \in 1..Len(st[b]) : Apart(f, st[b][i]) /\ Apart(st[b][i], f)
             /\ \A b \in Apartments : \A i \in 1..Len(ib[b]) : Apart(f, ib[b][i])
  BY <1>7 DEF Unawaiting, ReturnsTo, Apart
<1>8. /\ \A b \in Apartments : \A i \in 1..Len(st[b]) : Apart(f, st[b][i]) /\ Apart(st[b][i], f)
      /\ \A b \in Apartments : \A i \in 1..Len(ib[b]) : Apart(f, ib[b][i])
  BY <1>7 DEF Apart
<1>9. OneAnswer(st2, ib)
  <2>0. OneAnswer(st, ib)
    BY DEF Graph
  <2>1. ASSUME NEW x \in Apartments, NEW y \in Apartments,
               NEW i \in 1..Len(st2[x]), NEW k \in 1..Len(st2[y]), x # y \/ i # k
        PROVE  Apart(st2[x][i], st2[y][k])
    <3>1. CASE x = a /\ i = n + 1 /\ st2[x][i] = f
      BY <1>4, <1>8, <2>1, <3>1
    <3>2. CASE y = a /\ k = n + 1 /\ st2[y][k] = f
      BY <1>4, <1>8, <2>1, <3>2
    <3>3. CASE i \in 1..Len(st[x]) /\ st2[x][i] = st[x][i] /\ k \in 1..Len(st[y]) /\ st2[y][k] = st[y][k]
      BY <2>0, <2>1, <3>3 DEF OneAnswer
    <3> QED
      BY <1>4, <3>1, <3>2, <3>3
  <2>2. ASSUME NEW x \in Apartments, NEW y \in Apartments,
               NEW i \in 1..Len(st2[x]), NEW k \in 1..Len(ib[y])
        PROVE  Apart(st2[x][i], ib[y][k])
    BY <1>4, <1>8, <2>0 DEF OneAnswer
  <2> QED
    BY <2>0, <2>1, <2>2 DEF OneAnswer
<1> QED
  BY <1>1, <1>5, <1>6, <1>9 DEF Graph

\* ... which returns to its own place only;
LEMMA FreeGrown ==
    ASSUME NEW st \in Queues, NEW ib, NEW a \in Apartments, NEW f, NEW st2, Grown(st, st2, a, f),
           NEW x, NEW y, Unawaiting(st, ib, x, y), ~ReturnsTo(f, x, y)
    PROVE  Unawaiting(st2, ib, x, y)
<1>1. ASSUME NEW b \in Apartments, NEW i \in 1..Len(st2[b])
      PROVE  ~ReturnsTo(st2[b][i], x, y)
  <2>1. CASE i \in 1..Len(st[b])
    BY <2>1 DEF Grown, Unawaiting
  <2>2. CASE i \notin 1..Len(st[b])
    <3>1. b = a /\ i = Len(st[a]) + 1
      BY <2>2, Lengths DEF Grown
    <3> QED
      BY <3>1 DEF Grown
  <2> QED
    BY <2>1, <2>2
<1> QED
  BY <1>1 DEF Unawaiting

\* ... when the call on top returns ...
LEMMA GraphShrunk ==
    ASSUME NEW st, NEW ib, Graph(st, ib), NEW a \in Apartments, NEW n \in 1..Len(st[a]),
           n = Len(st[a]), Unawaiting(st, ib, a, n), NEW st2, Shrunk(st, st2, a)
    PROVE  /\ Graph(st2, ib)
           /\ st[a][n].ret # << >> => Unawaiting(st2, ib, st[a][n].ret[1], st[a][n].ret[2])
<1>1. st \in Queues /\ ib \in Queues /\ st2 \in Queues
  BY DEF Graph, Shrunk
<1>2. n \in Nat /\ Len(st2[a]) = n - 1
  BY <1>1, Lengths DEF Shrunk
<1>3. ASSUME NEW g, Awaited(st, g), ~ReturnsTo(g, a, n)
      PROVE  Awaited(st2, g)
  <2>1. g.ret[1] \in Apartments /\ g.ret[2] \in 1..Len(st[g.ret[1]]) /\ g.ret[2] \in Nat /\ g.ret # << >>
    BY <1>3, ReturnParts DEF Awaited
  <2>2. g.ret[1] # a \/ g.ret[2] # n
    BY <1>3, <2>1 DEF ReturnsTo
  <2>3. g.ret[2] \in 1..Len(st2[g.ret[1]]) /\ Len(st2[g.ret[1]]) \in Nat
    BY <1>1, <1>2, <2>1, <2>2, Lengths, SMTT(30) DEF Shrunk
  <2>4. st2[g.ret[1]][g.ret[2]] = st[g.ret[1]][g.ret[2]]
    BY <2>1, <2>3 DEF Shrunk
  <2>5. Len(st2[g.ret[1]]) >= g.ret[2]
    BY <2>3
  <2> QED
    BY <1>3, <2>3, <2>4, <2>5, StillAwaited
<1>4. ASSUME NEW b \in Apartments, NEW i \in 1..Len(st2[b])
      PROVE  /\ i \in 1..Len(st[b]) /\ st2[b][i] = st[b][i] /\ (b # a \/ i # n)
             /\ i < Len(st2[b]) => i < Len(st[b])
  BY <1>1, <1>2, Lengths DEF Shrunk
<1>5. ASSUME NEW b \in Apartments, NEW i \in 1..Len(st2[b])
      PROVE  Stacked(st2, b, i)
  <2>1. Stacked(st, b, i) /\ ~ReturnsTo(st[b][i], a, n)
    BY <1>4 DEF Graph, Unawaiting
  <2>2. st[b][i].op \in Remote => Awaited(st2, st[b][i])
    BY <1>3, <2>1 DEF Stacked
  <2> QED
    BY <1>4, <2>1, <2>2 DEF Stacked
<1>6. ASSUME NEW b \in Apartments, NEW i \in 1..Len(ib[b])
      PROVE  Queued(st2, ib, b, i)
  BY <1>3 DEF Graph, Queued, Unawaiting
<1>7. OneAnswer(st, ib)
  BY DEF Graph
<1>8. OneAnswer(st2, ib)
  BY <1>4, <1>7 DEF OneAnswer
<1>9. ASSUME st[a][n].ret # << >>
      PROVE  Unawaiting(st2, ib, st[a][n].ret[1], st[a][n].ret[2])
  <2>1. \A b \in Apartments : \A i \in 1..Len(st2[b]) : Apart(st[a][n], st2[b][i])
    BY <1>4, <1>7, SMTT(30) DEF OneAnswer
  <2>2. \A b \in Apartments : \A i \in 1..Len(ib[b]) : Apart(st[a][n], ib[b][i])
    BY <1>7 DEF OneAnswer
  <2> QED
    BY <1>9, <2>1, <2>2 DEF Apart, Unawaiting, ReturnsTo
<1> QED
  BY <1>1, <1>5, <1>6, <1>8, <1>9 DEF Graph

\* ... when a call is queued ...
LEMMA GraphQueued ==
    ASSUME NEW st, NEW ib, Graph(st, ib), NEW b \in Apartments, NEW f \in Call,
           InPlace(b, f), f.op \in Remote, f.at = "start", Awaited(st, f),
           Unawaiting(st, ib, f.ret[1], f.ret[2]), NEW ib2, Grown(ib, ib2, b, f)
    PROVE  Graph(st, ib2)
<1>1. st \in Queues /\ ib \in Queues /\ ib2 \in Queues
  BY DEF Graph, Grown
<1>2. PICK n \in Nat : n = Len(ib[b]) /\ Len(ib2[b]) = n + 1 /\ ib2[b][n + 1] = f
  BY <1>1, Lengths DEF Grown
<1>3. ASSUME NEW a \in Apartments, NEW i \in 1..Len(ib2[a])
      PROVE  (a = b /\ i = n + 1 /\ ib2[a][i] = f) \/ (i \in 1..Len(ib[a]) /\ ib2[a][i] = ib[a][i])
  <2>1. CASE a = b
    <3>1. i \in 1..n \/ i = n + 1
      BY <1>2, <2>1
    <3> QED
      BY <1>2, <2>1, <3>1 DEF Grown
  <2>2. CASE a # b
    BY <2>2 DEF Grown
  <2> QED
    BY <2>1, <2>2
<1>4. ASSUME NEW a \in Apartments, NEW i \in 1..Len(ib2[a])
      PROVE  Queued(st, ib2, a, i)
  BY <1>3 DEF Graph, Queued
<1>5. /\ \A a \in Apartments : \A i \in 1..Len(ib[a]) : Apart(f, ib[a][i]) /\ Apart(ib[a][i], f)
      /\ \A a \in Apartments : \A i \in 1..Len(st[a]) : Apart(st[a][i], f)
  BY DEF Unawaiting, ReturnsTo, Apart
<1>6. OneAnswer(st, ib)
  BY DEF Graph
<1>7. ASSUME NEW x \in Apartments, NEW y \in Apartments,
             NEW i \in 1..Len(ib2[x]), NEW k \in 1..Len(ib2[y]), x # y \/ i # k
      PROVE  Apart(ib2[x][i], ib2[y][k])
  <2>1. CASE x = b /\ i = n + 1 /\ ib2[x][i] = f
    BY <1>3, <1>5, <1>7, <2>1
  <2>2. CASE y = b /\ k = n + 1 /\ ib2[y][k] = f
    BY <1>3, <1>5, <1>7, <2>2
  <2>3. CASE i \in 1..Len(ib[x]) /\ ib2[x][i] = ib[x][i] /\ k \in 1..Len(ib[y]) /\ ib2[y][k] = ib[y][k]
    BY <1>6, <1>7, <2>3 DEF OneAnswer
  <2> QED
    BY <1>3, <2>1, <2>2, <2>3
<1>8. ASSUME NEW x \in Apartments, NEW y \in Apartments,
             NEW i \in 1..Len(st[x]), NEW k \in 1..Len(ib2[y])
      PROVE  Apart(st[x][i], ib2[y][k])
  BY <1>3, <1>5, <1>6 DEF OneAnswer
<1>9. OneAnswer(st, ib2)
  BY <1>6, <1>7, <1>8 DEF OneAnswer
<1> QED
  BY <1>1, <1>4, <1>9 DEF Graph

\* ... and when one is taken from its queue.
LEMMA GraphShifted ==
    ASSUME NEW st, NEW ib, Graph(st, ib), NEW a \in Apartments, Len(ib[a]) >= 1, NEW ib2,
           Shifted(ib, ib2, a)
    PROVE  /\ Graph(st, ib2)
           /\ Unawaiting(st, ib2, ib[a][1].ret[1], ib[a][1].ret[2])
<1>1. st \in Queues /\ ib \in Queues /\ ib2 \in Queues
  BY DEF Graph, Shifted
<1>2. PICK h \in [Apartments -> {0, 1}] : h = [b \in Apartments |-> IF b = a THEN 1 ELSE 0]
  OBVIOUS
<1>3. ASSUME NEW b \in Apartments, NEW i \in 1..Len(ib2[b])
      PROVE  /\ i + h[b] \in 1..Len(ib[b]) /\ ib2[b][i] = ib[b][i + h[b]] /\ i \in Nat /\ h[b] \in {0, 1}
             /\ b # a \/ i + h[b] # 1
  <2>1. i \in Nat /\ i >= 1
    BY <1>1, Lengths
  <2>2. CASE b = a
    BY <1>2, <2>1, <2>2 DEF Shifted
  <2>3. CASE b # a
    BY <1>2, <2>1, <2>3 DEF Shifted
  <2> QED
    BY <2>2, <2>3
<1>4. OneAnswer(st, ib)
  BY DEF Graph
<1>5. ASSUME NEW b \in Apartments, NEW i \in 1..Len(ib2[b])
      PROVE  Queued(st, ib2, b, i)
  BY <1>3 DEF Graph, Queued
<1>6. ASSUME NEW x \in Apartments, NEW y \in Apartments,
             NEW i \in 1..Len(ib2[x]), NEW k \in 1..Len(ib2[y]), x # y \/ i # k
      PROVE  Apart(ib2[x][i], ib2[y][k])
  <2>1. x # y \/ i + h[x] # k + h[y]
    BY <1>3, <1>6
  <2> QED
    BY <1>3, <1>4, <2>1, SMTT(30) DEF OneAnswer
<1>7. ASSUME NEW x \in Apartments, NEW y \in Apartments,
             NEW i \in 1..Len(st[x]), NEW k \in 1..Len(ib2[y])
      PROVE  Apart(st[x][i], ib2[y][k])
  BY <1>3, <1>4 DEF OneAnswer
<1>8. OneAnswer(st, ib2)
  BY <1>4, <1>6, <1>7 DEF OneAnswer
<1>9. 1 \in 1..Len(ib[a]) /\ ib[a][1].ret # << >>
  <2>1. 1 \in 1..Len(ib[a])
    BY <1>1, Lengths
  <2>2. Awaited(st, ib[a][1])
    BY <2>1 DEF Graph, Queued
  <2> QED
    BY <2>1, <2>2, ReturnParts DEF Awaited
<1>10. \A b \in Apartments : \A i \in 1..Len(ib2[b]) : Apart(ib[a][1], ib2[b][i])
  BY <1>3, <1>4, <1>9 DEF OneAnswer
<1>11. \A b \in Apartments : \A i \in 1..Len(st[b]) : Apart(st[b][i], ib[a][1])
  BY <1>4, <1>9 DEF OneAnswer
<1>12. Unawaiting(st, ib2, ib[a][1].ret[1], ib[a][1].ret[2])
  BY <1>9, <1>10, <1>11 DEF Apart, Unawaiting, ReturnsTo
<1> QED
  BY <1>1, <1>5, <1>8, <1>12 DEF Graph
-----------------------------------------------------------------------------
(* Changes keep what calls say *)

Calls(st, ib, cl, se, fr) == Graph(st, ib) /\ Claims(st, ib, cl, se, fr)

\* No thread begins with a message or leaves the beginning of one.
Still(st, st2) ==
    \A a \in Apartments, k \in Clients : \A op \in {"write", "sink_write"} :
        /\ Begun(st2[a], op, k) <=> Begun(st[a], op, k)
        /\ Begun(st[a], op, k) => st2[a][Len(st2[a])].m = st[a][Len(st[a])].m

\* Two steps, one after the other.
LEMMA StillTransitive ==
    ASSUME NEW st, NEW st1, NEW st2, Still(st, st1), Still(st1, st2)
    PROVE  Still(st, st2)
  BY DEF Still

\* What calls say about the two ends is kept when a call moves to where it may be ...
LEMMA CallsMove ==
    ASSUME NEW st, NEW ib, NEW cl, NEW se, NEW fr, Calls(st, ib, cl, se, fr),
           NEW b \in Apartments, NEW j \in 1..Len(st[b]), Unawaiting(st, ib, b, j),
           NEW p \in Places, p # "start", p = "query" => b \in fr,
           p = "drop" => se[st[b][j].of] = "gone", p \in {"end", "drop"} => st[b][j].op \in Enders,
           NEW st2, Moved(st, st2, b, j, p)
    PROVE  Calls(st2, ib, cl, se, fr) /\ (st[b][j].at # "start" => Still(st, st2))
<1>1. st \in Queues /\ ib \in Queues
  BY DEF Calls, Graph
<1>2. Graph(st, ib)
  BY DEF Calls
<1>3. Graph(st2, ib)
  BY <1>2, GraphMoved
<1>4. Claims(st, ib, cl, se, fr)
  BY DEF Calls
<1>5. ASSUME NEW a \in Apartments, NEW i \in 1..Len(st2[a])
      PROVE  OnStack(a, i, st2[a][i], cl, se, fr)
  <2>1. i \in 1..Len(st[a]) /\ st2[a][i].op = st[a][i].op /\ st2[a][i].of = st[a][i].of
        /\ st2[a][i].at = IF a = b /\ i = j THEN p ELSE st[a][i].at
    BY DEF Moved
  <2>2. OnStack(a, i, st[a][i], cl, se, fr)
    BY <1>4, <2>1 DEF Claims
  <2> QED
    BY <2>1, <2>2 DEF OnStack
<1>6. ASSUME NEW a \in Apartments PROVE OneDestroy(st2[a])
  <2>1. OneDestroy(st[a])
    BY <1>4 DEF Claims
  <2>2. Len(st2[a]) = Len(st[a]) /\ \A i \in 1..Len(st[a]) : st2[a][i].op = st[a][i].op
    BY DEF Moved
  <2> QED
    BY <2>1, <2>2 DEF OneDestroy
<1>7. Claims(st2, ib, cl, se, fr)
  BY <1>4, <1>5, <1>6 DEF Claims
<1>8. ASSUME st[b][j].at # "start" PROVE Still(st, st2)
  <2>1. ASSUME NEW a \in Apartments
        PROVE  /\ Len(st2[a]) = Len(st[a]) /\ (st2[a] = << >> <=> st[a] = << >>)
               /\ st[a] # << >> => Len(st[a]) \in 1..Len(st[a])
    <3>1. Len(st2[a]) = Len(st[a]) /\ st[a] \in Seq(Call) /\ st2[a] \in Seq(Call)
      BY <1>1, Lengths DEF Moved
    <3> QED
      BY <3>1, EmptySeq
  <2>2. ASSUME NEW a \in Apartments, st[a] # << >>
        PROVE  /\ st2[a][Len(st2[a])].op = st[a][Len(st[a])].op
               /\ st2[a][Len(st2[a])].of = st[a][Len(st[a])].of
               /\ st2[a][Len(st2[a])].m = st[a][Len(st[a])].m
               /\ st2[a][Len(st2[a])].at = "start" <=> st[a][Len(st[a])].at = "start"
    BY <1>8, <2>1, <2>2 DEF Moved
  <2> QED
    BY <2>1, <2>2 DEF Still, Begun, Carries
<1> QED
  BY <1>3, <1>7, <1>8 DEF Calls

\* ... when a call is pushed ...
LEMMA CallsGrow ==
    ASSUME NEW st, NEW ib, NEW cl, NEW se, NEW fr, Calls(st, ib, cl, se, fr),
           NEW a \in Apartments, NEW f \in Call, InPlace(a, f),
           st[a] # << >> => st[a][Len(st[a])].at # "start",
           f.op \in Remote => Awaited(st, f),
           f.op \notin Remote =>
                f.ret = << >> \/ (f.ret[1] = a /\ f.ret[2] = Len(st[a]) /\ Len(st[a]) >= 1),
           f.ret # << >> => Unawaiting(st, ib, f.ret[1], f.ret[2]),
           OnStack(a, Len(st[a]) + 1, f, cl, se, fr),
           f.op = "destroy" => \A i \in 1..Len(st[a]) : st[a][i].op # "destroy",
           NEW st2, Grown(st, st2, a, f)
    PROVE  Calls(st2, ib, cl, se, fr) /\ (f.at # "start" => Still(st, st2))
<1>1. st \in Queues /\ ib \in Queues
  BY DEF Calls, Graph
<1>2. Graph(st, ib)
  BY DEF Calls
<1>3. Graph(st2, ib)
  BY <1>2, GraphGrown
<1>4. Claims(st, ib, cl, se, fr)
  BY DEF Calls
<1>5. PICK n \in Nat : n = Len(st[a]) /\ Len(st2[a]) = n + 1 /\ st2[a][n + 1] = f
  BY <1>1, Lengths DEF Grown
<1>6. ASSUME NEW b \in Apartments, NEW i \in 1..Len(st2[b])
      PROVE  (b = a /\ i = n + 1 /\ st2[b][i] = f) \/ (i \in 1..Len(st[b]) /\ st2[b][i] = st[b][i])
  <2>1. CASE b = a
    <3>1. i \in 1..n \/ i = n + 1
      BY <1>5, <2>1
    <3> QED
      BY <1>5, <2>1, <3>1 DEF Grown
  <2>2. CASE b # a
    BY <2>2 DEF Grown
  <2> QED
    BY <2>1, <2>2
<1>7. ASSUME NEW b \in Apartments, NEW i \in 1..Len(st2[b])
      PROVE  OnStack(b, i, st2[b][i], cl, se, fr)
  BY <1>4, <1>5, <1>6 DEF Claims
<1>8. ASSUME NEW b \in Apartments PROVE OneDestroy(st2[b])
  <2>1. OneDestroy(st[b])
    BY <1>4 DEF Claims
  <2> QED
    BY <1>6, <2>1, SMTT(30) DEF OneDestroy
<1>9. Claims(st2, ib, cl, se, fr)
  BY <1>4, <1>7, <1>8 DEF Claims
<1>10. ASSUME f.at # "start" PROVE Still(st, st2)
  <2>1. st2[a] # << >> /\ st2[a][Len(st2[a])].at # "start"
    BY <1>5, <1>10, EmptySeq
  <2>2. ASSUME NEW b \in Apartments \ {a} PROVE st2[b] = st[b]
    <3>1. st2[b] \in Seq(Call) /\ st[b] \in Seq(Call) /\ Len(st2[b]) = Len(st[b])
          /\ \A i \in 1..Len(st2[b]) : st2[b][i] = st[b][i]
      BY <1>1, Lengths DEF Grown
    <3> QED
      BY <3>1, SeqEqual
  <2> QED
    BY <2>1, <2>2 DEF Still, Begun
<1> QED
  BY <1>3, <1>9, <1>10 DEF Calls

\* ... when the call on top returns ...
LEMMA CallsShrink ==
    ASSUME NEW st, NEW ib, NEW cl, NEW se, NEW fr, Calls(st, ib, cl, se, fr),
           NEW a \in Apartments, NEW n \in 1..Len(st[a]), n = Len(st[a]), st[a][n].at # "wait",
           NEW st2, Shrunk(st, st2, a)
    PROVE  /\ Calls(st2, ib, cl, se, fr)
           /\ (st[a][n].at # "start" \/ st[a][n].op = "create") => Still(st, st2)
           /\ st[a][n].ret # << >> => Unawaiting(st2, ib, st[a][n].ret[1], st[a][n].ret[2])
<1>1. st \in Queues /\ ib \in Queues
  BY DEF Calls, Graph
<1>2. st[a] # << >> /\ n \in Nat /\ n >= 1
  BY <1>1, Lengths, EmptySeq
<1>3. st2 \in Queues
  BY DEF Shrunk
<1>4. Unawaiting(st, ib, a, n)
  BY TopIsFree DEF Calls
<1>5. /\ Graph(st2, ib)
      /\ st[a][n].ret # << >> => Unawaiting(st2, ib, st[a][n].ret[1], st[a][n].ret[2])
  <2>1. Graph(st, ib)
    BY DEF Calls
  <2> QED
    BY <1>4, <2>1, GraphShrunk
<1>6. Claims(st, ib, cl, se, fr)
  BY DEF Calls
<1>7. Claims(st2, ib, cl, se, fr)
  <2>1. ASSUME NEW b \in Apartments PROVE OneDestroy(st2[b])
    <3>1. OneDestroy(st[b])
      BY <1>6 DEF Claims
    <3> QED
      BY <3>1 DEF OneDestroy, Shrunk
  <2> QED
    BY <1>6, <2>1 DEF Claims, Shrunk
<1>8. ASSUME st[a][n].at # "start" \/ st[a][n].op = "create" PROVE Still(st, st2)
  <2>1. ASSUME NEW k, NEW op \in {"write", "sink_write"} PROVE ~Begun(st[a], op, k)
    BY <1>8 DEF Begun, Carries
  <2>2. ASSUME NEW k, NEW op \in {"write", "sink_write"}, Begun(st2[a], op, k) PROVE FALSE
    <3>1. Len(st2[a]) = n - 1 /\ st2[a] # << >> /\ st2[a] \in Seq(Call)
      BY <1>3, <2>2, Lengths DEF Shrunk, Begun
    <3>2. Len(st2[a]) \in 1..Len(st2[a]) /\ Len(st2[a]) < n /\ Len(st2[a]) \in 1..n
      BY <1>2, <3>1, EmptySeq
    <3>3. st2[a][Len(st2[a])] = st[a][Len(st2[a])]
      BY <3>2 DEF Shrunk
    <3>4. Stacked(st, a, Len(st2[a]))
      BY <3>2 DEF Calls, Graph
    <3> QED
      BY <2>2, <3>2, <3>3, <3>4 DEF Stacked, Begun
  <2>3. ASSUME NEW b \in Apartments \ {a} PROVE st2[b] = st[b]
    <3>1. st2[b] \in Seq(Call) /\ st[b] \in Seq(Call) /\ Len(st2[b]) = Len(st[b])
          /\ \A i \in 1..Len(st2[b]) : st2[b][i] = st[b][i]
      BY <1>1, <1>3, Lengths DEF Shrunk
    <3> QED
      BY <3>1, SeqEqual
  <2> QED
    BY <2>1, <2>2, <2>3 DEF Still
<1> QED
  BY <1>5, <1>7, <1>8 DEF Calls

\* ... when a call is queued ...
LEMMA CallsQueue ==
    ASSUME NEW st, NEW ib, NEW cl, NEW se, NEW fr, Calls(st, ib, cl, se, fr),
           NEW b \in Apartments, NEW f \in Call, InPlace(b, f), f.op \in Remote, f.at = "start",
           Awaited(st, f), Unawaiting(st, ib, f.ret[1], f.ret[2]), InQueue(f, se, fr),
           NEW ib2, Grown(ib, ib2, b, f)
    PROVE  Calls(st, ib2, cl, se, fr)
<1>1. st \in Queues /\ ib \in Queues
  BY DEF Calls, Graph
<1>2. Graph(st, ib)
  BY DEF Calls
<1>3. Graph(st, ib2)
  BY <1>2, GraphQueued
<1>4. PICK n \in Nat : n = Len(ib[b]) /\ Len(ib2[b]) = n + 1 /\ ib2[b][n + 1] = f
  BY <1>1, Lengths DEF Grown
<1>5. ASSUME NEW a \in Apartments, NEW i \in 1..Len(ib2[a])
      PROVE  InQueue(ib2[a][i], se, fr)
  <2>1. CASE a = b
    <3>1. i \in 1..n \/ i = n + 1
      BY <1>4, <2>1
    <3> QED
      BY <1>4, <2>1, <3>1 DEF Grown, Calls, Claims
  <2>2. CASE a # b
    BY <2>2 DEF Grown, Calls, Claims
  <2> QED
    BY <2>1, <2>2
<1> QED
  BY <1>3, <1>5 DEF Calls, Claims

\* ... and when one is taken from its queue.
LEMMA CallsShift ==
    ASSUME NEW st, NEW ib, NEW cl, NEW se, NEW fr, Calls(st, ib, cl, se, fr),
           NEW a \in Apartments, Len(ib[a]) >= 1, NEW ib2, Shifted(ib, ib2, a)
    PROVE  /\ Calls(st, ib2, cl, se, fr)
           /\ Unawaiting(st, ib2, ib[a][1].ret[1], ib[a][1].ret[2])
<1>1. st \in Queues /\ ib \in Queues
  BY DEF Calls, Graph
<1>2. Graph(st, ib)
  BY DEF Calls
<1>3. Graph(st, ib2) /\ Unawaiting(st, ib2, ib[a][1].ret[1], ib[a][1].ret[2])
  BY <1>2, GraphShifted
<1>4. ASSUME NEW b \in Apartments, NEW i \in 1..Len(ib2[b])
      PROVE  InQueue(ib2[b][i], se, fr)
  <2>1. CASE b = a
    BY <2>1 DEF Shifted, Calls, Claims
  <2>2. CASE b # a
    BY <2>2 DEF Shifted, Calls, Claims
  <2> QED
    BY <2>1, <2>2
<1> QED
  BY <1>3, <1>4 DEF Calls, Claims
-----------------------------------------------------------------------------
(* The operators that actions use *)

\* A thread goes on in its call.
LEMMA GotoKeeps ==
    ASSUME NEW st, NEW ib, NEW cl, NEW se, NEW fr, Calls(st, ib, cl, se, fr),
           NEW a \in Apartments, st[a] # << >>, st[a][Len(st[a])].at # "wait",
           NEW p, p \in Places, p # "start", p # "query",
           p = "drop" => se[st[a][Len(st[a])].of] = "gone",
           p \in {"end", "drop"} => st[a][Len(st[a])].op \in Enders,
           NEW st2, Moved(st, st2, a, Len(st[a]), p)
    PROVE  /\ Calls(st2, ib, cl, se, fr)
           /\ st[a][Len(st[a])].at # "start" => Still(st, st2)
<1>1. st \in Queues /\ Graph(st, ib)
  BY DEF Calls, Graph
<1>2. PICK n \in 1..Len(st[a]) : n = Len(st[a])
  BY <1>1, TopPlace
<1>3. Unawaiting(st, ib, a, n)
  BY <1>1, <1>2, TopIsFree
<1>4. Calls(st2, ib, cl, se, fr) /\ (st[a][n].at # "start" => Still(st, st2))
  BY <1>2, <1>3, CallsMove
<1> QED
  BY <1>2, <1>4

\* Nobody returns to a place that is not there.
LEMMA NoPlace ==
    ASSUME NEW st, NEW ib, Graph(st, ib), NEW a \in Apartments
    PROVE  Unawaiting(st, ib, a, Len(st[a]) + 1)
<1>1. st \in Queues /\ ib \in Queues /\ Len(st[a]) \in Nat
  BY Lengths DEF Graph
<1>2. ASSUME NEW f, Awaited(st, f), ReturnsTo(f, a, Len(st[a]) + 1) PROVE FALSE
  BY <1>1, <1>2 DEF Awaited, ReturnsTo
<1>3. ASSUME NEW b \in Apartments, NEW i \in 1..Len(st[b]), ReturnsTo(st[b][i], a, Len(st[a]) + 1)
      PROVE  FALSE
  <2>1. Stacked(st, b, i)
    BY DEF Graph
  <2>2. CASE st[b][i].op \notin Remote
    <3>1. b = a /\ i - 1 = Len(st[a]) + 1 /\ i \in Nat /\ i <= Len(st[a])
      BY <1>1, <1>3, <2>1, <2>2 DEF Stacked, ReturnsTo
    <3> QED
      BY <1>1, <3>1
  <2> QED
    BY <1>2, <1>3, <2>1, <2>2 DEF Stacked
<1>4. ASSUME NEW b \in Apartments, NEW i \in 1..Len(ib[b]), ReturnsTo(ib[b][i], a, Len(st[a]) + 1)
      PROVE  FALSE
  BY <1>2, <1>4 DEF Graph, Queued
<1> QED
  BY <1>3, <1>4 DEF Unawaiting

Resumed(st, b, j, p) == [st EXCEPT ![b][j].at = p]

\* A caller goes on.
LEMMA ResumeKeeps ==
    ASSUME NEW st, NEW ib, NEW cl, NEW se, NEW fr, Calls(st, ib, cl, se, fr),
           NEW b \in Apartments, NEW j \in 1..Len(st[b]), Unawaiting(st, ib, b, j),
           st[b][j].at # "start", NEW p, p \in Places, p # "start", p # "drop", p # "end",
           p = "query" => b \in fr
    PROVE  Calls(Resumed(st, b, j, p), ib, cl, se, fr) /\ Still(st, Resumed(st, b, j, p))
<1>1. st \in Queues
  BY DEF Calls, Graph
<1>2. Moved(st, Resumed(st, b, j, p), b, j, p)
  BY <1>1, MovedIs DEF Resumed
<1> QED
  BY <1>2, CallsMove

Rest(st, a) == [st EXCEPT ![a] = SubSeq(@, 1, Len(@) - 1)]

\* A place other than the last.
LEMMA NotLast == \A n \in Nat : \A j \in 1..n : j # n => j \in 1..(n - 1)
  OBVIOUS

\* A thread returns, while the two ends change to cl2, se2 and fr2.
LEMMA ReturnKeeps ==
    ASSUME NEW st, NEW ib, NEW cl, NEW se, NEW fr, Calls(st, ib, cl, se, fr),
           NEW a \in Apartments, st[a] # << >>, NEW f, f = st[a][Len(st[a])], f.at # "wait",
           f.at # "start" \/ f.op = "create",
           NEW cl2, NEW se2, NEW fr2, Claims(Rest(st, a), ib, cl2, se2, fr2),
           NEW p, f.ret # << >> =>
                    p \in Places \ {"start", "end", "drop"} /\ (p = "query" => f.ret[1] \in fr2),
           NEW st2, st2 = IF f.ret = << >> THEN Rest(st, a)
                          ELSE [Rest(st, a) EXCEPT ![f.ret[1]][f.ret[2]].at = p]
    PROVE  Calls(st2, ib, cl2, se2, fr2) /\ Still(st, st2)
<1>1. st \in Queues /\ Graph(st, ib)
  BY DEF Calls, Graph
<1>2. PICK n \in 1..Len(st[a]) : n = Len(st[a]) /\ n \in Nat /\ n >= 1
  BY <1>1, TopPlace
<1>3. PICK st1 : st1 = Rest(st, a)
  OBVIOUS
<1>4. st1 = [st EXCEPT ![a] = SubSeq(@, 1, Len(@) - 1)]
  BY <1>3 DEF Rest
<1>5. /\ Calls(st1, ib, cl, se, fr) /\ Shrunk(st, st1, a) /\ Still(st, st1)
      /\ f.ret # << >> => Unawaiting(st1, ib, f.ret[1], f.ret[2])
  <2>1. Shrunk(st, st1, a)
    BY <1>1, <1>4, ShrunkIs
  <2>2. f = st[a][n] /\ st[a][n].at # "wait" /\ (st[a][n].at # "start" \/ st[a][n].op = "create")
    BY <1>2
  <2>3. /\ Calls(st1, ib, cl, se, fr)
        /\ (st[a][n].at # "start" \/ st[a][n].op = "create") => Still(st, st1)
        /\ st[a][n].ret # << >> => Unawaiting(st1, ib, st[a][n].ret[1], st[a][n].ret[2])
    BY <1>2, <2>1, <2>2, CallsShrink, ZenonT(60)
  <2> QED
    BY <2>1, <2>2, <2>3
<1>6. Calls(st1, ib, cl2, se2, fr2)
  BY <1>3, <1>5 DEF Calls
<1>7. CASE f.ret = << >>
  BY <1>3, <1>5, <1>6, <1>7
<1>8. CASE f.ret # << >>
  <2>1. Stacked(st, a, n) /\ f \in Call /\ f = st[a][n] /\ Unawaiting(st, ib, a, n)
    BY <1>1, <1>2, Lengths, TopIsFree DEF Graph
  <2>2. f.ret \in Returns /\ f.ret[1] \in Apartments /\ f.ret[2] \in Nat
    BY <1>8, <2>1, Fields, ReturnParts
  <2>3. f.ret[1] # a \/ f.ret[2] # n
    BY <1>2, <1>8, <2>1 DEF Unawaiting, ReturnsTo
  <2>4. f.ret[2] \in 1..Len(st[f.ret[1]]) /\ st[f.ret[1]][f.ret[2]].at # "start"
    <3>1. CASE f.op \in Remote
      BY <2>1, <3>1 DEF Stacked, Awaited
    <3>2. CASE f.op \notin Remote
      <4>1. f.ret[1] = a /\ n > 1 /\ f.ret[2] = n - 1
        BY <1>8, <2>1, <3>2 DEF Stacked
      <4>2. n - 1 \in 1..Len(st[a]) /\ n - 1 < Len(st[a])
        BY <1>2, <4>1
      <4>3. Stacked(st, a, n - 1)
        BY <1>1, <4>2 DEF Graph
      <4> QED
        BY <4>1, <4>2, <4>3 DEF Stacked
    <3> QED
      BY <3>1, <3>2
  <2>5. f.ret[2] \in 1..Len(st1[f.ret[1]])
    <3>1. CASE f.ret[1] = a
      <4>1. Len(st1[a]) = n - 1
        BY <1>2, <1>5 DEF Shrunk
      <4>2. PICK j : j = f.ret[2] /\ j # n /\ j \in 1..n
        BY <1>2, <2>3, <2>4, <3>1
      <4>3. j \in 1..(n - 1)
        BY <1>2, <4>2, NotLast, ZenonT(60)
      <4> QED
        BY <3>1, <4>1, <4>2, <4>3
    <3>2. CASE f.ret[1] # a
      BY <1>5, <2>2, <2>4, <3>2 DEF Shrunk
    <3> QED
      BY <3>1, <3>2
  <2>6. st1[f.ret[1]][f.ret[2]].at # "start"
    BY <1>5, <2>2, <2>4, <2>5 DEF Shrunk
  <2>7. st2 = [st1 EXCEPT ![f.ret[1]][f.ret[2]].at = p]
    BY <1>3, <1>8
  <2>8. Unawaiting(st1, ib, f.ret[1], f.ret[2])
    BY <1>5, <1>8
  <2>9. p \in Places /\ p # "start" /\ (p = "query" => f.ret[1] \in fr2)
        /\ p # "drop" /\ p # "end"
    BY <1>8
  <2>10. PICK b \in Apartments : b = f.ret[1]
    BY <2>2
  <2>11. PICK j \in 1..Len(st1[b]) : j = f.ret[2]
    BY <2>5, <2>10
  <2>12. Calls(st2, ib, cl2, se2, fr2) /\ Still(st1, st2)
    <3>1. st2 = [st1 EXCEPT ![b][j].at = p] /\ Unawaiting(st1, ib, b, j)
          /\ (p = "query" => b \in fr2) /\ st1[b][j].at # "start"
      BY <2>6, <2>7, <2>8, <2>9, <2>10, <2>11
    <3>2. p \in Places /\ p # "start" /\ p # "drop" /\ p # "end"
      BY <2>9
    <3>3. st2 = Resumed(st1, b, j, p)
      BY <3>1 DEF Resumed
    <3>4. Calls(Resumed(st1, b, j, p), ib, cl2, se2, fr2) /\ Still(st1, Resumed(st1, b, j, p))
      <4>1. p = "query" => b \in fr2
        BY <3>1
      <4>2. st1[b][j].at # "start" /\ Unawaiting(st1, ib, b, j)
        BY <3>1
      <4> QED
        BY <1>6, <3>2, <4>1, <4>2, ResumeKeeps, Zenon
    <3> QED
      BY <3>3, <3>4
  <2> QED
    BY <1>5, <2>12, StillTransitive
<1> QED
  BY <1>7, <1>8

\* ... while they do not.
LEMMA RestKeeps ==
    ASSUME NEW st, NEW ib, NEW cl, NEW se, NEW fr, Calls(st, ib, cl, se, fr),
           NEW a \in Apartments, st[a] # << >>, st[a][Len(st[a])].at # "wait"
    PROVE  Claims(Rest(st, a), ib, cl, se, fr) /\ Shrunk(st, Rest(st, a), a)
<1>1. st \in Queues /\ Graph(st, ib)
  BY DEF Calls, Graph
<1>2. PICK n \in 1..Len(st[a]) : n = Len(st[a]) /\ n \in Nat /\ n >= 1
  BY <1>1, TopPlace
<1>3. PICK st1 : st1 = Rest(st, a)
  OBVIOUS
<1>4. st1 = [st EXCEPT ![a] = SubSeq(@, 1, Len(@) - 1)]
  BY <1>3 DEF Rest
<1>5. Calls(st1, ib, cl, se, fr) /\ Shrunk(st, st1, a)
  <2>1. Shrunk(st, st1, a)
    BY <1>1, <1>4, ShrunkIs
  <2> QED
    BY <1>2, <2>1, CallsShrink
<1> QED
  BY <1>3, <1>5 DEF Calls
Longer(q, a, f) == [q EXCEPT ![a] = Append(@, f)]

\* A thread calls into apartment b, and waits.
LEMMA CallOutKeeps ==
    ASSUME NEW st, NEW ib, NEW cl, NEW se, NEW fr, Calls(st, ib, cl, se, fr),
           NEW a \in Apartments, st[a] # << >>, st[a][Len(st[a])].at \notin {"wait", "start"},
           NEW b \in Apartments, NEW f \in Call, InPlace(b, f), f.op \in Remote, f.at = "start",
           f.ret[1] = a, f.ret[2] = Len(st[a]), f.ret # << >>,
           a = IF f.op \in IntoClient THEN "server" ELSE f.of,
           st[a][Len(st[a])].of = f.of, Answers(f, st[a][Len(st[a])]), InQueue(f, se, fr)
    PROVE  /\ Calls(Resumed(st, a, Len(st[a]), "wait"), Longer(ib, b, f), cl, se, fr)
           /\ Still(st, Resumed(st, a, Len(st[a]), "wait"))
<1>1. st \in Queues /\ Graph(st, ib) /\ ib \in Queues
  BY DEF Calls, Graph
<1>2. PICK n \in 1..Len(st[a]) : n = Len(st[a]) /\ n \in Nat /\ n >= 1
  BY <1>1, TopPlace
<1>3. PICK st1 : st1 = Resumed(st, a, n, "wait")
  OBVIOUS
<1>4. Unawaiting(st, ib, a, n)
  BY <1>1, <1>2, TopIsFree
<1>5. Moved(st, st1, a, n, "wait")
  BY <1>1, <1>3, MovedIs DEF Resumed, Places
<1>6. Calls(st1, ib, cl, se, fr) /\ Still(st, st1)
  BY <1>2, <1>3, <1>4, ResumeKeeps DEF Places
<1>7. Unawaiting(st1, ib, a, n)
  BY <1>4, <1>5, FreeMoved
<1>8. Awaited(st1, f)
  <2>1. f.ret \in Returns
    BY Fields
  <2>2. /\ n \in 1..Len(st1[a]) /\ st1[a][n].at = "wait" /\ st1[a][n].of = f.of
        /\ st1[a][n].op = st[a][n].op
    BY <1>2, <1>5 DEF Moved
  <2>3. Answers(f, st1[a][n])
    BY <1>2, <2>2 DEF Answers
  <2> QED
    BY <1>2, <2>1, <2>2, <2>3 DEF Awaited
<1>9. Grown(ib, Longer(ib, b, f), b, f)
  BY <1>1, GrownIs DEF Longer
<1>10. Calls(st1, Longer(ib, b, f), cl, se, fr)
  <2>1. Unawaiting(st1, ib, f.ret[1], f.ret[2])
    BY <1>2, <1>7
  <2> QED
    BY <1>6, <1>8, <1>9, <2>1, CallsQueue
<1> QED
  BY <1>2, <1>3, <1>6, <1>10

\* The user makes a call.
Deeper(st, a, f) ==
    IF st[a] = << >> THEN Longer(st, a, f)
    ELSE Longer(Resumed(st, a, Len(st[a]), "busy"), a, f)

\* The user makes call f.
LEMMA EnterKeeps ==
    ASSUME NEW st, NEW ib, NEW cl, NEW se, NEW fr, Calls(st, ib, cl, se, fr),
           NEW a \in Apartments, st[a] # << >> => st[a][Len(st[a])].at = "user",
           NEW f \in Call, f.op \notin Remote, f.at # "start", InPlace(a, f),
           f.ret = IF st[a] = << >> THEN << >> ELSE << a, Len(st[a]), "user" >>,
           OnStack(a, Len(st[a]) + 1, f, cl, se, fr),
           f.op = "destroy" => \A i \in 1..Len(st[a]) : st[a][i].op # "destroy"
    PROVE  /\ Calls(Deeper(st, a, f), ib, cl, se, fr) /\ Still(st, Deeper(st, a, f))
           /\ Len(Deeper(st, a, f)[a]) = Len(st[a]) + 1
           /\ Deeper(st, a, f)[a][Len(st[a]) + 1] = f
           /\ Unawaiting(Deeper(st, a, f), ib, a, Len(st[a]) + 1)
<1>1. st \in Queues /\ Graph(st, ib) /\ ib \in Queues
  BY DEF Calls, Graph
<1>2. Unawaiting(st, ib, a, Len(st[a]) + 1) /\ Len(st[a]) \in Nat
  BY <1>1, NoPlace, Lengths
<1>3. CASE st[a] = << >>
  <2>1. PICK st2 : st2 = Deeper(st, a, f)
    OBVIOUS
  <2>2. Grown(st, st2, a, f) /\ f.ret = << >>
    BY <1>1, <1>3, <2>1, GrownIs DEF Deeper, Longer
  <2>3. Calls(st2, ib, cl, se, fr) /\ Still(st, st2)
    BY <1>3, <2>2, CallsGrow
  <2>4. Unawaiting(st2, ib, a, Len(st[a]) + 1)
    BY <1>1, <1>2, <2>2, FreeGrown DEF ReturnsTo
  <2> QED
    BY <2>1, <2>2, <2>3, <2>4 DEF Grown
<1>4. CASE st[a] # << >>
  <2>1. PICK n \in 1..Len(st[a]) : n = Len(st[a]) /\ n \in Nat /\ n >= 1
    BY <1>1, <1>4, TopPlace
  <2>2. PICK st1 : st1 = Resumed(st, a, n, "busy")
    OBVIOUS
  <2>3. PICK st2 : st2 = Deeper(st, a, f) /\ st2 = Longer(st1, a, f)
    BY <1>4, <2>1, <2>2 DEF Deeper
  <2>4. Unawaiting(st, ib, a, n)
    BY <1>1, <1>4, <2>1, TopIsFree
  <2>5. Moved(st, st1, a, n, "busy")
    BY <1>1, <2>2, MovedIs DEF Resumed, Places
  <2>6. Calls(st1, ib, cl, se, fr) /\ Still(st, st1)
    BY <1>4, <2>1, <2>2, <2>4, ResumeKeeps DEF Places
  <2>7. Unawaiting(st1, ib, a, n) /\ Unawaiting(st1, ib, a, n + 1)
    BY <1>2, <2>1, <2>4, <2>5, FreeMoved
  <2>8. f.ret = << a, n, "user" >> /\ f.ret # << >> /\ f.ret[1] = a /\ f.ret[2] = n
    BY <1>4, <2>1, ReturnParts
  <2>9. Len(st1[a]) = n /\ st1[a][n].at = "busy" /\ st1 \in Queues
        /\ \A i \in 1..n : st1[a][i].op = st[a][i].op
    BY <2>1, <2>5 DEF Moved
  <2>10. Grown(st1, st2, a, f)
    BY <2>3, <2>9, GrownIs DEF Longer
  <2>11. Calls(st2, ib, cl, se, fr) /\ Still(st1, st2)
    <3>1. st1[a] # << >> => st1[a][Len(st1[a])].at # "start"
      BY <2>9
    <3>2. f.op \notin Remote =>
            f.ret = << >> \/ (f.ret[1] = a /\ f.ret[2] = Len(st1[a]) /\ Len(st1[a]) >= 1)
      BY <2>1, <2>8, <2>9
    <3>3. f.ret # << >> => Unawaiting(st1, ib, f.ret[1], f.ret[2])
      BY <2>7, <2>8
    <3>4. OnStack(a, Len(st1[a]) + 1, f, cl, se, fr)
      BY <2>1, <2>9
    <3>5. f.op = "destroy" => \A i \in 1..Len(st1[a]) : st1[a][i].op # "destroy"
      BY <2>1, <2>9
    <3> QED
      BY <2>6, <2>10, <3>1, <3>2, <3>3, <3>4, <3>5, CallsGrow
  <2>12. Unawaiting(st2, ib, a, n + 1)
    <3>1. ~ReturnsTo(f, a, n + 1)
      BY <2>1, <2>8 DEF ReturnsTo
    <3> QED
      BY <2>7, <2>9, <2>10, <3>1, FreeGrown
  <2>13. Len(st2[a]) = n + 1 /\ st2[a][n + 1] = f
    BY <2>9, <2>10 DEF Grown
  <2>14. Still(st, st2)
    BY <2>6, <2>11, StillTransitive
  <2> QED
    BY <2>1, <2>3, <2>11, <2>12, <2>13, <2>14
<1> QED
  BY <1>3, <1>4

\* The user makes call f, which calls into apartment b.
LEMMA UserCallKeeps ==
    ASSUME NEW st, NEW ib, NEW cl, NEW se, NEW fr, NEW a \in Apartments, NEW f,
           Calls(Deeper(st, a, f), ib, cl, se, fr),
           Len(Deeper(st, a, f)[a]) = Len(st[a]) + 1,
           Deeper(st, a, f)[a][Len(st[a]) + 1] = f, Len(st[a]) \in Nat,
           Unawaiting(Deeper(st, a, f), ib, a, Len(st[a]) + 1),
           f.at = "wait", NEW b \in Apartments, NEW g \in Call, InPlace(b, g),
           g.op \in Remote, g.at = "start",
           g.ret[1] = a, g.ret[2] = Len(st[a]) + 1, g.ret # << >>,
           a = IF g.op \in IntoClient THEN "server" ELSE g.of,
           f.of = g.of, Answers(g, f), InQueue(g, se, fr)
    PROVE  Calls(Deeper(st, a, f), Longer(ib, b, g), cl, se, fr)
<1>1. PICK st2 : st2 = Deeper(st, a, f)
  OBVIOUS
<1>2. PICK n \in Nat : n = Len(st[a]) + 1
  OBVIOUS
<1>3. g.ret \in Returns /\ n \in 1..Len(st2[a])
  BY <1>1, <1>2, Fields
<1>4. Awaited(st2, g)
  BY <1>1, <1>2, <1>3 DEF Awaited
<1>5. ib \in Queues
  BY DEF Calls, Graph
<1>6. Grown(ib, Longer(ib, b, g), b, g)
  BY <1>5, GrownIs DEF Longer
<1>7. Calls(st2, ib, cl, se, fr) /\ Unawaiting(st2, ib, g.ret[1], g.ret[2])
  BY <1>1
<1>8. Calls(st2, Longer(ib, b, g), cl, se, fr)
  BY <1>4, <1>6, <1>7, CallsQueue
<1> QED
  BY <1>1, <1>8

\* A thread takes a call.
LEMMA DispatchKeeps ==
    ASSUME NEW st, NEW ib, NEW cl, NEW se, NEW fr, Calls(st, ib, cl, se, fr),
           NEW a \in Apartments, ib[a] # << >>,
           st[a] # << >> => st[a][Len(st[a])].at # "start", NEW ib2,
           ib2 = [ib EXCEPT ![a] = Tail(@)]
    PROVE  /\ Calls(Longer(st, a, Head(ib[a])), ib2, cl, se, fr)
           /\ Shifted(ib, ib2, a) /\ Head(ib[a]) = ib[a][1] /\ Len(ib[a]) >= 1
           /\ Grown(st, Longer(st, a, Head(ib[a])), a, Head(ib[a])) /\ Head(ib[a]).at = "start"
<1>1. st \in Queues /\ Graph(st, ib) /\ ib \in Queues
  BY DEF Calls, Graph
<1>2. Shifted(ib, ib2, a) /\ Head(ib[a]) = ib[a][1] /\ Len(ib[a]) >= 1
  BY <1>1, ShiftedIs
<1>3. Calls(st, ib2, cl, se, fr) /\ Unawaiting(st, ib2, ib[a][1].ret[1], ib[a][1].ret[2])
  BY <1>2, CallsShift
<1>4. 1 \in 1..Len(ib[a])
  BY <1>1, <1>2, Lengths
<1>5. PICK f \in Call : f = ib[a][1] /\ f = Head(ib[a])
  BY <1>1, <1>2, <1>4, Lengths
<1>6. Queued(st, ib, a, 1) /\ InQueue(ib[a][1], se, fr)
  BY <1>1, <1>4 DEF Calls, Claims, Graph
<1>7. InPlace(a, f) /\ f.op \in Remote /\ f.at = "start" /\ Awaited(st, f) /\ InQueue(f, se, fr)
  BY <1>5, <1>6 DEF Queued
<1>8. OnStack(a, Len(st[a]) + 1, f, cl, se, fr) /\ f.op # "destroy"
  BY <1>7 DEF OnStack, InQueue, Remote
<1>9. Grown(st, Longer(st, a, f), a, f)
  BY <1>1, GrownIs DEF Longer
<1>10. Calls(Longer(st, a, f), ib2, cl, se, fr)
  <2>1. f.ret # << >> => Unawaiting(st, ib2, f.ret[1], f.ret[2])
    BY <1>3, <1>5
  <2> QED
    BY <1>3, <1>7, <1>8, <1>9, <2>1, CallsGrow
<1> QED
  BY <1>2, <1>5, <1>7, <1>9, <1>10

-----------------------------------------------------------------------------
(* Changes of the two ends keep what calls say *)

\* More clients whose sink the server has not got.
LEMMA ClaimsFresh ==
    ASSUME NEW st, NEW ib, NEW cl, NEW se, NEW fr, Claims(st, ib, cl, se, fr),
           NEW fr2, fr \subseteq fr2
    PROVE  Claims(st, ib, cl, se, fr2)
<1>1. ASSUME NEW a \in Apartments, NEW i \in 1..Len(st[a])
      PROVE  OnStack(a, i, st[a][i], cl, se, fr2)
  <2>1. OnStack(a, i, st[a][i], cl, se, fr)
    BY DEF Claims
  <2> QED
    BY <2>1 DEF OnStack
<1>2. ASSUME NEW a \in Apartments, NEW i \in 1..Len(ib[a])
      PROVE  InQueue(ib[a][i], se, fr2)
  <2>1. InQueue(ib[a][i], se, fr)
    BY DEF Claims
  <2> QED
    BY <2>1 DEF InQueue
<1> QED
  BY <1>1, <1>2 DEF Claims

\* A client that is not in its constructor or destructor.
LEMMA ClaimsClient ==
    ASSUME NEW st, NEW ib, NEW cl, NEW se, NEW fr, Claims(st, ib, cl, se, fr), Graph(st, ib),
           NEW k \in Clients, \A i \in 1..Len(st[k]) : st[k][i].op \notin {"connect", "destroy"},
           NEW cl2, \A c \in Clients \ {k} : cl2[c] = cl[c]
    PROVE  Claims(st, ib, cl2, se, fr)
<1>1. ASSUME NEW a \in Apartments, NEW i \in 1..Len(st[a])
      PROVE  OnStack(a, i, st[a][i], cl2, se, fr)
  <2>1. OnStack(a, i, st[a][i], cl, se, fr) /\ InPlace(a, st[a][i])
    BY DEF Claims, Graph, Stacked
  <2>2. CASE a = "server"
    BY <2>1, <2>2 DEF OnStack, InPlace, ServerOps
  <2>3. CASE a = k
    BY <2>1, <2>3 DEF OnStack
  <2>4. CASE a \in Clients \ {k}
    BY <2>1, <2>4 DEF OnStack
  <2> QED
    BY <2>2, <2>3, <2>4 DEF Apartments
<1> QED
  BY <1>1 DEF Claims

\* A session that is not being created.
LEMMA ClaimsSession ==
    ASSUME NEW st, NEW ib, NEW cl, NEW se, NEW fr, Claims(st, ib, cl, se, fr),
           NEW k \in Clients,
           \A a \in Apartments : \A i \in 1..Len(st[a]) : ~Carries(st[a][i], "create", k),
           \A a \in Apartments : \A i \in 1..Len(ib[a]) : ~Carries(ib[a][i], "create", k),
           NEW se2, \A c \in Clients \ {k} : se2[c] = se[c], se[k] # "gone" \/ se2[k] = "gone"
    PROVE  Claims(st, ib, cl, se2, fr)
<1>1. ASSUME NEW a \in Apartments, NEW i \in 1..Len(st[a])
      PROVE  OnStack(a, i, st[a][i], cl, se2, fr)
  <2>1. OnStack(a, i, st[a][i], cl, se, fr) /\ ~Carries(st[a][i], "create", k)
    BY DEF Claims
  <2>2. CASE st[a][i].of = k
    BY <2>1, <2>2 DEF OnStack, Carries
  <2>3. CASE st[a][i].of # k
    BY <2>1, <2>3 DEF OnStack
  <2> QED
    BY <2>2, <2>3
<1>2. ASSUME NEW a \in Apartments, NEW i \in 1..Len(ib[a])
      PROVE  InQueue(ib[a][i], se2, fr)
  <2>1. InQueue(ib[a][i], se, fr) /\ ~Carries(ib[a][i], "create", k)
    BY DEF Claims
  <2> QED
    BY <2>1 DEF InQueue, Carries
<1> QED
  BY <1>1, <1>2 DEF Claims

\* A client that is neither connecting nor advising.
LEMMA ClaimsAdvised ==
    ASSUME NEW st, NEW ib, NEW cl, NEW se, NEW fr, Claims(st, ib, cl, se, fr), Graph(st, ib),
           NEW k \in Clients,
           \A a \in Apartments : \A i \in 1..Len(st[a]) :
                /\ ~Carries(st[a][i], "create", k)
                /\ Carries(st[a][i], "advise", k) => st[a][i].at # "start"
                /\ Carries(st[a][i], "connect", k) => st[a][i].at # "query",
           \A a \in Apartments : \A i \in 1..Len(ib[a]) :
                ~Carries(ib[a][i], "create", k) /\ ~Carries(ib[a][i], "advise", k),
           NEW fr2, fr \ {k} \subseteq fr2
    PROVE  Claims(st, ib, cl, se, fr2)
<1>1. ASSUME NEW a \in Apartments, NEW i \in 1..Len(st[a])
      PROVE  OnStack(a, i, st[a][i], cl, se, fr2)
  <2>1. OnStack(a, i, st[a][i], cl, se, fr) /\ InPlace(a, st[a][i])
    BY DEF Claims, Graph, Stacked
  <2>2. CASE st[a][i].of = k
    <3>1. st[a][i].op = "connect" => a = k
      BY <2>1, <2>2 DEF InPlace, ServerOps
    <3> QED
      BY <2>1, <2>2, <3>1 DEF OnStack, Carries
  <2>3. CASE st[a][i].of # k
    <3>1. st[a][i].op = "connect" => a # k
      BY <2>1, <2>3, ComAssumption DEF InPlace
    <3> QED
      BY <2>1, <2>3, <3>1 DEF OnStack
  <2> QED
    BY <2>2, <2>3
<1>2. ASSUME NEW a \in Apartments, NEW i \in 1..Len(ib[a])
      PROVE  InQueue(ib[a][i], se, fr2)
  <2>1. InQueue(ib[a][i], se, fr)
    BY DEF Claims
  <2> QED
    BY <2>1 DEF InQueue, Carries
<1> QED
  BY <1>1, <1>2 DEF Claims

\* Two calls that are made by the constructor of one client are one call.
LEMMA OneConnect ==
    ASSUME NEW st, NEW ib, NEW cl, NEW se, NEW fr, Calls(st, ib, cl, se, fr), NEW k \in Clients,
           NEW f, Awaited(st, f), f.of = k, f.op \in {"create", "advise"}
    PROVE  f.ret # << >> /\ f.ret[1] = k /\ f.ret[2] = 1 /\ Len(st[k]) >= 1
           /\ st[k][1].op = "connect" /\ st[k][1].at = "wait" /\ cl[k] = "connecting"
<1>1. f.ret # << >> /\ f.ret[1] = k /\ f.ret[2] \in 1..Len(st[k])
  BY ReturnParts DEF Awaited, IntoClient
<1>2. st[k][f.ret[2]].op = "connect" /\ st[k][f.ret[2]].at = "wait"
  BY <1>1 DEF Awaited, Answers
<1>3. k \in Apartments
  BY DEF Apartments
<1>4. OnStack(k, f.ret[2], st[k][f.ret[2]], cl, se, fr)
  BY <1>1, <1>3 DEF Calls, Claims
<1>5. f.ret[2] = 1 /\ cl[k] = "connecting"
  BY <1>2, <1>4 DEF OnStack
<1>6. Len(st[k]) \in Nat
  BY <1>3, Lengths DEF Calls, Graph
<1> QED
  BY <1>1, <1>2, <1>5, <1>6

-----------------------------------------------------------------------------
(* Changes keep messages in line *)

\* What the thread is about to begin with is the same.
SameStart(p, p2, op, k) ==
    /\ Begun(p2, op, k) <=> Begun(p, op, k)
    /\ Begun(p, op, k) => p2[Len(p2)].m = p[Len(p)].m

\* Then nothing is said of a message that was not said before.
LEMMA StartKept ==
    ASSUME NEW p, NEW p2, NEW q, NEW op, NEW k, NEW r, NEW s, SameStart(p, p2, op, k)
    PROVE  /\ Bounded(p, q, op, k, s) => Bounded(p2, q, op, k, s)
           /\ InLine(p, q, op, k, r, s) => InLine(p2, q, op, k, r, s)
           /\ NoneLost(p, q, op, k, r, s) => NoneLost(p2, q, op, k, r, s)
<1>1. Due(p2, op, k, Len(r)) = Due(p, op, k, Len(r))
  BY DEF SameStart, Due
<1>2. Bounded(p, q, op, k, s) => Bounded(p2, q, op, k, s)
  BY DEF SameStart, Bounded
<1>3. InLine(p, q, op, k, r, s) => InLine(p2, q, op, k, r, s)
  BY <1>1 DEF SameStart, InLine
<1>4. NoneLost(p, q, op, k, r, s) => NoneLost(p2, q, op, k, r, s)
  BY <1>1 DEF NoneLost
<1> QED
  BY <1>2, <1>3, <1>4

\* Calls f joins queue q.
Joined(q, q2, f) ==
    /\ Len(q) \in Nat /\ Len(q2) = Len(q) + 1 /\ q2[Len(q) + 1] = f
    /\ \A i \in 1..Len(q) : q2[i] = q[i]

\* A call that carries no such message joins the queue.
LEMMA LineJoined ==
    ASSUME NEW q, NEW q2, NEW f, Joined(q, q2, f), NEW op, NEW k, NEW e \in Nat, NEW s \in Nat,
           ~Carries(f, op, k)
    PROVE  /\ Line(q, op, k, e, s) => Line(q2, op, k, e, s)
           /\ Full(q, op, k, e, s) => Full(q2, op, k, e, s)
<1>1. PICK n \in Nat : n = Len(q) /\ Len(q2) = n + 1
  BY DEF Joined
<1>2. \A i \in 1..(n + 1) : i = n + 1 \/ i \in 1..n
  OBVIOUS
<1>3. \A i \in 1..(n + 1) : Carries(q2[i], op, k) => i \in 1..n /\ q2[i] = q[i]
  BY <1>1, <1>2 DEF Joined
<1>4. \A i \in 1..n : i \in 1..(n + 1) /\ q2[i] = q[i]
  BY <1>1 DEF Joined
<1>5. ASSUME Line(q, op, k, e, s) PROVE Line(q2, op, k, e, s)
  <2>1. ASSUME NEW i \in 1..(n + 1), Carries(q2[i], op, k)
        PROVE  /\ q2[i].m \in e..s
               /\ \A m \in e..q2[i].m : \E j \in 1..i : Carries(q2[j], op, k) /\ q2[j].m = m
               /\ \A j \in 1..(i - 1) : Carries(q2[j], op, k) => q2[j].m < q2[i].m
    <3>1. i \in 1..n /\ q2[i] = q[i]
      BY <1>3, <2>1
    <3>2. \A j \in 1..i : j \in 1..n /\ q2[j] = q[j]
      BY <1>4, <3>1
    <3>3. \A j \in 1..(i - 1) : j \in 1..i
      BY <3>1
    <3> QED
      BY <1>1, <1>5, <2>1, <3>1, <3>2, <3>3 DEF Line
  <2> QED
    BY <1>1, <2>1 DEF Line
<1>6. ASSUME Full(q, op, k, e, s) PROVE Full(q2, op, k, e, s)
  BY <1>1, <1>4, <1>6 DEF Full
<1> QED
  BY <1>5, <1>6

\* A call that carries the next message joins the queue.
LEMMA LineSent ==
    ASSUME NEW q, NEW q2, NEW f, Joined(q, q2, f), NEW op, NEW k, NEW e \in Nat, NEW s \in Nat,
           f.m = s + 1, Carries(f, op, k), e <= s + 1,
           Line(q, op, k, e, s), Full(q, op, k, e, s)
    PROVE  Line(q2, op, k, e, s + 1) /\ Full(q2, op, k, e, s + 1)
<1>1. PICK n \in Nat : n = Len(q) /\ Len(q2) = n + 1 /\ q2[n + 1] = f
  BY DEF Joined
<1>2. \A i \in 1..(n + 1) : i = n + 1 \/ i \in 1..n
  OBVIOUS
<1>3. \A i \in 1..n : i \in 1..(n + 1) /\ q2[i] = q[i] /\ i \in Nat
  BY <1>1 DEF Joined
<1>4. Full(q2, op, k, e, s + 1)
  <2>1. ASSUME NEW m \in e..(s + 1)
        PROVE  \E j \in 1..(n + 1) : Carries(q2[j], op, k) /\ q2[j].m = m
    <3>1. CASE m = s + 1
      BY <1>1, <3>1
    <3>2. CASE m # s + 1
      <4>1. m \in e..s
        BY <3>2
      <4>2. PICK j \in 1..n : Carries(q[j], op, k) /\ q[j].m = m
        BY <1>1, <4>1 DEF Full
      <4> QED
        BY <1>3, <4>2
    <3> QED
      BY <3>1, <3>2
  <2> QED
    BY <1>1, <2>1 DEF Full
<1>5. ASSUME NEW i \in 1..n, Carries(q2[i], op, k)
      PROVE  /\ q2[i].m \in e..s
             /\ \A m \in e..q2[i].m : \E j \in 1..i : Carries(q2[j], op, k) /\ q2[j].m = m
             /\ \A j \in 1..(i - 1) : Carries(q2[j], op, k) => q2[j].m < q2[i].m
  <2>1. \A j \in 1..i : j \in 1..n /\ q2[j] = q[j]
    BY <1>3
  <2>2. \A j \in 1..(i - 1) : j \in 1..i
    OBVIOUS
  <2>3. i \in 1..i /\ i \in 1..n
    OBVIOUS
  <2> QED
    BY <1>1, <1>5, <2>1, <2>2, <2>3, SMTT(30) DEF Line
<1>6. ASSUME NEW i \in 1..(n + 1), Carries(q2[i], op, k)
      PROVE  /\ q2[i].m \in e..(s + 1)
             /\ \A m \in e..q2[i].m : \E j \in 1..i : Carries(q2[j], op, k) /\ q2[j].m = m
             /\ \A j \in 1..(i - 1) : Carries(q2[j], op, k) => q2[j].m < q2[i].m
  <2>1. CASE i \in 1..n
    <3>1. q2[i].m \in e..(s + 1)
      BY <1>5, <1>6, <2>1
    <3> QED
      BY <1>5, <1>6, <2>1, <3>1
  <2>2. CASE i = n + 1
    <3>1. q2[i].m = s + 1 /\ i - 1 = n
      BY <1>1, <2>2
    <3>2. \A m \in e..(s + 1) : \E j \in 1..(n + 1) : Carries(q2[j], op, k) /\ q2[j].m = m
      BY <1>1, <1>4 DEF Full
    <3>3. \A j \in 1..n : Carries(q2[j], op, k) => q2[j].m < s + 1
      BY <1>5
    <3>4. s + 1 \in e..(s + 1)
      OBVIOUS
    <3> QED
      BY <2>2, <3>1, <3>2, <3>3, <3>4
  <2> QED
    BY <1>2, <1>6, <2>1, <2>2
<1>7. Line(q2, op, k, e, s + 1)
  BY <1>1, <1>6 DEF Line
<1> QED
  BY <1>4, <1>7

\* The first of queue q goes.
Advances(q, q2) ==
    /\ Len(q) \in Nat /\ Len(q) >= 1 /\ Len(q2) = Len(q) - 1
    /\ \A i \in 1..(Len(q) - 1) : q2[i] = q[i + 1]

\* A call that carries no such message leaves the queue.
LEMMA LineAdvances ==
    ASSUME NEW q, NEW q2, Advances(q, q2), NEW op, NEW k, NEW e \in Nat, NEW s \in Nat,
           ~Carries(q[1], op, k)
    PROVE  /\ Line(q, op, k, e, s) => Line(q2, op, k, e, s)
           /\ Full(q, op, k, e, s) => Full(q2, op, k, e, s)
<1>1. PICK n \in Nat : n + 1 = Len(q) /\ Len(q2) = n /\ \A i \in 1..n : q2[i] = q[i + 1]
  <2>1. Len(q) - 1 \in Nat /\ (Len(q) - 1) + 1 = Len(q)
    BY DEF Advances
  <2> QED
    BY <2>1 DEF Advances
<1>2. \A j \in 1..(n + 1) : j # 1 => j - 1 \in 1..n /\ (j - 1) + 1 = j /\ q2[j - 1] = q[j]
  BY <1>1
<1>3. \A i \in 1..n : i + 1 \in 1..(n + 1) /\ (i + 1) - 1 = i
  OBVIOUS
<1>4. ASSUME Line(q, op, k, e, s) PROVE Line(q2, op, k, e, s)
  <2>1. ASSUME NEW i \in 1..n, Carries(q2[i], op, k)
        PROVE  /\ q2[i].m \in e..s
               /\ \A m \in e..q2[i].m : \E j \in 1..i : Carries(q2[j], op, k) /\ q2[j].m = m
               /\ \A j \in 1..(i - 1) : Carries(q2[j], op, k) => q2[j].m < q2[i].m
    <3>1. q2[i] = q[i + 1] /\ i + 1 \in 1..Len(q)
      BY <1>1, <1>3
    <3>2. /\ q[i + 1].m \in e..s
          /\ \A m \in e..q[i + 1].m : \E j \in 1..(i + 1) : Carries(q[j], op, k) /\ q[j].m = m
          /\ \A j \in 1..((i + 1) - 1) : Carries(q[j], op, k) => q[j].m < q[i + 1].m
      BY <1>4, <2>1, <3>1 DEF Line
    <3>3. ASSUME NEW m \in e..q[i + 1].m
          PROVE  \E j \in 1..i : Carries(q2[j], op, k) /\ q2[j].m = m
      <4>1. PICK j \in 1..(i + 1) : Carries(q[j], op, k) /\ q[j].m = m
        BY <3>2
      <4>2. j # 1 /\ j \in 1..(n + 1)
        BY <4>1
      <4>3. j - 1 \in 1..i /\ q2[j - 1] = q[j]
        BY <1>2, <4>1, <4>2
      <4> QED
        BY <4>1, <4>3
    <3>4. ASSUME NEW j \in 1..(i - 1), Carries(q2[j], op, k)
          PROVE  q2[j].m < q[i + 1].m
      <4>1. j \in 1..n /\ q2[j] = q[j + 1] /\ j + 1 \in 1..((i + 1) - 1)
        BY <1>1
      <4> QED
        BY <3>2, <3>4, <4>1
    <3> QED
      BY <3>1, <3>2, <3>3, <3>4
  <2> QED
    BY <1>1, <2>1 DEF Line
<1>5. ASSUME Full(q, op, k, e, s) PROVE Full(q2, op, k, e, s)
  <2>1. ASSUME NEW m \in e..s PROVE \E j \in 1..n : Carries(q2[j], op, k) /\ q2[j].m = m
    <3>1. PICK j \in 1..(n + 1) : Carries(q[j], op, k) /\ q[j].m = m
      BY <1>1, <1>5 DEF Full
    <3>2. j # 1
      BY <3>1
    <3> QED
      BY <1>2, <3>1, <3>2
  <2> QED
    BY <1>1, <2>1 DEF Full
<1> QED
  BY <1>4, <1>5

\* The call that carries the first message leaves the queue.
LEMMA LineTaken ==
    ASSUME NEW q, NEW q2, Advances(q, q2), NEW op, NEW k, NEW e \in Nat, NEW s \in Nat,
           Carries(q[1], op, k), Line(q, op, k, e, s)
    PROVE  /\ q[1].m = e /\ Line(q2, op, k, e + 1, s)
           /\ Full(q, op, k, e, s) => Full(q2, op, k, e + 1, s)
<1>1. PICK n \in Nat : n + 1 = Len(q) /\ Len(q2) = n /\ \A i \in 1..n : q2[i] = q[i + 1]
  <2>1. Len(q) - 1 \in Nat /\ (Len(q) - 1) + 1 = Len(q)
    BY DEF Advances
  <2> QED
    BY <2>1 DEF Advances
<1>2. \A j \in 1..(n + 1) : j # 1 => j - 1 \in 1..n /\ (j - 1) + 1 = j /\ q2[j - 1] = q[j]
  BY <1>1
<1>3. \A i \in 1..n : i + 1 \in 1..(n + 1) /\ (i + 1) - 1 = i
  OBVIOUS
<1>4. q[1].m = e
  <2>1. 1 \in 1..Len(q)
    BY <1>1
  <2>2. q[1].m \in e..s /\ \A m \in e..q[1].m : \E j \in 1..1 : Carries(q[j], op, k) /\ q[j].m = m
    BY <2>1 DEF Line
  <2>3. e \in e..q[1].m
    BY <2>2
  <2> QED
    BY <2>2, <2>3
<1>5. ASSUME NEW i \in 1..n, Carries(q2[i], op, k)
      PROVE  /\ q2[i].m \in (e + 1)..s
             /\ \A m \in (e + 1)..q2[i].m : \E j \in 1..i : Carries(q2[j], op, k) /\ q2[j].m = m
             /\ \A j \in 1..(i - 1) : Carries(q2[j], op, k) => q2[j].m < q2[i].m
  <2>1. q2[i] = q[i + 1] /\ i + 1 \in 1..Len(q)
    BY <1>1, <1>3
  <2>2. /\ q[i + 1].m \in e..s
        /\ \A m \in e..q[i + 1].m : \E j \in 1..(i + 1) : Carries(q[j], op, k) /\ q[j].m = m
        /\ \A j \in 1..((i + 1) - 1) : Carries(q[j], op, k) => q[j].m < q[i + 1].m
    BY <1>5, <2>1 DEF Line
  <2>3. e < q[i + 1].m
    <3>1. 1 \in 1..((i + 1) - 1)
      OBVIOUS
    <3> QED
      BY <1>4, <2>2, <3>1
  <2>4. q[i + 1].m \in (e + 1)..s
    BY <2>2, <2>3
  <2>5. ASSUME NEW m \in (e + 1)..q[i + 1].m
        PROVE  \E j \in 1..i : Carries(q2[j], op, k) /\ q2[j].m = m
    <3>0. m \in e..q[i + 1].m /\ m # e
      BY <2>4
    <3>1. PICK j \in 1..(i + 1) : Carries(q[j], op, k) /\ q[j].m = m
      BY <2>2, <3>0
    <3>2. j # 1 /\ j \in 1..(n + 1)
      BY <1>4, <3>0, <3>1
    <3>3. j - 1 \in 1..i /\ q2[j - 1] = q[j]
      BY <1>2, <3>1, <3>2
    <3> QED
      BY <3>1, <3>3
  <2>6. ASSUME NEW j \in 1..(i - 1), Carries(q2[j], op, k)
        PROVE  q2[j].m < q[i + 1].m
    <3>1. j \in 1..n /\ q2[j] = q[j + 1] /\ j + 1 \in 1..((i + 1) - 1)
      BY <1>1
    <3> QED
      BY <2>2, <2>6, <3>1
  <2> QED
    BY <2>1, <2>4, <2>5, <2>6
<1>6. Line(q2, op, k, e + 1, s)
  BY <1>1, <1>5 DEF Line
<1>7. ASSUME Full(q, op, k, e, s) PROVE Full(q2, op, k, e + 1, s)
  <2>1. ASSUME NEW m \in (e + 1)..s PROVE \E j \in 1..n : Carries(q2[j], op, k) /\ q2[j].m = m
    <3>0. m \in e..s /\ m # e
      OBVIOUS
    <3>1. PICK j \in 1..(n + 1) : Carries(q[j], op, k) /\ q[j].m = m
      BY <1>1, <1>7, <3>0 DEF Full
    <3>2. j # 1
      BY <1>4, <3>0, <3>1
    <3> QED
      BY <1>2, <3>1, <3>2
  <2> QED
    BY <1>1, <2>1 DEF Full
<1> QED
  BY <1>4, <1>6, <1>7

\* The first message that is not begun with.
LEMMA DueIs ==
    ASSUME NEW p, NEW op, NEW k, NEW r, Len(r) \in Nat
    PROVE  Due(p, op, k, Len(r)) \in Nat /\ Due(p, op, k, Len(r)) >= 1
  BY DEF Due

\* Another call joins the queue.
LEMMA OtherJoined ==
    ASSUME NEW p, NEW q, NEW q2, NEW f, Joined(q, q2, f), NEW op, NEW k, ~Carries(f, op, k),
           NEW r, Len(r) \in Nat, NEW s \in Nat
    PROVE  /\ Bounded(p, q, op, k, s) => Bounded(p, q2, op, k, s)
           /\ InLine(p, q, op, k, r, s) => InLine(p, q2, op, k, r, s)
           /\ NoneLost(p, q, op, k, r, s) => NoneLost(p, q2, op, k, r, s)
<1>1. PICK e \in Nat : e = Due(p, op, k, Len(r))
  BY DueIs
<1>2. /\ Line(q, op, k, e, s) => Line(q2, op, k, e, s)
      /\ Full(q, op, k, e, s) => Full(q2, op, k, e, s)
  BY LineJoined
<1>3. PICK n \in Nat : n = Len(q) /\ Len(q2) = n + 1 /\ q2[n + 1] = f /\ \A i \in 1..n : q2[i] = q[i]
  BY DEF Joined
<1>4. \A i \in 1..(n + 1) : i = n + 1 \/ i \in 1..n
  OBVIOUS
<1>5. Bounded(p, q, op, k, s) => Bounded(p, q2, op, k, s)
  BY <1>3, <1>4 DEF Bounded
<1> QED
  BY <1>1, <1>2, <1>5 DEF InLine, NoneLost

\* A message is sent ...
LEMMA MessageJoined ==
    ASSUME NEW p, NEW q, NEW q2, NEW f, Joined(q, q2, f), NEW op, NEW k, Carries(f, op, k),
           NEW r, Len(r) \in Nat, NEW s \in Nat, f.m = s + 1, AsSent(r, s),
           Bounded(p, q, op, k, s), InLine(p, q, op, k, r, s), NoneLost(p, q, op, k, r, s)
    PROVE  /\ Bounded(p, q2, op, k, s + 1) /\ InLine(p, q2, op, k, r, s + 1)
           /\ NoneLost(p, q2, op, k, r, s + 1)
<1>1. PICK e \in Nat : e = Due(p, op, k, Len(r))
  BY DueIs
<1>2. e <= s + 1
  <2>1. CASE Begun(p, op, k)
    <3>1. p[Len(p)].m = Len(r) + 1 /\ p[Len(p)].m \in 1..s
      BY <2>1 DEF InLine, Bounded
    <3>2. e = Len(r) + 2
      BY <1>1, <2>1 DEF Due
    <3> QED
      BY <3>1, <3>2
  <2>2. CASE ~Begun(p, op, k)
    <3>1. e = Len(r) + 1 /\ Len(r) <= s
      BY <1>1, <2>2 DEF Due, AsSent
    <3> QED
      BY <3>1
  <2> QED
    BY <2>1, <2>2
<1>3. Line(q, op, k, e, s) /\ Full(q, op, k, e, s)
  BY <1>1 DEF InLine, NoneLost
<1>4. Line(q2, op, k, e, s + 1) /\ Full(q2, op, k, e, s + 1)
  BY <1>2, <1>3, LineSent
<1>5. PICK n \in Nat : n = Len(q) /\ Len(q2) = n + 1 /\ q2[n + 1] = f /\ \A i \in 1..n : q2[i] = q[i]
  BY DEF Joined
<1>6. \A i \in 1..(n + 1) : i = n + 1 \/ i \in 1..n
  OBVIOUS
<1>7. s + 1 \in 1..(s + 1) /\ 1..s \subseteq 1..(s + 1)
  OBVIOUS
<1>8. Bounded(p, q2, op, k, s + 1)
  BY <1>5, <1>6, <1>7 DEF Bounded
<1> QED
  BY <1>1, <1>4, <1>8 DEF InLine, NoneLost

\* ... or is not, as nobody is there.
LEMMA MessageUnsent ==
    ASSUME NEW p, NEW q, NEW op, NEW k, NEW r, Len(r) \in Nat, NEW s \in Nat
    PROVE  /\ AsSent(r, s) => AsSent(r, s + 1)
           /\ Bounded(p, q, op, k, s) => Bounded(p, q, op, k, s + 1)
           /\ InLine(p, q, op, k, r, s) => InLine(p, q, op, k, r, s + 1)
<1>1. PICK e \in Nat : e = Due(p, op, k, Len(r))
  BY DueIs
<1>2. 1..s \subseteq 1..(s + 1) /\ e..s \subseteq e..(s + 1)
  OBVIOUS
<1>3. AsSent(r, s) => AsSent(r, s + 1)
  BY DEF AsSent
<1>4. Bounded(p, q, op, k, s) => Bounded(p, q, op, k, s + 1)
  BY <1>2 DEF Bounded
<1>5. Line(q, op, k, e, s) => Line(q, op, k, e, s + 1)
  BY <1>2 DEF Line
<1> QED
  BY <1>1, <1>3, <1>4, <1>5 DEF InLine

\* The thread takes a call.
LEMMA CallTaken ==
    ASSUME NEW p, NEW p2, NEW q, NEW q2, Advances(q, q2), NEW op, NEW k, ~Begun(p, op, k),
           p2 # << >>, p2[Len(p2)] = q[1], q[1].at = "start",
           NEW r, Len(r) \in Nat, NEW s \in Nat
    PROVE  /\ Bounded(p, q, op, k, s) => Bounded(p2, q2, op, k, s)
           /\ InLine(p, q, op, k, r, s) => InLine(p2, q2, op, k, r, s)
           /\ InLine(p, q, op, k, r, s) /\ NoneLost(p, q, op, k, r, s)
                => NoneLost(p2, q2, op, k, r, s)
<1>1. PICK e \in Nat : e = Len(r) + 1
  OBVIOUS
<1>2. Due(p, op, k, Len(r)) = e
  BY <1>1 DEF Due
<1>3. Begun(p2, op, k) <=> Carries(q[1], op, k)
  BY DEF Begun
<1>4. Bounded(p, q, op, k, s) => Bounded(p2, q2, op, k, s)
  <2>1. \A i \in 1..Len(q2) : i + 1 \in 1..Len(q) /\ q2[i] = q[i + 1]
    BY DEF Advances
  <2>2. 1 \in 1..Len(q)
    BY DEF Advances
  <2> QED
    BY <1>3, <2>1, <2>2 DEF Bounded
<1>5. CASE Carries(q[1], op, k)
  <2>1. Due(p2, op, k, Len(r)) = e + 1
    BY <1>1, <1>3, <1>5 DEF Due
  <2>2. ASSUME Line(q, op, k, e, s)
        PROVE  /\ q[1].m = e /\ Line(q2, op, k, e + 1, s)
               /\ Full(q, op, k, e, s) => Full(q2, op, k, e + 1, s)
    BY <1>5, <2>2, LineTaken
  <2> QED
    BY <1>1, <1>2, <1>4, <2>1, <2>2 DEF InLine, NoneLost
<1>6. CASE ~Carries(q[1], op, k)
  <2>1. Due(p2, op, k, Len(r)) = e
    BY <1>1, <1>3, <1>6 DEF Due
  <2>2. /\ Line(q, op, k, e, s) => Line(q2, op, k, e, s)
        /\ Full(q, op, k, e, s) => Full(q2, op, k, e, s)
    BY <1>6, LineAdvances
  <2> QED
    BY <1>2, <1>3, <1>4, <1>6, <2>1, <2>2 DEF InLine, NoneLost
<1> QED
  BY <1>5, <1>6

\* The channel is given the message that the thread has begun with.
LEMMA MessageGiven ==
    ASSUME NEW p, NEW p2, NEW q, NEW op, NEW k, Begun(p, op, k), ~Begun(p2, op, k),
           NEW r \in Seq(Nat \ {0}), NEW s \in Nat, AsSent(r, s), Bounded(p, q, op, k, s),
           InLine(p, q, op, k, r, s), NEW m, p[Len(p)].m = m
    PROVE  /\ Append(r, m) \in Seq(Nat \ {0})
           /\ AsSent(Append(r, m), s)
           /\ Bounded(p2, q, op, k, s) /\ InLine(p2, q, op, k, Append(r, m), s)
           /\ NoneLost(p, q, op, k, r, s) => NoneLost(p2, q, op, k, Append(r, m), s)
<1>1. PICK n \in Nat : n = Len(r)
  BY LenProperties
<1>2. p[Len(p)].m = n + 1 /\ p[Len(p)].m \in 1..s
  BY <1>1 DEF InLine, Bounded
<1>3. /\ Append(r, n + 1) \in Seq(Nat \ {0}) /\ Len(Append(r, n + 1)) = n + 1
      /\ Append(r, n + 1)[n + 1] = n + 1 /\ \A i \in 1..n : Append(r, n + 1)[i] = r[i]
  <2>1. n + 1 \in Nat \ {0}
    OBVIOUS
  <2> QED
    BY <1>1, <2>1, AppendProperties
<1>4. PICK r2 \in Seq(Nat \ {0}) : r2 = Append(r, n + 1)
  BY <1>3
<1>5. Len(r2) = n + 1 /\ r2[n + 1] = n + 1 /\ \A i \in 1..n : r2[i] = r[i]
  BY <1>3, <1>4
<1>6. r2 = Numbers(Len(r2))
  <2>1. \A i \in 1..n : r[i] = i
    BY <1>1 DEF AsSent, Numbers
  <2>2. \A i \in 1..(n + 1) : r2[i] = i
    <3>1. \A i \in 1..(n + 1) : i \in 1..n \/ i = n + 1
      OBVIOUS
    <3> QED
      BY <1>5, <2>1, <3>1
  <2>3. Numbers(n + 1) \in Seq(Nat) /\ Len(Numbers(n + 1)) = n + 1
        /\ \A i \in 1..(n + 1) : Numbers(n + 1)[i] = i
    BY DEF Numbers
  <2>4. r2 \in Seq(Nat)
    <3>1. \A i \in 1..Len(r2) : r2[i] \in Nat
      BY ElementOfSeq
    <3> QED
      BY <3>1
  <2> QED
    BY <1>5, <2>2, <2>3, <2>4, SeqEqual
<1>7. AsSent(r2, s)
  BY <1>2, <1>5, <1>6 DEF AsSent
<1>8. Bounded(p2, q, op, k, s)
  BY DEF Bounded
<1>9. Due(p, op, k, Len(r)) = n + 2 /\ Due(p2, op, k, Len(r2)) = n + 2
  BY <1>1, <1>5 DEF Due
<1>10. InLine(p2, q, op, k, r2, s)
  BY <1>9 DEF InLine
<1>11. NoneLost(p, q, op, k, r, s) => NoneLost(p2, q, op, k, r2, s)
  BY <1>9 DEF NoneLost
<1> QED
  BY <1>2, <1>4, <1>7, <1>8, <1>10, <1>11

\* Nothing has been sent yet.
LEMMA NothingSent ==
    ASSUME NEW p, NEW q, NEW op, NEW k, NEW r, Len(r) \in Nat, NEW s, s = 0,
           Bounded(p, q, op, k, s)
    PROVE  InLine(p, q, op, k, r, s) /\ NoneLost(p, q, op, k, r, s)
<1>1. ~Begun(p, op, k) /\ \A i \in 1..Len(q) : ~Carries(q[i], op, k)
  BY DEF Bounded
<1>2. Due(p, op, k, Len(r)) \in Nat /\ Due(p, op, k, Len(r)) >= 1
  BY DueIs
<1>3. Line(q, op, k, Due(p, op, k, Len(r)), s)
  BY <1>1 DEF Line
<1>4. Full(q, op, k, Due(p, op, k, Len(r)), s)
  BY <1>2 DEF Full
<1> QED
  BY <1>1, <1>3, <1>4 DEF InLine, NoneLost

-----------------------------------------------------------------------------
(* The state *)

\* TypeOK without the calls, which Graph describes.
ValuesOK ==
    /\ registered \in BOOLEAN /\ serving \in BOOLEAN
    /\ client \in [Clients -> {"none", "connecting", "connected", "closing", "refused", "gone"}]
    /\ sink \in [Clients -> SUBSET {"ctor", "stub"}]
    /\ session \in [Clients -> {"none", "open", "gone"}]
    /\ inbound \in [Clients -> BOOLEAN] /\ stub \in [Clients -> BOOLEAN]
    /\ outbound \in [Clients -> BOOLEAN]
    /\ told \in [Sides -> [Clients -> Nat]]
    /\ sent \in [Sides -> [Clients -> Nat]]
    /\ received \in [Sides -> [Clients -> Seq(Nat \ {0})]]
    /\ crashed \subseteq Apartments

CallsOK(st, ib) ==
    \A a \in Apartments : \A q \in {st[a], ib[a]} : \A i \in 1..Len(q) :
        /\ q[i].op \in (IF a = "server" THEN ServerOps ELSE ClientOps)
        /\ q[i].of \in (IF a = "server" THEN Apartments ELSE {a})
        /\ q[i].m \in Nat
        /\ q[i].at \in Places

\* Calls of the graph have their types.
LEMMA FramesOK ==
    ASSUME NEW st, NEW ib, Graph(st, ib)
    PROVE  CallsOK(st, ib)
<1>1. ASSUME NEW a \in Apartments, NEW f \in Call, InPlace(a, f)
      PROVE  /\ f.op \in (IF a = "server" THEN ServerOps ELSE ClientOps)
             /\ f.of \in (IF a = "server" THEN Apartments ELSE {a})
             /\ f.m \in Nat /\ f.at \in Places
  BY <1>1, Fields DEF InPlace
<1>2. ASSUME NEW a \in Apartments, NEW i \in 1..Len(st[a])
      PROVE  st[a][i] \in Call /\ InPlace(a, st[a][i])
  BY Lengths DEF Graph, Stacked
<1>3. ASSUME NEW a \in Apartments, NEW i \in 1..Len(ib[a])
      PROVE  ib[a][i] \in Call /\ InPlace(a, ib[a][i])
  BY Lengths DEF Graph, Queued
<1> QED
  BY <1>1, <1>2, <1>3 DEF CallsOK

Orderly == Calls(stack, inbox, client, session, FreshOnes)

\* The parts of the inductive invariant that actions disturb.
LEMMA Parts ==
    IInv <=> /\ ValuesOK /\ Orderly /\ \A k \in Clients : Lives(k)
             /\ \A k \in Clients : ToServer(k) /\ ToClient(k)
             /\ CrashesOnlyInConnect
<1>1. ASSUME Graph(stack, inbox)
      PROVE  TypeOK <=> ValuesOK
  <2>1. CallsOK(stack, inbox)
    BY <1>1, FramesOK
  <2> QED
    BY <2>1 DEF TypeOK, ValuesOK, Places, CallsOK
<1> QED
  BY <1>1 DEF IInv, Orderly, Calls

\* ... of the next state.
LEMMA PartsNext ==
    ASSUME ValuesOK', Orderly', \A k \in Clients : Lives(k)',
           \A k \in Clients : ToServer(k)' /\ ToClient(k)', CrashesOnlyInConnect'
    PROVE  IInv'
<1>1. Graph(stack', inbox')
  BY DEF Orderly, Calls
<1>2. CallsOK(stack', inbox')
  BY <1>1, FramesOK
<1>3. TypeOK'
  BY <1>2 DEF TypeOK, ValuesOK, Places, CallsOK
<1> QED
  BY <1>3 DEF IInv, Orderly, Calls

\* Counts are numbers, and what is received is a sequence.
LEMMA Counts ==
    ASSUME ValuesOK, NEW s \in Sides, NEW k \in Clients
    PROVE  /\ told[s][k] \in Nat /\ sent[s][k] \in Nat /\ received[s][k] \in Seq(Nat \ {0})
           /\ Len(received[s][k]) \in Nat
<1>1. received[s][k] \in Seq(Nat \ {0})
  BY DEF ValuesOK
<1>2. Len(received[s][k]) \in Nat
  BY <1>1, LenProperties
<1> QED
  BY <1>1, <1>2 DEF ValuesOK

-----------------------------------------------------------------------------
(* Steps in which no message of a client moves *)

QueueKept(q, q2, op, k) == q2 = q \/ \E f : Joined(q, q2, f) /\ ~Carries(f, op, k)

\* Messages stay in line in a queue that no message joins.
LEMMA FlowKept ==
    ASSUME NEW p, NEW p2, NEW q, NEW q2, NEW op, NEW k, NEW r, NEW s \in Nat, Len(r) \in Nat,
           SameStart(p, p2, op, k), QueueKept(q, q2, op, k)
    PROVE  /\ Bounded(p, q, op, k, s) => Bounded(p2, q2, op, k, s)
           /\ InLine(p, q, op, k, r, s) => InLine(p2, q2, op, k, r, s)
           /\ NoneLost(p, q, op, k, r, s) => NoneLost(p2, q2, op, k, r, s)
<1>1. /\ Bounded(p, q, op, k, s) => Bounded(p2, q, op, k, s)
      /\ InLine(p, q, op, k, r, s) => InLine(p2, q, op, k, r, s)
      /\ NoneLost(p, q, op, k, r, s) => NoneLost(p2, q, op, k, r, s)
  BY StartKept
<1>2. CASE q2 = q
  BY <1>1, <1>2
<1>3. CASE \E f : Joined(q, q2, f) /\ ~Carries(f, op, k)
  <2>1. PICK f : Joined(q, q2, f) /\ ~Carries(f, op, k)
    BY <1>3
  <2>2. /\ Bounded(p2, q, op, k, s) => Bounded(p2, q2, op, k, s)
        /\ InLine(p2, q, op, k, r, s) => InLine(p2, q2, op, k, r, s)
        /\ NoneLost(p2, q, op, k, r, s) => NoneLost(p2, q2, op, k, r, s)
    BY <2>1, OtherJoined
  <2> QED
    BY <1>1, <2>2
<1> QED
  BY <1>2, <1>3 DEF QueueKept

\* Messages to the server stay in line when none of them moves ...
LEMMA ToServerKept ==
    ASSUME ValuesOK, NEW k \in Clients, ToServer(k),
           SameStart(stack["server"], stack'["server"], "write", k),
           QueueKept(inbox["server"], inbox'["server"], "write", k),
           received'["server"][k] = received["server"][k],
           sent'["client"][k] = sent["client"][k], stub'[k] => stub[k]
    PROVE  ToServer(k)'
<1>1. sent["client"][k] \in Nat /\ Len(received["server"][k]) \in Nat
  BY Counts DEF Sides
<1>2. PICK r : r = received["server"][k]
  OBVIOUS
<1>3. PICK s : s = sent["client"][k]
  OBVIOUS
<1>4. PICK p, p2, q, q2 : p = stack["server"] /\ p2 = stack'["server"]
                          /\ q = inbox["server"] /\ q2 = inbox'["server"]
  OBVIOUS
<1>5. SameStart(p, p2, "write", k) /\ QueueKept(q, q2, "write", k) /\ s \in Nat /\ Len(r) \in Nat
  BY <1>1, <1>2, <1>3, <1>4
<1>6. /\ Bounded(p, q, "write", k, s) => Bounded(p2, q2, "write", k, s)
      /\ InLine(p, q, "write", k, r, s) => InLine(p2, q2, "write", k, r, s)
      /\ NoneLost(p, q, "write", k, r, s) => NoneLost(p2, q2, "write", k, r, s)
  BY <1>5, FlowKept
<1> QED
  BY <1>2, <1>3, <1>4, <1>6 DEF ToServer

\* ... and so do messages to the client ...
LEMMA ToClientKept ==
    ASSUME ValuesOK, NEW k \in Clients, ToClient(k),
           SameStart(stack[k], stack'[k], "sink_write", k),
           QueueKept(inbox[k], inbox'[k], "sink_write", k),
           received'["client"][k] = received["client"][k],
           sent'["server"][k] = sent["server"][k], "stub" \in sink'[k] => "stub" \in sink[k]
    PROVE  ToClient(k)'
<1>1. sent["server"][k] \in Nat /\ Len(received["client"][k]) \in Nat
  BY Counts DEF Sides
<1>2. PICK r : r = received["client"][k]
  OBVIOUS
<1>3. PICK s : s = sent["server"][k]
  OBVIOUS
<1>4. PICK p, p2, q, q2 : p = stack[k] /\ p2 = stack'[k] /\ q = inbox[k] /\ q2 = inbox'[k]
  OBVIOUS
<1>5. SameStart(p, p2, "sink_write", k) /\ QueueKept(q, q2, "sink_write", k) /\ s \in Nat /\ Len(r) \in Nat
  BY <1>1, <1>2, <1>3, <1>4
<1>6. /\ Bounded(p, q, "sink_write", k, s) => Bounded(p2, q2, "sink_write", k, s)
      /\ InLine(p, q, "sink_write", k, r, s) => InLine(p2, q2, "sink_write", k, r, s)
      /\ NoneLost(p, q, "sink_write", k, r, s) => NoneLost(p2, q2, "sink_write", k, r, s)
  BY <1>5, FlowKept
<1> QED
  BY <1>2, <1>3, <1>4, <1>6 DEF ToClient

\* No message of any client moves.
Quiet(q, q2) ==
    \A a \in Apartments :
        q2[a] = q[a] \/ \E f : Joined(q[a], q2[a], f) /\ f.op \notin {"write", "sink_write"}

\* ... a step that begins with no message ...
LEMMA StillStarts ==
    ASSUME NEW st, NEW st2, Still(st, st2), NEW a \in Apartments, NEW k \in Clients,
           NEW op \in {"write", "sink_write"}
    PROVE  SameStart(st[a], st2[a], op, k)
  BY DEF Still, SameStart

\* ... and sends none ...
LEMMA QuietQueue ==
    ASSUME NEW q, NEW q2, Quiet(q, q2), NEW a \in Apartments, NEW k,
           NEW op \in {"write", "sink_write"}
    PROVE  QueueKept(q[a], q2[a], op, k)
  BY DEF Quiet, QueueKept, Carries

\* ... keeps all of them in line.
LEMMA MessagesKept ==
    ASSUME ValuesOK, \A k \in Clients : ToServer(k) /\ ToClient(k),
           Still(stack, stack'), Quiet(inbox, inbox'), sent' = sent, received' = received,
           \A k \in Clients : stub'[k] => stub[k],
           \A k \in Clients : "stub" \in sink'[k] => "stub" \in sink[k]
    PROVE  \A k \in Clients : ToServer(k)' /\ ToClient(k)'
<1> SUFFICES ASSUME NEW k \in Clients PROVE ToServer(k)' /\ ToClient(k)'
  OBVIOUS
<1>1. k \in Apartments /\ "server" \in Apartments
  BY DEF Apartments
<1>2. /\ SameStart(stack["server"], stack'["server"], "write", k)
      /\ SameStart(stack[k], stack'[k], "sink_write", k)
  BY <1>1, StillStarts
<1>3. /\ QueueKept(inbox["server"], inbox'["server"], "write", k)
      /\ QueueKept(inbox[k], inbox'[k], "sink_write", k)
  BY <1>1, QuietQueue
<1>4. ToServer(k)'
  BY <1>2, <1>3, ToServerKept
<1>5. ToClient(k)'
  BY <1>2, <1>3, ToClientKept
<1> QED
  BY <1>4, <1>5

-----------------------------------------------------------------------------
(* The steps of threads *)

\* A thread at rest is in no call.
LEMMA AtRest ==
    ASSUME Graph(stack, inbox), NEW a \in Apartments, At(a) = "rest"
    PROVE  stack[a] = << >>
<1>1. ASSUME stack[a] # << >> PROVE FALSE
  <2>1. Top(a) \in Call
    BY <1>1, TopPlace, Lengths DEF Graph, Top
  <2> QED
    BY <1>1, <2>1, Fields DEF At, Places
<1> QED
  BY <1>1

\* A thread that is not at rest is in the call on top of its stack.
LEMMA TopIs ==
    ASSUME Graph(stack, inbox), NEW a \in Apartments, At(a) # "rest"
    PROVE  /\ stack[a] # << >> /\ Len(stack[a]) \in 1..Len(stack[a]) /\ Len(stack[a]) \in Nat
           /\ Top(a) = stack[a][Len(stack[a])] /\ Top(a).at = At(a) /\ Top(a) \in Call
           /\ Stacked(stack, a, Len(stack[a])) /\ InPlace(a, Top(a))
<1>1. stack[a] # << >>
  BY DEF At
<1>2. Len(stack[a]) \in 1..Len(stack[a]) /\ Len(stack[a]) \in Nat
  BY <1>1, TopPlace DEF Graph
<1>3. Top(a) \in Call /\ Stacked(stack, a, Len(stack[a]))
  BY <1>2, Lengths DEF Graph, Top
<1> QED
  BY <1>1, <1>2, <1>3 DEF At, Top, Stacked

\* The fields of a new call.
LEMMA FrameIs ==
    ASSUME NEW op \in ClientOps \cup ServerOps, NEW k \in Apartments, NEW m \in Nat,
           NEW at \in Places, NEW ret \in {<< >>} \cup Returns
    PROVE  /\ Frame(op, k, m, at, ret) \in Call
           /\ Frame(op, k, m, at, ret).op = op /\ Frame(op, k, m, at, ret).of = k
           /\ Frame(op, k, m, at, ret).m = m /\ Frame(op, k, m, at, ret).at = at
           /\ Frame(op, k, m, at, ret).ret = ret
  BY DEF Frame, Call

\* A call that carries no message goes on.
LEMMA StillMoved ==
    ASSUME NEW st \in Queues, NEW b \in Apartments, st[b] # << >>, NEW p, p # "start", NEW st2,
           Moved(st, st2, b, Len(st[b]), p), st[b][Len(st[b])].op \notin {"write", "sink_write"}
    PROVE  Still(st, st2)
<1>1. ASSUME NEW a \in Apartments
      PROVE  /\ Len(st2[a]) = Len(st[a]) /\ (st2[a] = << >> <=> st[a] = << >>)
             /\ st[a] # << >> => Len(st[a]) \in 1..Len(st[a])
  <2>1. Len(st2[a]) = Len(st[a]) /\ st[a] \in Seq(Call) /\ st2[a] \in Seq(Call)
    BY Lengths DEF Moved
  <2> QED
    BY <2>1, EmptySeq
<1>2. ASSUME NEW a \in Apartments, st[a] # << >>
      PROVE  /\ st2[a][Len(st2[a])].op = st[a][Len(st[a])].op
             /\ st2[a][Len(st2[a])].of = st[a][Len(st[a])].of
             /\ st2[a][Len(st2[a])].m = st[a][Len(st[a])].m
             /\ a # b => st2[a][Len(st2[a])].at = st[a][Len(st[a])].at
  BY <1>1, <1>2 DEF Moved
<1> QED
  BY <1>1, <1>2 DEF Still, Begun, Carries

\* A thread goes on in its call.
LEMMA GotoStep ==
    ASSUME NEW cl, NEW se, NEW fr, Calls(stack, inbox, cl, se, fr), NEW a \in Apartments,
           At(a) \notin {"rest", "wait"}, NEW p \in Places, p \notin {"start", "query"},
           p = "drop" => se[Top(a).of] = "gone", p \in {"end", "drop"} => Top(a).op \in Enders,
           Goto(a, p)
    PROVE  /\ Calls(stack', inbox', cl, se, fr) /\ inbox' = inbox
           /\ Moved(stack, stack', a, Len(stack[a]), p)
           /\ At(a) # "start" \/ Top(a).op \notin {"write", "sink_write"} => Still(stack, stack')
<1>1. Graph(stack, inbox) /\ stack \in Queues
  BY DEF Calls, Graph
<1>2. stack[a] # << >> /\ Top(a) = stack[a][Len(stack[a])] /\ Top(a).at = At(a)
  BY <1>1, TopIs
<1>3. stack' = [stack EXCEPT ![a][Len(stack[a])].at = p] /\ inbox' = inbox
  BY DEF Goto, Advanced
<1>4. PICK st, st2, ib : st = stack /\ st2 = stack' /\ ib = inbox
  OBVIOUS
<1>5. /\ Calls(st, ib, cl, se, fr) /\ st[a] # << >> /\ st[a][Len(st[a])].at # "wait"
      /\ p = "drop" => se[st[a][Len(st[a])].of] = "gone"
      /\ p \in {"end", "drop"} => st[a][Len(st[a])].op \in Enders
  BY <1>2, <1>4
<1>6. Moved(st, st2, a, Len(st[a]), p)
  <2>1. PICK n \in 1..Len(st[a]) : n = Len(st[a])
    BY <1>1, <1>4, <1>5, TopPlace
  <2>2. st2 = Resumed(st, a, n, p) /\ st \in Queues
    BY <1>1, <1>3, <1>4, <2>1 DEF Resumed
  <2>3. Moved(st, Resumed(st, a, n, p), a, n, p)
    BY <2>2, MovedIs DEF Resumed
  <2> QED
    BY <2>1, <2>2, <2>3
<1>7. Calls(st2, ib, cl, se, fr) /\ (st[a][Len(st[a])].at # "start" => Still(st, st2))
  BY <1>5, <1>6, GotoKeeps
<1>8. st[a][Len(st[a])].op \notin {"write", "sink_write"} => Still(st, st2)
  BY <1>1, <1>4, <1>5, <1>6, StillMoved
<1> QED
  BY <1>2, <1>3, <1>4, <1>6, <1>7, <1>8

\* A thread returns from its call, to go on at p.
LEMMA ReturnStep ==
    ASSUME NEW cl, NEW se, NEW fr, Calls(stack, inbox, cl, se, fr), NEW a \in Apartments,
           At(a) \notin {"rest", "wait"}, At(a) # "start" \/ Top(a).op = "create",
           NEW cl2, NEW se2, NEW fr2, Claims(Rest(stack, a), inbox, cl2, se2, fr2),
           NEW p, Top(a).ret # << >> =>
                    p \in Places \ {"start", "end", "drop"} /\ (p = "query" => Top(a).ret[1] \in fr2),
           stack' = Popped(a, p)
    PROVE  Calls(stack', inbox, cl2, se2, fr2) /\ Still(stack, stack')
<1>1. Graph(stack, inbox)
  BY DEF Calls, Graph
<1>2. stack[a] # << >> /\ Top(a) = stack[a][Len(stack[a])] /\ Top(a).at = At(a)
  BY <1>1, TopIs
<1>3. PICK st, st2, ib, f : st = stack /\ st2 = stack' /\ ib = inbox /\ f = Top(a)
  OBVIOUS
<1>4. st2 = IF f.ret = << >> THEN Rest(st, a) ELSE [Rest(st, a) EXCEPT ![f.ret[1]][f.ret[2]].at = p]
  BY <1>3 DEF Popped, Rest
<1>5. /\ Calls(st, ib, cl, se, fr) /\ st[a] # << >> /\ f = st[a][Len(st[a])] /\ f.at # "wait"
      /\ f.at # "start" \/ f.op = "create"
      /\ Claims(Rest(st, a), ib, cl2, se2, fr2)
      /\ f.ret # << >> => p \in Places \ {"start", "end", "drop"} /\ (p = "query" => f.ret[1] \in fr2)
  BY <1>2, <1>3
<1>6. Calls(st2, ib, cl2, se2, fr2) /\ Still(st, st2)
  BY <1>4, <1>5, ReturnKeeps, ZenonT(60)
<1> QED
  BY <1>3, <1>6

\* A call returns to where its caller expects it.
LEMMA ReturnPlace ==
    ASSUME Graph(stack, inbox), NEW a \in Apartments, At(a) # "rest", Top(a).ret # << >>
    PROVE  /\ Top(a).ret[3] \in Places \ {"start", "end", "drop"}
           /\ Top(a).ret[3] = "query" => Top(a).op = "create"
           /\ Top(a).ret \in Returns
<1>1. PICK f \in Call : f = Top(a) /\ InPlace(a, f) /\ (f.op \in Remote => Awaited(stack, f))
  BY TopIs DEF Stacked
<1>2. f.ret \in Returns /\ f.ret[3] \in {"query", "leave", "uninit", "user"}
  BY <1>1, Fields, ReturnParts
<1>3. CASE f.op \in Remote
  <2>1. Answers(f, stack[f.ret[1]][f.ret[2]])
    BY <1>1, <1>3 DEF Awaited
  <2> QED
    BY <1>1, <1>2, <1>3, <2>1 DEF Answers, Remote, Places
<1>4. CASE f.op \notin Remote
  BY <1>1, <1>2, <1>4 DEF InPlace, Places
<1> QED
  BY <1>3, <1>4

\* CreateInstance() returns to a client whose sink the server has not got.
LEMMA CreateReturns ==
    ASSUME NEW cl, NEW se, NEW fr, Calls(stack, inbox, cl, se, fr), NEW a \in Apartments,
           At(a) # "rest", Top(a).op = "create"
    PROVE  /\ Top(a).of \in Clients /\ Top(a).of \in fr /\ Top(a).ret # << >>
           /\ Top(a).ret[1] = Top(a).of /\ se[Top(a).of] = "none"
<1>1. Graph(stack, inbox)
  BY DEF Calls
<1>2. PICK f \in Call : f = Top(a) /\ Awaited(stack, f)
  BY <1>1, TopIs DEF Stacked, Remote
<1>3. f.ret # << >> /\ f.ret[1] = f.of /\ f.of \in Apartments
  BY <1>2, Fields, ReturnParts DEF Awaited, IntoClient
<1>4. f.of \in Clients
  <2>1. f.ret[2] \in 1..Len(stack[f.of]) /\ stack[f.of][f.ret[2]].op = "connect"
    BY <1>2, <1>3 DEF Awaited, Answers
  <2>2. InPlace(f.of, stack[f.of][f.ret[2]])
    BY <1>1, <1>3, <2>1 DEF Graph, Stacked
  <2> QED
    BY <1>3, <2>1, <2>2 DEF InPlace, Apartments, ServerOps
<1>5. OnStack(a, Len(stack[a]), f, cl, se, fr)
  BY <1>1, <1>2, TopIs DEF Calls, Claims
<1> QED
  BY <1>2, <1>3, <1>4, <1>5 DEF OnStack

\* A call returns.
LEMMA PlainReturn ==
    ASSUME NEW cl, NEW se, NEW fr, Calls(stack, inbox, cl, se, fr), NEW a \in Apartments,
           At(a) \notin {"rest", "wait", "start"} \/ (At(a) = "start" /\ Top(a).op = "create"),
           NEW cl2, NEW se2, NEW fr2, Claims(Rest(stack, a), inbox, cl2, se2, fr2),
           Top(a).op = "create" => Top(a).ret[1] \in fr2, Return(a)
    PROVE  Calls(stack', inbox', cl2, se2, fr2) /\ Still(stack, stack') /\ inbox' = inbox
<1>1. Graph(stack, inbox)
  BY DEF Calls
<1>2. PICK p : p = IF Top(a).ret = << >> THEN "" ELSE Top(a).ret[3]
  OBVIOUS
<1>3. stack' = Popped(a, p) /\ inbox' = inbox
  BY <1>2 DEF Return
<1>4. Top(a).ret # << >> =>
            p \in Places \ {"start", "end", "drop"} /\ (p = "query" => Top(a).ret[1] \in fr2)
  BY <1>1, <1>2, ReturnPlace
<1>5. Calls(stack', inbox, cl2, se2, fr2) /\ Still(stack, stack')
  BY <1>3, <1>4, ReturnStep
<1> QED
  BY <1>3, <1>5

\* A call is the last of the queue it was sent to.
LEMMA JoinedIs ==
    ASSUME NEW q \in Queues, NEW b \in Apartments, NEW f \in Call
    PROVE  /\ Joined(q[b], Longer(q, b, f)[b], f)
           /\ \A c \in Apartments \ {b} : Longer(q, b, f)[c] = q[c]
<1>1. Grown(q, Longer(q, b, f), b, f)
  BY GrownIs DEF Longer
<1>2. Joined(q[b], Longer(q, b, f)[b], f)
  BY <1>1, Lengths DEF Grown, Joined
<1> QED
  BY <1>2 DEF Longer, Queues

\* The stacks once the user's call f was made.
LEMMA EnteredIs ==
    ASSUME stack \in Queues, NEW a \in Apartments, NEW op, NEW k, NEW m, NEW at, NEW f,
           f = Frame(op, k, m, at, IF stack[a] = << >> THEN << >> ELSE << a, Len(stack[a]), "user" >>)
    PROVE  Entered(a, op, k, m, at) = Deeper(stack, a, f)
<1>1. CASE stack[a] = << >>
  <2>1. f = Frame(op, k, m, at, << >>)
    BY <1>1
  <2>2. Entered(a, op, k, m, at) = [stack EXCEPT ![a] = << f >>]
    BY <1>1, <2>1 DEF Entered
  <2>3. Deeper(stack, a, f) = [stack EXCEPT ![a] = Append(<< >>, f)]
    BY <1>1 DEF Deeper, Longer
  <2>4. Append(<< >>, f) = << f >>
    OBVIOUS
  <2> QED
    BY <2>2, <2>3, <2>4
<1>2. CASE stack[a] # << >>
  BY <1>2 DEF Entered, Deeper, Longer, Resumed, Advanced
<1> QED
  BY <1>1, <1>2

\* A call without a message joins a queue.
LEMMA QuietLonger ==
    ASSUME NEW q \in Queues, NEW b \in Apartments, NEW f \in Call,
           f.op \notin {"write", "sink_write"}
    PROVE  Quiet(q, Longer(q, b, f))
<1>1. Joined(q[b], Longer(q, b, f)[b], f) /\ \A c \in Apartments \ {b} : Longer(q, b, f)[c] = q[c]
  BY JoinedIs
<1>2. PICK q2 : q2 = Longer(q, b, f)
  OBVIOUS
<1> QED
  BY <1>1, <1>2 DEF Quiet

\* f is the call op into apartment b that the call on top of a's stack makes.
Calling(a, b, op, p, f) ==
    /\ f = Frame(op, Top(a).of, Top(a).m, "start", << a, Len(stack[a]), p >>)
    /\ op \in Remote /\ p \in {"query", "leave", "uninit", "user"}
    /\ op \in (IF b = "server" THEN ServerOps ELSE ClientOps) /\ (b # "server" => Top(a).of = b)
    /\ a = IF op \in IntoClient THEN "server" ELSE Top(a).of

\* A thread calls into another apartment.
LEMMA CallOutStep ==
    ASSUME NEW cl, NEW se, NEW fr, Calls(stack, inbox, cl, se, fr), NEW a \in Apartments,
           At(a) \notin {"rest", "wait", "start"}, NEW b \in Apartments, NEW op, NEW p,
           CallOut(a, b, op, p), NEW f, Calling(a, b, op, p, f),
           Answers(f, Top(a)), InQueue(f, se, fr)
    PROVE  /\ Calls(stack', inbox', cl, se, fr) /\ Still(stack, stack') /\ f \in Call
           /\ inbox' = Longer(inbox, b, f)
<1>1. Graph(stack, inbox) /\ stack \in Queues /\ inbox \in Queues
  BY DEF Calls, Graph
<1>2. /\ stack[a] # << >> /\ Top(a) = stack[a][Len(stack[a])] /\ Top(a).at = At(a)
      /\ Len(stack[a]) \in Nat /\ Top(a) \in Call
  BY <1>1, TopIs
<1>3. << a, Len(stack[a]), p >> \in Returns /\ op \in ClientOps \cup ServerOps
      /\ Top(a).of \in Apartments /\ Top(a).m \in Nat
  BY <1>2, Fields DEF Returns, Calling
<1>4. /\ f \in Call /\ f.op = op /\ f.of = Top(a).of /\ f.at = "start"
      /\ f.ret = << a, Len(stack[a]), p >> /\ f.ret # << >>
  <2>1. PICK ret \in Returns : ret = << a, Len(stack[a]), p >>
    BY <1>3
  <2>2. PICK x \in Apartments, m \in Nat : x = Top(a).of /\ m = Top(a).m
    BY <1>3
  <2>3. "start" \in Places
    BY DEF Places
  <2>4. f = Frame(op, x, m, "start", ret)
    BY <2>1, <2>2 DEF Calling
  <2> QED
    <3>1. PICK w \in Places : w = "start"
      BY <2>3
    <3>2. f = Frame(op, x, m, w, ret)
      BY <2>4, <3>1
    <3>3. f \in Call /\ f.op = op /\ f.of = x /\ f.at = w /\ f.ret = ret
      BY <1>3, <3>2, FrameIs
    <3>4. ret # << >>
      BY ReturnParts
    <3> QED
      BY <2>1, <2>2, <3>1, <3>3, <3>4
<1>5. inbox' = Longer(inbox, b, f) /\ stack' = Resumed(stack, a, Len(stack[a]), "wait")
  BY DEF CallOut, Sent, Advanced, Longer, Resumed, Calling
<1>6. InPlace(b, f)
  BY <1>4 DEF InPlace, Calling
<1>7. PICK st, ib, t : st = stack /\ ib = inbox /\ t = Top(a)
  OBVIOUS
<1>8. /\ Calls(st, ib, cl, se, fr) /\ st[a] # << >> /\ st[a][Len(st[a])].at \notin {"wait", "start"}
      /\ f.op \in Remote /\ f.ret[1] = a /\ f.ret[2] = Len(st[a])
      /\ a = (IF f.op \in IntoClient THEN "server" ELSE f.of)
      /\ st[a][Len(st[a])].of = f.of /\ Answers(f, st[a][Len(st[a])])
  <2>1. /\ Calls(st, ib, cl, se, fr) /\ st[a] # << >> /\ st[a][Len(st[a])] = t
        /\ t.at \notin {"wait", "start"} /\ Answers(f, t) /\ f.of = t.of
    BY <1>2, <1>4, <1>7
  <2>2. f.op \in Remote /\ a = (IF f.op \in IntoClient THEN "server" ELSE f.of)
    BY <1>4 DEF Calling
  <2>3. f.ret[1] = a /\ f.ret[2] = Len(st[a])
    BY <1>4, <1>7
  <2> QED
    BY <2>1, <2>2, <2>3
<1>9. /\ Calls(Resumed(st, a, Len(st[a]), "wait"), Longer(ib, b, f), cl, se, fr)
      /\ Still(st, Resumed(st, a, Len(st[a]), "wait"))
  BY <1>4, <1>6, <1>8, CallOutKeeps
<1> QED
  BY <1>4, <1>5, <1>7, <1>9

\* f is what the user's call op of client k adds to the stack of apartment a.
Makes(a, op, k, m, at, f) ==
    /\ op \in (IF a = "server" THEN ServerOps ELSE ClientOps) \ Remote
    /\ k \in Apartments /\ (a # "server" => k = a) /\ m \in Nat /\ at \in Places \ {"start"}
    /\ f = Frame(op, k, m, at, IF stack[a] = << >> THEN << >> ELSE << a, Len(stack[a]), "user" >>)

\* It returns to the callback that the thread is in.
FromUser(a, f) == f.ret = IF stack[a] = << >> THEN << >> ELSE << a, Len(stack[a]), "user" >>

\* A thread in the user's code is in a callback, if in a call at all.
LEMMA UserTop ==
    ASSUME Graph(stack, inbox), NEW a \in Apartments, UserTurn(a)
    PROVE  stack[a] # << >> => stack[a][Len(stack[a])].at = "user"
<1>1. CASE At(a) = "rest"
  BY <1>1, AtRest
<1>2. CASE At(a) = "user"
  BY <1>2, TopIs
<1> QED
  BY <1>1, <1>2 DEF UserTurn

\* The fields of the user's call.
LEMMA UserFrameIs ==
    ASSUME Graph(stack, inbox), NEW a \in Apartments,
           NEW op, NEW k, NEW m, NEW at, NEW f, Makes(a, op, k, m, at, f)
    PROVE  /\ f \in Call /\ f.op = op /\ f.of = k /\ f.at = at /\ f.m = m
           /\ FromUser(a, f) /\ InPlace(a, f)
<1>1. Len(stack[a]) \in Nat
  BY Lengths DEF Graph
<1>2. PICK ret : ret = IF stack[a] = << >> THEN << >> ELSE << a, Len(stack[a]), "user" >>
  OBVIOUS
<1>3. ret \in {<< >>} \cup Returns
  BY <1>1, <1>2 DEF Returns
<1>4. ret = << >> \/ (ret \in Returns /\ ret[3] \in {"user", "uninit"})
  BY <1>2, <1>3, ReturnParts
<1>5. f = Frame(op, k, m, at, ret) /\ m \in Nat /\ at \in Places
  BY <1>2 DEF Makes
<1>6. f \in Call /\ f.op = op /\ f.of = k /\ f.at = at /\ f.ret = ret /\ f.m = m
  <2>1. op \in ClientOps \cup ServerOps /\ k \in Apartments
    BY DEF Makes
  <2> QED
    BY <1>3, <1>5, <2>1, FrameIs
<1>7. InPlace(a, f)
  BY <1>4, <1>6 DEF InPlace, Makes
<1> QED
  BY <1>2, <1>6, <1>7 DEF FromUser

\* The user makes a call.
LEMMA EnterStep ==
    ASSUME NEW cl, NEW se, NEW fr, Calls(stack, inbox, cl, se, fr), NEW a \in Apartments,
           UserTurn(a), NEW op, NEW k, NEW m, NEW at, NEW f, Makes(a, op, k, m, at, f),
           OnStack(a, Len(stack[a]) + 1, f, cl, se, fr),
           op = "destroy" => \A i \in 1..Len(stack[a]) : stack[a][i].op # "destroy",
           stack' = Entered(a, op, k, m, at)
    PROVE  /\ Calls(stack', inbox, cl, se, fr) /\ Still(stack, stack')
           /\ stack' = Deeper(stack, a, f)
           /\ Len(stack'[a]) = Len(stack[a]) + 1 /\ stack'[a][Len(stack[a]) + 1] = f
           /\ Unawaiting(stack', inbox, a, Len(stack[a]) + 1)
<1>1. Graph(stack, inbox) /\ stack \in Queues
  BY DEF Calls, Graph
<1>2. /\ f \in Call /\ f.op = op /\ f.of = k /\ f.at = at /\ InPlace(a, f)
      /\ FromUser(a, f)
  BY <1>1, UserFrameIs
<1>3. stack' = Deeper(stack, a, f)
  BY <1>1, EnteredIs DEF Makes
<1>4. stack[a] # << >> => stack[a][Len(stack[a])].at = "user"
  BY <1>1, UserTop
<1>5. PICK st, ib : st = stack /\ ib = inbox
  OBVIOUS
<1>6. /\ Calls(st, ib, cl, se, fr) /\ (st[a] # << >> => st[a][Len(st[a])].at = "user")
      /\ f.op \notin Remote /\ f.at # "start" /\ InPlace(a, f)
      /\ f.ret = (IF st[a] = << >> THEN << >> ELSE << a, Len(st[a]), "user" >>)
      /\ OnStack(a, Len(st[a]) + 1, f, cl, se, fr)
      /\ f.op = "destroy" => \A i \in 1..Len(st[a]) : st[a][i].op # "destroy"
  BY <1>2, <1>4, <1>5 DEF Makes, FromUser
<1>7. /\ Calls(Deeper(st, a, f), ib, cl, se, fr) /\ Still(st, Deeper(st, a, f))
      /\ Len(Deeper(st, a, f)[a]) = Len(st[a]) + 1
      /\ Deeper(st, a, f)[a][Len(st[a]) + 1] = f
      /\ Unawaiting(Deeper(st, a, f), ib, a, Len(st[a]) + 1)
  BY <1>2, <1>6, EnterKeeps
<1> QED
  BY <1>3, <1>5, <1>7

\* g is the call op2 into apartment b that a call of the user makes in apartment a.
Asking(a, b, op2, k, m, p, g) ==
    /\ g = Frame(op2, k, m, "start", << a, Len(stack[a]) + 1, p >>)
    /\ op2 \in Remote /\ p \in {"query", "leave", "uninit", "user"}
    /\ op2 \in (IF b = "server" THEN ServerOps ELSE ClientOps) /\ (b # "server" => k = b)
    /\ a = IF op2 \in IntoClient THEN "server" ELSE k

\* The user makes a call that calls into another apartment.
LEMMA UserCallStep ==
    ASSUME NEW cl, NEW se, NEW fr, Calls(stack, inbox, cl, se, fr), NEW a \in Apartments,
           UserTurn(a), NEW op, NEW k \in Clients, NEW m \in Nat, NEW f,
           Makes(a, op, k, m, "wait", f), OnStack(a, Len(stack[a]) + 1, f, cl, se, fr),
           op = "destroy" => \A i \in 1..Len(stack[a]) : stack[a][i].op # "destroy",
           NEW b \in Apartments, NEW op2, NEW p, NEW g, Asking(a, b, op2, k, m, p, g),
           Answers(g, f), InQueue(g, se, fr), UserCalls(a, op, k, m, b, op2, p)
    PROVE  /\ Calls(stack', inbox', cl, se, fr) /\ Still(stack, stack')
           /\ inbox' = Longer(inbox, b, g) /\ g \in Call /\ Carries(g, op2, k) /\ g.m = m
<1>1. Graph(stack, inbox) /\ stack \in Queues /\ k \in Apartments /\ "wait" \in Places
  BY DEF Calls, Graph, Apartments, Places
<1>2. Len(stack[a]) \in Nat
  BY <1>1, Lengths
<1>3. stack' = Entered(a, op, k, m, "wait") /\ inbox' = Longer(inbox, b, g)
  BY DEF UserCalls, Sent, Longer, Asking
<1>4. f \in Call /\ f.of = k /\ f.at = "wait"
  BY <1>1, UserFrameIs
<1>5. /\ Calls(stack', inbox, cl, se, fr) /\ Still(stack, stack')
      /\ stack' = Deeper(stack, a, f)
      /\ Len(stack'[a]) = Len(stack[a]) + 1 /\ stack'[a][Len(stack[a]) + 1] = f
      /\ Unawaiting(stack', inbox, a, Len(stack[a]) + 1)
  BY <1>1, <1>3, EnterStep
<1>6. << a, Len(stack[a]) + 1, p >> \in Returns /\ op2 \in ClientOps \cup ServerOps
  BY <1>2 DEF Returns, Asking
<1>7. /\ g \in Call /\ g.op = op2 /\ g.of = k /\ g.at = "start" /\ g.m = m
      /\ g.ret = << a, Len(stack[a]) + 1, p >> /\ g.ret # << >>
  <2>1. PICK ret \in Returns : ret = << a, Len(stack[a]) + 1, p >>
    BY <1>6
  <2>2. "start" \in Places
    BY DEF Places
  <2>3. PICK w \in Places : w = "start"
    BY <2>2
  <2>4. g = Frame(op2, k, m, w, ret)
    BY <2>1, <2>3 DEF Asking
  <2>5. g \in Call /\ g.op = op2 /\ g.of = k /\ g.at = w /\ g.m = m /\ g.ret = ret
    BY <1>1, <1>6, <2>4, FrameIs
  <2>6. ret # << >>
    BY ReturnParts
  <2> QED
    BY <2>1, <2>3, <2>5, <2>6
<1>8. InPlace(b, g)
  BY <1>7 DEF InPlace, Asking
<1>9. PICK st, ib : st = stack /\ ib = inbox
  OBVIOUS
<1>10. /\ Calls(Deeper(st, a, f), ib, cl, se, fr) /\ Len(Deeper(st, a, f)[a]) = Len(st[a]) + 1
       /\ Deeper(st, a, f)[a][Len(st[a]) + 1] = f /\ Len(st[a]) \in Nat
       /\ Unawaiting(Deeper(st, a, f), ib, a, Len(st[a]) + 1)
       /\ g.op \in Remote /\ g.ret[1] = a /\ g.ret[2] = Len(st[a]) + 1
       /\ a = (IF g.op \in IntoClient THEN "server" ELSE g.of) /\ f.of = g.of
  BY <1>2, <1>4, <1>5, <1>7, <1>9 DEF Asking
<1>11. Calls(Deeper(st, a, f), Longer(ib, b, g), cl, se, fr)
  BY <1>4, <1>7, <1>8, <1>10, UserCallKeeps
<1> QED
  BY <1>3, <1>5, <1>7, <1>9, <1>11 DEF Carries

-----------------------------------------------------------------------------
(* Actions that change no end *)

\* The two ends are left alone.
LEMMA Ends ==
    ASSUME ends' = ends, told' = told, sent' = sent
    PROVE  FreshOnes' = FreshOnes /\ \A k \in Clients : Lives(k) => Lives(k)'
<1>1. \A k \in Clients : Fresh(k)' <=> Fresh(k)
  BY DEF ends, Fresh
<1>2. FreshOnes' = FreshOnes
  BY <1>1 DEF FreshOnes
<1>3. \A k \in Clients : Lives(k) => Lives(k)'
  BY <1>1 DEF ends, Lives
<1> QED
  BY <1>2, <1>3

\* Nothing crashes in the step.
LEMMA NoCrash ==
    ASSUME crashed = {}, crashed' = crashed
    PROVE  CrashesOnlyInConnect'
  BY DEF CrashesOnlyInConnect

\* Nothing is sent in the step.
LEMMA NoQueueChange == \A q : Quiet(q, q)
  BY DEF Quiet

\* What a step leaves that moves only calls, and no messages.
LEMMA CallsOnly ==
    ASSUME IInv, crashed = {}, ends' = ends, history' = history,
           registered' \in BOOLEAN, serving' \in BOOLEAN,
           Calls(stack', inbox', client, session, FreshOnes), Still(stack, stack'),
           Quiet(inbox, inbox')
    PROVE  IInv'
<1>1. /\ ValuesOK /\ \A k \in Clients : Lives(k)
      /\ \A k \in Clients : ToServer(k) /\ ToClient(k)
  BY Parts
<1>2. ends' = ends /\ told' = told /\ sent' = sent /\ received' = received /\ crashed' = crashed
  BY DEF history
<1>3. FreshOnes' = FreshOnes /\ \A k \in Clients : Lives(k)'
  BY <1>1, <1>2, Ends
<1>4. ValuesOK'
  BY <1>1, <1>2 DEF ValuesOK, ends
<1>5. Orderly'
  BY <1>2, <1>3 DEF Orderly, ends
<1>6. \A k \in Clients : ToServer(k)' /\ ToClient(k)'
  <2>1. /\ \A k \in Clients : stub'[k] => stub[k]
        /\ \A k \in Clients : "stub" \in sink'[k] => "stub" \in sink[k]
    BY <1>2 DEF ends
  <2> QED
    BY <1>1, <1>2, <2>1, MessagesKept
<1>7. CrashesOnlyInConnect'
  BY <1>2, NoCrash
<1> QED
  BY <1>3, <1>4, <1>5, <1>6, <1>7, PartsNext

\* A thread returns, and does nothing else.
LEMMA ReturnOnly ==
    ASSUME IInv, crashed = {}, ends' = ends, history' = history,
           registered' \in BOOLEAN, serving' \in BOOLEAN, NEW a \in Apartments,
           At(a) \notin {"rest", "wait", "start"}, Return(a)
    PROVE  IInv'
<1>1. PICK st, ib, cl, se, fr : st = stack /\ ib = inbox /\ cl = client /\ se = session
                                /\ fr = FreshOnes
  OBVIOUS
<1>2. Calls(stack, inbox, cl, se, fr)
  BY <1>1, Parts DEF Orderly
<1>3. stack[a] # << >> /\ stack[a][Len(stack[a])].at # "wait"
  BY <1>2, TopIs DEF Calls
<1>4. Claims(Rest(st, a), ib, cl, se, fr)
  <2>1. Calls(st, ib, cl, se, fr) /\ st[a] # << >> /\ st[a][Len(st[a])].at # "wait"
    BY <1>1, <1>2, <1>3
  <2> QED
    BY <2>1, RestKeeps
<1>5. Claims(Rest(stack, a), inbox, cl, se, fr)
  BY <1>1, <1>4
<1>8. Top(a).op = "create" => Top(a).ret[1] \in fr
  BY <1>2, CreateReturns
<1>6. Calls(stack', inbox', cl, se, fr) /\ Still(stack, stack') /\ inbox' = inbox
  BY <1>2, <1>5, <1>8, PlainReturn
<1>7. Quiet(inbox, inbox')
  BY <1>6, NoQueueChange
<1> QED
  BY <1>1, <1>6, <1>7, CallsOnly

\* A call of the client returns.
LEMMA ClientReturnsKeeps ==
    ASSUME IInv, crashed = {}, NEW k \in Clients, ClientReturns(k)
    PROVE  IInv'
<1>1. At(k) \in {"user", "leave"} /\ Top(k).op \in {"sink_write", "sink_release", "send"}
  BY DEF ClientReturns, Runs
<1>2. ends' = ends /\ history' = history /\ server' = server /\ Return(k) /\ k \in Apartments
  BY DEF ClientReturns, Apartments
<1>3. registered' \in BOOLEAN /\ serving' \in BOOLEAN
  BY <1>2, Parts DEF server, ValuesOK
<1> QED
  BY <1>1, <1>2, <1>3, ReturnOnly

\* A call of the server returns.
LEMMA ServerReturnsKeeps ==
    ASSUME IInv, crashed = {}, ServerReturns
    PROVE  IInv'
<1>2. At("server") \in {"leave", "end"} /\ "server" \in Apartments
  BY DEF ServerReturns, AtEnd, Apartments
<1>4. ends' = ends /\ history' = history /\ server' = server /\ Return("server")
  BY DEF ServerReturns
<1>5. registered' \in BOOLEAN /\ serving' \in BOOLEAN
  BY <1>4, Parts DEF server, ValuesOK
<1> QED
  BY <1>2, <1>4, <1>5, ReturnOnly

\* inbound->message() returns.
LEMMA WrittenKeeps ==
    ASSUME IInv, crashed = {}, Written
    PROVE  IInv'
<1>1. /\ At("server") = "user" /\ "server" \in Apartments /\ Goto("server", "end")
      /\ Top("server").op \in Enders
  BY DEF Written, Runs, Apartments, Enders
<1>2. ends' = ends /\ history' = history /\ server' = server
  BY DEF Written
<1>3. registered' \in BOOLEAN /\ serving' \in BOOLEAN
  BY <1>2, Parts DEF server, ValuesOK
<1>4. PICK cl, se, fr : cl = client /\ se = session /\ fr = FreshOnes
  OBVIOUS
<1>5. Calls(stack, inbox, cl, se, fr) /\ "end" \in Places
  BY <1>4, Parts DEF Orderly, Places
<1>6. Calls(stack', inbox', cl, se, fr) /\ inbox' = inbox /\ Still(stack, stack')
  BY <1>1, <1>5, GotoStep
<1>7. Quiet(inbox, inbox')
  BY <1>6, NoQueueChange
<1> QED
  BY <1>2, <1>3, <1>4, <1>6, <1>7, CallsOnly

\* CoUninitialize() of the server returns.
LEMMA EndedKeeps ==
    ASSUME IInv, crashed = {}, Ended
    PROVE  IInv'
<1>1. At("server") = "uninit" /\ "server" \in Apartments /\ Return("server")
  BY DEF Ended, Runs, Apartments
<1>2. ends' = ends /\ history' = history /\ registered' = registered /\ serving' = FALSE
  BY DEF Ended
<1>3. registered' \in BOOLEAN /\ serving' \in BOOLEAN
  BY <1>2, Parts DEF ValuesOK
<1> QED
  BY <1>1, <1>2, <1>3, ReturnOnly

\* A step that leaves the stacks alone begins with no message.
LEMMA StillSame == \A st : Still(st, st)
  BY DEF Still

\* CoRevokeClassObject()
LEMMA RevokeKeeps ==
    ASSUME IInv, crashed = {}, Revoke
    PROVE  IInv'
<1>1. /\ ends' = ends /\ history' = history /\ registered' = FALSE /\ serving' = serving
      /\ stack' = stack /\ inbox' = inbox
  BY DEF Revoke, calls
<1>2. registered' \in BOOLEAN /\ serving' \in BOOLEAN
  BY <1>1, Parts DEF ValuesOK
<1>3. Calls(stack', inbox', client, session, FreshOnes)
  BY <1>1, Parts DEF Orderly
<1>4. Still(stack, stack') /\ Quiet(inbox, inbox')
  BY <1>1, StillSame, NoQueueChange
<1> QED
  BY <1>1, <1>2, <1>3, <1>4, CallsOnly

\* The server's thread ends.
LEMMA EndKeeps ==
    ASSUME IInv, crashed = {}, End
    PROVE  IInv'
<1>1. /\ ends' = ends /\ history' = history /\ server' = server /\ inbox' = inbox
      /\ At("server") = "rest" /\ stack' = Entered("server", "end", "server", 0, "uninit")
  BY DEF End
<1>2. registered' \in BOOLEAN /\ serving' \in BOOLEAN
  BY <1>1, Parts DEF server, ValuesOK
<1>3. PICK cl, se, fr : cl = client /\ se = session /\ fr = FreshOnes
  OBVIOUS
<1>4. Calls(stack, inbox, cl, se, fr) /\ Graph(stack, inbox)
  BY <1>3, Parts DEF Orderly, Calls
<1>5. PICK a \in Apartments : a = "server"
  BY DEF Apartments
<1>6. stack[a] = << >> /\ Len(stack[a]) = 0 /\ UserTurn(a)
  BY <1>1, <1>4, <1>5, AtRest DEF UserTurn
<1>7. PICK f : Makes(a, "end", a, 0, "uninit", f)
  BY <1>5 DEF ServerOps, Remote, Makes, Places
<1>8. f.op = "end" /\ f.of = a /\ f.at = "uninit"
  BY <1>4, <1>7, UserFrameIs
<1>9. OnStack(a, Len(stack[a]) + 1, f, cl, se, fr)
  BY <1>5, <1>6, <1>8, ComAssumption DEF OnStack
<1>10. stack' = Entered(a, "end", a, 0, "uninit")
  BY <1>1, <1>5
<1>13. Calls(stack', inbox, cl, se, fr) /\ Still(stack, stack')
  BY <1>4, <1>6, <1>7, <1>9, <1>10, EnterStep
<1>14. Quiet(inbox, inbox')
  BY <1>1, NoQueueChange
<1> QED
  BY <1>1, <1>2, <1>3, <1>13, <1>14, CallsOnly

\* The thread takes a call: message by message.
LEMMA DispatchMessages ==
    ASSUME NEW p, NEW p2, NEW q, NEW q2, NEW op, NEW k, NEW r, Len(r) \in Nat, NEW s \in Nat,
           \/ p2 = p /\ q2 = q
           \/ /\ Advances(q, q2) /\ ~Begun(p, op, k) /\ p2 # << >>
              /\ p2[Len(p2)] = q[1] /\ q[1].at = "start"
    PROVE  /\ Bounded(p, q, op, k, s) => Bounded(p2, q2, op, k, s)
           /\ InLine(p, q, op, k, r, s) => InLine(p2, q2, op, k, r, s)
           /\ InLine(p, q, op, k, r, s) /\ NoneLost(p, q, op, k, r, s)
                => NoneLost(p2, q2, op, k, r, s)
<1>1. CASE p2 = p /\ q2 = q
  BY <1>1
<1>2. CASE /\ Advances(q, q2) /\ ~Begun(p, op, k) /\ p2 # << >>
           /\ p2[Len(p2)] = q[1] /\ q[1].at = "start"
  BY <1>2, CallTaken
<1> QED
  BY <1>1, <1>2

\* A thread that waits takes a call.
LEMMA DispatchKeepsAll ==
    ASSUME IInv, crashed = {}, NEW a \in Apartments, Dispatch(a)
    PROVE  IInv'
<1>1. /\ ValuesOK /\ \A k \in Clients : Lives(k)
      /\ \A k \in Clients : ToServer(k) /\ ToClient(k)
  BY Parts
<1>2. /\ ends' = ends /\ told' = told /\ sent' = sent /\ received' = received /\ crashed' = crashed
      /\ server' = server
  BY DEF Dispatch, history
<1>3. PICK st, ib, ib2, cl, se, fr : /\ st = stack /\ ib = inbox /\ ib2 = inbox' /\ cl = client
                                     /\ se = session /\ fr = FreshOnes
  OBVIOUS
<1>4. Calls(st, ib, cl, se, fr) /\ st \in Queues /\ ib \in Queues
  BY <1>3, Parts DEF Orderly, Calls, Graph
<1>5. ib[a] # << >> /\ ib2 = [ib EXCEPT ![a] = Tail(@)]
  BY <1>3 DEF Dispatch
<1>6. st[a] # << >> => st[a][Len(st[a])].at # "start"
  BY <1>3 DEF Dispatch, Pumping, At, Top
<1>7. PICK st2 : st2 = Longer(st, a, Head(ib[a]))
  OBVIOUS
<1>8. stack' = st2
  BY <1>3, <1>7 DEF Dispatch, Longer
<1>9. /\ Calls(st2, ib2, cl, se, fr) /\ Shifted(ib, ib2, a) /\ Head(ib[a]) = ib[a][1]
      /\ Len(ib[a]) >= 1 /\ Grown(st, st2, a, Head(ib[a])) /\ Head(ib[a]).at = "start"
  BY <1>4, <1>5, <1>6, <1>7, DispatchKeeps, ZenonT(60)
<1>10. FreshOnes' = FreshOnes /\ \A k \in Clients : Lives(k)'
  BY <1>1, <1>2, Ends
<1>11. ValuesOK'
  BY <1>1, <1>2 DEF ValuesOK, ends, server
<1>12. Orderly'
  BY <1>2, <1>3, <1>8, <1>9, <1>10 DEF Orderly, ends
<1>13. ASSUME NEW b \in Apartments, NEW op, NEW k
       PROVE  \/ st2[b] = st[b] /\ ib2[b] = ib[b]
              \/ /\ Advances(ib[b], ib2[b]) /\ ~Begun(st[b], op, k) /\ st2[b] # << >>
                 /\ st2[b][Len(st2[b])] = ib[b][1] /\ ib[b][1].at = "start"
  <2>1. CASE b = a
    <3>1. Advances(ib[a], ib2[a])
      BY <1>4, <1>9, Lengths DEF Shifted, Advances
    <3>2. ~Begun(st[a], op, k)
      BY <1>6 DEF Begun
    <3>3. Len(st2[a]) = Len(st[a]) + 1 /\ st2[a][Len(st2[a])] = ib[a][1] /\ Len(st[a]) \in Nat
      BY <1>4, <1>9, Lengths DEF Grown
    <3>4. st2[a] # << >>
      BY <3>3
    <3> QED
      BY <1>9, <2>1, <3>1, <3>2, <3>3, <3>4
  <2>2. CASE b # a
    <3>1. st2[b] = st[b]
      BY <1>4, <1>7, <2>2 DEF Longer, Queues
    <3>2. ib2[b] = ib[b]
      BY <1>4, <1>5, <2>2 DEF Queues
    <3> QED
      BY <3>1, <3>2
  <2> QED
    BY <2>1, <2>2
<1>14. ASSUME NEW k \in Clients PROVE ToServer(k)' /\ ToClient(k)'
  <2>1. "server" \in Apartments /\ k \in Apartments
    BY DEF Apartments
  <2>2. PICK r, s : r = received["server"][k] /\ s = sent["client"][k]
    OBVIOUS
  <2>3. Len(r) \in Nat /\ s \in Nat
    BY <1>1, <2>2, Counts DEF Sides
  <2>4. /\ Bounded(st["server"], ib["server"], "write", k, s)
             => Bounded(st2["server"], ib2["server"], "write", k, s)
        /\ InLine(st["server"], ib["server"], "write", k, r, s)
             => InLine(st2["server"], ib2["server"], "write", k, r, s)
        /\ InLine(st["server"], ib["server"], "write", k, r, s)
             /\ NoneLost(st["server"], ib["server"], "write", k, r, s)
             => NoneLost(st2["server"], ib2["server"], "write", k, r, s)
    <3>1. PICK p, p2, q, q2 : p = st["server"] /\ p2 = st2["server"] /\ q = ib["server"]
                              /\ q2 = ib2["server"]
      OBVIOUS
    <3>2. \/ p2 = p /\ q2 = q
          \/ /\ Advances(q, q2) /\ ~Begun(p, "write", k) /\ p2 # << >>
             /\ p2[Len(p2)] = q[1] /\ q[1].at = "start"
      BY <1>13, <2>1, <3>1
    <3> QED
      BY <2>3, <3>1, <3>2, DispatchMessages
  <2>5. ToServer(k)'
    <3>1. ToServer(k)
      BY <1>1
    <3> QED
      BY <1>2, <1>3, <1>8, <2>2, <2>4, <3>1 DEF ToServer, ends
  <2>6. PICK t, u : t = received["client"][k] /\ u = sent["server"][k]
    OBVIOUS
  <2>7. Len(t) \in Nat /\ u \in Nat
    BY <1>1, <2>6, Counts DEF Sides
  <2>8. /\ Bounded(st[k], ib[k], "sink_write", k, u) => Bounded(st2[k], ib2[k], "sink_write", k, u)
        /\ InLine(st[k], ib[k], "sink_write", k, t, u)
             => InLine(st2[k], ib2[k], "sink_write", k, t, u)
        /\ InLine(st[k], ib[k], "sink_write", k, t, u) /\ NoneLost(st[k], ib[k], "sink_write", k, t, u)
             => NoneLost(st2[k], ib2[k], "sink_write", k, t, u)
    <3>1. PICK p, p2, q, q2 : p = st[k] /\ p2 = st2[k] /\ q = ib[k] /\ q2 = ib2[k]
      OBVIOUS
    <3>2. \/ p2 = p /\ q2 = q
          \/ /\ Advances(q, q2) /\ ~Begun(p, "sink_write", k) /\ p2 # << >>
             /\ p2[Len(p2)] = q[1] /\ q[1].at = "start"
      BY <1>13, <2>1, <3>1
    <3> QED
      BY <2>7, <3>1, <3>2, DispatchMessages
  <2>9. ToClient(k)'
    <3>1. ToClient(k)
      BY <1>1
    <3> QED
      BY <1>2, <1>3, <1>8, <2>6, <2>8, <3>1 DEF ToClient, ends
  <2> QED
    BY <2>5, <2>9
<1>15. CrashesOnlyInConnect'
  BY <1>2, NoCrash
<1> QED
  BY <1>10, <1>11, <1>12, <1>14, <1>15, PartsNext

-----------------------------------------------------------------------------
(* Actions of the client *)

\* A channel is told.
LEMMA Tells ==
    ASSUME ValuesOK, NEW s \in Sides, NEW k \in Clients, Tell(s, k)
    PROVE  /\ told' \in [Sides -> [Clients -> Nat]] /\ told'[s][k] = told[s][k] + 1
           /\ \A t \in Sides, c \in Clients : t # s \/ c # k => told'[t][c] = told[t][c]
<1>1. told \in [Sides -> [Clients -> Nat]]
  BY DEF ValuesOK
<1>2. told' = [told EXCEPT ![s][k] = told[s][k] + 1]
  BY DEF Tell
<1>3. told[s][k] + 1 \in Nat
  BY <1>1
<1> QED
  BY <1>1, <1>2, <1>3

\* A reference to the sink is given up: the channel is told with the last one.
LEMMA LeavesSink ==
    ASSUME ValuesOK, NEW k \in Clients, Lives(k), NEW refs, refs \subseteq sink[k],
           LeaveSink(k, refs)
    PROVE  /\ told' \in [Sides -> [Clients -> Nat]] /\ sink' = [sink EXCEPT ![k] = refs]
           /\ sink' \in [Clients -> SUBSET {"ctor", "stub"}] /\ sink'[k] = refs
           /\ \A c \in Clients \ {k} : sink'[c] = sink[c]
           /\ \A t \in Sides, c \in Clients : t # "client" \/ c # k => told'[t][c] = told[t][c]
           /\ told'["client"][k] <= 1 /\ (told'["client"][k] = 1 => refs = {})
           /\ sink[k] = {} => told'["client"][k] = told["client"][k]
<1>1. sink' = [sink EXCEPT ![k] = refs] /\ sink \in [Clients -> SUBSET {"ctor", "stub"}]
  BY DEF LeaveSink, ValuesOK
<1>2. sink' \in [Clients -> SUBSET {"ctor", "stub"}] /\ sink'[k] = refs
      /\ \A c \in Clients \ {k} : sink'[c] = sink[c]
  BY <1>1
<1>3. told["client"][k] \in Nat /\ told["client"][k] <= 1 /\ (told["client"][k] = 1 => sink[k] = {})
  BY Counts DEF Lives, Sides
<1>4. CASE sink[k] # {} /\ refs = {}
  <2>1. Tell("client", k) /\ "client" \in Sides
    BY <1>4 DEF LeaveSink, Expired, Sides
  <2>2. /\ told' \in [Sides -> [Clients -> Nat]] /\ told'["client"][k] = told["client"][k] + 1
        /\ \A t \in Sides, c \in Clients : t # "client" \/ c # k => told'[t][c] = told[t][c]
    BY <2>1, Tells
  <2>3. told["client"][k] = 0
    BY <1>3, <1>4
  <2>4. told'["client"][k] = 1
    BY <2>2, <2>3
  <2> QED
    BY <1>1, <1>2, <1>4, <2>2, <2>4
<1>5. CASE ~(sink[k] # {} /\ refs = {})
  <2>1. told' = told
    BY <1>5 DEF LeaveSink, Expired
  <2>2. told \in [Sides -> [Clients -> Nat]]
    BY DEF ValuesOK
  <2> QED
    BY <1>1, <1>2, <1>3, <1>5, <2>1, <2>2
<1> QED
  BY <1>4, <1>5

\* A reader of Lives for the client's end only.
LEMMA SinkOnly ==
    ASSUME NEW c \in Clients, Lives(c), client'[c] = client[c], sink'[c] = sink[c],
           session' = session, inbound' = inbound, stub' = stub, outbound' = outbound, sent' = sent,
           told'["client"][c] = told["client"][c], told'["server"][c] = told["server"][c]
    PROVE  Lives(c)'
  BY DEF Lives, Fresh

\* What the call on top says about the two ends.
LEMMA TopClaims ==
    ASSUME NEW cl, NEW se, NEW fr, Calls(stack, inbox, cl, se, fr), NEW a \in Apartments,
           At(a) # "rest"
    PROVE  OnStack(a, Len(stack[a]), Top(a), cl, se, fr)
<1>1. Len(stack[a]) \in 1..Len(stack[a]) /\ Top(a) = stack[a][Len(stack[a])]
  BY TopIs DEF Calls
<1> QED
  BY <1>1 DEF Calls, Claims

\* The constructor or the destructor of client k ends.
LEMMA ClientLeaves ==
    ASSUME IInv, crashed = {}, NEW k \in Clients, NEW op \in {"connect", "destroy"},
           NEW at, at \notin {"rest", "wait", "start"}, Runs(k, op, at),
           NEW v \in {"refused", "connected", "gone"}, client' = [client EXCEPT ![k] = v],
           NEW refs, refs \subseteq sink[k] \ {"ctor"},
           LeaveSink(k, refs) \/ (refs = sink[k] /\ sink' = sink /\ told' = told), Return(k),
           server' = server, session' = session, inbound' = inbound, stub' = stub,
           outbound' = outbound, sent' = sent, received' = received, crashed' = crashed
    PROVE  IInv'
<1>1. /\ ValuesOK /\ Orderly /\ \A c \in Clients : Lives(c)
      /\ \A c \in Clients : ToServer(c) /\ ToClient(c)
  BY Parts
<1>2. /\ told' \in [Sides -> [Clients -> Nat]] /\ sink' \in [Clients -> SUBSET {"ctor", "stub"}]
      /\ sink'[k] = refs /\ \A c \in Clients \ {k} : sink'[c] = sink[c]
      /\ \A t \in Sides, c \in Clients : t # "client" \/ c # k => told'[t][c] = told[t][c]
      /\ told'["client"][k] <= 1 /\ (told'["client"][k] = 1 => refs = {})
  <2>1. CASE LeaveSink(k, refs)
    BY <1>1, <2>1, LeavesSink
  <2>2. CASE refs = sink[k] /\ sink' = sink /\ told' = told
    BY <1>1, <2>2 DEF ValuesOK, Lives
  <2> QED
    BY <2>1, <2>2
<1>3. client' \in [Clients -> {"none", "connecting", "connected", "closing", "refused", "gone"}]
      /\ client'[k] = v /\ \A c \in Clients \ {k} : client'[c] = client[c]
  BY <1>1 DEF ValuesOK
<1>4. ValuesOK'
  BY <1>1, <1>2, <1>3 DEF ValuesOK, server
<1>5. ASSUME NEW c \in Clients PROVE Lives(c)'
  <2>1. Lives(c)
    BY <1>1
  <2>2. CASE c # k
    BY <1>2, <1>3, <2>1, <2>2, SinkOnly DEF Sides
  <2>3. CASE c = k
    <3>1. told'["server"][k] = told["server"][k]
      BY <1>2 DEF Sides
    <3> QED
      BY <1>2, <1>3, <2>1, <2>3, <3>1 DEF Lives
  <2> QED
    BY <2>2, <2>3
<1>6. PICK st, ib, cl, cl2, se, fr, fr2 :
        /\ st = stack /\ ib = inbox /\ cl = client /\ cl2 = client' /\ se = session
        /\ fr = FreshOnes /\ fr2 = FreshOnes'
  OBVIOUS
<1>7. fr \subseteq fr2
  BY <1>2, <1>6 DEF FreshOnes, Fresh
<1>8. Calls(stack, inbox, cl, se, fr) /\ k \in Apartments
  BY <1>1, <1>6 DEF Orderly, Apartments
<1>9. At(k) = at /\ Top(k).op = op
  BY DEF Runs
<1>10. /\ st[k] # << >> /\ Top(k) = st[k][Len(st[k])] /\ Len(st[k]) \in 1..Len(st[k])
       /\ Len(st[k]) \in Nat /\ st[k][Len(st[k])].at = at /\ st[k][Len(st[k])].op = op
  BY <1>6, <1>8, <1>9, TopIs DEF Calls
<1>11. Calls(st, ib, cl, se, fr)
  BY <1>6, <1>8
<1>12. Claims(Rest(st, k), ib, cl, se, fr) /\ Shrunk(st, Rest(st, k), k)
  BY <1>8, <1>10, <1>11, RestKeeps
<1>13. PICK st1 : st1 = Rest(st, k)
  OBVIOUS
<1>14. Graph(st1, ib)
  <2>1. Unawaiting(st, ib, k, Len(st[k]))
    BY <1>8, <1>10, <1>11, TopIsFree DEF Calls
  <2>2. PICK n \in 1..Len(st[k]) : n = Len(st[k])
    BY <1>10
  <2>3. Graph(st, ib) /\ Unawaiting(st, ib, k, n) /\ Shrunk(st, st1, k)
    BY <1>11, <1>12, <1>13, <2>1, <2>2 DEF Calls
  <2> QED
    BY <1>8, <2>2, <2>3, GraphShrunk
<1>15. \A i \in 1..Len(st1[k]) : st1[k][i].op \notin {"connect", "destroy"}
  <2>1. Len(st1[k]) = Len(st[k]) - 1
        /\ \A i \in 1..Len(st1[k]) : i \in 1..Len(st[k]) /\ st1[k][i] = st[k][i]
    BY <1>8, <1>12, <1>13 DEF Shrunk
  <2>2. OnStack(k, Len(st[k]), st[k][Len(st[k])], cl, se, fr)
    BY <1>8, <1>10, <1>11 DEF Calls, Claims
  <2>3. CASE op = "connect"
    <3>1. Len(st[k]) = 1
      BY <1>10, <2>2, <2>3 DEF OnStack
    <3> QED
      BY <2>1, <3>1
  <2>4. CASE op = "destroy"
    <3>1. cl[k] = "closing"
      BY <1>10, <2>2, <2>4 DEF OnStack
    <3>2. ASSUME NEW i \in 1..Len(st1[k]) PROVE st1[k][i].op # "connect"
      <4>1. OnStack(k, i, st[k][i], cl, se, fr)
        BY <1>8, <1>11, <2>1 DEF Calls, Claims
      <4> QED
        BY <2>1, <3>1, <4>1 DEF OnStack
    <3>3. ASSUME NEW i \in 1..Len(st1[k]), st1[k][i].op = "destroy" PROVE FALSE
      <4>1. OneDestroy(st[k])
        BY <1>8, <1>11 DEF Calls, Claims
      <4>2. i = Len(st[k])
        BY <1>10, <2>1, <2>4, <3>3, <4>1 DEF OneDestroy
      <4> QED
        BY <1>10, <2>1, <4>2
    <3> QED
      BY <3>2, <3>3
  <2> QED
    BY <2>3, <2>4
<1>16. \A c \in Clients \ {k} : cl2[c] = cl[c]
  BY <1>3, <1>6
<1>17. Claims(st1, ib, cl2, se, fr)
  BY <1>12, <1>13, <1>14, <1>15, <1>16, ClaimsClient
<1>18. Claims(Rest(stack, k), inbox, cl2, se, fr2)
  <2>1. Claims(st1, ib, cl2, se, fr2)
    BY <1>7, <1>17, ClaimsFresh
  <2> QED
    BY <1>6, <1>13, <2>1
<1>19. Calls(stack', inbox', cl2, se, fr2) /\ Still(stack, stack') /\ inbox' = inbox
  <2>1. At(k) \notin {"rest", "wait", "start"} /\ Top(k).op # "create"
    BY <1>9
  <2> QED
    BY <1>8, <1>18, <2>1, PlainReturn
<1>20. Orderly'
  BY <1>6, <1>19 DEF Orderly
<1>21. \A c \in Clients : ToServer(c)' /\ ToClient(c)'
  <2>1. /\ \A c \in Clients : stub'[c] => stub[c]
        /\ \A c \in Clients : "stub" \in sink'[c] => "stub" \in sink[c]
    BY <1>2
  <2>2. Quiet(inbox, inbox')
    BY <1>19, NoQueueChange
  <2> QED
    BY <1>1, <1>19, <2>1, <2>2, MessagesKept
<1>22. CrashesOnlyInConnect'
  BY NoCrash
<1> QED
  BY <1>4, <1>5, <1>20, <1>21, <1>22, PartsNext

\* connection_refused is thrown.
LEMMA ConnectionRefusedKeeps ==
    ASSUME IInv, crashed = {}, NEW k \in Clients, ConnectionRefused(k)
    PROVE  IInv'
<1>1. PICK refs : refs = {} /\ refs \subseteq sink[k] \ {"ctor"}
  OBVIOUS
<1>2. PICK at : at = "refused" /\ at \notin {"rest", "wait", "start"}
  OBVIOUS
<1>3. /\ Runs(k, "connect", at) /\ client' = [client EXCEPT ![k] = "refused"]
      /\ LeaveSink(k, refs) /\ Return(k)
      /\ server' = server /\ session' = session /\ inbound' = inbound /\ stub' = stub
      /\ outbound' = outbound /\ sent' = sent /\ received' = received /\ crashed' = crashed
  BY <1>1, <1>2 DEF ConnectionRefused
<1> QED
  BY <1>1, <1>2, <1>3, ClientLeaves

\* The constructor returns.
LEMMA ConnectedKeeps ==
    ASSUME IInv, crashed = {}, NEW k \in Clients, Connected(k)
    PROVE  IInv'
  BY ClientLeaves DEF Connected

\* CoUninitialize() in the destructor.
LEMMA UninitializeKeeps ==
    ASSUME IInv, crashed = {}, NEW k \in Clients, Uninitialize(k)
    PROVE  IInv'
<1>1. /\ Runs(k, "destroy", "uninit") /\ client' = [client EXCEPT ![k] = "gone"] /\ Return(k)
      /\ server' = server /\ session' = session /\ inbound' = inbound /\ stub' = stub
      /\ outbound' = outbound /\ sent' = sent /\ received' = received /\ crashed' = crashed
  BY DEF Uninitialize
<1>2. client[k] = "closing"
  <2>1. PICK cl, se, fr : cl = client /\ se = session /\ fr = FreshOnes
    OBVIOUS
  <2>2. Calls(stack, inbox, cl, se, fr) /\ k \in Apartments /\ At(k) # "rest" /\ Top(k).op = "destroy"
    BY <1>1, <2>1, Parts DEF Orderly, Apartments, Runs
  <2>3. OnStack(k, Len(stack[k]), Top(k), cl, se, fr)
    BY <2>2, TopClaims
  <2> QED
    BY <2>1, <2>2, <2>3 DEF OnStack
<1>3. "ctor" \notin sink[k]
  BY <1>2, Parts DEF Lives
<1>4. PICK refs : /\ refs \subseteq sink[k] \ {"ctor"}
                  /\ LeaveSink(k, refs) \/ (refs = sink[k] /\ sink' = sink /\ told' = told)
  <2>1. CASE LeaveSink(k, {})
    BY <2>1
  <2>2. CASE sink' = sink /\ told' = told
    BY <1>3, <2>2
  <2> QED
    BY <2>1, <2>2 DEF Uninitialize
<1>5. "uninit" \notin {"rest", "wait", "start"} /\ "destroy" \in {"connect", "destroy"}
      /\ "gone" \in {"refused", "connected", "gone"}
  OBVIOUS
<1> QED
  BY <1>1, <1>4, <1>5, ClientLeaves

\* The server's proxy of the sink is released.
LEMMA SinkReleaseKeeps ==
    ASSUME IInv, crashed = {}, NEW k \in Clients, SinkRelease(k)
    PROVE  IInv'
<1>1. /\ ValuesOK /\ Orderly /\ \A c \in Clients : Lives(c)
      /\ \A c \in Clients : ToServer(c) /\ ToClient(c)
  BY Parts
<1>2. /\ At(k) = "start" /\ Top(k).op = "sink_release" /\ LeaveSink(k, sink[k] \ {"stub"})
      /\ Goto(k, "user") /\ server' = server /\ client' = client /\ session' = session
      /\ inbound' = inbound /\ stub' = stub /\ outbound' = outbound /\ sent' = sent
      /\ received' = received /\ crashed' = crashed
  BY DEF SinkRelease, Runs
<1>3. PICK refs : refs = sink[k] \ {"stub"} /\ refs \subseteq sink[k]
  OBVIOUS
<1>4. /\ told' \in [Sides -> [Clients -> Nat]] /\ sink' \in [Clients -> SUBSET {"ctor", "stub"}]
      /\ sink'[k] = refs /\ \A c \in Clients \ {k} : sink'[c] = sink[c]
      /\ \A t \in Sides, c \in Clients : t # "client" \/ c # k => told'[t][c] = told[t][c]
      /\ told'["client"][k] <= 1 /\ (told'["client"][k] = 1 => refs = {})
      /\ sink[k] = {} => told'["client"][k] = told["client"][k]
  <2>1. LeaveSink(k, refs) /\ Lives(k)
    BY <1>1, <1>2, <1>3
  <2> QED
    BY <1>1, <1>3, <2>1, LeavesSink
<1>5. ValuesOK'
  BY <1>1, <1>2, <1>4 DEF ValuesOK, server
<1>6. ASSUME NEW c \in Clients PROVE Lives(c)'
  <2>1. Lives(c)
    BY <1>1
  <2>2. CASE c # k
    BY <1>2, <1>4, <2>1, <2>2, SinkOnly DEF Sides
  <2>3. CASE c = k
    <3>1. told'["server"][k] = told["server"][k]
      BY <1>4 DEF Sides
    <3> QED
      BY <1>2, <1>3, <1>4, <2>1, <2>3, <3>1 DEF Lives, Fresh
  <2> QED
    BY <2>2, <2>3
<1>7. PICK cl, se, fr, fr2 : /\ cl = client /\ se = session /\ fr = FreshOnes /\ fr2 = FreshOnes'
  OBVIOUS
<1>8. fr \subseteq fr2
  BY <1>2, <1>3, <1>4, <1>7 DEF FreshOnes, Fresh
<1>9. Calls(stack, inbox, cl, se, fr) /\ k \in Apartments
  BY <1>1, <1>7 DEF Orderly, Apartments
<1>10. Calls(stack', inbox', cl, se, fr) /\ inbox' = inbox /\ Still(stack, stack')
  <2>1. "user" \in Places
    BY DEF Places
  <2> QED
    BY <1>2, <1>9, <2>1, GotoStep
<1>11. Orderly'
  <2>1. PICK st, ib : st = stack' /\ ib = inbox'
    OBVIOUS
  <2>2. Graph(st, ib) /\ Claims(st, ib, cl, se, fr)
    BY <1>10, <2>1 DEF Calls
  <2>3. Claims(st, ib, cl, se, fr2)
    BY <1>8, <2>2, ClaimsFresh
  <2> QED
    BY <1>2, <1>7, <2>1, <2>2, <2>3 DEF Orderly, Calls
<1>12. \A c \in Clients : ToServer(c)' /\ ToClient(c)'
  <2>1. /\ \A c \in Clients : stub'[c] => stub[c]
        /\ \A c \in Clients : "stub" \in sink'[c] => "stub" \in sink[c]
    BY <1>2, <1>3, <1>4
  <2>2. Quiet(inbox, inbox')
    BY <1>10, NoQueueChange
  <2> QED
    BY <1>1, <1>2, <1>10, <2>1, <2>2, MessagesKept
<1>13. CrashesOnlyInConnect'
  BY <1>2, NoCrash
<1> QED
  BY <1>5, <1>6, <1>11, <1>12, <1>13, PartsNext

\* A thread that goes on in its call leaves other threads alone, and has begun with it.
LEMMA GotoElsewhere ==
    ASSUME Graph(stack, inbox), NEW a \in Apartments, At(a) # "rest", NEW p, p # "start", Goto(a, p),
           Moved(stack, stack', a, Len(stack[a]), p)
    PROVE  /\ \A b \in Apartments \ {a} : stack'[b] = stack[b]
           /\ \A op, k : ~Begun(stack'[a], op, k)
<1>1. stack \in Queues
  BY DEF Graph
<1>2. \A b \in Apartments \ {a} : stack'[b] = stack[b]
  BY <1>1 DEF Goto, Advanced, Queues
<1>3. Len(stack[a]) \in 1..Len(stack[a])
  BY TopIs
<1>4. Len(stack'[a]) = Len(stack[a]) /\ stack'[a][Len(stack[a])].at = p
  BY <1>3 DEF Moved
<1> QED
  BY <1>2, <1>4 DEF Begun

\* inbound_stream::Write()
LEMMA SinkWriteKeeps ==
    ASSUME IInv, crashed = {}, NEW k \in Clients, SinkWrite(k)
    PROVE  IInv'
<1>1. /\ ValuesOK /\ Orderly /\ \A c \in Clients : Lives(c)
      /\ \A c \in Clients : ToServer(c) /\ ToClient(c)
  BY Parts
<1>2. /\ At(k) = "start" /\ Top(k).op = "sink_write" /\ Goto(k, "user") /\ server' = server
      /\ ends' = ends /\ told' = told /\ sent' = sent /\ crashed' = crashed
      /\ received' = [received EXCEPT !["client"][k] = Append(received["client"][k], Top(k).m)]
  BY DEF SinkWrite, Runs, Given
<1>3. FreshOnes' = FreshOnes /\ \A c \in Clients : Lives(c)'
  BY <1>1, <1>2, Ends
<1>4. PICK cl, se, fr : cl = client /\ se = session /\ fr = FreshOnes
  OBVIOUS
<1>5. /\ Calls(stack, inbox, cl, se, fr) /\ k \in Apartments /\ "server" \in Apartments
      /\ k # "server" /\ Graph(stack, inbox)
  BY <1>1, <1>4, ComAssumption DEF Orderly, Apartments, Calls
<1>6. /\ Calls(stack', inbox', cl, se, fr) /\ inbox' = inbox
      /\ Moved(stack, stack', k, Len(stack[k]), "user")
  <2>1. "user" \in Places
    BY DEF Places
  <2> QED
    BY <1>2, <1>5, <2>1, GotoStep
<1>7. Orderly'
  BY <1>2, <1>3, <1>4, <1>6 DEF Orderly, ends
<1>8. /\ \A b \in Apartments \ {k} : stack'[b] = stack[b]
      /\ ~Begun(stack'[k], "sink_write", k)
  BY <1>2, <1>5, <1>6, GotoElsewhere
<1>9. Begun(stack[k], "sink_write", k) /\ stack[k][Len(stack[k])].m = Top(k).m
  <2>1. stack[k] # << >> /\ Top(k) = stack[k][Len(stack[k])] /\ Top(k).at = "start"
        /\ InPlace(k, Top(k))
    BY <1>2, <1>5, TopIs
  <2> QED
    BY <1>2, <1>5, <2>1 DEF InPlace, Begun, Carries
<1>10. PICK p, p2, q, r, s, m, r2 :
         /\ p = stack[k] /\ p2 = stack'[k] /\ q = inbox[k] /\ r = received["client"][k]
         /\ s = sent["server"][k] /\ m = Top(k).m /\ r2 = Append(r, m)
  OBVIOUS
<1>11. r \in Seq(Nat \ {0}) /\ s \in Nat
  BY <1>1, <1>10, Counts DEF Sides
<1>12. /\ AsSent(r, s) /\ Bounded(p, q, "sink_write", k, s) /\ InLine(p, q, "sink_write", k, r, s)
       /\ "stub" \in sink[k] => NoneLost(p, q, "sink_write", k, r, s)
  BY <1>1, <1>10 DEF ToClient
<1>13. /\ r2 \in Seq(Nat \ {0}) /\ AsSent(r2, s)
       /\ Bounded(p2, q, "sink_write", k, s) /\ InLine(p2, q, "sink_write", k, r2, s)
       /\ NoneLost(p, q, "sink_write", k, r, s) => NoneLost(p2, q, "sink_write", k, r2, s)
  <2>1. Begun(p, "sink_write", k) /\ ~Begun(p2, "sink_write", k) /\ p[Len(p)].m = m
    BY <1>8, <1>9, <1>10
  <2>2. /\ Append(r, m) \in Seq(Nat \ {0}) /\ AsSent(Append(r, m), s)
        /\ Bounded(p2, q, "sink_write", k, s) /\ InLine(p2, q, "sink_write", k, Append(r, m), s)
        /\ NoneLost(p, q, "sink_write", k, r, s) => NoneLost(p2, q, "sink_write", k, Append(r, m), s)
    BY <1>11, <1>12, <2>1, MessageGiven
  <2> QED
    BY <1>10, <2>2
<1>14. /\ received' \in [Sides -> [Clients -> Seq(Nat \ {0})]] /\ received'["client"][k] = r2
       /\ \A c \in Clients : received'["server"][c] = received["server"][c]
       /\ \A c \in Clients \ {k} : received'["client"][c] = received["client"][c]
  <2>1. received \in [Sides -> [Clients -> Seq(Nat \ {0})]]
    BY <1>1 DEF ValuesOK
  <2>2. received' = [received EXCEPT !["client"][k] = r2]
    BY <1>2, <1>10
  <2> QED
    BY <1>13, <2>1, <2>2 DEF Sides
<1>15. ValuesOK'
  BY <1>1, <1>2, <1>14 DEF ValuesOK, server, ends
<1>16. ToClient(k)'
  BY <1>2, <1>6, <1>10, <1>12, <1>13, <1>14 DEF ToClient, ends
<1>17. ASSUME NEW c \in Clients PROVE ToServer(c)'
  <2>1. ToServer(c) /\ stack'["server"] = stack["server"] /\ inbox'["server"] = inbox["server"]
    BY <1>1, <1>5, <1>6, <1>8
  <2> QED
    BY <1>2, <1>14, <2>1 DEF ToServer, ends
<1>18. ASSUME NEW c \in Clients \ {k} PROVE ToClient(c)'
  <2>1. ToClient(c) /\ stack'[c] = stack[c] /\ inbox'[c] = inbox[c]
    BY <1>1, <1>6, <1>8 DEF Apartments
  <2>2. received'["client"][c] = received["client"][c] /\ sent' = sent /\ sink' = sink
    BY <1>2, <1>14 DEF ends
  <2> QED
    BY <2>1, <2>2 DEF ToClient
<1>19. CrashesOnlyInConnect'
  BY <1>2, NoCrash
<1> QED
  BY <1>3, <1>7, <1>15, <1>16, <1>17, <1>18, <1>19, PartsNext

\* The constructor asks for the connection point.
LEMMA QueryKeeps ==
    ASSUME IInv, crashed = {}, NEW k \in Clients, Query(k)
    PROVE  IInv'
<1>1. /\ At(k) = "query" /\ Top(k).op = "connect" /\ server' = server /\ ends' = ends
      /\ told' = told /\ sent' = sent /\ received' = received
  BY DEF Query, Runs
<1>2. PICK cl, se, fr : cl = client /\ se = session /\ fr = FreshOnes
  OBVIOUS
<1>3. /\ Calls(stack, inbox, cl, se, fr) /\ k \in Apartments /\ "server" \in Apartments
      /\ k # "server" /\ Graph(stack, inbox) /\ inbox \in Queues /\ ValuesOK
      /\ \A c \in Clients : Lives(c)
  BY <1>2, Parts, ComAssumption DEF Orderly, Apartments, Calls, Graph
<1>4. Top(k).of = k /\ cl[k] = "connecting" /\ k \in fr
  <2>1. OnStack(k, Len(stack[k]), Top(k), cl, se, fr) /\ InPlace(k, Top(k)) /\ Top(k).at = "query"
    BY <1>1, <1>3, TopIs, TopClaims
  <2> QED
    BY <1>1, <1>3, <2>1 DEF OnStack, InPlace
<1>5. CASE stub[k]
  <2>1. CallOut(k, "server", "advise", "leave") /\ crashed' = crashed
    BY <1>5 DEF Query
  <2>2. PICK f : f = Frame("advise", Top(k).of, Top(k).m, "start", << k, Len(stack[k]), "leave" >>)
    OBVIOUS
  <2>3. f.op = "advise" /\ f.of = k /\ f.ret[3] = "leave"
    BY <1>4, <2>2 DEF Frame
  <2>4. Answers(f, Top(k)) /\ InQueue(f, se, fr)
    BY <1>1, <1>4, <2>3 DEF Answers, InQueue
  <2>5. Calling(k, "server", "advise", "leave", f)
    BY <1>4, <2>2 DEF Remote, ServerOps, IntoClient, Calling
  <2>6. /\ Calls(stack', inbox', cl, se, fr) /\ Still(stack, stack') /\ f \in Call
        /\ inbox' = Longer(inbox, "server", f)
    BY <1>1, <1>3, <2>1, <2>4, <2>5, CallOutStep
  <2>7. Quiet(inbox, inbox')
    <3>1. f.op \notin {"write", "sink_write"}
      BY <2>3
    <3> QED
      BY <1>3, <2>6, <3>1, QuietLonger
  <2>8. history' = history /\ registered' \in BOOLEAN /\ serving' \in BOOLEAN
    BY <1>1, <1>3, <2>1 DEF history, server, ValuesOK
  <2> QED
    BY <1>1, <1>2, <2>6, <2>7, <2>8, CallsOnly
<1>6. CASE ~stub[k]
  <2>1. crashed' = {k} /\ stack' = stack /\ inbox' = inbox
    BY <1>6 DEF Query, calls
  <2>2. FreshOnes' = FreshOnes /\ \A c \in Clients : Lives(c)'
    BY <1>1, <1>3, Ends
  <2>3. ValuesOK'
    BY <1>1, <1>3, <2>1 DEF ValuesOK, server, ends
  <2>4. Orderly'
    BY <1>1, <1>2, <1>3, <2>1, <2>2 DEF Orderly, ends
  <2>5. \A c \in Clients : ToServer(c)' /\ ToClient(c)'
    <3>1. \A c \in Clients : ToServer(c) /\ ToClient(c)
      BY Parts
    <3> QED
      BY <1>1, <2>1, <3>1 DEF ToServer, ToClient, ends
  <2>6. CrashesOnlyInConnect'
    BY <1>1, <1>2, <1>4, <1>6 DEF CrashesOnlyInConnect, ends
  <2> QED
    BY <2>2, <2>3, <2>4, <2>5, <2>6, PartsNext
<1> QED
  BY <1>5, <1>6

\* The constructor calls CoCreateInstance().
LEMMA ConnectKeeps ==
    ASSUME IInv, crashed = {}, NEW k \in Clients, Connect(k)
    PROVE  IInv'
<1>1. /\ ValuesOK /\ Orderly /\ \A c \in Clients : Lives(c)
      /\ \A c \in Clients : ToServer(c) /\ ToClient(c)
  BY Parts
<1>2. /\ At(k) = "rest" /\ client[k] = "none" /\ client' = [client EXCEPT ![k] = "connecting"]
      /\ sink' = [sink EXCEPT ![k] = {"ctor"}] /\ server' = server /\ session' = session
      /\ inbound' = inbound /\ stub' = stub /\ outbound' = outbound /\ told' = told
      /\ sent' = sent /\ received' = received /\ crashed' = crashed
  BY DEF Connect, history
<1>3. /\ client' \in [Clients -> {"none", "connecting", "connected", "closing", "refused", "gone"}]
      /\ client'[k] = "connecting" /\ \A c \in Clients \ {k} : client'[c] = client[c]
  BY <1>1, <1>2 DEF ValuesOK
<1>4. /\ sink' \in [Clients -> SUBSET {"ctor", "stub"}] /\ sink'[k] = {"ctor"}
      /\ \A c \in Clients \ {k} : sink'[c] = sink[c]
  BY <1>1, <1>2 DEF ValuesOK
<1>5. ValuesOK'
  BY <1>1, <1>2, <1>3, <1>4 DEF ValuesOK, server
<1>6. /\ session[k] = "none" /\ Fresh(k) /\ sink[k] = {} /\ told["client"][k] = 0
      /\ sent["client"][k] = 0
  BY <1>1, <1>2 DEF Lives
<1>7. ASSUME NEW c \in Clients PROVE Lives(c)'
  <2>1. Lives(c)
    BY <1>1
  <2>2. CASE c # k
    BY <1>2, <1>3, <1>4, <2>1, <2>2, SinkOnly
  <2>3. CASE c = k
    BY <1>2, <1>3, <1>4, <1>6, <2>1, <2>3 DEF Lives
  <2> QED
    BY <2>2, <2>3
<1>8. PICK cl, cl2, se, fr, fr2, st, ib :
        /\ cl = client /\ cl2 = client' /\ se = session /\ fr = FreshOnes /\ fr2 = FreshOnes'
        /\ st = stack /\ ib = inbox
  OBVIOUS
<1>9. fr \subseteq fr2 /\ k \in fr2
  <2>1. \A c \in Clients : Fresh(c) => Fresh(c)'
    BY <1>2, <1>4 DEF Fresh
  <2> QED
    BY <1>6, <1>8, <2>1 DEF FreshOnes
<1>10. /\ Calls(st, ib, cl, se, fr) /\ k \in Apartments /\ "server" \in Apartments
       /\ k # "server" /\ Graph(stack, inbox) /\ inbox \in Queues
  BY <1>1, <1>8, ComAssumption DEF Orderly, Apartments, Calls, Graph
<1>11. stack[k] = << >> /\ Len(stack[k]) = 0 /\ UserTurn(k)
  BY <1>2, <1>10, AtRest DEF UserTurn
<1>12. Calls(stack, inbox, cl2, se, fr2)
  <2>1. Graph(st, ib) /\ Claims(st, ib, cl, se, fr)
    BY <1>10 DEF Calls
  <2>2. \A i \in 1..Len(st[k]) : st[k][i].op \notin {"connect", "destroy"}
    BY <1>8, <1>11
  <2>3. \A c \in Clients \ {k} : cl2[c] = cl[c]
    BY <1>3, <1>8
  <2>4. Claims(st, ib, cl2, se, fr)
    BY <2>1, <2>2, <2>3, ClaimsClient
  <2>5. Claims(st, ib, cl2, se, fr2)
    BY <1>9, <2>4, ClaimsFresh
  <2> QED
    BY <1>8, <2>1, <2>5 DEF Calls
<1>13. Calls(stack', inbox', cl2, se, fr2) /\ Still(stack, stack') /\ Quiet(inbox, inbox')
  <2>1. CASE registered
    <3>1. UserCalls(k, "connect", k, 0, "server", "create", "query")
      BY <2>1 DEF Connect
    <3>2. PICK f : Makes(k, "connect", k, 0, "wait", f)
      BY <1>10 DEF Makes, Remote, ClientOps, Places
    <3>3. f.op = "connect" /\ f.of = k /\ f.at = "wait"
      BY <1>10, <3>2, UserFrameIs
    <3>4. OnStack(k, Len(stack[k]) + 1, f, cl2, se, fr2)
      BY <1>3, <1>8, <1>11, <3>3 DEF OnStack
    <3>5. PICK g : Asking(k, "server", "create", k, 0, "query", g)
      BY DEF Asking, Remote, ServerOps, IntoClient
    <3>6. g.op = "create" /\ g.of = k /\ g.ret[3] = "query"
      BY <3>5 DEF Asking, Frame
    <3>7. Answers(g, f) /\ InQueue(g, se, fr2)
      BY <1>6, <1>8, <1>9, <3>3, <3>6 DEF Answers, InQueue
    <3>8. /\ Calls(stack', inbox', cl2, se, fr2) /\ Still(stack, stack')
          /\ inbox' = Longer(inbox, "server", g) /\ g \in Call
      BY <1>10, <1>11, <1>12, <3>1, <3>2, <3>4, <3>5, <3>7, UserCallStep
    <3>9. Quiet(inbox, inbox')
      <4>1. g.op \notin {"write", "sink_write"}
        BY <3>6
      <4> QED
        BY <1>10, <3>8, <4>1, QuietLonger
    <3> QED
      BY <3>8, <3>9
  <2>2. CASE ~registered
    <3>1. stack' = Entered(k, "connect", k, 0, "refused") /\ inbox' = inbox
      BY <2>2 DEF Connect
    <3>2. PICK f : Makes(k, "connect", k, 0, "refused", f)
      BY <1>10 DEF Makes, Remote, ClientOps, Places
    <3>3. f.op = "connect" /\ f.of = k /\ f.at = "refused"
      BY <1>10, <3>2, UserFrameIs
    <3>4. OnStack(k, Len(stack[k]) + 1, f, cl2, se, fr2)
      BY <1>3, <1>8, <1>11, <3>3 DEF OnStack
    <3>5. Calls(stack', inbox, cl2, se, fr2) /\ Still(stack, stack')
      BY <1>10, <1>11, <1>12, <3>1, <3>2, <3>4, EnterStep
    <3> QED
      BY <3>1, <3>5, NoQueueChange
  <2> QED
    BY <2>1, <2>2
<1>14. Orderly'
  BY <1>2, <1>8, <1>13 DEF Orderly
<1>15. \A c \in Clients : ToServer(c)' /\ ToClient(c)'
  <2>1. /\ \A c \in Clients : stub'[c] => stub[c]
        /\ \A c \in Clients : "stub" \in sink'[c] => "stub" \in sink[c]
    BY <1>2, <1>4
  <2> QED
    BY <1>1, <1>2, <1>13, <2>1, MessagesKept
<1>16. CrashesOnlyInConnect'
  BY <1>2, NoCrash
<1> QED
  BY <1>5, <1>7, <1>14, <1>15, <1>16, PartsNext

\* The destructor releases the proxy.
LEMMA DestroyKeeps ==
    ASSUME IInv, crashed = {}, NEW k \in Clients, Destroy(k)
    PROVE  IInv'
<1>1. /\ ValuesOK /\ Orderly /\ \A c \in Clients : Lives(c)
      /\ \A c \in Clients : ToServer(c) /\ ToClient(c)
  BY Parts
<1>2. /\ UserTurn(k) /\ client[k] = "connected" /\ client' = [client EXCEPT ![k] = "closing"]
      /\ sink' = sink /\ server' = server /\ session' = session
      /\ inbound' = inbound /\ stub' = stub /\ outbound' = outbound /\ told' = told
      /\ sent' = sent /\ received' = received /\ crashed' = crashed
  BY DEF Destroy, history
<1>3. /\ client' \in [Clients -> {"none", "connecting", "connected", "closing", "refused", "gone"}]
      /\ client'[k] = "closing" /\ \A c \in Clients \ {k} : client'[c] = client[c]
  BY <1>1, <1>2 DEF ValuesOK
<1>5. ValuesOK'
  BY <1>1, <1>2, <1>3 DEF ValuesOK, server
<1>7. ASSUME NEW c \in Clients PROVE Lives(c)'
  <2>1. Lives(c)
    BY <1>1
  <2>2. CASE c # k
    BY <1>2, <1>3, <2>1, <2>2, SinkOnly
  <2>3. CASE c = k
    BY <1>2, <1>3, <2>1, <2>3 DEF Lives
  <2> QED
    BY <2>2, <2>3
<1>8. PICK cl, cl2, se, fr, st, ib :
        /\ cl = client /\ cl2 = client' /\ se = session /\ fr = FreshOnes /\ st = stack /\ ib = inbox
  OBVIOUS
<1>9. FreshOnes' = fr
  BY <1>2, <1>8 DEF FreshOnes, Fresh
<1>10. /\ Calls(st, ib, cl, se, fr) /\ k \in Apartments /\ "server" \in Apartments
       /\ k # "server" /\ Graph(stack, inbox) /\ inbox \in Queues
  BY <1>1, <1>8, ComAssumption DEF Orderly, Apartments, Calls, Graph
<1>11. \A i \in 1..Len(stack[k]) : stack[k][i].op \notin {"connect", "destroy"}
  <2>1. ASSUME NEW i \in 1..Len(st[k]) PROVE st[k][i].op \notin {"connect", "destroy"}
    <3>1. OnStack(k, i, st[k][i], cl, se, fr)
      BY <1>10 DEF Calls, Claims
    <3> QED
      BY <1>2, <1>8, <3>1 DEF OnStack
  <2> QED
    BY <1>8, <2>1
<1>12. Calls(stack, inbox, cl2, se, fr)
  <2>1. Graph(st, ib) /\ Claims(st, ib, cl, se, fr)
    BY <1>10 DEF Calls
  <2>2. \A i \in 1..Len(st[k]) : st[k][i].op \notin {"connect", "destroy"}
    BY <1>8, <1>11
  <2>3. \A c \in Clients \ {k} : cl2[c] = cl[c]
    BY <1>3, <1>8
  <2>4. Claims(st, ib, cl2, se, fr)
    BY <2>1, <2>2, <2>3, ClaimsClient
  <2> QED
    BY <1>8, <2>1, <2>4 DEF Calls
<1>13. Calls(stack', inbox', cl2, se, fr) /\ Still(stack, stack') /\ Quiet(inbox, inbox')
  <2>1. CASE stub[k]
    <3>1. UserCalls(k, "destroy", k, 0, "server", "release", "uninit")
      BY <2>1 DEF Destroy
    <3>2. PICK f : Makes(k, "destroy", k, 0, "wait", f)
      BY <1>10 DEF Makes, Remote, ClientOps, Places
    <3>3. f.op = "destroy" /\ f.of = k /\ f.at = "wait"
      BY <1>10, <3>2, UserFrameIs
    <3>4. OnStack(k, Len(stack[k]) + 1, f, cl2, se, fr)
      BY <1>3, <1>8, <3>3 DEF OnStack
    <3>5. PICK g : Asking(k, "server", "release", k, 0, "uninit", g)
      BY DEF Asking, Remote, ServerOps, IntoClient
    <3>6. g.op = "release" /\ g.of = k /\ g.ret[3] = "uninit"
      BY <3>5 DEF Asking, Frame
    <3>7. Answers(g, f) /\ InQueue(g, se, fr)
      BY <3>3, <3>6 DEF Answers, InQueue
    <3>8. /\ Calls(stack', inbox', cl2, se, fr) /\ Still(stack, stack')
          /\ inbox' = Longer(inbox, "server", g) /\ g \in Call
      BY <1>2, <1>10, <1>11, <1>12, <3>1, <3>2, <3>4, <3>5, <3>7, UserCallStep
    <3>9. Quiet(inbox, inbox')
      <4>1. g.op \notin {"write", "sink_write"}
        BY <3>6
      <4> QED
        BY <1>10, <3>8, <4>1, QuietLonger
    <3> QED
      BY <3>8, <3>9
  <2>2. CASE ~stub[k]
    <3>1. stack' = Entered(k, "destroy", k, 0, "uninit") /\ inbox' = inbox
      BY <2>2 DEF Destroy
    <3>2. PICK f : Makes(k, "destroy", k, 0, "uninit", f)
      BY <1>10 DEF Makes, Remote, ClientOps, Places
    <3>3. f.op = "destroy" /\ f.of = k /\ f.at = "uninit"
      BY <1>10, <3>2, UserFrameIs
    <3>4. OnStack(k, Len(stack[k]) + 1, f, cl2, se, fr)
      BY <1>3, <1>8, <3>3 DEF OnStack
    <3>5. Calls(stack', inbox, cl2, se, fr) /\ Still(stack, stack')
      BY <1>2, <1>10, <1>11, <1>12, <3>1, <3>2, <3>4, EnterStep
    <3> QED
      BY <3>1, <3>5, NoQueueChange
  <2> QED
    BY <2>1, <2>2
<1>14. Orderly'
  BY <1>2, <1>8, <1>9, <1>13 DEF Orderly
<1>15. \A c \in Clients : ToServer(c)' /\ ToClient(c)'
  <2>1. /\ \A c \in Clients : stub'[c] => stub[c]
        /\ \A c \in Clients : "stub" \in sink'[c] => "stub" \in sink[c]
    BY <1>2
  <2> QED
    BY <1>1, <1>2, <1>13, <2>1, MessagesKept
<1>16. CrashesOnlyInConnect'
  BY <1>2, NoCrash
<1> QED
  BY <1>5, <1>7, <1>14, <1>15, <1>16, PartsNext

\* Side s sends one more message of client k.
LEMMA Sends ==
    ASSUME ValuesOK, NEW s \in Sides, NEW k \in Clients, sent' = [sent EXCEPT ![s][k] = @ + 1]
    PROVE  /\ sent' \in [Sides -> [Clients -> Nat]] /\ sent'[s][k] = sent[s][k] + 1
           /\ \A t \in Sides, c \in Clients : t # s \/ c # k => sent'[t][c] = sent[t][c]
<1>1. sent \in [Sides -> [Clients -> Nat]]
  BY DEF ValuesOK
<1>2. sent' = [sent EXCEPT ![s][k] = sent[s][k] + 1]
  OBVIOUS
<1>3. sent[s][k] + 1 \in Nat
  BY <1>1
<1> QED
  BY <1>1, <1>2, <1>3

\* client_session::message()
LEMMA SendKeeps ==
    ASSUME IInv, crashed = {}, NEW k \in Clients, Send(k)
    PROVE  IInv'
<1>1. /\ ValuesOK /\ Orderly /\ \A c \in Clients : Lives(c)
      /\ \A c \in Clients : ToServer(c) /\ ToClient(c)
  BY Parts
<1>2. /\ UserTurn(k) /\ client[k] = "connected" /\ sent' = [sent EXCEPT !["client"][k] = @ + 1]
      /\ server' = server /\ ends' = ends /\ told' = told /\ received' = received
      /\ crashed' = crashed
  BY DEF Send
<1>3. /\ sent' \in [Sides -> [Clients -> Nat]]
      /\ sent'["client"][k] = sent["client"][k] + 1
      /\ \A c \in Clients \ {k} : sent'["client"][c] = sent["client"][c]
      /\ \A c \in Clients : sent'["server"][c] = sent["server"][c]
  <2>1. "client" \in Sides /\ "server" \in Sides /\ "client" # "server"
    BY DEF Sides
  <2>2. PICK s : s = "client"
    OBVIOUS
  <2>3. /\ sent' \in [Sides -> [Clients -> Nat]] /\ sent'[s][k] = sent[s][k] + 1
        /\ \A t \in Sides, c \in Clients : t # s \/ c # k => sent'[t][c] = sent[t][c]
    <3>1. s \in Sides /\ ValuesOK /\ sent' = [sent EXCEPT ![s][k] = @ + 1]
      BY <1>1, <1>2, <2>1, <2>2
    <3> QED
      BY <3>1, Sends, ZenonT(60)
  <2> QED
    BY <2>1, <2>2, <2>3
<1>4. ValuesOK'
  BY <1>1, <1>2, <1>3 DEF ValuesOK, server, ends
<1>5. ASSUME NEW c \in Clients PROVE Lives(c)' /\ (Fresh(c)' <=> Fresh(c))
  <2>1. Lives(c)
    BY <1>1
  <2>2. Fresh(c)' <=> Fresh(c)
    BY <1>2, <1>3 DEF Fresh, ends
  <2>3. CASE c # k
    BY <1>2, <1>3, <2>1, <2>2, <2>3 DEF Lives, ends
  <2>4. CASE c = k
    BY <1>2, <1>3, <2>1, <2>2, <2>4 DEF Lives, ends
  <2> QED
    BY <2>2, <2>3, <2>4
<1>6. FreshOnes' = FreshOnes
  BY <1>5 DEF FreshOnes
<1>7. PICK cl, se, fr : cl = client /\ se = session /\ fr = FreshOnes
  OBVIOUS
<1>8. /\ Calls(stack, inbox, cl, se, fr) /\ k \in Apartments /\ "server" \in Apartments
      /\ Graph(stack, inbox) /\ inbox \in Queues /\ "server" \notin Clients
  BY <1>1, <1>7, ComAssumption DEF Orderly, Apartments, Calls, Graph
<1>9. PICK s \in Nat : s = sent["client"][k]
  BY <1>1, Counts DEF Sides
<1>10. PICK r : r = received["server"][k] /\ Len(r) \in Nat
  BY <1>1, Counts DEF Sides
<1>11. CASE stub[k]
  <2>1. UserCalls(k, "send", k, s + 1, "server", "write", "leave") /\ s + 1 \in Nat
    BY <1>9, <1>11 DEF Send
  <2>2. PICK m \in Nat : m = s + 1
    OBVIOUS
  <2>3. PICK f : Makes(k, "send", k, m, "wait", f)
    BY <1>8 DEF Makes, Remote, ClientOps, Places
  <2>4. f.op = "send" /\ f.of = k /\ f.at = "wait"
    BY <1>8, <2>3, UserFrameIs
  <2>5. OnStack(k, Len(stack[k]) + 1, f, cl, se, fr)
    BY <2>4 DEF OnStack
  <2>6. PICK g : Asking(k, "server", "write", k, m, "leave", g)
    BY DEF Asking, Remote, ServerOps, IntoClient
  <2>7. g.op = "write" /\ g.of = k /\ g.ret[3] = "leave"
    BY <2>6 DEF Asking, Frame
  <2>8. Answers(g, f) /\ InQueue(g, se, fr)
    BY <2>4, <2>7 DEF Answers, InQueue
  <2>9. /\ Calls(stack', inbox', cl, se, fr) /\ Still(stack, stack')
        /\ inbox' = Longer(inbox, "server", g) /\ g \in Call /\ Carries(g, "write", k) /\ g.m = m
    <3>1. UserCalls(k, "send", k, m, "server", "write", "leave")
      BY <2>1, <2>2
    <3> QED
      BY <1>2, <1>8, <2>3, <2>5, <2>6, <2>8, <3>1, UserCallStep
  <2>10. Orderly'
    BY <1>2, <1>6, <1>7, <2>9 DEF Orderly, ends
  <2>11. /\ Joined(inbox["server"], inbox'["server"], g)
         /\ \A c \in Clients : inbox'[c] = inbox[c]
    <3>1. /\ Joined(inbox["server"], Longer(inbox, "server", g)["server"], g)
          /\ \A c \in Apartments \ {"server"} : Longer(inbox, "server", g)[c] = inbox[c]
      BY <1>8, <2>9, JoinedIs
    <3> QED
      BY <1>8, <2>9, <3>1 DEF Apartments
  <2>12. ToServer(k)'
    <3>1. PICK p, p2, q, q2 : /\ p = stack["server"] /\ p2 = stack'["server"]
                              /\ q = inbox["server"] /\ q2 = inbox'["server"]
      OBVIOUS
    <3>2. /\ AsSent(r, s) /\ Bounded(p, q, "write", k, s) /\ InLine(p, q, "write", k, r, s)
          /\ NoneLost(p, q, "write", k, r, s)
      BY <1>1, <1>9, <1>10, <1>11, <3>1 DEF ToServer
    <3>3. Joined(q, q2, g)
      BY <2>11, <3>1
    <3>4. /\ Bounded(p, q2, "write", k, s + 1) /\ InLine(p, q2, "write", k, r, s + 1)
          /\ NoneLost(p, q2, "write", k, r, s + 1)
      BY <1>10, <2>2, <2>9, <3>2, <3>3, MessageJoined
    <3>5. SameStart(p, p2, "write", k)
      BY <1>8, <2>9, <3>1, StillStarts
    <3>6. /\ Bounded(p2, q2, "write", k, s + 1) /\ InLine(p2, q2, "write", k, r, s + 1)
          /\ NoneLost(p2, q2, "write", k, r, s + 1)
      BY <3>4, <3>5, StartKept
    <3>7. AsSent(r, s + 1)
      BY <1>10, <3>2, MessageUnsent
    <3> QED
      BY <1>2, <1>3, <1>9, <1>10, <3>1, <3>6, <3>7 DEF ToServer
  <2>13. ASSUME NEW c \in Clients \ {k} PROVE ToServer(c)'
    <3>1. ToServer(c) /\ sent'["client"][c] = sent["client"][c] /\ stub' = stub
      BY <1>1, <1>2, <1>3 DEF ends
    <3>2. SameStart(stack["server"], stack'["server"], "write", c)
      BY <1>8, <2>9, StillStarts
    <3>3. QueueKept(inbox["server"], inbox'["server"], "write", c)
      BY <2>9, <2>11 DEF QueueKept, Carries
    <3> QED
      BY <1>1, <1>2, <3>1, <3>2, <3>3, ToServerKept
  <2>14. ASSUME NEW c \in Clients PROVE ToClient(c)'
    <3>1. ToClient(c) /\ sent'["server"][c] = sent["server"][c] /\ sink' = sink /\ c \in Apartments
      BY <1>1, <1>2, <1>3 DEF ends, Apartments
    <3>2. SameStart(stack[c], stack'[c], "sink_write", c)
      BY <2>9, <3>1, StillStarts
    <3>3. QueueKept(inbox[c], inbox'[c], "sink_write", c)
      BY <2>11 DEF QueueKept
    <3> QED
      BY <1>1, <1>2, <3>1, <3>2, <3>3, ToClientKept
  <2> QED
    BY <1>2, <1>4, <1>5, <2>10, <2>12, <2>13, <2>14, NoCrash, PartsNext
<1>12. CASE ~stub[k]
  <2>1. stack' = stack /\ inbox' = inbox
    BY <1>12 DEF Send, calls
  <2>2. Orderly'
    BY <1>2, <1>6, <1>7, <1>8, <2>1 DEF Orderly, ends
  <2>3. ToServer(k)'
    <3>1. AsSent(r, s) /\ Bounded(stack["server"], inbox["server"], "write", k, s)
      BY <1>1, <1>9, <1>10 DEF ToServer
    <3>2. AsSent(r, s + 1) /\ Bounded(stack["server"], inbox["server"], "write", k, s + 1)
      BY <1>10, <3>1, MessageUnsent
    <3> QED
      BY <1>2, <1>3, <1>9, <1>10, <1>12, <2>1, <3>2 DEF ToServer, ends
  <2>4. ASSUME NEW c \in Clients \ {k} PROVE ToServer(c)'
    <3>1. ToServer(c) /\ sent'["client"][c] = sent["client"][c] /\ stub' = stub
      BY <1>1, <1>2, <1>3 DEF ends
    <3> QED
      BY <1>2, <2>1, <3>1 DEF ToServer
  <2>5. ASSUME NEW c \in Clients PROVE ToClient(c)'
    <3>1. ToClient(c) /\ sent'["server"][c] = sent["server"][c] /\ sink' = sink
      BY <1>1, <1>2, <1>3 DEF ends
    <3> QED
      BY <1>2, <2>1, <3>1 DEF ToClient
  <2> QED
    BY <1>2, <1>4, <1>5, <2>2, <2>3, <2>4, <2>5, NoCrash, PartsNext
<1> QED
  BY <1>11, <1>12

-----------------------------------------------------------------------------
(* Actions of the server *)

\* session::message()
LEMMA PushKeeps ==
    ASSUME IInv, crashed = {}, NEW k \in Clients, Push(k)
    PROVE  IInv'
<1>1. /\ ValuesOK /\ Orderly /\ \A c \in Clients : Lives(c)
      /\ \A c \in Clients : ToServer(c) /\ ToClient(c)
  BY Parts
<1>2. /\ UserTurn("server") /\ session[k] = "open" /\ outbound[k]
      /\ sent' = [sent EXCEPT !["server"][k] = @ + 1]
      /\ server' = server /\ ends' = ends /\ told' = told /\ received' = received
      /\ crashed' = crashed
  BY DEF Push
<1>3. /\ sent' \in [Sides -> [Clients -> Nat]]
      /\ sent'["server"][k] = sent["server"][k] + 1
      /\ \A c \in Clients \ {k} : sent'["server"][c] = sent["server"][c]
      /\ \A c \in Clients : sent'["client"][c] = sent["client"][c]
  <2>1. "client" \in Sides /\ "server" \in Sides /\ "client" # "server"
    BY DEF Sides
  <2>2. PICK s : s = "server"
    OBVIOUS
  <2>3. /\ sent' \in [Sides -> [Clients -> Nat]] /\ sent'[s][k] = sent[s][k] + 1
        /\ \A t \in Sides, c \in Clients : t # s \/ c # k => sent'[t][c] = sent[t][c]
    <3>1. s \in Sides /\ ValuesOK /\ sent' = [sent EXCEPT ![s][k] = @ + 1]
      BY <1>1, <1>2, <2>1, <2>2
    <3> QED
      BY <3>1, Sends, ZenonT(60)
  <2> QED
    BY <2>1, <2>2, <2>3
<1>4. ValuesOK'
  BY <1>1, <1>2, <1>3 DEF ValuesOK, server, ends
<1>5. ASSUME NEW c \in Clients PROVE Lives(c)' /\ (Fresh(c)' <=> Fresh(c))
  <2>1. Lives(c)
    BY <1>1
  <2>2. CASE c # k
    <3>1. Fresh(c)' <=> Fresh(c)
      BY <1>2, <1>3, <2>2 DEF Fresh, ends
    <3> QED
      BY <1>2, <1>3, <2>1, <3>1 DEF Lives, ends
  <2>3. CASE c = k
    <3>1. ~Fresh(c) /\ ~Fresh(c)'
      BY <1>2, <2>3 DEF Fresh, ends
    <3> QED
      BY <1>2, <1>3, <2>1, <2>3, <3>1 DEF Lives, ends
  <2> QED
    BY <2>2, <2>3
<1>6. FreshOnes' = FreshOnes
  BY <1>5 DEF FreshOnes
<1>7. PICK cl, se, fr : cl = client /\ se = session /\ fr = FreshOnes
  OBVIOUS
<1>8. /\ Calls(stack, inbox, cl, se, fr) /\ k \in Apartments /\ "server" \in Apartments
      /\ Graph(stack, inbox) /\ inbox \in Queues /\ "server" \notin Clients
  BY <1>1, <1>7, ComAssumption DEF Orderly, Apartments, Calls, Graph
<1>9. PICK s \in Nat : s = sent["server"][k]
  BY <1>1, Counts DEF Sides
<1>10. PICK r : r = received["client"][k] /\ Len(r) \in Nat
  BY <1>1, Counts DEF Sides
<1>11. CASE "stub" \in sink[k]
  <2>1. UserCalls("server", "push", k, s + 1, k, "sink_write", "leave") /\ s + 1 \in Nat
    BY <1>9, <1>11 DEF Push
  <2>2. PICK m \in Nat : m = s + 1
    OBVIOUS
  <2>3. PICK f : Makes("server", "push", k, m, "wait", f)
    BY <1>8 DEF Makes, Remote, ServerOps, Places
  <2>4. f.op = "push" /\ f.of = k /\ f.at = "wait"
    BY <1>8, <2>3, UserFrameIs
  <2>5. OnStack("server", Len(stack["server"]) + 1, f, cl, se, fr)
    BY <2>4 DEF OnStack
  <2>6. PICK g : Asking("server", k, "sink_write", k, m, "leave", g)
    BY <1>8 DEF Asking, Remote, ClientOps, IntoClient
  <2>7. g.op = "sink_write" /\ g.of = k /\ g.ret[3] = "leave"
    BY <2>6 DEF Asking, Frame
  <2>8. Answers(g, f) /\ InQueue(g, se, fr)
    BY <2>4, <2>7 DEF Answers, InQueue
  <2>9. /\ Calls(stack', inbox', cl, se, fr) /\ Still(stack, stack')
        /\ inbox' = Longer(inbox, k, g) /\ g \in Call /\ Carries(g, "sink_write", k) /\ g.m = m
    <3>1. UserCalls("server", "push", k, m, k, "sink_write", "leave")
      BY <2>1, <2>2
    <3> QED
      BY <1>2, <1>8, <2>3, <2>5, <2>6, <2>8, <3>1, UserCallStep
  <2>10. Orderly'
    BY <1>2, <1>6, <1>7, <2>9 DEF Orderly, ends
  <2>11. /\ Joined(inbox[k], inbox'[k], g)
         /\ \A c \in Apartments \ {k} : inbox'[c] = inbox[c]
    BY <1>8, <2>9, JoinedIs
  <2>12. ToClient(k)'
    <3>1. PICK p, p2, q, q2 : /\ p = stack[k] /\ p2 = stack'[k] /\ q = inbox[k] /\ q2 = inbox'[k]
      OBVIOUS
    <3>2. /\ AsSent(r, s) /\ Bounded(p, q, "sink_write", k, s) /\ InLine(p, q, "sink_write", k, r, s)
          /\ NoneLost(p, q, "sink_write", k, r, s)
      BY <1>1, <1>9, <1>10, <1>11, <3>1 DEF ToClient
    <3>3. Joined(q, q2, g)
      BY <2>11, <3>1
    <3>4. /\ Bounded(p, q2, "sink_write", k, s + 1) /\ InLine(p, q2, "sink_write", k, r, s + 1)
          /\ NoneLost(p, q2, "sink_write", k, r, s + 1)
      BY <1>10, <2>2, <2>9, <3>2, <3>3, MessageJoined
    <3>5. SameStart(p, p2, "sink_write", k)
      BY <1>8, <2>9, <3>1, StillStarts
    <3>6. /\ Bounded(p2, q2, "sink_write", k, s + 1) /\ InLine(p2, q2, "sink_write", k, r, s + 1)
          /\ NoneLost(p2, q2, "sink_write", k, r, s + 1)
      BY <3>4, <3>5, StartKept
    <3>7. AsSent(r, s + 1)
      BY <1>10, <3>2, MessageUnsent
    <3> QED
      BY <1>2, <1>3, <1>9, <1>10, <3>1, <3>6, <3>7 DEF ToClient
  <2>13. ASSUME NEW c \in Clients \ {k} PROVE ToClient(c)'
    <3>1. ToClient(c) /\ sent'["server"][c] = sent["server"][c] /\ sink' = sink /\ c \in Apartments
      BY <1>1, <1>2, <1>3 DEF ends, Apartments
    <3>2. SameStart(stack[c], stack'[c], "sink_write", c)
      BY <2>9, <3>1, StillStarts
    <3>3. QueueKept(inbox[c], inbox'[c], "sink_write", c)
      BY <2>11, <3>1 DEF QueueKept
    <3> QED
      BY <1>1, <1>2, <3>1, <3>2, <3>3, ToClientKept
  <2>14. ASSUME NEW c \in Clients PROVE ToServer(c)'
    <3>1. ToServer(c) /\ sent'["client"][c] = sent["client"][c] /\ stub' = stub
      BY <1>1, <1>2, <1>3 DEF ends
    <3>2. SameStart(stack["server"], stack'["server"], "write", c)
      BY <1>8, <2>9, StillStarts
    <3>3. QueueKept(inbox["server"], inbox'["server"], "write", c)
      BY <1>8, <2>11 DEF QueueKept
    <3> QED
      BY <1>1, <1>2, <3>1, <3>2, <3>3, ToServerKept
  <2> QED
    BY <1>2, <1>4, <1>5, <2>10, <2>12, <2>13, <2>14, NoCrash, PartsNext
<1>12. CASE "stub" \notin sink[k]
  <2>1. stack' = stack /\ inbox' = inbox
    BY <1>12 DEF Push, calls
  <2>2. Orderly'
    BY <1>2, <1>6, <1>7, <1>8, <2>1 DEF Orderly, ends
  <2>3. ToClient(k)'
    <3>1. /\ AsSent(r, s) /\ Bounded(stack[k], inbox[k], "sink_write", k, s)
          /\ InLine(stack[k], inbox[k], "sink_write", k, r, s)
      BY <1>1, <1>9, <1>10 DEF ToClient
    <3>2. /\ AsSent(r, s + 1) /\ Bounded(stack[k], inbox[k], "sink_write", k, s + 1)
          /\ InLine(stack[k], inbox[k], "sink_write", k, r, s + 1)
      BY <1>10, <3>1, MessageUnsent
    <3> QED
      BY <1>2, <1>3, <1>9, <1>10, <1>12, <2>1, <3>2 DEF ToClient, ends
  <2>4. ASSUME NEW c \in Clients \ {k} PROVE ToClient(c)'
    <3>1. ToClient(c) /\ sent'["server"][c] = sent["server"][c] /\ sink' = sink
      BY <1>1, <1>2, <1>3 DEF ends
    <3> QED
      BY <1>2, <2>1, <3>1 DEF ToClient
  <2>5. ASSUME NEW c \in Clients PROVE ToServer(c)'
    <3>1. ToServer(c) /\ sent'["client"][c] = sent["client"][c] /\ stub' = stub
      BY <1>1, <1>2, <1>3 DEF ends
    <3> QED
      BY <1>2, <2>1, <3>1 DEF ToServer
  <2> QED
    BY <1>2, <1>4, <1>5, <2>2, <2>3, <2>4, <2>5, NoCrash, PartsNext
<1> QED
  BY <1>11, <1>12

\* The client loses its way to the session.
LEMMA StubLost ==
    ASSUME IInv, crashed = {}, NEW k \in Clients, stub' = [stub EXCEPT ![k] = FALSE],
           server' = server, client' = client, sink' = sink, session' = session,
           inbound' = inbound, outbound' = outbound, history' = history,
           Calls(stack', inbox', client, session, FreshOnes), Still(stack, stack'), inbox' = inbox
    PROVE  IInv'
<1>1. /\ ValuesOK /\ Orderly /\ \A c \in Clients : Lives(c)
      /\ \A c \in Clients : ToServer(c) /\ ToClient(c)
  BY Parts
<1>2. told' = told /\ sent' = sent /\ received' = received /\ crashed' = crashed
  BY DEF history
<1>3. stub' \in [Clients -> BOOLEAN] /\ \A c \in Clients : stub'[c] => stub[c]
  BY <1>1 DEF ValuesOK
<1>4. ValuesOK'
  BY <1>1, <1>2, <1>3 DEF ValuesOK, server
<1>5. FreshOnes' = FreshOnes
  BY <1>2 DEF FreshOnes, Fresh
<1>6. Orderly'
  BY <1>5 DEF Orderly
<1>7. ASSUME NEW c \in Clients PROVE Lives(c)'
  <2>1. Lives(c) /\ (Fresh(c)' <=> Fresh(c)) /\ (stub'[c] => stub[c])
    BY <1>1, <1>2, <1>3 DEF Fresh
  <2> QED
    BY <1>2, <2>1 DEF Lives
<1>8. \A c \in Clients : ToServer(c)' /\ ToClient(c)'
  <2>1. Quiet(inbox, inbox') /\ \A c \in Clients : "stub" \in sink'[c] => "stub" \in sink[c]
    BY NoQueueChange
  <2> QED
    BY <1>1, <1>2, <1>3, <2>1, MessagesKept
<1>9. CrashesOnlyInConnect'
  BY <1>2, NoCrash
<1> QED
  BY <1>4, <1>6, <1>7, <1>8, <1>9, PartsNext

\* The client's proxy is released.
LEMMA ReleaseKeeps ==
    ASSUME IInv, crashed = {}, NEW k \in Clients, Release(k)
    PROVE  IInv'
<1>1. /\ At("server") = "start" /\ Top("server").op = "release" /\ Goto("server", "end")
      /\ "server" \in Apartments /\ "end" \in Places
  BY DEF Release, Serves, Runs, Apartments, Places
<1>2. /\ stub' = [stub EXCEPT ![k] = FALSE] /\ server' = server /\ client' = client
      /\ sink' = sink /\ session' = session /\ inbound' = inbound /\ outbound' = outbound
      /\ history' = history
  BY DEF Release
<1>3. PICK cl, se, fr : cl = client /\ se = session /\ fr = FreshOnes
  OBVIOUS
<1>4. Calls(stack, inbox, cl, se, fr) /\ Top("server").op \in Enders
  BY <1>1, <1>3, Parts DEF Orderly, Enders
<1>5. Calls(stack', inbox', cl, se, fr) /\ Still(stack, stack') /\ inbox' = inbox
  BY <1>1, <1>4, GotoStep
<1> QED
  BY <1>2, <1>3, <1>5, StubLost

\* session::disconnect()
LEMMA DisconnectKeeps ==
    ASSUME IInv, crashed = {}, NEW k \in Clients, Disconnect(k)
    PROVE  IInv'
<1>1. /\ UserTurn("server") /\ stack' = Entered("server", "disconnect", k, 0, "end")
      /\ inbox' = inbox /\ "server" \in Apartments
  BY DEF Disconnect, Apartments
<1>2. /\ stub' = [stub EXCEPT ![k] = FALSE] /\ server' = server /\ client' = client
      /\ sink' = sink /\ session' = session /\ inbound' = inbound /\ outbound' = outbound
      /\ history' = history
  BY DEF Disconnect
<1>3. PICK cl, se, fr : cl = client /\ se = session /\ fr = FreshOnes
  OBVIOUS
<1>4. Calls(stack, inbox, cl, se, fr) /\ Graph(stack, inbox) /\ k \in Apartments
  BY <1>3, Parts DEF Orderly, Calls, Apartments
<1>5. PICK f : Makes("server", "disconnect", k, 0, "end", f)
  BY <1>4 DEF Makes, Remote, ServerOps, Places
<1>6. f.op = "disconnect" /\ f.of = k /\ f.at = "end"
  BY <1>1, <1>4, <1>5, UserFrameIs
<1>7. OnStack("server", Len(stack["server"]) + 1, f, cl, se, fr)
  BY <1>6 DEF OnStack, Enders
<1>8. Calls(stack', inbox, cl, se, fr) /\ Still(stack, stack')
  BY <1>1, <1>4, <1>5, <1>7, EnterStep
<1> QED
  BY <1>1, <1>2, <1>3, <1>8, StubLost

\* CoUninitialize() of the server disconnects a session.
LEMMA DisconnectNextKeeps ==
    ASSUME IInv, crashed = {}, NEW k \in Clients, DisconnectNext(k)
    PROVE  IInv'
<1>1. /\ At("server") = "uninit" /\ Top("server").op = "end" /\ inbox' = inbox
      /\ stack' = [stack EXCEPT !["server"] =
                    Append(@, Frame("disconnect", k, 0, "end", << "server", 1, "uninit" >>))]
      /\ "server" \in Apartments /\ k \in Apartments
  BY DEF DisconnectNext, Runs, Apartments
<1>2. /\ stub' = [stub EXCEPT ![k] = FALSE] /\ server' = server /\ client' = client
      /\ sink' = sink /\ session' = session /\ inbound' = inbound /\ outbound' = outbound
      /\ history' = history
  BY DEF DisconnectNext
<1>3. PICK st, ib, cl, se, fr :
        st = stack /\ ib = inbox /\ cl = client /\ se = session /\ fr = FreshOnes
  OBVIOUS
<1>4. Calls(stack, inbox, cl, se, fr) /\ Graph(stack, inbox) /\ stack \in Queues
  BY <1>3, Parts DEF Orderly, Calls, Graph
<1>5. /\ Len(stack["server"]) = 1 /\ stack["server"] # << >> /\ stack["server"][1] = Top("server")
      /\ Top("server").at = "uninit"
  <2>1. OnStack("server", Len(stack["server"]), Top("server"), cl, se, fr)
    BY <1>1, <1>4, TopClaims
  <2>2. /\ stack["server"] # << >> /\ Top("server") = stack["server"][Len(stack["server"])]
        /\ Top("server").at = "uninit"
    BY <1>1, <1>4, TopIs
  <2> QED
    BY <1>1, <2>1, <2>2 DEF OnStack
<1>6. PICK ret : ret = << "server", 1, "uninit" >>
  OBVIOUS
<1>7. ret \in Returns /\ ret[1] = "server" /\ ret[2] = 1 /\ ret[3] = "uninit"
  BY <1>1, <1>6 DEF Returns
<1>8. PICK f : f = Frame("disconnect", k, 0, "end", ret)
  OBVIOUS
<1>9. f \in Call /\ f.op = "disconnect" /\ f.of = k /\ f.at = "end" /\ f.ret = ret
  <2>1. /\ "disconnect" \in ClientOps \cup ServerOps /\ "end" \in Places /\ 0 \in Nat
        /\ ret \in {<< >>} \cup Returns
    BY <1>7 DEF ServerOps, Places
  <2>2. PICK op \in ClientOps \cup ServerOps, at \in Places, m \in Nat, x \in Apartments,
             r \in {<< >>} \cup Returns :
             op = "disconnect" /\ at = "end" /\ m = 0 /\ x = k /\ r = ret
    BY <1>1, <2>1
  <2>3. f = Frame(op, x, m, at, r)
    BY <1>8, <2>2
  <2>4. f \in Call /\ f.op = op /\ f.of = x /\ f.at = at /\ f.ret = r
    BY <2>3, FrameIs, SMTT(30)
  <2> QED
    BY <2>2, <2>4
<1>10. PICK st2 : st2 = stack' /\ Grown(st, st2, "server", f)
  <2>1. stack' = [stack EXCEPT !["server"] = Append(@, f)]
    BY <1>1, <1>6, <1>8
  <2> QED
    BY <1>1, <1>3, <1>4, <1>9, <2>1, GrownIs
<1>11. Calls(st2, ib, cl, se, fr) /\ Still(st, st2)
  <2>1. f.op \notin Remote /\ f.op # "destroy"
    BY <1>9 DEF Remote
  <2>2. InPlace("server", f) /\ OnStack("server", Len(st["server"]) + 1, f, cl, se, fr)
    BY <1>7, <1>9 DEF InPlace, OnStack, Enders, ServerOps, Remote
  <2>3. f.ret[1] = "server" /\ f.ret[2] = Len(st["server"]) /\ Len(st["server"]) >= 1
    BY <1>3, <1>5, <1>7, <1>9
  <2>4. st["server"] # << >> => st["server"][Len(st["server"])].at # "start"
    BY <1>3, <1>5
  <2>5. Unawaiting(st, ib, f.ret[1], f.ret[2])
    <3>1. PICK n \in 1..Len(st["server"]) : n = Len(st["server"]) /\ n = 1
      BY <1>3, <1>5
    <3>2. st["server"][n].at # "wait" /\ Graph(st, ib)
      BY <1>3, <1>4, <1>5, <3>1
    <3>3. Unawaiting(st, ib, "server", n)
      BY <1>1, <3>1, <3>2, TopIsFree
    <3> QED
      BY <2>3, <3>1, <3>3
  <2>6. Calls(st, ib, cl, se, fr) /\ f.at # "start"
    BY <1>3, <1>4, <1>9
  <2> QED
    BY <1>1, <1>9, <1>10, <2>1, <2>2, <2>3, <2>4, <2>5, <2>6, CallsGrow
<1>12. Calls(stack', inbox', client, session, FreshOnes) /\ Still(stack, stack')
  BY <1>1, <1>3, <1>10, <1>11
<1> QED
  BY <1>1, <1>2, <1>12, StubLost

\* The constructor of client k waits for a call: there is no other call of it.
LEMMA Sole ==
    ASSUME NEW st, NEW ib, NEW cl, NEW se, NEW fr, Calls(st, ib, cl, se, fr), NEW k \in Clients,
           NEW a \in Apartments, NEW i \in 1..Len(st[a]), st[a][i].of = k,
           st[a][i].op \in {"create", "advise"}
    PROVE  /\ cl[k] = "connecting"
           /\ \A b \in Apartments : \A j \in 1..Len(st[b]) : b # a \/ j # i =>
                ~Carries(st[b][j], "create", k) /\ ~Carries(st[b][j], "advise", k)
           /\ \A b \in Apartments : \A j \in 1..Len(ib[b]) :
                ~Carries(ib[b][j], "create", k) /\ ~Carries(ib[b][j], "advise", k)
           /\ \A b \in Apartments : \A j \in 1..Len(st[b]) :
                Carries(st[b][j], "connect", k) => st[b][j].at # "query"
<1>1. /\ \A b \in Apartments : \A j \in 1..Len(st[b]) : Stacked(st, b, j)
      /\ \A b \in Apartments : \A j \in 1..Len(ib[b]) : Queued(st, ib, b, j)
      /\ OneAnswer(st, ib) /\ Claims(st, ib, cl, se, fr)
  BY DEF Calls, Graph
<1>2. PICK f : f = st[a][i]
  OBVIOUS
<1>3. Awaited(st, f) /\ f.of = k /\ f.op \in {"create", "advise"}
  BY <1>1, <1>2 DEF Stacked, Remote
<1>4. /\ f.ret # << >> /\ f.ret[1] = k /\ f.ret[2] = 1 /\ st[k][1].op = "connect"
      /\ st[k][1].at = "wait" /\ cl[k] = "connecting"
  BY <1>3, OneConnect
<1>5. ASSUME NEW g, Awaited(st, g), Carries(g, "create", k) \/ Carries(g, "advise", k)
      PROVE  ~Apart(f, g)
  <2>1. g.of = k /\ g.op \in {"create", "advise"}
    BY <1>5 DEF Carries
  <2>2. g.ret # << >> /\ g.ret[1] = k /\ g.ret[2] = 1
    BY <1>5, <2>1, OneConnect
  <2> QED
    BY <1>4, <2>2 DEF Apart
<1>6. ASSUME NEW b \in Apartments, NEW j \in 1..Len(st[b]), b # a \/ j # i
      PROVE  ~Carries(st[b][j], "create", k) /\ ~Carries(st[b][j], "advise", k)
  <2>1. Apart(f, st[b][j])
    BY <1>1, <1>2, <1>6 DEF OneAnswer
  <2>2. Carries(st[b][j], "create", k) \/ Carries(st[b][j], "advise", k) => Awaited(st, st[b][j])
    BY <1>1 DEF Stacked, Carries, Remote
  <2> QED
    BY <1>5, <2>1, <2>2
<1>7. ASSUME NEW b \in Apartments, NEW j \in 1..Len(ib[b])
      PROVE  ~Carries(ib[b][j], "create", k) /\ ~Carries(ib[b][j], "advise", k)
  <2>1. Apart(f, ib[b][j])
    BY <1>1, <1>2 DEF OneAnswer
  <2>2. Awaited(st, ib[b][j])
    BY <1>1 DEF Queued
  <2> QED
    BY <1>5, <2>1, <2>2
<1>8. ASSUME NEW b \in Apartments, NEW j \in 1..Len(st[b]), Carries(st[b][j], "connect", k)
      PROVE  st[b][j].at # "query"
  <2>1. InPlace(b, st[b][j]) /\ OnStack(b, j, st[b][j], cl, se, fr)
    BY <1>1 DEF Stacked, Claims
  <2>2. b = k /\ j = 1
    BY <1>8, <2>1 DEF InPlace, ServerOps, OnStack, Carries
  <2> QED
    BY <1>4, <2>2
<1> QED
  BY <1>4, <1>6, <1>7, <1>8

\* create_session() throws.
LEMMA CreateThrowsKeeps ==
    ASSUME IInv, crashed = {}, NEW k \in Clients, CreateThrows(k)
    PROVE  IInv'
<1>1. /\ ValuesOK /\ Orderly /\ \A c \in Clients : Lives(c)
      /\ \A c \in Clients : ToServer(c) /\ ToClient(c)
  BY Parts
<1>2. /\ At("server") = "start" /\ Top("server").op = "create" /\ Top("server").of = k
      /\ "server" \in Apartments
  BY DEF CreateThrows, Serves, Runs, Apartments
<1>3. /\ stack' = stack /\ inbox' = inbox /\ server' = server /\ ends' = ends /\ told' = told
      /\ sent' = sent /\ received' = received /\ crashed' = crashed \cup {"server"}
  BY DEF CreateThrows, calls
<1>4. PICK st, ib, cl, se, fr :
        st = stack /\ ib = inbox /\ cl = client /\ se = session /\ fr = FreshOnes
  OBVIOUS
<1>5. Calls(st, ib, cl, se, fr)
  BY <1>1, <1>4 DEF Orderly
<1>6. client[k] = "connecting" /\ ~stub[k]
  <2>1. /\ Len(stack["server"]) \in 1..Len(stack["server"])
        /\ Top("server") = stack["server"][Len(stack["server"])]
    BY <1>2, <1>4, <1>5, TopIs DEF Calls
  <2>2. PICK n \in 1..Len(st["server"]) : st["server"][n] = Top("server")
    BY <1>4, <2>1
  <2>3. st["server"][n].of = k /\ st["server"][n].op = "create"
    BY <1>2, <2>2
  <2>4. cl[k] = "connecting"
    BY <1>2, <1>5, <2>3, Sole
  <2>5. se[k] = "none"
    <3>1. Calls(stack, inbox, cl, se, fr)
      BY <1>4, <1>5
    <3> QED
      BY <1>2, <3>1, CreateReturns
  <2> QED
    BY <1>1, <1>4, <2>4, <2>5 DEF Lives
<1>7. FreshOnes' = FreshOnes /\ \A c \in Clients : Lives(c)'
  BY <1>1, <1>3, Ends
<1>8. ValuesOK'
  BY <1>1, <1>2, <1>3 DEF ValuesOK, server, ends
<1>9. Orderly'
  BY <1>1, <1>3, <1>7 DEF Orderly, ends
<1>10. \A c \in Clients : ToServer(c)' /\ ToClient(c)'
  BY <1>1, <1>3 DEF ToServer, ToClient, ends
<1>11. CrashesOnlyInConnect'
  BY <1>3, <1>6 DEF CrashesOnlyInConnect, ends
<1> QED
  BY <1>7, <1>8, <1>9, <1>10, <1>11, PartsNext

\* FinalRelease()
LEMMA FinalReleaseKeeps ==
    ASSUME IInv, crashed = {}, NEW k \in Clients, FinalRelease(k)
    PROVE  IInv'
<1>1. /\ ValuesOK /\ Orderly /\ \A c \in Clients : Lives(c)
      /\ \A c \in Clients : ToServer(c) /\ ToClient(c)
  BY Parts
<1>2. /\ At("server") = "end" /\ Top("server").of = k /\ session[k] = "open" /\ ~stub[k]
      /\ session' = [session EXCEPT ![k] = "gone"] /\ Tell("server", k) /\ Goto("server", "drop")
      /\ "server" \in Apartments /\ "server" \in Sides
  BY DEF FinalRelease, AtEnd, LastReference, TellServer, Apartments, Sides
<1>3. /\ server' = server /\ client' = client /\ sink' = sink /\ inbound' = inbound /\ stub' = stub
      /\ outbound' = outbound /\ sent' = sent /\ received' = received /\ crashed' = crashed
  <2>1. inbound[k]
    BY <1>1, <1>2 DEF Lives
  <2> QED
    BY <2>1 DEF FinalRelease
<1>4. /\ told' \in [Sides -> [Clients -> Nat]] /\ told'["server"][k] = told["server"][k] + 1
      /\ \A t \in Sides, c \in Clients : t # "server" \/ c # k => told'[t][c] = told[t][c]
  BY <1>1, <1>2, Tells
<1>5. /\ session' \in [Clients -> {"none", "open", "gone"}] /\ session'[k] = "gone"
      /\ \A c \in Clients \ {k} : session'[c] = session[c]
  BY <1>1, <1>2 DEF ValuesOK
<1>6. ValuesOK'
  BY <1>1, <1>3, <1>4, <1>5 DEF ValuesOK, server
<1>7. FreshOnes' = FreshOnes
  BY <1>3 DEF FreshOnes, Fresh
<1>8. ASSUME NEW c \in Clients PROVE Lives(c)'
  <2>1. Lives(c) /\ (Fresh(c)' <=> Fresh(c)) /\ told'["client"][c] = told["client"][c]
    BY <1>1, <1>3, <1>4 DEF Fresh, Sides
  <2>2. CASE c # k
    <3>1. told'["server"][c] = told["server"][c] /\ session'[c] = session[c]
      BY <1>2, <1>4, <1>5, <2>2
    <3> QED
      BY <1>3, <2>1, <3>1 DEF Lives
  <2>3. CASE c = k
    <3>1. told'["server"][c] = 1 /\ session'[c] = "gone" /\ client[c] # "none"
      BY <1>2, <1>4, <1>5, <2>1, <2>3 DEF Lives
    <3> QED
      BY <1>2, <1>3, <2>1, <2>3, <3>1 DEF Lives
  <2> QED
    BY <2>2, <2>3
<1>9. PICK st, ib, cl, se, fr, se2 : /\ st = stack /\ ib = inbox /\ cl = client /\ se = session
                                     /\ fr = FreshOnes /\ se2 = session'
  OBVIOUS
<1>10. Calls(st, ib, cl, se, fr) /\ Graph(st, ib) /\ Claims(st, ib, cl, se, fr)
  BY <1>1, <1>9 DEF Orderly, Calls
<1>11. Calls(st, ib, cl, se2, fr)
  <2>1. se[k] = "open" /\ se2[k] = "gone" /\ \A c \in Clients \ {k} : se2[c] = se[c]
    BY <1>2, <1>5, <1>9
  <2>2. /\ \A a \in Apartments : \A i \in 1..Len(st[a]) : ~Carries(st[a][i], "create", k)
        /\ \A a \in Apartments : \A i \in 1..Len(ib[a]) : ~Carries(ib[a][i], "create", k)
    BY <1>10, <2>1 DEF Claims, OnStack, InQueue, Carries
  <2>3. Claims(st, ib, cl, se2, fr)
    BY <1>10, <2>1, <2>2, ClaimsSession
  <2> QED
    BY <1>10, <2>3 DEF Calls
<1>12. Top("server").op \in Enders
  <2>1. OnStack("server", Len(stack["server"]), Top("server"), cl, se, fr)
    BY <1>2, <1>9, <1>10, TopClaims
  <2>2. Top("server").at = "end"
    BY <1>2, <1>9, <1>10, TopIs
  <2> QED
    BY <2>1, <2>2 DEF OnStack
<1>13. Calls(stack', inbox', cl, se2, fr) /\ inbox' = inbox /\ Still(stack, stack')
  <2>1. Calls(stack, inbox, cl, se2, fr) /\ se2[Top("server").of] = "gone" /\ "drop" \in Places
    BY <1>2, <1>5, <1>9, <1>11 DEF Places
  <2> QED
    BY <1>2, <1>12, <2>1, GotoStep
<1>14. Orderly'
  BY <1>3, <1>7, <1>9, <1>13 DEF Orderly
<1>15. \A c \in Clients : ToServer(c)' /\ ToClient(c)'
  <2>1. /\ Quiet(inbox, inbox') /\ \A c \in Clients : stub'[c] => stub[c]
        /\ \A c \in Clients : "stub" \in sink'[c] => "stub" \in sink[c]
    BY <1>3, <1>13, NoQueueChange
  <2> QED
    BY <1>1, <1>3, <1>13, <2>1, MessagesKept
<1>16. CrashesOnlyInConnect'
  BY <1>3, NoCrash
<1> QED
  BY <1>6, <1>8, <1>14, <1>15, <1>16, PartsNext

\* The destructor of the session.
LEMMA DeleteSessionKeeps ==
    ASSUME IInv, crashed = {}, NEW k \in Clients, DeleteSession(k)
    PROVE  IInv'
<1>1. /\ ValuesOK /\ Orderly /\ \A c \in Clients : Lives(c)
      /\ \A c \in Clients : ToServer(c) /\ ToClient(c)
  BY Parts
<1>2. /\ At("server") = "drop" /\ Top("server").of = k /\ "server" \in Apartments
      /\ k \in Apartments /\ k # "server"
  BY ComAssumption DEF DeleteSession, Apartments
<1>3. /\ inbound' = [inbound EXCEPT ![k] = FALSE] /\ outbound' = [outbound EXCEPT ![k] = FALSE]
      /\ server' = server /\ client' = client /\ sink' = sink /\ session' = session /\ stub' = stub
      /\ told' = told /\ sent' = sent /\ received' = received /\ crashed' = crashed
  BY DEF DeleteSession, history
<1>4. PICK cl, se, fr, fr2 : cl = client /\ se = session /\ fr = FreshOnes /\ fr2 = FreshOnes'
  OBVIOUS
<1>5. Calls(stack, inbox, cl, se, fr) /\ Graph(stack, inbox) /\ inbox \in Queues
  BY <1>1, <1>4 DEF Orderly, Calls, Graph
<1>6. Top("server").op \in Enders /\ se[k] = "gone"
  <2>1. OnStack("server", Len(stack["server"]), Top("server"), cl, se, fr)
    BY <1>2, <1>5, TopClaims
  <2>2. Top("server").at = "drop"
    BY <1>2, <1>5, TopIs
  <2> QED
    BY <1>2, <2>1, <2>2 DEF OnStack
<1>7. /\ inbound' \in [Clients -> BOOLEAN] /\ outbound' \in [Clients -> BOOLEAN]
      /\ \A c \in Clients \ {k} : inbound'[c] = inbound[c] /\ outbound'[c] = outbound[c]
      /\ ~outbound'[k]
  BY <1>1, <1>3 DEF ValuesOK
<1>8. ValuesOK'
  BY <1>1, <1>3, <1>7 DEF ValuesOK, server
<1>9. ASSUME NEW c \in Clients PROVE Lives(c)' /\ (Fresh(c) => Fresh(c)')
  <2>1. Fresh(c) => Fresh(c)'
    BY <1>3, <1>7 DEF Fresh
  <2>2. Lives(c) /\ (c = k => session[c] # "open") /\ (c # k => inbound'[c] = inbound[c])
    BY <1>1, <1>4, <1>6, <1>7
  <2> QED
    BY <1>3, <2>1, <2>2 DEF Lives
<1>10. fr \subseteq fr2
  BY <1>4, <1>9 DEF FreshOnes
<1>11. Calls(stack', inbox', cl, se, fr) /\ Still(stack, stack') /\ Quiet(inbox, inbox')
  <2>1. CASE outbound[k] /\ "stub" \in sink[k]
    <3>1. CallOut("server", k, "sink_release", "leave")
      BY <2>1 DEF DeleteSession, ReleaseSink
    <3>2. PICK f : f = Frame("sink_release", Top("server").of, Top("server").m, "start",
                             << "server", Len(stack["server"]), "leave" >>)
      OBVIOUS
    <3>3. f.op = "sink_release" /\ f.of = k /\ f.ret[3] = "leave"
      BY <1>2, <3>2 DEF Frame
    <3>4. Answers(f, Top("server")) /\ InQueue(f, se, fr)
      BY <1>6, <3>3 DEF Answers, InQueue, Enders
    <3>5. Calling("server", k, "sink_release", "leave", f)
      BY <1>2, <3>2 DEF Remote, ClientOps, IntoClient, Calling
    <3>6. /\ Calls(stack', inbox', cl, se, fr) /\ Still(stack, stack') /\ f \in Call
          /\ inbox' = Longer(inbox, k, f)
      BY <1>2, <1>5, <3>1, <3>4, <3>5, CallOutStep
    <3>7. Quiet(inbox, inbox')
      <4>1. f.op \notin {"write", "sink_write"}
        BY <3>3
      <4> QED
        BY <1>2, <1>5, <3>6, <4>1, QuietLonger
    <3> QED
      BY <3>6, <3>7
  <2>2. CASE ~(outbound[k] /\ "stub" \in sink[k])
    <3>1. Goto("server", "leave") /\ "leave" \in Places
      BY <2>2 DEF DeleteSession, Places
    <3>2. Calls(stack', inbox', cl, se, fr) /\ Still(stack, stack') /\ inbox' = inbox
      BY <1>2, <1>5, <3>1, GotoStep
    <3> QED
      BY <3>2, NoQueueChange
  <2> QED
    BY <2>1, <2>2
<1>12. Orderly'
  <2>1. PICK st, ib : st = stack' /\ ib = inbox'
    OBVIOUS
  <2>2. Graph(st, ib) /\ Claims(st, ib, cl, se, fr)
    BY <1>11, <2>1 DEF Calls
  <2>3. Claims(st, ib, cl, se, fr2)
    BY <1>10, <2>2, ClaimsFresh
  <2> QED
    BY <1>3, <1>4, <2>1, <2>2, <2>3 DEF Orderly, Calls
<1>13. \A c \in Clients : ToServer(c)' /\ ToClient(c)'
  <2>1. /\ \A c \in Clients : stub'[c] => stub[c]
        /\ \A c \in Clients : "stub" \in sink'[c] => "stub" \in sink[c]
    BY <1>3
  <2> QED
    BY <1>1, <1>3, <1>11, <2>1, MessagesKept
<1>14. CrashesOnlyInConnect'
  BY <1>3, NoCrash
<1> QED
  BY <1>8, <1>9, <1>12, <1>13, <1>14, PartsNext

\* server::CreateInstance()
LEMMA CreateInstanceKeeps ==
    ASSUME IInv, crashed = {}, NEW k \in Clients, CreateInstance(k)
    PROVE  IInv'
<1>1. /\ ValuesOK /\ Orderly /\ \A c \in Clients : Lives(c)
      /\ \A c \in Clients : ToServer(c) /\ ToClient(c)
  BY Parts
<1>2. /\ At("server") = "start" /\ Top("server").op = "create" /\ Top("server").of = k
      /\ "server" \in Apartments
  BY DEF CreateInstance, Serves, Runs, Apartments
<1>3. /\ server' = server /\ client' = client /\ sink' = sink /\ outbound' = outbound
      /\ told' = told /\ sent' = sent /\ received' = received /\ crashed' = crashed
  BY DEF CreateInstance, history
<1>4. PICK st, ib, cl, se, fr :
        st = stack /\ ib = inbox /\ cl = client /\ se = session /\ fr = FreshOnes
  OBVIOUS
<1>5. /\ Calls(st, ib, cl, se, fr) /\ Calls(stack, inbox, cl, se, fr) /\ Graph(stack, inbox)
      /\ st \in Queues
  BY <1>1, <1>4 DEF Orderly, Calls, Graph
<1>6. /\ stack["server"] # << >> /\ Len(stack["server"]) \in 1..Len(stack["server"])
      /\ Top("server") = stack["server"][Len(stack["server"])] /\ Top("server").at = "start"
  BY <1>2, <1>5, TopIs
<1>7. PICK n \in 1..Len(st["server"]) : n = Len(st["server"]) /\ st["server"][n] = Top("server")
  BY <1>4, <1>6
<1>8. /\ cl[k] = "connecting"
      /\ \A b \in Apartments : \A j \in 1..Len(st[b]) : b # "server" \/ j # n =>
            ~Carries(st[b][j], "create", k)
      /\ \A b \in Apartments : \A j \in 1..Len(ib[b]) : ~Carries(ib[b][j], "create", k)
  <2>1. st["server"][n].of = k /\ st["server"][n].op = "create"
    BY <1>2, <1>7
  <2> QED
    BY <1>2, <1>5, <2>1, Sole
<1>9. k \in fr /\ se[k] = "none" /\ Top("server").ret # << >> /\ Top("server").ret[1] = k
  BY <1>2, <1>5, CreateReturns
<1>10. Claims(Rest(st, "server"), ib, cl, se, fr) /\ Shrunk(st, Rest(st, "server"), "server")
  <2>1. st["server"] # << >> /\ st["server"][Len(st["server"])].at # "wait"
    BY <1>4, <1>6
  <2> QED
    BY <1>2, <1>5, <2>1, RestKeeps
<1>11. CASE registered
  <2>1. /\ session' = [session EXCEPT ![k] = "open"] /\ inbound' = [inbound EXCEPT ![k] = TRUE]
        /\ stub' = [stub EXCEPT ![k] = TRUE] /\ Return("server")
    BY <1>11 DEF CreateInstance
  <2>2. /\ session' \in [Clients -> {"none", "open", "gone"}] /\ session'[k] = "open"
        /\ inbound' \in [Clients -> BOOLEAN] /\ inbound'[k]
        /\ stub' \in [Clients -> BOOLEAN]
        /\ \A c \in Clients \ {k} :
            session'[c] = session[c] /\ inbound'[c] = inbound[c] /\ stub'[c] = stub[c]
    BY <1>1, <2>1 DEF ValuesOK
  <2>3. ValuesOK'
    BY <1>1, <1>3, <2>2 DEF ValuesOK, server
  <2>4. FreshOnes' = FreshOnes
    BY <1>3 DEF FreshOnes, Fresh
  <2>5. ASSUME NEW c \in Clients PROVE Lives(c)'
    <3>1. Lives(c) /\ (Fresh(c)' <=> Fresh(c))
      BY <1>1, <1>3 DEF Fresh
    <3>2. CASE c # k
      <4>1. session'[c] = session[c] /\ inbound'[c] = inbound[c] /\ stub'[c] = stub[c]
        BY <2>2, <3>2
      <4> QED
        BY <1>3, <3>1, <4>1 DEF Lives
    <3>3. CASE c = k
      <4>1. client[c] = "connecting" /\ session[c] = "none"
        BY <1>4, <1>8, <1>9, <3>3
      <4> QED
        BY <1>3, <2>2, <3>1, <3>3, <4>1 DEF Lives
    <3> QED
      BY <3>2, <3>3
  <2>6. PICK se2 : se2 = session' /\ \A c \in Clients \ {k} : se2[c] = se[c]
    BY <1>4, <2>2
  <2>7. Claims(Rest(st, "server"), ib, cl, se2, fr)
    <3>1. PICK st1 : st1 = Rest(st, "server")
      OBVIOUS
    <3>2. Shrunk(st, st1, "server") /\ Claims(st1, ib, cl, se, fr)
      BY <1>10, <3>1
    <3>3. ASSUME NEW a \in Apartments, NEW i \in 1..Len(st1[a])
          PROVE  ~Carries(st1[a][i], "create", k)
      <4>1. i \in 1..Len(st[a]) /\ st1[a][i] = st[a][i]
        BY <3>2 DEF Shrunk
      <4>2. a = "server" => i # n
        <5>1. Len(st1["server"]) = n - 1 /\ n \in Nat
          BY <1>2, <1>5, <1>7, <3>2, Lengths DEF Shrunk
        <5> QED
          BY <5>1
      <4> QED
        BY <1>8, <4>1, <4>2
    <3>4. Claims(st1, ib, cl, se2, fr)
      BY <1>8, <1>9, <2>6, <3>2, <3>3, ClaimsSession
    <3> QED
      BY <3>1, <3>4
  <2>8. Calls(stack', inbox', cl, se2, fr) /\ Still(stack, stack') /\ inbox' = inbox
    <3>1. Claims(Rest(stack, "server"), inbox, cl, se2, fr) /\ Top("server").ret[1] \in fr
      BY <1>4, <1>9, <2>7
    <3> QED
      BY <1>2, <1>5, <2>1, <3>1, PlainReturn
  <2>9. Orderly'
    BY <1>3, <1>4, <2>4, <2>6, <2>8 DEF Orderly
  <2>10. QueueKept(inbox["server"], inbox'["server"], "write", k)
    BY <2>8 DEF QueueKept
  <2>11. ToServer(k)'
    <3>1. PICK p, p2, q, r, s : /\ p = stack["server"] /\ p2 = stack'["server"]
                                /\ q = inbox["server"] /\ r = received["server"][k]
                                /\ s = sent["client"][k] /\ Len(r) \in Nat
      BY <1>1, Counts DEF Sides
    <3>2. AsSent(r, s) /\ Bounded(p, q, "write", k, s) /\ s = 0
      <4>1. Lives(k) /\ client[k] = "connecting" /\ ToServer(k)
        BY <1>1, <1>4, <1>8
      <4> QED
        BY <3>1, <4>1 DEF Lives, ToServer
    <3>3. SameStart(p, p2, "write", k)
      BY <1>2, <2>8, <3>1, StillStarts
    <3>4. Bounded(p2, q, "write", k, s)
      BY <3>2, <3>3, StartKept
    <3>5. InLine(p2, q, "write", k, r, s) /\ NoneLost(p2, q, "write", k, r, s)
      BY <3>1, <3>2, <3>4, NothingSent
    <3> QED
      BY <1>3, <2>8, <3>1, <3>2, <3>4, <3>5 DEF ToServer
  <2>12. ASSUME NEW c \in Clients \ {k} PROVE ToServer(c)'
    <3>1. ToServer(c) /\ stub'[c] = stub[c]
      BY <1>1, <2>2
    <3>2. SameStart(stack["server"], stack'["server"], "write", c)
      BY <1>2, <2>8, StillStarts
    <3>3. QueueKept(inbox["server"], inbox'["server"], "write", c)
      BY <2>8 DEF QueueKept
    <3> QED
      BY <1>1, <1>3, <3>1, <3>2, <3>3, ToServerKept
  <2>13. ASSUME NEW c \in Clients PROVE ToClient(c)'
    <3>1. ToClient(c) /\ c \in Apartments
      BY <1>1 DEF Apartments
    <3>2. SameStart(stack[c], stack'[c], "sink_write", c)
      BY <2>8, <3>1, StillStarts
    <3>3. QueueKept(inbox[c], inbox'[c], "sink_write", c)
      BY <2>8 DEF QueueKept
    <3> QED
      BY <1>1, <1>3, <3>1, <3>2, <3>3, ToClientKept
  <2>14. CrashesOnlyInConnect'
    BY <1>3, NoCrash
  <2> QED
    BY <2>3, <2>5, <2>9, <2>11, <2>12, <2>13, <2>14, PartsNext
<1>12. CASE ~registered
  <2>1. stack' = Popped("server", "refused") /\ inbox' = inbox /\ ends' = ends /\ history' = history
    BY <1>3, <1>12 DEF CreateInstance, ends, history
  <2>2. Calls(stack', inbox, cl, se, fr) /\ Still(stack, stack')
    <3>1. /\ Claims(Rest(stack, "server"), inbox, cl, se, fr)
          /\ "refused" \in Places \ {"start", "end", "drop"}
      BY <1>4, <1>10 DEF Places
    <3> QED
      BY <1>2, <1>5, <2>1, <3>1, ReturnStep
  <2>3. registered' \in BOOLEAN /\ serving' \in BOOLEAN
    BY <1>1, <1>3 DEF ValuesOK, server
  <2>4. Calls(stack', inbox', client, session, FreshOnes) /\ Quiet(inbox, inbox')
    BY <1>4, <2>1, <2>2, NoQueueChange
  <2> QED
    BY <2>1, <2>2, <2>3, <2>4, CallsOnly
<1> QED
  BY <1>11, <1>12

\* session::Advise()
LEMMA AdviseKeeps ==
    ASSUME IInv, crashed = {}, NEW k \in Clients, Advise(k)
    PROVE  IInv'
<1>1. /\ ValuesOK /\ Orderly /\ \A c \in Clients : Lives(c)
      /\ \A c \in Clients : ToServer(c) /\ ToClient(c)
  BY Parts
<1>2. /\ At("server") = "start" /\ Top("server").op = "advise" /\ Top("server").of = k
      /\ Goto("server", "end") /\ "server" \in Apartments
  BY DEF Advise, Serves, Runs, Apartments
<1>3. /\ outbound' = [outbound EXCEPT ![k] = stub[k]]
      /\ sink' = [sink EXCEPT ![k] = IF stub[k] THEN sink[k] \cup {"stub"} ELSE sink[k]]
      /\ server' = server /\ client' = client /\ session' = session /\ inbound' = inbound
      /\ stub' = stub /\ told' = told /\ sent' = sent /\ received' = received /\ crashed' = crashed
  BY DEF Advise, history
<1>4. PICK cl, se, fr, fr2 : cl = client /\ se = session /\ fr = FreshOnes /\ fr2 = FreshOnes'
  OBVIOUS
<1>5. Calls(stack, inbox, cl, se, fr) /\ Graph(stack, inbox)
  BY <1>1, <1>4 DEF Orderly, Calls
<1>6. /\ Len(stack["server"]) \in 1..Len(stack["server"])
      /\ Top("server") = stack["server"][Len(stack["server"])] /\ Top("server").at = "start"
  BY <1>2, <1>5, TopIs
<1>7. k \in fr
  <2>1. OnStack("server", Len(stack["server"]), Top("server"), cl, se, fr)
    BY <1>2, <1>5, TopClaims
  <2> QED
    BY <1>2, <1>6, <2>1 DEF OnStack
<1>8. /\ Calls(stack', inbox', cl, se, fr) /\ inbox' = inbox /\ Still(stack, stack')
      /\ Moved(stack, stack', "server", Len(stack["server"]), "end")
  <2>1. Top("server").op \in Enders /\ "end" \in Places
    BY <1>2 DEF Enders, Places
  <2> QED
    BY <1>2, <1>5, <2>1, GotoStep
<1>9. PICK st2, ib : st2 = stack' /\ ib = inbox' /\ Calls(st2, ib, cl, se, fr)
  BY <1>8
<1>10. PICK n \in 1..Len(st2["server"]) :
         st2["server"][n].of = k /\ st2["server"][n].op = "advise" /\ st2["server"][n].at = "end"
  BY <1>2, <1>6, <1>8, <1>9 DEF Moved
<1>11. /\ cl[k] = "connecting"
       /\ \A b \in Apartments : \A j \in 1..Len(st2[b]) : b # "server" \/ j # n =>
            ~Carries(st2[b][j], "create", k) /\ ~Carries(st2[b][j], "advise", k)
       /\ \A b \in Apartments : \A j \in 1..Len(ib[b]) :
            ~Carries(ib[b][j], "create", k) /\ ~Carries(ib[b][j], "advise", k)
       /\ \A b \in Apartments : \A j \in 1..Len(st2[b]) :
            Carries(st2[b][j], "connect", k) => st2[b][j].at # "query"
  BY <1>2, <1>9, <1>10, Sole
<1>12. /\ outbound' \in [Clients -> BOOLEAN] /\ sink' \in [Clients -> SUBSET {"ctor", "stub"}]
       /\ \A c \in Clients \ {k} : outbound'[c] = outbound[c] /\ sink'[c] = sink[c]
       /\ sink'[k] = IF stub[k] THEN sink[k] \cup {"stub"} ELSE sink[k]
  <2>1. stub[k] \in BOOLEAN
    BY <1>1 DEF ValuesOK
  <2>2. /\ outbound \in [Clients -> BOOLEAN] /\ sink \in [Clients -> SUBSET {"ctor", "stub"}]
    BY <1>1 DEF ValuesOK
  <2>3. (IF stub[k] THEN sink[k] \cup {"stub"} ELSE sink[k]) \in SUBSET {"ctor", "stub"}
    BY <2>2
  <2>4. outbound' \in [Clients -> BOOLEAN] /\ \A c \in Clients \ {k} : outbound'[c] = outbound[c]
    BY <1>3, <2>1, <2>2
  <2> QED
    BY <1>3, <2>2, <2>3, <2>4
<1>13. ValuesOK'
  BY <1>1, <1>3, <1>12 DEF ValuesOK, server
<1>14. Fresh(k) /\ client[k] = "connecting" /\ sent["server"][k] = 0
  BY <1>4, <1>7, <1>11 DEF FreshOnes, Fresh
<1>15. ASSUME NEW c \in Clients PROVE Lives(c)' /\ (c # k /\ Fresh(c) => Fresh(c)')
  <2>1. CASE c # k
    <3>1. Lives(c) /\ outbound'[c] = outbound[c] /\ sink'[c] = sink[c]
      BY <1>1, <1>12, <2>1
    <3>2. Fresh(c)' <=> Fresh(c)
      BY <1>3, <3>1 DEF Fresh
    <3> QED
      BY <1>3, <3>1, <3>2 DEF Lives
  <2>2. CASE c = k
    <3>1. Lives(c) /\ client[c] = "connecting" /\ ("ctor" \in sink'[c] <=> "ctor" \in sink[c])
      BY <1>1, <1>12, <1>14, <2>2
    <3>2. "ctor" \in sink[c] /\ told["client"][c] # 1 /\ told["client"][c] <= 1
      BY <3>1 DEF Lives
    <3> QED
      BY <1>3, <2>2, <3>1, <3>2 DEF Lives
  <2> QED
    BY <2>1, <2>2
<1>16. fr \ {k} \subseteq fr2
  BY <1>4, <1>15 DEF FreshOnes
<1>17. Orderly'
  <2>1. Graph(st2, ib) /\ Claims(st2, ib, cl, se, fr)
    BY <1>9 DEF Calls
  <2>2. ASSUME NEW a \in Apartments, NEW i \in 1..Len(st2[a])
        PROVE  /\ ~Carries(st2[a][i], "create", k)
               /\ Carries(st2[a][i], "advise", k) => st2[a][i].at # "start"
               /\ Carries(st2[a][i], "connect", k) => st2[a][i].at # "query"
    BY <1>10, <1>11 DEF Carries
  <2>3. Claims(st2, ib, cl, se, fr2)
    BY <1>11, <1>16, <2>1, <2>2, ClaimsAdvised
  <2> QED
    BY <1>3, <1>4, <1>9, <2>1, <2>3 DEF Orderly, Calls
<1>18. ASSUME NEW c \in Clients PROVE ToServer(c)'
  <2>1. ToServer(c) /\ QueueKept(inbox["server"], inbox'["server"], "write", c)
    BY <1>1, <1>8 DEF QueueKept
  <2>2. SameStart(stack["server"], stack'["server"], "write", c)
    BY <1>2, <1>8, StillStarts
  <2> QED
    BY <1>1, <1>3, <2>1, <2>2, ToServerKept
<1>19. ASSUME NEW c \in Clients PROVE ToClient(c)'
  <2>1. ToClient(c) /\ QueueKept(inbox[c], inbox'[c], "sink_write", c) /\ c \in Apartments
    BY <1>1, <1>8 DEF QueueKept, Apartments
  <2>2. SameStart(stack[c], stack'[c], "sink_write", c)
    BY <1>8, <2>1, StillStarts
  <2>3. CASE c # k
    <3>1. sink'[c] = sink[c]
      BY <1>12, <2>3
    <3> QED
      BY <1>1, <1>3, <2>1, <2>2, <3>1, ToClientKept
  <2>4. CASE c = k
    <3>1. PICK p, p2, q, r, s : /\ p = stack[k] /\ p2 = stack'[k] /\ q = inbox[k]
                                /\ r = received["client"][k] /\ s = sent["server"][k]
                                /\ Len(r) \in Nat
      BY <1>1, Counts DEF Sides
    <3>2. AsSent(r, s) /\ Bounded(p, q, "sink_write", k, s) /\ s = 0
      BY <1>14, <2>1, <2>4, <3>1 DEF ToClient
    <3>3. SameStart(p, p2, "sink_write", k)
      BY <2>2, <2>4, <3>1
    <3>4. Bounded(p2, q, "sink_write", k, s)
      BY <3>2, <3>3, StartKept
    <3>5. InLine(p2, q, "sink_write", k, r, s) /\ NoneLost(p2, q, "sink_write", k, r, s)
      BY <3>1, <3>2, <3>4, NothingSent
    <3> QED
      BY <1>3, <1>8, <2>4, <3>1, <3>2, <3>4, <3>5 DEF ToClient
  <2> QED
    BY <2>3, <2>4
<1>20. CrashesOnlyInConnect'
  BY <1>3, NoCrash
<1> QED
  BY <1>13, <1>15, <1>17, <1>18, <1>19, <1>20, PartsNext

\* session::Write()
LEMMA WriteKeeps ==
    ASSUME IInv, crashed = {}, NEW k \in Clients, Write(k)
    PROVE  IInv'
<1>1. /\ ValuesOK /\ Orderly /\ \A c \in Clients : Lives(c)
      /\ \A c \in Clients : ToServer(c) /\ ToClient(c)
  BY Parts
<1>2. /\ At("server") = "start" /\ Top("server").op = "write" /\ Top("server").of = k
      /\ "server" \in Apartments /\ server' = server /\ ends' = ends /\ told' = told /\ sent' = sent
  BY DEF Write, Serves, Runs, Apartments
<1>3. /\ crashed' = crashed
      /\ IF stub[k] THEN /\ Goto("server", "user")
                         /\ received' = [received EXCEPT !["server"][k] =
                                            Append(received["server"][k], Top("server").m)]
         ELSE Goto("server", "end") /\ received' = received
  <2>1. stub[k] => inbound[k]
    BY <1>1 DEF Lives
  <2> QED
    BY <2>1 DEF Write, Given
<1>4. FreshOnes' = FreshOnes /\ \A c \in Clients : Lives(c)'
  BY <1>1, <1>2, Ends
<1>5. PICK cl, se, fr : cl = client /\ se = session /\ fr = FreshOnes
  OBVIOUS
<1>6. Calls(stack, inbox, cl, se, fr) /\ Graph(stack, inbox) /\ "server" \notin Clients
  BY <1>1, <1>5, ComAssumption DEF Orderly, Calls
<1>7. PICK at : /\ at = (IF stub[k] THEN "user" ELSE "end") /\ at \in Places
                /\ at \notin {"start", "query", "drop"} /\ Goto("server", at)
  BY <1>3 DEF Places
<1>8. /\ Calls(stack', inbox', cl, se, fr) /\ inbox' = inbox
      /\ Moved(stack, stack', "server", Len(stack["server"]), at)
  <2>1. Top("server").op \in Enders
    BY <1>2 DEF Enders
  <2> QED
    BY <1>2, <1>6, <1>7, <2>1, GotoStep
<1>9. Orderly'
  BY <1>2, <1>4, <1>5, <1>8 DEF Orderly, ends
<1>10. /\ \A b \in Apartments \ {"server"} : stack'[b] = stack[b]
       /\ \A c : ~Begun(stack'["server"], "write", c)
  BY <1>2, <1>6, <1>7, <1>8, GotoElsewhere
<1>11. /\ Begun(stack["server"], "write", k)
       /\ stack["server"][Len(stack["server"])].m = Top("server").m
       /\ \A c \in Clients \ {k} : ~Begun(stack["server"], "write", c)
  <2>1. stack["server"] # << >> /\ Top("server") = stack["server"][Len(stack["server"])]
        /\ Top("server").at = "start"
    BY <1>2, <1>6, TopIs
  <2> QED
    BY <1>2, <2>1 DEF Begun, Carries
<1>12. PICK p, p2, q, r, s, m, r2 :
         /\ p = stack["server"] /\ p2 = stack'["server"] /\ q = inbox["server"]
         /\ r = received["server"][k] /\ s = sent["client"][k] /\ m = Top("server").m
         /\ r2 = Append(r, m)
  OBVIOUS
<1>13. r \in Seq(Nat \ {0}) /\ s \in Nat
  BY <1>1, <1>12, Counts DEF Sides
<1>14. /\ AsSent(r, s) /\ Bounded(p, q, "write", k, s)
       /\ stub[k] => InLine(p, q, "write", k, r, s) /\ NoneLost(p, q, "write", k, r, s)
  BY <1>1, <1>12 DEF ToServer
<1>15. Begun(p, "write", k) /\ ~Begun(p2, "write", k) /\ p[Len(p)].m = m
  BY <1>10, <1>11, <1>12
<1>16. /\ ValuesOK' /\ ToServer(k)'
       /\ \A c \in Clients : received'["client"][c] = received["client"][c]
       /\ \A c \in Clients \ {k} : received'["server"][c] = received["server"][c]
  <2>1. CASE stub[k]
    <3>1. /\ r2 \in Seq(Nat \ {0}) /\ AsSent(r2, s)
          /\ Bounded(p2, q, "write", k, s) /\ InLine(p2, q, "write", k, r2, s)
          /\ NoneLost(p2, q, "write", k, r2, s)
      <4>1. InLine(p, q, "write", k, r, s) /\ NoneLost(p, q, "write", k, r, s)
        BY <1>14, <2>1
      <4>2. /\ Append(r, m) \in Seq(Nat \ {0}) /\ AsSent(Append(r, m), s)
            /\ Bounded(p2, q, "write", k, s) /\ InLine(p2, q, "write", k, Append(r, m), s)
            /\ NoneLost(p2, q, "write", k, Append(r, m), s)
        BY <1>13, <1>14, <1>15, <4>1, MessageGiven
      <4> QED
        BY <1>12, <4>2
    <3>2. /\ received' \in [Sides -> [Clients -> Seq(Nat \ {0})]] /\ received'["server"][k] = r2
          /\ \A c \in Clients : received'["client"][c] = received["client"][c]
          /\ \A c \in Clients \ {k} : received'["server"][c] = received["server"][c]
      <4>1. received \in [Sides -> [Clients -> Seq(Nat \ {0})]]
        BY <1>1 DEF ValuesOK
      <4>2. received' = [received EXCEPT !["server"][k] = r2]
        BY <1>3, <1>12, <2>1
      <4> QED
        BY <3>1, <4>1, <4>2 DEF Sides
    <3>3. ValuesOK'
      BY <1>1, <1>2, <1>3, <3>2 DEF ValuesOK, server, ends
    <3>4. ToServer(k)'
      BY <1>2, <1>8, <1>12, <3>1, <3>2 DEF ToServer, ends
    <3> QED
      BY <3>2, <3>3, <3>4
  <2>2. CASE ~stub[k]
    <3>1. received' = received
      BY <1>3, <2>2
    <3>2. ValuesOK'
      BY <1>1, <1>2, <1>3, <3>1 DEF ValuesOK, server, ends
    <3>3. Bounded(p2, q, "write", k, s)
      BY <1>14, <1>15 DEF Bounded
    <3>4. ToServer(k)'
      BY <1>2, <1>8, <1>12, <1>14, <2>2, <3>1, <3>3 DEF ToServer, ends
    <3> QED
      BY <3>1, <3>2, <3>4
  <2> QED
    BY <2>1, <2>2
<1>17. ASSUME NEW c \in Clients \ {k} PROVE ToServer(c)'
  <2>1. ToServer(c) /\ QueueKept(inbox["server"], inbox'["server"], "write", c)
    BY <1>1, <1>8 DEF QueueKept
  <2>2. SameStart(stack["server"], stack'["server"], "write", c)
    BY <1>10, <1>11 DEF SameStart
  <2>3. /\ received'["server"][c] = received["server"][c] /\ stub' = stub
        /\ sent'["client"][c] = sent["client"][c]
    BY <1>2, <1>16 DEF ends
  <2> QED
    BY <1>1, <2>1, <2>2, <2>3, ToServerKept
<1>18. ASSUME NEW c \in Clients PROVE ToClient(c)'
  <2>1. ToClient(c) /\ stack'[c] = stack[c] /\ inbox'[c] = inbox[c]
    BY <1>1, <1>6, <1>8, <1>10 DEF Apartments
  <2>2. received'["client"][c] = received["client"][c] /\ sent' = sent /\ sink' = sink
    BY <1>2, <1>16 DEF ends
  <2> QED
    BY <2>1, <2>2 DEF ToClient
<1>19. CrashesOnlyInConnect'
  BY <1>3, NoCrash
<1> QED
  BY <1>4, <1>9, <1>16, <1>17, <1>18, <1>19, PartsNext

-----------------------------------------------------------------------------
(* The inductive invariant, and what it says *)

\* It holds of a server that has just been registered.
LEMMA Initially ==
    ASSUME Init
    PROVE  IInv
<1>1. /\ \A a \in Apartments : stack[a] = << >> /\ inbox[a] = << >>
      /\ stack \in Queues /\ inbox \in Queues
  <2>1. << >> \in Seq(Call)
    BY EmptySeq
  <2>2. stack = [a \in Apartments |-> << >>] /\ inbox = stack
    BY DEF Init
  <2> QED
    BY <2>1, <2>2 DEF Queues
<1>2. \A a \in Apartments : Len(stack[a]) = 0 /\ Len(inbox[a]) = 0
  BY <1>1, EmptySeq
<1>3. \A a \in Apartments : 1..Len(stack[a]) = {} /\ 1..Len(inbox[a]) = {}
  BY <1>2
<1>4. Graph(stack, inbox)
  BY <1>1, <1>3 DEF Graph, OneAnswer
<1>5. Claims(stack, inbox, client, session, FreshOnes)
  BY <1>3 DEF Claims, OneDestroy
<1>6. Orderly
  BY <1>4, <1>5 DEF Orderly, Calls
<1>7. /\ registered = TRUE /\ serving = TRUE /\ client = [k \in Clients |-> "none"]
      /\ session = client /\ sink = [k \in Clients |-> {}]
      /\ inbound = [k \in Clients |-> FALSE] /\ stub = inbound /\ outbound = inbound
      /\ told = [s \in Sides |-> [k \in Clients |-> 0]] /\ sent = told
      /\ received = [s \in Sides |-> [k \in Clients |-> << >>]] /\ crashed = {}
  BY DEF Init
<1>8. << >> \in Seq(Nat \ {0}) /\ Len(<< >>) = 0
  BY EmptySeq
<1>9. ValuesOK
  <2>1. /\ registered \in BOOLEAN /\ serving \in BOOLEAN
        /\ inbound \in [Clients -> BOOLEAN] /\ stub \in [Clients -> BOOLEAN]
        /\ outbound \in [Clients -> BOOLEAN]
    BY <1>7
  <2>2. /\ client \in [Clients -> {"none", "connecting", "connected", "closing", "refused", "gone"}]
        /\ session \in [Clients -> {"none", "open", "gone"}]
        /\ sink \in [Clients -> SUBSET {"ctor", "stub"}]
    BY <1>7
  <2>3. told \in [Sides -> [Clients -> Nat]] /\ sent \in [Sides -> [Clients -> Nat]]
    BY <1>7
  <2>4. received \in [Sides -> [Clients -> Seq(Nat \ {0})]]
    <3>1. PICK e \in Seq(Nat \ {0}) : e = << >>
      BY <1>8
    <3>2. received = [s \in Sides |-> [k \in Clients |-> e]]
      BY <1>7, <3>1
    <3> QED
      BY <3>2
  <2>5. crashed \subseteq Apartments
    BY <1>7
  <2> QED
    BY <2>1, <2>2, <2>3, <2>4, <2>5 DEF ValuesOK
<1>10. /\ \A s \in Sides, k \in Clients : /\ told[s][k] = 0 /\ sent[s][k] = 0
                                          /\ received[s][k] = << >>
       /\ \A k \in Clients : /\ client[k] = "none" /\ session[k] = "none" /\ sink[k] = {}
                             /\ ~inbound[k] /\ ~stub[k] /\ ~outbound[k]
  BY <1>7
<1>11. "client" \in Sides /\ "server" \in Sides
  BY DEF Sides
<1>12. ASSUME NEW k \in Clients PROVE Lives(k)
  <2>1. /\ told["client"][k] = 0 /\ told["server"][k] = 0 /\ sent["client"][k] = 0
        /\ sent["server"][k] = 0
    BY <1>10, <1>11
  <2>2. /\ client[k] = "none" /\ session[k] = "none" /\ sink[k] = {} /\ ~stub[k] /\ ~outbound[k]
    BY <1>10
  <2>3. Fresh(k)
    BY <2>1, <2>2 DEF Fresh
  <2> QED
    BY <2>1, <2>2, <2>3 DEF Lives
<1>13. ASSUME NEW k \in Clients PROVE ToServer(k) /\ ToClient(k)
  <2>1. AsSent(<< >>, 0)
    <3>1. 1..0 = {} /\ << >> = [i \in 1..0 |-> i]
      BY EmptySeq
    <3> QED
      BY <1>8, <3>1 DEF AsSent, Numbers
  <2>2. ASSUME NEW a \in Apartments, NEW op PROVE Bounded(stack[a], inbox[a], op, k, 0)
    BY <1>1, <1>3 DEF Bounded, Begun
  <2>3. PICK e : e = << >> /\ Len(e) \in Nat /\ AsSent(e, 0)
    BY <1>8, <2>1
  <2>4. ASSUME NEW a \in Apartments, NEW op
        PROVE  /\ InLine(stack[a], inbox[a], op, k, e, 0)
               /\ NoneLost(stack[a], inbox[a], op, k, e, 0)
    BY <2>2, <2>3, NothingSent
  <2>5. /\ received["server"][k] = e /\ sent["client"][k] = 0 /\ received["client"][k] = e
        /\ sent["server"][k] = 0 /\ k \in Apartments /\ "server" \in Apartments
    BY <1>10, <1>11, <2>3 DEF Apartments
  <2> QED
    BY <2>2, <2>3, <2>4, <2>5 DEF ToServer, ToClient
<1>14. CrashesOnlyInConnect
  BY <1>7 DEF CrashesOnlyInConnect
<1> QED
  BY <1>6, <1>9, <1>12, <1>13, <1>14, Parts

\* A step that changes nothing keeps it.
LEMMA StutterKeeps ==
    ASSUME IInv, UNCHANGED vars
    PROVE  IInv'
<1>1. /\ stack' = stack /\ inbox' = inbox /\ registered' = registered /\ serving' = serving
      /\ client' = client /\ sink' = sink /\ session' = session /\ inbound' = inbound
      /\ stub' = stub /\ outbound' = outbound /\ told' = told /\ sent' = sent
      /\ received' = received /\ crashed' = crashed
  BY DEF vars, calls, server, ends, history
<1>2. /\ ValuesOK /\ Orderly /\ \A c \in Clients : Lives(c)
      /\ \A c \in Clients : ToServer(c) /\ ToClient(c)
      /\ CrashesOnlyInConnect
  BY Parts
<1>3. ValuesOK' /\ CrashesOnlyInConnect'
  BY <1>1, <1>2 DEF ValuesOK, CrashesOnlyInConnect
<1>4. FreshOnes' = FreshOnes /\ \A c \in Clients : Lives(c)'
  BY <1>1, <1>2 DEF FreshOnes, Fresh, Lives
<1>5. Orderly'
  BY <1>1, <1>2, <1>4 DEF Orderly
<1>6. \A c \in Clients : ToServer(c)' /\ ToClient(c)'
  BY <1>1, <1>2 DEF ToServer, ToClient
<1> QED
  BY <1>3, <1>4, <1>5, <1>6, PartsNext

\* Every step of every thread keeps it.
LEMMA StepKeeps ==
    ASSUME IInv, [Next]_vars
    PROVE  IInv'
<1>1. CASE UNCHANGED vars
  BY <1>1, StutterKeeps
<1>2. ASSUME crashed = {}, NEW k \in Clients, ClientStep(k)
      PROVE  IInv'
  <2>1. k \in Apartments
    BY DEF Apartments
  <2>2. CASE Dispatch(k)
    BY <1>2, <2>1, <2>2, DispatchKeepsAll
  <2>3. CASE ConnectionRefused(k)
    BY <1>2, <2>3, ConnectionRefusedKeeps
  <2>4. CASE Query(k)
    BY <1>2, <2>4, QueryKeeps
  <2>5. CASE Connected(k)
    BY <1>2, <2>5, ConnectedKeeps
  <2>6. CASE Uninitialize(k)
    BY <1>2, <2>6, UninitializeKeeps
  <2>7. CASE SinkWrite(k)
    BY <1>2, <2>7, SinkWriteKeeps
  <2>8. CASE SinkRelease(k)
    BY <1>2, <2>8, SinkReleaseKeeps
  <2>9. CASE ClientReturns(k)
    BY <1>2, <2>9, ClientReturnsKeeps
  <2> QED
    BY <1>2, <2>2, <2>3, <2>4, <2>5, <2>6, <2>7, <2>8, <2>9 DEF ClientStep
<1>3. ASSUME crashed = {}, ServerStep
      PROVE  IInv'
  <2>1. "server" \in Apartments
    BY DEF Apartments
  <2>2. CASE Dispatch("server")
    BY <1>3, <2>1, <2>2, DispatchKeepsAll
  <2>3. CASE Written
    BY <1>3, <2>3, WrittenKeeps
  <2>4. CASE ServerReturns
    BY <1>3, <2>4, ServerReturnsKeeps
  <2>5. CASE Ended
    BY <1>3, <2>5, EndedKeeps
  <2>6. ASSUME NEW k \in Clients,
               \/ CreateInstance(k) \/ CreateThrows(k) \/ Advise(k) \/ Write(k) \/ Release(k)
               \/ FinalRelease(k) \/ DeleteSession(k) \/ DisconnectNext(k)
        PROVE  IInv'
    <3>1. CASE CreateInstance(k)
      BY <1>3, <3>1, CreateInstanceKeeps
    <3>2. CASE CreateThrows(k)
      BY <1>3, <3>2, CreateThrowsKeeps
    <3>3. CASE Advise(k)
      BY <1>3, <3>3, AdviseKeeps
    <3>4. CASE Write(k)
      BY <1>3, <3>4, WriteKeeps
    <3>5. CASE Release(k)
      BY <1>3, <3>5, ReleaseKeeps
    <3>6. CASE FinalRelease(k)
      BY <1>3, <3>6, FinalReleaseKeeps
    <3>7. CASE DeleteSession(k)
      BY <1>3, <3>7, DeleteSessionKeeps
    <3>8. CASE DisconnectNext(k)
      BY <1>3, <3>8, DisconnectNextKeeps
    <3> QED
      BY <2>6, <3>1, <3>2, <3>3, <3>4, <3>5, <3>6, <3>7, <3>8
  <2> QED
    BY <1>3, <2>2, <2>3, <2>4, <2>5, <2>6 DEF ServerStep
<1>4. ASSUME crashed = {}, User
      PROVE  IInv'
  <2>1. CASE Revoke
    BY <1>4, <2>1, RevokeKeeps
  <2>2. CASE End
    BY <1>4, <2>2, EndKeeps
  <2>3. ASSUME NEW k \in Clients, Connect(k) \/ Send(k) \/ Destroy(k) \/ Push(k) \/ Disconnect(k)
        PROVE  IInv'
    <3>1. CASE Connect(k)
      BY <1>4, <3>1, ConnectKeeps
    <3>2. CASE Send(k)
      BY <1>4, <3>2, SendKeeps
    <3>3. CASE Destroy(k)
      BY <1>4, <3>3, DestroyKeeps
    <3>4. CASE Push(k)
      BY <1>4, <3>4, PushKeeps
    <3>5. CASE Disconnect(k)
      BY <1>4, <3>5, DisconnectKeeps
    <3> QED
      BY <2>3, <3>1, <3>2, <3>3, <3>4, <3>5
  <2> QED
    BY <1>4, <2>1, <2>2, <2>3 DEF User
<1> QED
  BY <1>1, <1>2, <1>3, <1>4 DEF Next

\* The inductive invariant holds of every reachable state: whoever waits is answered by
\* one call, which knows where to return, and messages are in line behind it.
THEOREM Inductive == Spec => []IInv
<1>1. Init => IInv
  BY Initially
<1>2. IInv /\ [Next]_vars => IInv'
  BY StepKeeps
<1> QED
  BY <1>1, <1>2, PTL DEF Spec

\* No channel is told twice that its connection has ended, and none while the other end
\* can still reach it, whoever ends it and from inside whatever calls: the counts of
\* inbound_stream's and com::session's calls of disconnect() follow the lives of the two.
THEOREM EachIsToldOnce == Spec => []ToldOnce
<1>1. ASSUME IInv PROVE ToldOnce
  <2>1. TypeOK /\ \A k \in Clients : Lives(k)
    BY <1>1 DEF IInv
  <2>2. ASSUME NEW k \in Clients
        PROVE  /\ told["client"][k] <= 1 /\ (told["client"][k] = 1 => sink[k] = {})
               /\ told["server"][k] <= 1 /\ (told["server"][k] = 1 => ~stub[k])
    BY <2>1 DEF Lives
  <2> QED
    BY <2>1, <2>2 DEF ToldOnce
<1> QED
  BY <1>1, Inductive, PTL

\* Null pointers are used only while a client connects: once a session has its inbound
\* channel, com::session::Write() and FinalRelease() find it, in whatever call they are.
THEOREM NullOnlyInConnect == Spec => []CrashesOnlyInConnect
<1>1. IInv => CrashesOnlyInConnect
  BY DEF IInv
<1> QED
  BY <1>1, Inductive, PTL

\* When no thread is in a call, no call waits to be dispatched.
LEMMA NothingWaits ==
    ASSUME Graph(stack, inbox), \A a \in Apartments : At(a) = "rest"
    PROVE  \A a \in Apartments : stack[a] = << >> /\ 1..Len(inbox[a]) = {}
<1>1. \A a \in Apartments : stack[a] = << >> /\ 1..Len(stack[a]) = {}
  <2>1. \A a \in Apartments : stack[a] = << >>
    BY AtRest
  <2>2. \A a \in Apartments : Len(stack[a]) = 0
    BY <2>1, EmptySeq
  <2> QED
    BY <2>1, <2>2
<1>2. ASSUME NEW a \in Apartments, NEW i \in 1..Len(inbox[a]) PROVE FALSE
  <2>1. Awaited(stack, inbox[a][i])
    BY DEF Graph, Queued
  <2>2. inbox[a][i].ret[1] \in Apartments /\ inbox[a][i].ret[2] \in 1..Len(stack[inbox[a][i].ret[1]])
    BY <2>1, ReturnParts DEF Awaited
  <2> QED
    BY <1>1, <2>2
<1> QED
  BY <1>1, <1>2

\* A line of messages that is empty has no messages to come.
LEMMA LineEmpty ==
    ASSUME NEW p, p = << >>, NEW q, 1..Len(q) = {}, NEW op, NEW k, NEW r, Len(r) \in Nat,
           NEW s \in Nat, Len(r) <= s, NoneLost(p, q, op, k, r, s)
    PROVE  Len(r) = s
<1>1. Due(p, op, k, Len(r)) = Len(r) + 1
  BY DEF Due, Begun
<1>2. \A m \in (Len(r) + 1)..s : FALSE
  BY <1>1 DEF NoneLost, Full
<1>3. Len(r) < s => s \in (Len(r) + 1)..s
  OBVIOUS
<1> QED
  BY <1>2, <1>3

\* Messages are given to the channel in the order they were sent in, each one once, and
\* between two ends that are connected none is missing when no thread is in a call: Write()
\* of either end, however deep its calls nest in one another.
THEOREM MessagesKeepOrder == Spec => []MessagesInOrder
<1>1. ASSUME IInv PROVE MessagesInOrder
  <2>1. /\ ValuesOK /\ Graph(stack, inbox) /\ \A k \in Clients : ToServer(k) /\ ToClient(k)
    BY <1>1, Parts DEF IInv
  <2>2. ASSUME NEW k \in Clients, NEW r, NEW n, NEW s \in Nat, NEW a \in Apartments, NEW op,
               AsSent(r, s), n = Len(r), Len(r) \in Nat
        PROVE  /\ n <= s /\ r = [i \in 1..n |-> i]
               /\ (\A b \in Apartments : At(b) = "rest")
                    /\ NoneLost(stack[a], inbox[a], op, k, r, s) => n = s
    <3>1. n <= s /\ r = [i \in 1..n |-> i]
      BY <2>2 DEF AsSent, Numbers
    <3>2. ASSUME \A b \in Apartments : At(b) = "rest", NoneLost(stack[a], inbox[a], op, k, r, s)
          PROVE  n = s
      <4>1. PICK p, q : p = stack[a] /\ q = inbox[a]
        OBVIOUS
      <4>2. p = << >> /\ 1..Len(q) = {}
        BY <2>1, <3>2, <4>1, NothingWaits
      <4>3. NoneLost(p, q, op, k, r, s) /\ Len(r) <= s
        BY <2>2, <3>1, <3>2, <4>1
      <4> QED
        BY <2>2, <4>2, <4>3, LineEmpty
    <3> QED
      BY <3>1, <3>2
  <2>3. ASSUME NEW k \in Clients, NEW s \in Sides
        PROVE  LET n == Len(received[s][k])
                   other == IF s = "client" THEN "server" ELSE "client"
               IN  /\ n <= sent[other][k] /\ received[s][k] = [i \in 1..n |-> i]
                   /\ (stub[k] /\ "stub" \in sink[k] /\ \A a \in Apartments : At(a) = "rest")
                        => n = sent[other][k]
    <3>1. ToServer(k) /\ ToClient(k) /\ k \in Apartments /\ "server" \in Apartments
      BY <2>1 DEF Apartments
    <3>2. CASE s = "client"
      <4>1. PICK r, m : r = received["client"][k] /\ m = sent["server"][k]
        OBVIOUS
      <4>2. m \in Nat /\ Len(r) \in Nat
        BY <2>1, <4>1, Counts DEF Sides
      <4>3. AsSent(r, m) /\ ("stub" \in sink[k] => NoneLost(stack[k], inbox[k], "sink_write", k, r, m))
        BY <3>1, <4>1 DEF ToClient
      <4>4. /\ Len(r) <= m /\ r = [i \in 1..Len(r) |-> i]
            /\ "stub" \in sink[k] /\ (\A b \in Apartments : At(b) = "rest") => Len(r) = m
        BY <2>2, <3>1, <4>2, <4>3
      <4> QED
        BY <3>2, <4>1, <4>4
    <3>3. CASE s = "server"
      <4>1. PICK r, m : r = received["server"][k] /\ m = sent["client"][k]
        OBVIOUS
      <4>2. m \in Nat /\ Len(r) \in Nat
        BY <2>1, <4>1, Counts DEF Sides
      <4>3. AsSent(r, m)
            /\ (stub[k] => NoneLost(stack["server"], inbox["server"], "write", k, r, m))
        BY <3>1, <4>1 DEF ToServer
      <4>4. /\ Len(r) <= m /\ r = [i \in 1..Len(r) |-> i]
            /\ stub[k] /\ (\A b \in Apartments : At(b) = "rest") => Len(r) = m
        BY <2>2, <3>1, <4>2, <4>3
      <4> QED
        BY <3>3, <4>1, <4>4
    <3> QED
      BY <3>2, <3>3 DEF Sides
  <2> QED
    BY <2>3 DEF MessagesInOrder
<1> QED
  BY <1>1, Inductive, PTL

-----------------------------------------------------------------------------
(* Who calls the channel of a client that is gone *)

\* The channel of client k is not called by the step.
Untouched(k) ==
    told'["client"][k] = told["client"][k] /\ received'["client"][k] = received["client"][k]

\* The server is in a call for client k that is not the release of its proxy.
Involved(k) ==
    \E i \in 1..Len(stack["server"]) :
        stack["server"][i].of = k /\ stack["server"][i].op # "release"

\* A thread that serves a call of the sink was called by the server.
LEMMA SinkIsCalled ==
    ASSUME IInv, NEW k \in Clients, client[k] = "gone",
           Runs(k, "sink_write", "start") \/ Runs(k, "sink_release", "start")
    PROVE  Involved(k)
<1>1. PICK st, ib, cl, se, fr :
        st = stack /\ ib = inbox /\ cl = client /\ se = session /\ fr = FreshOnes
  OBVIOUS
<1>2. /\ Calls(st, ib, cl, se, fr) /\ Graph(st, ib) /\ Claims(st, ib, cl, se, fr)
      /\ k \in Apartments /\ "server" \in Apartments
  BY <1>1, Parts DEF Orderly, Calls, Apartments
<1>3. PICK f : f = Top(k)
  OBVIOUS
<1>4. f.op \in IntoClient /\ f.op \in Remote /\ At(k) # "rest"
  BY <1>3 DEF Runs, IntoClient, Remote
<1>5. f.of = k /\ Awaited(st, f)
  <2>1. Stacked(stack, k, Len(stack[k])) /\ InPlace(k, Top(k)) /\ Top(k) = stack[k][Len(stack[k])]
    BY <1>1, <1>2, <1>4, TopIs
  <2> QED
    BY <1>1, <1>3, <1>4, <2>1, ComAssumption DEF Stacked, InPlace
<1>6. PICK j \in 1..Len(st["server"]) : j = f.ret[2] /\ st["server"][j].of = k
                                         /\ Answers(f, st["server"][j])
  BY <1>4, <1>5 DEF Awaited
<1>7. PICK g : g = st["server"][j]
  OBVIOUS
<1>8. g.op # "release"
  <2>1. SUFFICES ASSUME g.op = "release" PROVE FALSE
    OBVIOUS
  <2>2. Awaited(st, g) /\ g.of = k
    BY <1>2, <1>6, <1>7, <2>1 DEF Graph, Stacked, Remote
  <2>3. PICK i \in 1..Len(st[k]) : st[k][i].op = "destroy"
    BY <2>1, <2>2 DEF Awaited, Answers, IntoClient
  <2>4. OnStack(k, i, st[k][i], cl, se, fr)
    BY <1>2 DEF Claims
  <2> QED
    BY <1>1, <2>3, <2>4 DEF OnStack
<1> QED
  BY <1>1, <1>6, <1>7, <1>8 DEF Involved

\* A client that is gone is in neither its constructor nor its destructor.
LEMMA GoneIsOut ==
    ASSUME IInv, NEW k \in Clients, client[k] = "gone", NEW op \in {"connect", "destroy"}, NEW at,
           at # "rest"
    PROVE  ~Runs(k, op, at)
<1>1. SUFFICES ASSUME Runs(k, op, at) PROVE FALSE
  OBVIOUS
<1>2. PICK cl, se, fr : cl = client /\ se = session /\ fr = FreshOnes
  OBVIOUS
<1>3. Calls(stack, inbox, cl, se, fr) /\ k \in Apartments /\ At(k) # "rest" /\ Top(k).op = op
  BY <1>1, <1>2, Parts DEF Orderly, Apartments, Runs
<1>4. OnStack(k, Len(stack[k]), Top(k), cl, se, fr)
  BY <1>3, TopClaims
<1> QED
  BY <1>2, <1>3, <1>4 DEF OnStack

\* The sink of another client.
LEMMA OtherSink ==
    ASSUME ValuesOK, NEW c \in Clients, NEW k \in Clients, c # k, NEW refs, LeaveSink(c, refs)
    PROVE  told'["client"][k] = told["client"][k]
<1>1. told \in [Sides -> [Clients -> Nat]] /\ "client" \in Sides
  BY DEF ValuesOK, Sides
<1>2. CASE told' = told
  BY <1>2
<1>3. CASE Tell("client", c)
  BY <1>1, <1>3 DEF Tell
<1> QED
  BY <1>2, <1>3 DEF LeaveSink

\* A step calls the channel of a client that is gone only from a call of the server for it.
LEMMA GoneIsQuiet ==
    ASSUME IInv, Next, NEW k \in Clients, client[k] = "gone"
    PROVE  Untouched(k) \/ Involved(k)
<1>1. ValuesOK /\ told \in [Sides -> [Clients -> Nat]]
      /\ received \in [Sides -> [Clients -> Seq(Nat \ {0})]] /\ "client" \in Sides /\ "server" \in Sides
  BY Parts DEF ValuesOK, Sides
<1>2. ASSUME NEW c \in Clients, ClientStep(c)
      PROVE  Untouched(k) \/ Involved(k)
  <2>1. CASE Dispatch(c)
    BY <2>1 DEF Dispatch, history, Untouched
  <2>2. CASE ConnectionRefused(c)
    <3>1. c # k
      BY <2>2, GoneIsOut DEF ConnectionRefused
    <3>2. received' = received /\ LeaveSink(c, {})
      BY <2>2 DEF ConnectionRefused
    <3> QED
      BY <1>1, <3>1, <3>2, OtherSink DEF Untouched
  <2>3. CASE Query(c)
    BY <2>3 DEF Query, Untouched
  <2>4. CASE Connected(c)
    <3>1. c # k
      BY <2>4, GoneIsOut DEF Connected
    <3>2. received' = received /\ LeaveSink(c, sink[c] \ {"ctor"})
      BY <2>4 DEF Connected
    <3> QED
      BY <1>1, <3>1, <3>2, OtherSink DEF Untouched
  <2>5. CASE Uninitialize(c)
    <3>1. c # k
      BY <2>5, GoneIsOut DEF Uninitialize
    <3>2. received' = received /\ (LeaveSink(c, {}) \/ told' = told)
      BY <2>5 DEF Uninitialize
    <3>3. told'["client"][k] = told["client"][k]
      BY <1>1, <3>1, <3>2, OtherSink
    <3> QED
      BY <3>2, <3>3 DEF Untouched
  <2>6. CASE SinkWrite(c)
    <3>1. CASE c = k
      BY <2>6, <3>1, SinkIsCalled DEF SinkWrite
    <3>2. CASE c # k
      <4>1. told' = told /\ received' = [received EXCEPT !["client"][c] = Given(c, @, Top(c).m)]
        BY <2>6 DEF SinkWrite
      <4> QED
        BY <1>1, <3>2, <4>1 DEF Untouched
    <3> QED
      BY <3>1, <3>2
  <2>7. CASE SinkRelease(c)
    <3>1. CASE c = k
      BY <2>7, <3>1, SinkIsCalled DEF SinkRelease
    <3>2. CASE c # k
      <4>1. received' = received /\ LeaveSink(c, sink[c] \ {"stub"})
        BY <2>7 DEF SinkRelease
      <4> QED
        BY <1>1, <3>2, <4>1, OtherSink DEF Untouched
    <3> QED
      BY <3>1, <3>2
  <2>8. CASE ClientReturns(c)
    BY <2>8 DEF ClientReturns, history, Untouched
  <2> QED
    BY <1>2, <2>1, <2>2, <2>3, <2>4, <2>5, <2>6, <2>7, <2>8 DEF ClientStep
<1>3. ASSUME ServerStep
      PROVE  Untouched(k)
  <2>1. CASE Dispatch("server") \/ Written \/ ServerReturns \/ Ended
    BY <2>1 DEF Dispatch, Written, ServerReturns, Ended, history, Untouched
  <2>2. ASSUME NEW c \in Clients,
               \/ CreateInstance(c) \/ CreateThrows(c) \/ Advise(c) \/ Release(c)
               \/ DeleteSession(c) \/ DisconnectNext(c)
        PROVE  told' = told /\ received' = received
    BY <2>2 DEF CreateInstance, CreateThrows, Advise, Release, DeleteSession, DisconnectNext, history
  <2>3. ASSUME NEW c \in Clients, Write(c)
        PROVE  Untouched(k)
    <3>1. told' = told
      BY <2>3 DEF Write
    <3>2. \/ received' = received
          \/ received' = [received EXCEPT !["server"][c] = Given("server", @, Top("server").m)]
      BY <2>3 DEF Write
    <3> QED
      BY <1>1, <3>1, <3>2 DEF Untouched
  <2>4. ASSUME NEW c \in Clients, FinalRelease(c)
        PROVE  Untouched(k)
    <3>1. received' = received /\ told' = [told EXCEPT !["server"][c] = @ + 1]
      BY <2>4 DEF FinalRelease, TellServer, Tell
    <3> QED
      BY <1>1, <3>1 DEF Untouched
  <2> QED
    BY <1>3, <2>1, <2>2, <2>3, <2>4 DEF ServerStep, Untouched
<1>4. ASSUME User
      PROVE  Untouched(k)
  <2>1. CASE Revoke \/ End
    BY <2>1 DEF Revoke, End, history, Untouched
  <2>2. ASSUME NEW c \in Clients, Connect(c) \/ Send(c) \/ Destroy(c) \/ Push(c) \/ Disconnect(c)
        PROVE  told' = told /\ received' = received
    BY <2>2 DEF Connect, Send, Destroy, Push, Disconnect, history
  <2> QED
    BY <1>4, <2>1, <2>2 DEF User, Untouched
<1> QED
  BY <1>2, <1>3, <1>4 DEF Next

\* The channel of a client that is destroyed is called only by a session that was in a call
\* for it: otherwise the sink is gone by the end of ~client_session().
THEOREM GoneAreLeftAlone == Spec => QuietOnceGone
<1>1. ASSUME IInv, [Next]_vars
      PROVE  [\A k \in Clients :
                client[k] = "gone"
                    /\ <<told["client"][k], received["client"][k]>>'
                        # <<told["client"][k], received["client"][k]>>
                => \E i \in 1..Len(stack["server"]) :
                    stack["server"][i].of = k /\ stack["server"][i].op # "release"]_vars
  <2>1. CASE UNCHANGED vars
    BY <2>1
  <2>2. CASE Next
    BY <1>1, <2>2, GoneIsQuiet DEF Untouched, Involved
  <2> QED
    BY <1>1, <2>1, <2>2
<1> QED
  BY <1>1, Inductive, PTL DEF Spec, QuietOnceGone
=============================================================================
