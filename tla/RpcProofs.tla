------------------------------ MODULE RpcProofs ------------------------------
(***************************************************************************)
(* Proofs about a client session and a server session, for any handles,    *)
(* ids and numbers of calls, answers, deferrals and messages, and for a    *)
(* user that does not subscribe twice to an id: handles own the nodes they *)
(* were obtained for, and a response comes back to its request.            *)
(***************************************************************************)
EXTENDS Rpc, TLAPS

\* A handle owns exactly what it was obtained for: insert() found no old node.
HandlesAreExact == handles = held

\* A node of _message_callbacks is keyed by an id of the server's own messages, a
\* node of _callbacks by a response's id and a token that was taken.
KeysAreFresh ==
    \A x \in live :
        IF x.token = 0 THEN x.id \in PushIds
                       ELSE x.id \in ResponseIds /\ x.token < token

\* The inductive invariant of the ownership theorems.
Ownership ==
    /\ TypeOK
    /\ HandlesAreExact
    /\ HandlesOwnTheirNodes
    /\ KeysAreFresh

-----------------------------------------------------------------------------
(* Helpers *)

\* insert() of a key that is not in the map inserts.
LEMMA FreshIsInserted ==
    ASSUME NEW x, \A y \in live : ~Client!SameKey(x, y)
    PROVE  Client!Located(x) = x /\ x \notin live
  BY DEF Client!Located, Client!SameKey

\* What a call of the user does to the nodes: h loses gone and gains new.
Changes(h, gone, new) ==
    /\ gone \in {{}, handles[h]}
    /\ new \in SUBSET Client!Node
    /\ new \cap live = {}
    /\ live' = (live \cup new) \ gone
    /\ handles' = [handles EXCEPT ![h] = (@ \ gone) \cup new]
    /\ held' = [held EXCEPT ![h] = (@ \ gone) \cup new]

\* insert() and handle.reset(), for a key that is not in the map.
LEMMA ReplaceChanges ==
    ASSUME Ownership, NEW h \in Handles, NEW x \in Client!Node,
           \A y \in live : ~Client!SameKey(x, y),
           Client!Replace(h, x)
    PROVE  Changes(h, handles[h], {x})
  <1>1. Client!Located(x) = x /\ x \notin live
    BY FreshIsInserted
  <1>2. live' = (live \cup {x}) \ handles[h]
    BY <1>1 DEF Client!Replace
  <1>3. handles' = [handles EXCEPT ![h] = (@ \ handles[h]) \cup {x}]
    BY <1>1 DEF Client!Replace
  <1>4. held' = [held EXCEPT ![h] = (@ \ handles[h]) \cup {x}]
    BY DEF Client!Replace, Ownership, HandlesAreExact
  <1> QED
    BY <1>1, <1>2, <1>3, <1>4 DEF Changes

\* subscribe() inserts one node, under the id alone.
LEMMA SubscribeChanges ==
    ASSUME OneSubscriptionPerId, Ownership,
           NEW h \in Handles, NEW i \in PushIds, Client!subscribe(h, i)
    PROVE  /\ Changes(h, handles[h], {[call |-> calls + 1, id |-> i, token |-> 0]})
           /\ calls' = calls + 1
           /\ UNCHANGED <<token, called, requests, responses>>
  <1> DEFINE x == [call |-> calls + 1, id |-> i, token |-> 0]
  <1>1. calls \in Nat /\ x \in Client!Node
    BY DEF Ownership, TypeOK, Client!TypeOK, Client!Node
  <1>2. \A y \in live : ~Client!SameKey(x, y)
    BY DEF Client!subscribe, Client!Subscribed, Client!SameKey
  <1>3. Client!Replace(h, x)
    BY DEF Client!subscribe
  <1> QED
    BY <1>1, <1>2, <1>3, ReplaceChanges DEF Client!subscribe

\* A request takes a token, and is sent with it.
LEMMA TokenIsTaken ==
    ASSUME Ownership, NEW r \in RequestIds, Client!request_internal(r)
    PROVE  /\ calls' = calls + 1
           /\ token' = token + 1
           /\ requests' = Append(requests, [id |-> r, token |-> token, call |-> calls + 1])
           /\ UNCHANGED <<called, responses>>
  BY DEF Client!request_internal

\* The nodes of a new request have keys that are not in the map.
LEMMA TokenIsFresh ==
    ASSUME Ownership, NEW i \in ResponseIds
    PROVE  LET x == [call |-> calls + 1, id |-> i, token |-> token]
           IN  /\ x \in Client!Node
               /\ \A y \in live : ~Client!SameKey(x, y)
  <1> DEFINE x == [call |-> calls + 1, id |-> i, token |-> token]
  <1>1. calls \in Nat /\ token \in Nat /\ token # 0 /\ live \subseteq Client!Node
    BY DEF Ownership, TypeOK, Client!TypeOK
  <1>2. x \in Client!Node
    BY <1>1 DEF Client!Node
  <1>3. ASSUME NEW y \in live
        PROVE  ~Client!SameKey(x, y)
    <2>1. y.token \in Nat /\ (y.token = 0 \/ y.token < token)
      BY <1>1 DEF Ownership, KeysAreFresh, Client!Node
    <2> QED
      BY <1>1, <2>1 DEF Client!SameKey
  <1> QED
    BY <1>2, <1>3

\* The nodes of a request for the responses ids.
NewNodes(ids) == {[call |-> calls + 1, id |-> i, token |-> token] : i \in ids}

\* request() inserts one node, and multi_request() one for each response.
LEMMA RequestChanges ==
    ASSUME Ownership, NEW h \in Handles, NEW r \in RequestIds, NEW i \in ResponseIds,
           Client!request(h, r, i)
    PROVE  Changes(h, handles[h], NewNodes({i}))
  <1> DEFINE x == [call |-> calls + 1, id |-> i, token |-> token]
  <1>1. Client!Replace(h, x)
    BY TokenIsTaken DEF Client!request
  <1>2. x \in Client!Node /\ \A y \in live : ~Client!SameKey(x, y)
    BY TokenIsFresh
  <1>3. NewNodes({i}) = {x}
    BY DEF NewNodes
  <1> HIDE DEF x
  <1> QED
    BY <1>1, <1>2, <1>3, ReplaceChanges

LEMMA MultiRequestChanges ==
    ASSUME Ownership, NEW h \in Handles, NEW r \in RequestIds,
           NEW ids \in SUBSET ResponseIds, Client!multi_request(h, r, ids)
    PROVE  Changes(h, {}, NewNodes(ids))
  <1> DEFINE new == NewNodes(ids)
  <1>1. \A x \in new : x \in Client!Node /\ Client!Located(x) = x /\ x \notin live
    BY TokenIsFresh, FreshIsInserted DEF NewNodes
  <1>2. new = {[call |-> calls', id |-> i, token |-> token] : i \in ids}
    BY TokenIsTaken DEF NewNodes, Client!multi_request
  <1> HIDE DEF new
  <1>3. {Client!Located(x) : x \in new} = new
    BY <1>1
  <1>4. /\ live' = live \cup {Client!Located(x) : x \in new}
        /\ handles' = [handles EXCEPT ![h] = @ \cup {Client!Located(x) : x \in new}]
        /\ held' = [held EXCEPT ![h] = @ \cup new]
    BY <1>2 DEF Client!multi_request
  <1>5. live' = (live \cup new) \ {}
    BY <1>3, <1>4
  <1>6. handles' = [handles EXCEPT ![h] = (@ \ {}) \cup new]
    BY <1>3, <1>4
  <1>7. held' = [held EXCEPT ![h] = (@ \ {}) \cup new]
    BY <1>4
  <1>8. new \in SUBSET Client!Node /\ new \cap live = {}
    BY <1>1
  <1> QED
    BY <1>5, <1>6, <1>7, <1>8 DEF Changes, new

\* Resetting a handle gives up its nodes.
LEMMA ReleaseChanges ==
    ASSUME Ownership, NEW h \in Handles, Client!Release(h)
    PROVE  Changes(h, handles[h], {})
  <1>1. handles \in [Handles -> SUBSET Client!Node] /\ handles = held
    BY DEF Ownership, TypeOK, Client!TypeOK, HandlesAreExact
  <1>2. live' = (live \cup {}) \ handles[h]
    BY DEF Client!Release
  <1>3. handles' = [handles EXCEPT ![h] = (@ \ handles[h]) \cup {}]
    BY <1>1 DEF Client!Release
  <1>4. held' = [held EXCEPT ![h] = (@ \ handles[h]) \cup {}]
    BY <1>1 DEF Client!Release
  <1> QED
    BY <1>2, <1>3, <1>4 DEF Changes

\* Whatever the user calls, handles keep owning disjoint sets of living nodes.
LEMMA ChangesKeepOwnership ==
    ASSUME Ownership, NEW h \in Handles, NEW gone, NEW new, Changes(h, gone, new)
    PROVE  /\ live' \subseteq Client!Node
           /\ handles' \in [Handles -> SUBSET Client!Node]
           /\ HandlesAreExact'
           /\ HandlesOwnTheirNodes'
  <1>1. /\ handles \in [Handles -> SUBSET Client!Node]
        /\ live \subseteq Client!Node
        /\ handles = held
        /\ new \subseteq Client!Node
    BY DEF Ownership, TypeOK, Client!TypeOK, HandlesAreExact, Changes
  <1>2. /\ \A g \in Handles : handles[g] \subseteq live
        /\ \A f, g \in Handles : f # g => handles[f] \cap handles[g] = {}
        /\ live \subseteq UNION {handles[g] : g \in Handles}
    BY DEF Ownership, HandlesOwnTheirNodes, Client!HandlesOwnTheirNodes
  <1>3. /\ handles'[h] = (handles[h] \ gone) \cup new
        /\ \A g \in Handles \ {h} : handles'[g] = handles[g]
        /\ handles' \in [Handles -> SUBSET Client!Node]
    BY <1>1 DEF Changes
  <1>4. gone \subseteq handles[h] /\ live' = (live \cup new) \ gone /\ new \cap live = {}
    BY DEF Changes
  <1>5. HandlesAreExact'
    BY <1>1 DEF Changes, HandlesAreExact
  <1>6. ASSUME NEW g \in Handles
        PROVE  handles'[g] \subseteq live'
    BY <1>2, <1>3, <1>4
  <1>7. ASSUME NEW f \in Handles, NEW g \in Handles, f # g
        PROVE  handles'[f] \cap handles'[g] = {}
    BY <1>2, <1>3, <1>4, <1>7
  <1>8. ASSUME NEW x \in live'
        PROVE  \E g \in Handles : x \in handles'[g]
    <2>1. CASE x \in new
      BY <1>3, <2>1
    <2>2. CASE x \notin new
      <3>1. PICK g \in Handles : x \in handles[g]
        BY <1>2, <1>4, <2>2
      <3> QED
        BY <1>3, <1>4, <3>1
    <2> QED
      BY <2>1, <2>2
  <1>9. HandlesOwnTheirNodes'
    BY <1>6, <1>7, <1>8 DEF HandlesOwnTheirNodes, Client!HandlesOwnTheirNodes
  <1> QED
    BY <1>1, <1>3, <1>4, <1>5, <1>9

-----------------------------------------------------------------------------
(* Tokens name calls *)

Items(s) == {s[k] : k \in 1..Len(s)}

\* Everything that carries a token: nodes, requests, continuations, messages.
Carriers == live \cup Items(requests) \cup Items(queue) \cup Items(responses)

\* What carries the same token belongs to the same call, and the next token is
\* carried by nothing.
TokensNameCalls ==
    /\ \A x, y \in Carriers : x.token # 0 /\ x.token = y.token => x.call = y.call
    /\ \A x \in Carriers : x.token < token

\* A callback was called with a message of its id and, unless it is that of a
\* subscription, of its token and its call.
CalledByKey ==
    \A c \in called :
        /\ c.node.id = c.msg.id
        /\ IF c.node.token = 0
           THEN c.node.id \in PushIds
           ELSE /\ c.node.id \in ResponseIds
                /\ c.node.token = c.msg.token
                /\ c.node.call = c.msg.call

\* The inductive invariant.
IInv ==
    /\ Ownership
    /\ TokensNameCalls
    /\ CalledByKey

LEMMA ItemsTyped ==
    ASSUME NEW S, NEW s \in Seq(S)
    PROVE  Items(s) \subseteq S
  BY DEF Items

LEMMA ItemsOfAppend ==
    ASSUME NEW S, NEW s \in Seq(S), NEW e \in S
    PROVE  Append(s, e) \in Seq(S) /\ Items(Append(s, e)) = Items(s) \cup {e}
  <1> DEFINE t == Append(s, e)
  <1>1. /\ t \in Seq(S)
        /\ Len(s) \in Nat
        /\ Len(t) = Len(s) + 1
        /\ \A k \in 1..Len(s) : t[k] = s[k]
        /\ t[Len(s) + 1] = e
    OBVIOUS
  <1> HIDE DEF t
  <1>2. Items(t) \subseteq Items(s) \cup {e}
    BY <1>1 DEF Items
  <1>3. Items(s) \cup {e} \subseteq Items(t)
    BY <1>1 DEF Items
  <1> QED
    BY <1>1, <1>2, <1>3 DEF t

LEMMA ItemsOfTail ==
    ASSUME NEW S, NEW s \in Seq(S), s # << >>
    PROVE  /\ Tail(s) \in Seq(S)
           /\ Head(s) \in S
           /\ Head(s) \in Items(s)
           /\ Items(Tail(s)) \subseteq Items(s)
  <1>1. /\ Tail(s) \in Seq(S)
        /\ Len(s) \in Nat \ {0}
        /\ Len(Tail(s)) = Len(s) - 1
        /\ \A k \in 1..Len(Tail(s)) : Tail(s)[k] = s[k + 1]
        /\ Head(s) = s[1]
    OBVIOUS
  <1>2. 1 \in 1..Len(s) /\ s[1] \in S
    BY <1>1
  <1>3. \A k \in 1..Len(Tail(s)) : k + 1 \in 1..Len(s)
    BY <1>1
  <1> QED
    BY <1>1, <1>2, <1>3 DEF Items

LEMMA ItemsOfConcat ==
    ASSUME NEW S, NEW s \in Seq(S), NEW t \in Seq(S)
    PROVE  s \o t \in Seq(S) /\ Items(s \o t) \subseteq Items(s) \cup Items(t)
  <1> DEFINE u == s \o t
  <1>1. /\ u \in Seq(S)
        /\ Len(s) \in Nat /\ Len(t) \in Nat
        /\ Len(u) = Len(s) + Len(t)
        /\ \A k \in 1..Len(u) : u[k] = IF k <= Len(s) THEN s[k] ELSE t[k - Len(s)]
    OBVIOUS
  <1>2. ASSUME NEW k \in 1..Len(u)
        PROVE  u[k] \in Items(s) \cup Items(t)
    <2>1. CASE k <= Len(s)
      BY <1>1, <2>1 DEF Items
    <2>2. CASE ~(k <= Len(s))
      <3>1. k - Len(s) \in 1..Len(t)
        BY <1>1, <2>2
      <3> QED
        BY <1>1, <2>2, <3>1 DEF Items
    <2> QED
      BY <2>1, <2>2
  <1> QED
    BY <1>1, <1>2 DEF Items

\* Tokens keep naming calls if what carries one got it from another carrier, or
\* belongs to the request that has just taken it.
LEMMA TokensStep ==
    ASSUME Ownership, TokensNameCalls,
           token' \in {token, token + 1},
           \A x \in Carriers' :
               \/ \E y \in Carriers : y.token = x.token /\ y.call = x.call
               \/ x.token = 0
               \/ x.token = token /\ x.call = calls + 1 /\ token' = token + 1,
           \A x \in Carriers : x.token \in Nat
    PROVE  TokensNameCalls'
  <1>1. token \in Nat /\ token # 0
    BY DEF Ownership, TypeOK, Client!TypeOK
  <1>2. ASSUME NEW x \in Carriers'
        PROVE  x.token < token'
    BY <1>1 DEF TokensNameCalls
  <1>3. ASSUME NEW x \in Carriers', NEW y \in Carriers', x.token # 0, x.token = y.token
        PROVE  x.call = y.call
    <2>1. CASE x.token = token /\ x.call = calls + 1
      <3>1. \A z \in Carriers : z.token # y.token
        BY <1>1, <1>3, <2>1 DEF TokensNameCalls
      <3> QED
        BY <1>3, <2>1, <3>1
    <2>2. CASE y.token = token /\ y.call = calls + 1
      <3>1. \A z \in Carriers : z.token # x.token
        BY <1>1, <1>3, <2>2 DEF TokensNameCalls
      <3> QED
        BY <1>3, <2>2, <3>1
    <2>3. CASE /\ \E z \in Carriers : z.token = x.token /\ z.call = x.call
               /\ \E z \in Carriers : z.token = y.token /\ z.call = y.call
      BY <1>3, <2>3 DEF TokensNameCalls
    <2> QED
      BY <1>3, <2>1, <2>2, <2>3
  <1> QED
    BY <1>2, <1>3 DEF TokensNameCalls

\* Whatever carries a token is typed.
LEMMA CarriersTyped ==
    ASSUME TypeOK
    PROVE  \A x \in Carriers : x.token \in Nat /\ x.call \in Nat
  <1>1. \A x \in live : x.token \in Nat /\ x.call \in Nat
    BY DEF TypeOK, Client!TypeOK, Client!Node
  <1>2. Items(requests) \subseteq Client!Request
    BY ItemsTyped DEF TypeOK
  <1>3. Items(queue) \subseteq Server!Task
    BY ItemsTyped DEF TypeOK, Server!TypeOK
  <1>4. Items(responses) \subseteq Client!Message
    BY ItemsTyped DEF TypeOK
  <1> QED
    BY <1>1, <1>2, <1>3, <1>4 DEF Carriers, Client!Request, Server!Task, Client!Message

-----------------------------------------------------------------------------
(* The steps *)

\* A call of the user that subscribes or releases, and takes no token.
LEMMA TokenlessCall ==
    ASSUME IInv, UNCHANGED server,
           NEW h \in Handles, NEW gone, NEW new, Changes(h, gone, new),
           \A x \in new : x.token = 0 /\ x.id \in PushIds,
           calls' \in Nat, UNCHANGED <<token, called, requests, responses>>
    PROVE  IInv'
  <1>1. Ownership /\ TypeOK
    BY DEF IInv, Ownership
  <1>2. /\ live' \subseteq Client!Node
        /\ handles' \in [Handles -> SUBSET Client!Node]
        /\ HandlesAreExact'
        /\ HandlesOwnTheirNodes'
    BY <1>1, ChangesKeepOwnership
  <1>3. TypeOK'
    <2>1. Client!TypeOK'
      BY <1>1, <1>2 DEF TypeOK, Client!TypeOK, HandlesAreExact, Client!Node, Client!Message
    <2>2. Server!TypeOK'
      BY <1>1 DEF TypeOK, Server!TypeOK, server, Server!Task
    <2> QED
      BY <1>1, <2>1, <2>2 DEF TypeOK, Client!Request, Client!Message
  <1>4. live' \subseteq live \cup new
    BY DEF Changes
  <1>5. KeysAreFresh'
    BY <1>1, <1>4 DEF Ownership, KeysAreFresh
  <1>6. TokensNameCalls'
    <2>1. Carriers' \subseteq Carriers \cup new
      BY <1>4 DEF Carriers, server, Items
    <2> QED
      BY <1>1, <2>1, TokensStep, CarriersTyped DEF IInv
  <1>7. CalledByKey'
    BY DEF IInv, CalledByKey
  <1> QED
    BY <1>2, <1>3, <1>5, <1>6, <1>7 DEF IInv, Ownership

\* A call of the user that sends a request.
LEMMA RequestingCall ==
    ASSUME IInv, UNCHANGED server,
           NEW h \in Handles, NEW r \in RequestIds, NEW ids \in SUBSET ResponseIds,
           NEW gone, Changes(h, gone, NewNodes(ids)), Client!request_internal(r)
    PROVE  IInv'
  <1> DEFINE req == [id |-> r, token |-> token, call |-> calls + 1]
  <1>1. Ownership /\ TypeOK
    BY DEF IInv, Ownership
  <1>2. /\ live' \subseteq Client!Node
        /\ handles' \in [Handles -> SUBSET Client!Node]
        /\ HandlesAreExact'
        /\ HandlesOwnTheirNodes'
    BY <1>1, ChangesKeepOwnership
  <1>3. /\ calls' = calls + 1
        /\ token' = token + 1
        /\ requests' = Append(requests, req)
        /\ UNCHANGED <<called, responses>>
    BY <1>1, TokenIsTaken
  <1>4. calls \in Nat /\ token \in Nat \ {0}
    BY <1>1 DEF TypeOK, Client!TypeOK
  <1>5. req \in Client!Request
    BY <1>4 DEF Client!Request
  <1>6. \A x \in NewNodes(ids) :
            x.token = token /\ x.call = calls + 1 /\ x.id \in ResponseIds
    BY DEF NewNodes
  <1>7. req.token = token /\ req.call = calls + 1
    OBVIOUS
  <1> HIDE DEF req
  <1>8. /\ requests' \in Seq(Client!Request)
        /\ Items(requests') = Items(requests) \cup {req}
    BY <1>1, <1>3, <1>5, ItemsOfAppend DEF TypeOK
  <1>9. TypeOK'
    <2>1. Client!TypeOK'
      BY <1>1, <1>2, <1>3, <1>4
      DEF TypeOK, Client!TypeOK, HandlesAreExact, Client!Node, Client!Message
    <2>2. Server!TypeOK'
      BY <1>1 DEF TypeOK, Server!TypeOK, server, Server!Task
    <2> QED
      BY <1>1, <1>3, <1>8, <2>1, <2>2 DEF TypeOK, Client!Request, Client!Message
  <1>10. live' \subseteq live \cup NewNodes(ids)
    BY DEF Changes
  <1>11. KeysAreFresh'
    <2>1. ASSUME NEW x \in live'
          PROVE  IF x.token = 0 THEN x.id \in PushIds
                                ELSE x.id \in ResponseIds /\ x.token < token'
      <3>1. CASE x \in live
        <4>1. x.token \in Nat
          BY <1>1, <3>1 DEF TypeOK, Client!TypeOK, Client!Node
        <4> QED
          BY <1>1, <1>3, <1>4, <3>1, <4>1 DEF Ownership, KeysAreFresh
      <3>2. CASE x \in NewNodes(ids)
        BY <1>3, <1>4, <1>6, <3>2
      <3> QED
        BY <1>10, <3>1, <3>2
    <2> QED
      BY <2>1 DEF KeysAreFresh
  <1>12. TokensNameCalls'
    <2>1. Carriers' \subseteq Carriers \cup NewNodes(ids) \cup {req}
      BY <1>3, <1>8, <1>10 DEF Carriers, server, Items
    <2>2. \A x \in Carriers' :
            \/ \E y \in Carriers : y.token = x.token /\ y.call = x.call
            \/ x.token = token /\ x.call = calls + 1 /\ token' = token + 1
      BY <1>3, <1>6, <1>7, <2>1
    <2> QED
      BY <1>1, <1>3, <2>2, TokensStep, CarriersTyped DEF IInv
  <1>13. CalledByKey'
    BY <1>3 DEF IInv, CalledByKey
  <1> QED
    BY <1>2, <1>9, <1>11, <1>12, <1>13 DEF IInv, Ownership

\* Any call of the user.
LEMMA UserStep ==
    ASSUME OneSubscriptionPerId, IInv, ClientUser
    PROVE  IInv'
  <1>1. Ownership /\ calls \in Nat
    BY DEF IInv, Ownership, TypeOK, Client!TypeOK
  <1>2. UNCHANGED server
    BY DEF ClientUser
  <1>3. PICK h \in Handles :
            \/ \E i \in PushIds : Client!subscribe(h, i)
            \/ \E r \in RequestIds, i \in ResponseIds : Client!request(h, r, i)
            \/ \E r \in RequestIds, ids \in SUBSET ResponseIds :
                    Client!multi_request(h, r, ids)
            \/ Client!Release(h)
    BY DEF ClientUser, Client!User
  <1>4. ASSUME NEW i \in PushIds, Client!subscribe(h, i)
        PROVE  IInv'
    <2> DEFINE new == {[call |-> calls + 1, id |-> i, token |-> 0]}
    <2>1. /\ Changes(h, handles[h], new)
          /\ calls' = calls + 1
          /\ UNCHANGED <<token, called, requests, responses>>
      BY <1>1, <1>4, SubscribeChanges
    <2>2. \A x \in new : x.token = 0 /\ x.id \in PushIds
      OBVIOUS
    <2>3. calls' \in Nat
      BY <1>1, <2>1
    <2> HIDE DEF new
    <2> QED
      BY <1>2, <2>1, <2>2, <2>3, TokenlessCall
  <1>5. ASSUME NEW r \in RequestIds, NEW i \in ResponseIds, Client!request(h, r, i)
        PROVE  IInv'
    <2>1. Changes(h, handles[h], NewNodes({i})) /\ Client!request_internal(r)
      BY <1>1, <1>5, RequestChanges DEF Client!request
    <2>2. {i} \in SUBSET ResponseIds
      OBVIOUS
    <2> QED
      BY <1>2, <2>1, <2>2, RequestingCall
  <1>6. ASSUME NEW r \in RequestIds, NEW ids \in SUBSET ResponseIds,
               Client!multi_request(h, r, ids)
        PROVE  IInv'
    <2>1. Changes(h, {}, NewNodes(ids)) /\ Client!request_internal(r)
      BY <1>1, <1>6, MultiRequestChanges DEF Client!multi_request
    <2> QED
      BY <1>2, <2>1, RequestingCall
  <1>7. ASSUME Client!Release(h)
        PROVE  IInv'
    <2>1. Changes(h, handles[h], {})
      BY <1>1, <1>7, ReleaseChanges
    <2>2. UNCHANGED <<calls, token, called, requests, responses>>
      BY <1>7 DEF Client!Release
    <2>3. calls' \in Nat
      BY <1>1, <2>2
    <2> QED
      BY <1>2, <2>1, <2>2, <2>3, TokenlessCall
  <1> QED
    BY <1>3, <1>4, <1>5, <1>6, <1>7

\* A step that leaves the client's session alone keeps what is
\* known of its nodes and of the calls made so far.
LEMMA ClientUntouched ==
    ASSUME IInv, UNCHANGED client
    PROVE  /\ Client!TypeOK'
           /\ HandlesAreExact'
           /\ HandlesOwnTheirNodes'
           /\ KeysAreFresh'
           /\ CalledByKey'
  <1>1. Client!TypeOK /\ HandlesAreExact /\ HandlesOwnTheirNodes /\ KeysAreFresh
    BY DEF IInv, Ownership, TypeOK
  <1>2. CalledByKey
    BY DEF IInv
  <1>3. UNCHANGED <<calls, token, live, handles, held, called>>
    BY DEF client
  <1>4. Client!TypeOK'
    BY <1>1, <1>3 DEF Client!TypeOK, Client!Node, Client!Message
  <1>5. HandlesAreExact' /\ KeysAreFresh' /\ CalledByKey'
    BY <1>1, <1>2, <1>3 DEF HandlesAreExact, KeysAreFresh, CalledByKey
  <1>6. HandlesOwnTheirNodes'
    BY <1>1, <1>3 DEF HandlesOwnTheirNodes, Client!HandlesOwnTheirNodes
  <1> QED
    BY <1>4, <1>5, <1>6

\* The client receives a message: whom it calls, it calls by its key.
LEMMA ReceiveStep ==
    ASSUME IInv, ClientReceives
    PROVE  IInv'
  <1> DEFINE m == Head(responses)
  <1>1. Ownership /\ TypeOK
    BY DEF IInv, Ownership
  <1>2. /\ responses # << >>
        /\ responses' = Tail(responses)
        /\ called' = called \cup {[node |-> x, msg |-> m] : x \in Client!Callee(m)}
        /\ UNCHANGED <<calls, token, live, handles, held, requests>>
        /\ UNCHANGED <<open, queue, pushes>>
    BY DEF ClientReceives, Client!message, server
  <1>3. responses \in Seq(Client!Message)
    BY <1>1 DEF TypeOK
  <1>4. /\ responses' \in Seq(Client!Message)
        /\ m \in Client!Message
        /\ m \in Items(responses)
        /\ Items(responses') \subseteq Items(responses)
    BY <1>2, <1>3, ItemsOfTail
  <1> HIDE DEF m
  <1>5. Client!Callee(m) \subseteq live
    BY DEF Client!Callee
  <1>6. ASSUME NEW x \in Client!Callee(m)
        PROVE  /\ x.id = m.id
               /\ IF x.token = 0
                  THEN x.id \in PushIds
                  ELSE x.id \in ResponseIds /\ x.token = m.token /\ x.call = m.call
    <2>1. x \in live /\ x.id = m.id /\ (x.token = 0 \/ x.token = m.token)
      BY <1>6 DEF Client!Callee
    <2>2. IF x.token = 0 THEN x.id \in PushIds ELSE x.id \in ResponseIds
      BY <1>1, <2>1 DEF Ownership, KeysAreFresh
    <2>3. x \in Carriers /\ m \in Carriers
      BY <1>4, <2>1 DEF Carriers
    <2>4. x.token # 0 => x.call = m.call
      BY <2>1, <2>3 DEF IInv, TokensNameCalls
    <2> QED
      BY <2>1, <2>2, <2>4
  <1>7. TypeOK'
    <2>1. live \subseteq Client!Node /\ called \subseteq [node : Client!Node, msg : Client!Message]
      BY <1>1 DEF TypeOK, Client!TypeOK
    <2>2. called' \subseteq [node : Client!Node, msg : Client!Message]
      BY <1>2, <1>4, <1>5, <2>1
    <2>3. Client!TypeOK'
      BY <1>1, <1>2, <2>2 DEF TypeOK, Client!TypeOK, Client!Node, Client!Message
    <2>4. Server!TypeOK'
      BY <1>1, <1>2 DEF TypeOK, Server!TypeOK, Server!Task
    <2> QED
      BY <1>1, <1>2, <1>4, <2>3, <2>4 DEF TypeOK, Client!Request, Client!Message
  <1>8. HandlesAreExact' /\ KeysAreFresh'
    BY <1>1, <1>2 DEF Ownership, HandlesAreExact, KeysAreFresh
  <1>9. HandlesOwnTheirNodes'
    BY <1>1, <1>2 DEF Ownership, HandlesOwnTheirNodes, Client!HandlesOwnTheirNodes
  <1>10. TokensNameCalls'
    <2>1. Carriers' \subseteq Carriers
      BY <1>2, <1>4 DEF Carriers, Items
    <2> QED
      BY <1>1, <1>2, <2>1, TokensStep, CarriersTyped DEF IInv
  <1>11. CalledByKey'
    <2>1. ASSUME NEW c \in called'
          PROVE  /\ c.node.id = c.msg.id
                 /\ IF c.node.token = 0
                    THEN c.node.id \in PushIds
                    ELSE /\ c.node.id \in ResponseIds
                         /\ c.node.token = c.msg.token
                         /\ c.node.call = c.msg.call
      <3>1. CASE c \in called
        BY <3>1 DEF IInv, CalledByKey
      <3>2. CASE c \in {[node |-> x, msg |-> m] : x \in Client!Callee(m)}
        <4>1. PICK x \in Client!Callee(m) : c = [node |-> x, msg |-> m]
          BY <3>2
        <4>2. c.node = x /\ c.msg = m
          BY <4>1
        <4> QED
          BY <1>6, <4>2
      <3> QED
        BY <1>2, <3>1, <3>2
    <2> QED
      BY <2>1 DEF CalledByKey
  <1> QED
    BY <1>7, <1>8, <1>9, <1>10, <1>11 DEF IInv, Ownership

\* A handler or a continuation of the server runs for something that carries the
\* request's token, and passes that token and that call on.
LEMMA RespondStep ==
    ASSUME IInv, NEW tasks \in Seq(Server!Task), Items(tasks) \subseteq Items(queue),
           NEW x \in Carriers, NEW defers \in Nat,
           Server!Respond(tasks, x.token, x.call, defers)
    PROVE  /\ queue' \in Seq(Server!Task)
           /\ responses' \in Seq(Client!Message)
           /\ \A y \in Items(queue') \cup Items(responses') :
                  \E z \in Carriers : z.token = y.token /\ z.call = y.call
  <1>1. TypeOK /\ responses \in Seq(Client!Message)
    BY DEF IInv, Ownership, TypeOK
  <1>2. x.token \in Nat /\ x.call \in Nat
    BY <1>1, CarriersTyped
  <1>3. PICK answers \in Server!Answers : Server!respond(answers, x.token, x.call)
    BY DEF Server!Respond
  <1> DEFINE sent == [k \in 1..Len(answers) |->
                          [id |-> answers[k], token |-> x.token, call |-> x.call]]
  <1>4. PICK n \in Nat : answers \in [1..n -> ResponseIds] /\ n \in 0..MaxAnswers
    BY RpcAssumption DEF Server!Answers
  <1>5. answers \in Seq(ResponseIds)
    BY <1>4
  <1>6. sent \in Seq(Client!Message)
    BY <1>2, <1>5 DEF Client!Message
  <1>7. \A y \in Items(sent) : y.token = x.token /\ y.call = x.call
    <2>1. Len(answers) \in Nat /\ Len(sent) = Len(answers)
      BY <1>5, <1>6
    <2>2. \A k \in 1..Len(sent) : sent[k].token = x.token /\ sent[k].call = x.call
      BY <2>1
    <2> HIDE DEF sent
    <2> QED
      BY <2>2 DEF Items
  <1>8. responses' = responses \o sent
    BY <1>3 DEF Server!respond
  <1> HIDE DEF sent
  <1>9. /\ responses' \in Seq(Client!Message)
        /\ Items(responses') \subseteq Items(responses) \cup Items(sent)
    BY <1>1, <1>6, <1>8, ItemsOfConcat
  <1> DEFINE task == [token |-> x.token, call |-> x.call, defers |-> defers + 1]
  <1>10. task \in Server!Task /\ task.token = x.token /\ task.call = x.call
    BY <1>2 DEF Server!Task
  <1>11. queue' = tasks \/ queue' = Append(tasks, task)
    BY DEF Server!Respond, Server!schedule_continuation
  <1> HIDE DEF task
  <1>12. /\ queue' \in Seq(Server!Task)
         /\ Items(queue') \subseteq Items(queue) \cup {task}
    <2>1. CASE queue' = tasks
      BY <2>1
    <2>2. CASE queue' = Append(tasks, task)
      <3>1. /\ Append(tasks, task) \in Seq(Server!Task)
            /\ Items(Append(tasks, task)) = Items(tasks) \cup {task}
        BY <1>10, ItemsOfAppend
      <3> QED
        BY <2>2, <3>1
    <2> QED
      BY <1>11, <2>1, <2>2
  <1>13. Items(queue) \subseteq Carriers /\ Items(responses) \subseteq Carriers
    BY DEF Carriers
  <1>14. ASSUME NEW y \in Items(queue') \cup Items(responses')
         PROVE  \E z \in Carriers : z.token = y.token /\ z.call = y.call
    BY <1>7, <1>9, <1>10, <1>12, <1>13
  <1> QED
    BY <1>9, <1>12, <1>14

\* The server runs the handler of a request, or drops a request without one.
LEMMA ServerReceiveStep ==
    ASSUME IInv, ServerReceives
    PROVE  IInv'
  <1> DEFINE m == Head(requests)
  <1>1. Ownership /\ TypeOK /\ requests \in Seq(Client!Request) /\ queue \in Seq(Server!Task)
    BY DEF IInv, Ownership, TypeOK, Server!TypeOK
  <1>2. /\ open
        /\ requests # << >>
        /\ requests' = Tail(requests)
        /\ UNCHANGED <<open, pushes>>
        /\ UNCHANGED client
    BY DEF ServerReceives, Server!message
  <1>3. /\ requests' \in Seq(Client!Request)
        /\ m \in Items(requests)
        /\ Items(requests') \subseteq Items(requests)
    BY <1>1, <1>2, ItemsOfTail
  <1>4. Server!Respond(queue, m.token, m.call, 0) \/ UNCHANGED <<queue, responses>>
    BY DEF ServerReceives, Server!message
  <1> HIDE DEF m
  <1>5. m \in Carriers
    BY <1>3 DEF Carriers
  <1>6. /\ queue' \in Seq(Server!Task)
        /\ responses' \in Seq(Client!Message)
        /\ \A y \in Items(queue') \cup Items(responses') :
                \E z \in Carriers : z.token = y.token /\ z.call = y.call
    <2>1. CASE Server!Respond(queue, m.token, m.call, 0)
      BY <1>1, <1>5, <2>1, RespondStep
    <2>2. CASE UNCHANGED <<queue, responses>>
      BY <1>1, <2>2 DEF TypeOK, Carriers
    <2> QED
      BY <1>4, <2>1, <2>2
  <1>7. TypeOK'
    <2>1. Server!TypeOK'
      BY <1>1, <1>2, <1>6 DEF TypeOK, Server!TypeOK, Server!Task
    <2> QED
      BY <1>2, <1>3, <1>6, <2>1, ClientUntouched DEF TypeOK, Client!Request, Client!Message
  <1>8. TokensNameCalls'
    <2>1. token' = token /\ live' = live
      BY <1>2 DEF client
    <2>2. Carriers' = live \cup Items(requests') \cup Items(queue') \cup Items(responses')
      BY <2>1 DEF Carriers, Items
    <2>3. \A y \in Carriers' : \E z \in Carriers : z.token = y.token /\ z.call = y.call
      BY <1>3, <1>6, <2>2 DEF Carriers
    <2> QED
      BY <1>1, <2>1, <2>3, TokensStep, CarriersTyped DEF IInv
  <1> QED
    BY <1>2, <1>7, <1>8, ClientUntouched DEF IInv, Ownership

\* The server's queue runs a continuation.
LEMMA ContinueStep ==
    ASSUME IInv, ServerContinues
    PROVE  IInv'
  <1> DEFINE t == Head(queue)
  <1>1. Ownership /\ TypeOK /\ queue \in Seq(Server!Task)
    BY DEF IInv, Ownership, TypeOK, Server!TypeOK
  <1>2. /\ queue # << >>
        /\ Server!Respond(Tail(queue), t.token, t.call, t.defers)
        /\ UNCHANGED <<open, pushes, requests>>
        /\ UNCHANGED client
    BY DEF ServerContinues, Server!continuation
  <1>3. /\ Tail(queue) \in Seq(Server!Task)
        /\ t \in Server!Task
        /\ t \in Items(queue)
        /\ Items(Tail(queue)) \subseteq Items(queue)
    BY <1>1, <1>2, ItemsOfTail
  <1> HIDE DEF t
  <1>4. t \in Carriers /\ t.defers \in Nat
    BY <1>3 DEF Carriers, Server!Task
  <1>5. /\ queue' \in Seq(Server!Task)
        /\ responses' \in Seq(Client!Message)
        /\ \A y \in Items(queue') \cup Items(responses') :
                \E z \in Carriers : z.token = y.token /\ z.call = y.call
    BY <1>2, <1>3, <1>4, RespondStep
  <1>6. TypeOK'
    <2>1. Server!TypeOK'
      BY <1>1, <1>2, <1>5 DEF TypeOK, Server!TypeOK, Server!Task
    <2> QED
      BY <1>1, <1>2, <1>5, <2>1, ClientUntouched DEF TypeOK, Client!Request, Client!Message
  <1>7. TokensNameCalls'
    <2>1. token' = token /\ live' = live
      BY <1>2 DEF client
    <2>2. Carriers' = live \cup Items(requests) \cup Items(queue') \cup Items(responses')
      BY <1>2, <2>1 DEF Carriers, Items
    <2>3. \A y \in Carriers' : \E z \in Carriers : z.token = y.token /\ z.call = y.call
      BY <1>5, <2>2 DEF Carriers
    <2> QED
      BY <1>1, <2>1, <2>3, TokensStep, CarriersTyped DEF IInv
  <1> QED
    BY <1>2, <1>6, <1>7, ClientUntouched DEF IInv, Ownership

\* The server sends a message that answers nothing.
LEMMA PushStep ==
    ASSUME IInv, ServerPushes
    PROVE  IInv'
  <1>1. Ownership /\ TypeOK /\ responses \in Seq(Client!Message)
    BY DEF IInv, Ownership, TypeOK
  <1>2. PICK i \in PushIds : Server!push(i)
    BY DEF ServerPushes
  <1> DEFINE m == [id |-> i, token |-> 0, call |-> 0]
  <1>3. /\ open
        /\ pushes < MaxPushes
        /\ pushes' = pushes + 1
        /\ responses' = Append(responses, m)
        /\ UNCHANGED <<open, queue, requests>>
        /\ UNCHANGED client
    BY <1>2 DEF ServerPushes, Server!push
  <1>4. m \in Client!Message /\ m.token = 0
    BY DEF Client!Message
  <1> HIDE DEF m
  <1>5. /\ responses' \in Seq(Client!Message)
        /\ Items(responses') = Items(responses) \cup {m}
    BY <1>1, <1>3, <1>4, ItemsOfAppend
  <1>6. TypeOK'
    <2>1. pushes' \in 0..MaxPushes
      BY <1>1, <1>3, RpcAssumption DEF TypeOK, Server!TypeOK
    <2>2. Server!TypeOK'
      BY <1>1, <1>3, <2>1 DEF TypeOK, Server!TypeOK, Server!Task
    <2> QED
      BY <1>1, <1>3, <1>5, <2>2, ClientUntouched DEF TypeOK, Client!Request, Client!Message
  <1>7. TokensNameCalls'
    <2>1. token' = token /\ live' = live
      BY <1>3 DEF client
    <2>2. Carriers' \subseteq Carriers \cup {m}
      BY <1>3, <1>5, <2>1 DEF Carriers, Items
    <2> QED
      BY <1>1, <1>4, <2>1, <2>2, TokensStep, CarriersTyped DEF IInv
  <1> QED
    BY <1>3, <1>6, <1>7, ClientUntouched DEF IInv, Ownership

\* The server's session ends, and forgets its continuations.
LEMMA EndStep ==
    ASSUME IInv, ServerEnds
    PROVE  IInv'
  <1>1. Ownership /\ TypeOK
    BY DEF IInv, Ownership
  <1>2. /\ open' = FALSE
        /\ queue' = << >>
        /\ UNCHANGED <<pushes, requests, responses>>
        /\ UNCHANGED client
    BY DEF ServerEnds, Server!destroy
  <1>3. queue' \in Seq(Server!Task) /\ Items(queue') = {}
    BY <1>2 DEF Items
  <1>4. TypeOK'
    <2>1. Server!TypeOK'
      BY <1>1, <1>2, <1>3 DEF TypeOK, Server!TypeOK, Server!Task
    <2> QED
      BY <1>1, <1>2, <2>1, ClientUntouched DEF TypeOK, Client!Request, Client!Message
  <1>5. TokensNameCalls'
    <2>1. token' = token /\ live' = live
      BY <1>2 DEF client
    <2>2. Carriers' \subseteq Carriers
      BY <1>2, <1>3, <2>1 DEF Carriers, Items
    <2> QED
      BY <1>1, <2>1, <2>2, TokensStep, CarriersTyped DEF IInv
  <1> QED
    BY <1>2, <1>4, <1>5, ClientUntouched DEF IInv, Ownership

-----------------------------------------------------------------------------
(* The theorems *)

\* The invariant holds of every behaviour in which the user does not subscribe
\* twice to an id.
THEOREM Invariance ==
    ASSUME OneSubscriptionPerId
    PROVE  SafeSpec => []IInv
  <1>1. Init => IInv
    <2>1. SUFFICES ASSUME Init PROVE IInv
      OBVIOUS
    <2>2. /\ calls = 0 /\ token = 1 /\ live = {} /\ called = {}
          /\ handles = [h \in Handles |-> {}]
          /\ held = [h \in Handles |-> {}]
          /\ queue = << >> /\ requests = << >> /\ responses = << >>
      BY <2>1 DEF Init, Client!Init, Server!Init
    <2>3. TypeOK
      <3>1. Client!TypeOK
        BY <2>2 DEF Client!TypeOK
      <3>2. pushes \in 0..MaxPushes
        BY <2>1, RpcAssumption DEF Init, Server!Init
      <3>3. Server!TypeOK
        BY <2>1, <2>2, <3>2 DEF Init, Server!Init, Server!TypeOK
      <3> QED
        BY <2>2, <3>1, <3>3 DEF TypeOK
    <2>4. HandlesAreExact /\ HandlesOwnTheirNodes /\ KeysAreFresh /\ CalledByKey
      BY <2>2 DEF HandlesAreExact, HandlesOwnTheirNodes, Client!HandlesOwnTheirNodes,
                  KeysAreFresh, CalledByKey
    <2>5. Carriers = {}
      BY <2>2 DEF Carriers, Items
    <2> QED
      BY <2>3, <2>4, <2>5 DEF IInv, Ownership, TokensNameCalls
  <1>2. ASSUME IInv, [Next]_vars
        PROVE  IInv'
    <2>1. CASE ClientUser
      BY <1>2, <2>1, UserStep
    <2>2. CASE ClientReceives
      BY <1>2, <2>2, ReceiveStep
    <2>3. CASE ServerReceives
      BY <1>2, <2>3, ServerReceiveStep
    <2>4. CASE ServerContinues
      BY <1>2, <2>4, ContinueStep
    <2>5. CASE ServerPushes
      BY <1>2, <2>5, PushStep
    <2>6. CASE ServerEnds
      BY <1>2, <2>6, EndStep
    <2>7. CASE UNCHANGED vars
      <3>1. /\ UNCHANGED client
            /\ UNCHANGED <<open, queue, pushes, requests, responses>>
        BY <2>7 DEF vars, server
      <3>2. Ownership /\ TypeOK
        BY <1>2 DEF IInv, Ownership
      <3>3. Server!TypeOK'
        BY <3>1, <3>2 DEF TypeOK, Server!TypeOK, Server!Task
      <3>4. TypeOK'
        BY <1>2, <3>1, <3>2, <3>3, ClientUntouched DEF TypeOK, Client!Request, Client!Message
      <3>5. Carriers' = Carriers /\ token' = token
        BY <3>1 DEF client, Carriers, Items
      <3>6. TokensNameCalls'
        BY <1>2, <3>5 DEF IInv, TokensNameCalls
      <3> QED
        BY <1>2, <3>1, <3>4, <3>6, ClientUntouched DEF IInv, Ownership
    <2> QED
      BY <1>2, <2>1, <2>2, <2>3, <2>4, <2>5, <2>6, <2>7 DEF Next
  <1> QED
    BY <1>1, <1>2, PTL DEF SafeSpec

\* While a handle is not reset, every callback it was obtained for is registered.
THEOREM CallbacksStayRegistered ==
    ASSUME OneSubscriptionPerId
    PROVE  SafeSpec => []CallbacksAreHeld
  <1>1. IInv => CallbacksAreHeld
    BY DEF IInv, Ownership, HandlesAreExact, HandlesOwnTheirNodes,
           Client!HandlesOwnTheirNodes, CallbacksAreHeld, Client!CallbacksAreHeld
  <1>2. SafeSpec => []IInv
    BY Invariance
  <1> QED
    BY <1>1, <1>2, PTL

\* Handles own disjoint sets of living nodes and, together, all of them: no
\* deleter erases a node twice, and none is left without a deleter.
THEOREM HandlesOwnNodes ==
    ASSUME OneSubscriptionPerId
    PROVE  SafeSpec => []HandlesOwnTheirNodes
  <1>1. IInv => HandlesOwnTheirNodes
    BY DEF IInv, Ownership
  <1>2. SafeSpec => []IInv
    BY Invariance
  <1> QED
    BY <1>1, <1>2, PTL

\* A response, immediate or deferred any number of times, calls the callback of
\* the request it answers and no other.
THEOREM ResponsesAreRouted ==
    ASSUME OneSubscriptionPerId
    PROVE  SafeSpec => []RoutedToItsRequest
  <1>1. IInv => RoutedToItsRequest
    <2>1. SUFFICES ASSUME IInv, NEW c \in called
                   PROVE  /\ c.node.id = c.msg.id
                          /\ c.node.token # 0 => c.node.call = c.msg.call
                          /\ \A d \in called :
                                d.msg = c.msg /\ d.node.token # 0 => d.node = c.node
      BY DEF RoutedToItsRequest, Client!RoutedToItsRequest
    <2>2. /\ c.node.id = c.msg.id
          /\ c.node.token # 0 => c.node.call = c.msg.call
      BY <2>1 DEF IInv, CalledByKey
    <2>3. ASSUME NEW d \in called, d.msg = c.msg, d.node.token # 0
          PROVE  d.node = c.node
      <3>1. /\ d.node.id = c.msg.id /\ d.node.id \in ResponseIds
            /\ d.node.token = c.msg.token /\ d.node.call = c.msg.call
        BY <2>1, <2>3 DEF IInv, CalledByKey
      <3>2. c.node.token # 0
        BY <2>1, <2>2, <3>1, RpcAssumption DEF IInv, CalledByKey
      <3>3. c.node.token = c.msg.token /\ c.node.call = c.msg.call
        BY <2>1, <3>2 DEF IInv, CalledByKey
      <3>4. c.node \in Client!Node /\ d.node \in Client!Node
        BY <2>1 DEF IInv, Ownership, TypeOK, Client!TypeOK
      <3> QED
        BY <2>2, <3>1, <3>3, <3>4 DEF Client!Node
    <2> QED
      BY <2>2, <2>3
  <1>2. SafeSpec => []IInv
    BY Invariance
  <1> QED
    BY <1>1, <1>2, PTL

\* A callback that runs is held by a handle that has not been reset.
THEOREM OnlyHeldRun ==
    ASSUME OneSubscriptionPerId
    PROVE  SafeSpec => OnlyHeldCallbacksRun
  <1>1. ASSUME IInv, [Next]_vars
        PROVE  [\A c \in called' \ called :
                    \E h \in Handles : c.node \in held[h]]_vars
    <2>1. ASSUME ClientReceives, NEW c \in called' \ called
          PROVE  \E h \in Handles : c.node \in held[h]
      <3>1. PICK x \in Client!Callee(Head(responses)) :
                c = [node |-> x, msg |-> Head(responses)]
        BY <2>1 DEF ClientReceives, Client!message
      <3>2. c.node \in live
        BY <3>1 DEF Client!Callee
      <3> QED
        BY <1>1, <3>2 DEF IInv, Ownership, HandlesAreExact, HandlesOwnTheirNodes,
                          Client!HandlesOwnTheirNodes
    <2>2. ASSUME ClientUser
          PROVE  called' = called
      BY <2>2 DEF ClientUser, Client!User, Client!subscribe, Client!request,
                  Client!multi_request, Client!request_internal, Client!Release
    <2>3. ASSUME UNCHANGED client
          PROVE  called' = called
      BY <2>3 DEF client
    <2> QED
      BY <1>1, <2>1, <2>2, <2>3
      DEF Next, ServerReceives, ServerContinues, ServerPushes, ServerEnds, vars
  <1>2. SafeSpec => []IInv
    BY Invariance
  <1> QED
    BY <1>1, <1>2, PTL DEF SafeSpec, OnlyHeldCallbacksRun

\* Everything on either side, and on the way, has its type.
THEOREM TypesAreKept ==
    ASSUME OneSubscriptionPerId
    PROVE  SafeSpec => []TypeOK
  <1>1. IInv => TypeOK
    BY DEF IInv, Ownership
  <1>2. SafeSpec => []IInv
    BY Invariance
  <1> QED
    BY <1>1, <1>2, PTL
=============================================================================
