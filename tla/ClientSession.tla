---------------------------- MODULE ClientSession ----------------------------
(***************************************************************************)
(* coipc::strmd::client_session (coipc/strmd/client_session.h and          *)
(* src/strmd/client_session.cpp): requests are numbered with tokens,       *)
(* callbacks wait in two maps, and what the user keeps of a subscription   *)
(* or a request is a handle, a shared_ptr whose deleter erases the map's   *)
(* nodes.                                                                  *)
(*                                                                         *)
(* A node is named by the call that inserted it and by its key: the id and *)
(* the token, 0 for a node of _message_callbacks and the request's token   *)
(* for one of _callbacks.  Since insert() keeps what it finds, a node also *)
(* stands for the callback of the call that inserted it.                   *)
(*                                                                         *)
(* The class has no locks: calls and message() are serialized by its user. *)
(* request() is one action because nothing can answer before its last      *)
(* statement has sent the request.                                         *)
(***************************************************************************)
EXTENDS Naturals, Sequences

CONSTANTS
    Handles,        \* the user's handles
    PushIds,        \* ids of the messages the server sends on its own
    ResponseIds,    \* ids of responses; no id is both, see Rpc
    RequestIds,     \* ids of requests
    OneSubscriptionPerId,   \* whether the user never subscribes to an id twice
    MaxCalls        \* bound: subscribe() and request() calls

VARIABLES
    calls,      \* subscribe() and request() calls made
    token,      \* _token
    live,       \* the nodes in the two maps
    handles,    \* handles[h]: the nodes the deleter of h erases
    held,       \* history: held[h]: the callbacks h was obtained for
    called,     \* history: the callbacks called, and the message they got
    outbound,   \* requests sent
    inbound     \* messages to be received

session == <<calls, token, live, handles, held, called>>

Node == [call : Nat, id : PushIds \cup ResponseIds, token : Nat]
Request == [id : RequestIds, token : Nat, call : Nat]
Message == [id : PushIds \cup ResponseIds, token : Nat, call : Nat]

TypeOK ==
    /\ calls \in Nat
    /\ token \in Nat \ {0}
    /\ live \subseteq Node
    /\ handles \in [Handles -> SUBSET Node]
    /\ held \in [Handles -> SUBSET Node]
    /\ called \subseteq [node : Node, msg : Message]

Init ==
    /\ calls = 0
    /\ token = 1
    /\ live = {}
    /\ handles = [h \in Handles |-> {}]
    /\ held = [h \in Handles |-> {}]
    /\ called = {}

-----------------------------------------------------------------------------
SameKey(x, y) == x.id = y.id /\ x.token = y.token

\* Where map::insert() leaves the iterator: at the node with that key, if any.
Located(x) == IF \E y \in live : SameKey(x, y)
              THEN CHOOSE y \in live : SameKey(x, y)
              ELSE x

\* insert() and handle.reset(): the new node first, then the old value's deleter.
Replace(h, x) ==
    /\ live' = (live \cup {Located(x)}) \ handles[h]
    /\ handles' = [handles EXCEPT ![h] = {Located(x)}]
    /\ held' = [held EXCEPT ![h] = {x}]

Subscribed(i) == \E x \in live : x.id = i /\ x.token = 0

subscribe(h, i) ==
    /\ calls < MaxCalls
    /\ OneSubscriptionPerId => ~Subscribed(i)
    /\ calls' = calls + 1
    /\ Replace(h, [call |-> calls', id |-> i, token |-> 0])
    /\ UNCHANGED <<token, called, outbound, inbound>>

\* Take a token, and send the request once its callbacks are in place.
request_internal(r) ==
    /\ calls < MaxCalls
    /\ calls' = calls + 1
    /\ token' = token + 1
    /\ outbound' = Append(outbound, [id |-> r, token |-> token, call |-> calls'])
    /\ UNCHANGED <<called, inbound>>

request(h, r, i) ==
    /\ request_internal(r)
    /\ Replace(h, [call |-> calls', id |-> i, token |-> token])

\* The mutation of multi_request that keeps the last node only.
MultiKeepsLast(h, r, ids) ==
    LET new == {[call |-> calls', id |-> i, token |-> token] : i \in ids}
    IN  /\ request_internal(r)
        /\ live' = live \cup {Located(x) : x \in new}
        /\ handles' = [handles EXCEPT ![h] =
                            IF ids = {} THEN @ ELSE {CHOOSE x \in new : TRUE}]
        /\ held' = [held EXCEPT ![h] = @ \cup new]

\* The overload with a callback for each of several responses, their ids distinct:
\* the new nodes are chained to what the handle already holds.
multi_request(h, r, ids) ==
    LET new == {[call |-> calls', id |-> i, token |-> token] : i \in ids}
    IN  /\ request_internal(r)
        /\ live' = live \cup {Located(x) : x \in new}
        /\ handles' = [handles EXCEPT ![h] = @ \cup {Located(x) : x \in new}]
        /\ held' = [held EXCEPT ![h] = @ \cup new]

\* The mutation of Release that erases by id instead of by iterator.
ReleaseById(h) ==
    /\ handles[h] # {}
    /\ live' = {x \in live : \A y \in handles[h] : x.id # y.id}
    /\ handles' = [handles EXCEPT ![h] = {}]
    /\ held' = [held EXCEPT ![h] = {}]
    /\ UNCHANGED <<calls, token, called, outbound, inbound>>

\* The mutation of Release without the deleter.
ReleaseLeaks(h) ==
    /\ handles[h] # {}
    /\ handles' = [handles EXCEPT ![h] = {}]
    /\ held' = [held EXCEPT ![h] = {}]
    /\ UNCHANGED <<calls, token, live, called, outbound, inbound>>

\* The user resets a handle.
Release(h) ==
    /\ handles[h] # {}
    /\ live' = live \ handles[h]
    /\ handles' = [handles EXCEPT ![h] = {}]
    /\ held' = [held EXCEPT ![h] = {}]
    /\ UNCHANGED <<calls, token, called, outbound, inbound>>

\* The mutation of Callee that takes the oldest request waiting for the id
\* (lower_bound() for find()).
CalleeOldest(m) ==
    IF Subscribed(m.id)
    THEN {x \in live : x.id = m.id /\ x.token = 0}
    ELSE {x \in live : x.id = m.id /\ \A y \in live : y.id = m.id => x.token <= y.token}

\* Whom message() calls: the subscription to the id or else the request with the
\* id and the token that the message carries; nobody otherwise.
Callee(m) ==
    IF Subscribed(m.id)
    THEN {x \in live : x.id = m.id /\ x.token = 0}
    ELSE {x \in live : x.id = m.id /\ x.token = m.token}

message ==
    /\ inbound # << >>
    /\ inbound' = Tail(inbound)
    /\ called' = called \cup {[node |-> x, msg |-> Head(inbound)] : x \in Callee(Head(inbound))}
    /\ UNCHANGED <<calls, token, live, handles, held, outbound>>

User ==
    \E h \in Handles :
        \/ \E i \in PushIds : subscribe(h, i)
        \/ \E r \in RequestIds, i \in ResponseIds : request(h, r, i)
        \/ \E r \in RequestIds, ids \in SUBSET ResponseIds : multi_request(h, r, ids)
        \/ Release(h)

Next == User \/ message

-----------------------------------------------------------------------------
(* Properties *)

\* A callback is held as long as the handle it was obtained with: while a handle
\* is not reset, what it was obtained for stays registered.
CallbacksAreHeld == \A h \in Handles : held[h] \subseteq live

\* Handles own disjoint, living nodes, so that no deleter erases a node twice,
\* and nothing is registered that no handle would release.
HandlesOwnTheirNodes ==
    /\ \A h \in Handles : handles[h] \subseteq live
    /\ \A g, h \in Handles : g # h => handles[g] \cap handles[h] = {}
    /\ live \subseteq UNION {handles[h] : h \in Handles}

\* A message reaches at most one callback, of a subscription to its id or of the
\* very request it answers, although calls share ids and handles are reused.
RoutedToItsRequest ==
    \A c \in called :
        /\ c.node.id = c.msg.id
        /\ c.node.token # 0 => c.node.call = c.msg.call
        /\ \A d \in called : d.msg = c.msg /\ d.node.token # 0 => d.node = c.node
=============================================================================
