--------------------------------- MODULE Rpc ---------------------------------
(***************************************************************************)
(* A client session and a server session joined by a channel: two queues   *)
(* of messages, in order and without loss as long as the server's session  *)
(* exists, which is what every endpoint of the repository offers.          *)
(***************************************************************************)
EXTENDS Naturals, Sequences

CONSTANTS
    Handles, PushIds, ResponseIds, RequestIds, Handled,
    OneSubscriptionPerId, HasQueue, MaxCalls, MaxAnswers, MaxDefers, MaxPushes

\* An id names a response or a message of the server's own, not both: the client
\* reads a token from the former only.
ASSUME RpcAssumption ==
    /\ PushIds \cap ResponseIds = {}
    /\ Handled \subseteq RequestIds
    /\ OneSubscriptionPerId \in BOOLEAN /\ HasQueue \in BOOLEAN
    /\ {MaxCalls, MaxAnswers, MaxDefers, MaxPushes} \subseteq Nat

VARIABLES
    calls, token, live, handles, held, called,  \* the client's session
    open, queue, pushes,                        \* the server's session
    requests,                                   \* from client to server
    responses                                   \* from server to client

Client == INSTANCE ClientSession WITH outbound <- requests, inbound <- responses
Server == INSTANCE ServerSession WITH outbound <- responses, inbound <- requests

client == <<calls, token, live, handles, held, called>>
server == <<open, queue, pushes>>
vars == <<client, server, requests, responses>>

TypeOK ==
    /\ Client!TypeOK
    /\ Server!TypeOK
    /\ requests \in Seq(Client!Request)
    /\ responses \in Seq(Client!Message)

Init ==
    /\ Client!Init
    /\ Server!Init
    /\ requests = << >>
    /\ responses = << >>

ClientUser == Client!User /\ UNCHANGED server
ClientReceives == Client!message /\ UNCHANGED server
ServerReceives == Server!message /\ UNCHANGED client
ServerContinues == Server!continuation /\ UNCHANGED client
ServerPushes == (\E i \in PushIds : Server!push(i)) /\ UNCHANGED client

\* disconnect() calls the disconnect handler, which lets the session go.
ServerEnds == Server!destroy /\ UNCHANGED client

Next ==
    \/ ClientUser
    \/ ClientReceives
    \/ ServerReceives
    \/ ServerContinues
    \/ ServerPushes
    \/ ServerEnds

\* The threads that receive, and the one that runs the apartment's queue, do so.
Fairness ==
    /\ WF_vars(ClientReceives)
    /\ WF_vars(ServerReceives)
    /\ WF_vars(ServerContinues)

SafeSpec == Init /\ [][Next]_vars
Spec == SafeSpec /\ Fairness

-----------------------------------------------------------------------------
(* Properties *)

\* Callbacks stay registered as long as their handles, one owner each.
CallbacksAreHeld == Client!CallbacksAreHeld

HandlesOwnTheirNodes == Client!HandlesOwnTheirNodes

\* A response comes back to the request it answers, immediate or deferred any
\* number of times, and to nobody else.
RoutedToItsRequest == Client!RoutedToItsRequest

\* A callback runs only while a handle holds it: once the user has reset the
\* handle nothing arrives, though the answer may be on its way.
OnlyHeldCallbacksRun ==
    [][\A c \in called' \ called : \E h \in Handles : c.node \in held[h]]_vars

\* Call n is waiting for a response of id i, and holds the callback for it.
Awaits(n, i) == \E x \in live : x.call = n /\ x.id = i /\ x.token # 0

\* A response on its way to a callback that is held gets there, whatever other
\* requests with the same ids are waiting beside it.
HeldCallbacksAreCalled ==
    \A n \in 1..MaxCalls, i \in ResponseIds :
        /\ Awaits(n, i)
        /\ \E k \in 1..Len(responses) : responses[k].call = n /\ responses[k].id = i
        ~> \/ ~Awaits(n, i)
           \/ \E c \in called : c.node.call = n /\ c.node.id = i
=============================================================================
