---------------------------- MODULE ServerSession ----------------------------
(***************************************************************************)
(* coipc::strmd::server_session (coipc/strmd/server_session.h and          *)
(* src/strmd/server_session.cpp): a request is given to the handler added  *)
(* for its id with a response object bound to the request's token; the     *)
(* handler answers any number of times, and may defer, in which case its   *)
(* continuation runs later from the apartment's queue, with a response     *)
(* object of the same token, and may defer again.                          *)
(*                                                                         *)
(* Handlers and continuations are the user's: which responses they give    *)
(* and whether they defer is nondeterministic.  A request carries, besides *)
(* its token, the call that made it; the session does not see that part.   *)
(* The tasker::private_queue is external: it runs tasks in order, and      *)
(* forgets those still queued when it is destroyed with the session.       *)
(***************************************************************************)
EXTENDS Naturals, Sequences

CONSTANTS
    PushIds, ResponseIds,
    Handled,        \* the ids of requests a handler was added for
    HasQueue,       \* whether the session has an apartment queue
    MaxAnswers,     \* bound: responses of one run of a handler
    MaxDefers,      \* bound: deferrals of one request
    MaxPushes       \* bound: messages the server sends on its own

VARIABLES
    open,       \* the session exists
    queue,      \* continuations scheduled in _apartment_queue
    pushes,     \* messages sent so far that answer nothing
    inbound,    \* requests to be received
    outbound    \* messages sent

session == <<open, queue, pushes>>

Task == [token : Nat, call : Nat, defers : Nat]

TypeOK ==
    /\ open \in BOOLEAN
    /\ queue \in Seq(Task)
    /\ pushes \in 0..MaxPushes

Init ==
    /\ open = TRUE
    /\ queue = << >>
    /\ pushes = 0

\* What a handler may answer before it returns.
Answers == UNION {[1..n -> ResponseIds] : n \in 0..MaxAnswers}

\* The mutation of respond that leaves the token out.
RespondWithoutToken(answers, tok, call) ==
    outbound' = outbound \o
        [k \in 1..Len(answers) |-> [id |-> answers[k], call |-> call]]

\* response::respond(), for each answer: the id, the token and the result.
respond(answers, tok, call) ==
    outbound' = outbound \o
        [k \in 1..Len(answers) |-> [id |-> answers[k], token |-> tok, call |-> call]]

\* The mutation of schedule that numbers continuations by their place in the queue.
ScheduleByPlace(tasks, tok, call, defers) ==
    Append(tasks, [token |-> Len(tasks) + 1, call |-> call, defers |-> defers + 1])

schedule_continuation(tasks, tok, call, defers) ==
    Append(tasks, [token |-> tok, call |-> call, defers |-> defers + 1])

\* A handler or a continuation runs with a response object for tok: it answers,
\* and if it has deferred (possible with a queue only, else defer() throws) its
\* continuation is scheduled once it has returned.
Respond(tasks, tok, call, defers) ==
    /\ \E answers \in Answers : respond(answers, tok, call)
    /\ \/ queue' = tasks
       \/ /\ HasQueue
          /\ defers < MaxDefers
          /\ queue' = schedule_continuation(tasks, tok, call, defers)

\* message(): a request without a handler is dropped.
message ==
    /\ open
    /\ inbound # << >>
    /\ inbound' = Tail(inbound)
    /\ \/ /\ Head(inbound).id \in Handled
          /\ Respond(queue, Head(inbound).token, Head(inbound).call, 0)
       \/ /\ Head(inbound).id \notin Handled
          /\ UNCHANGED <<queue, outbound>>
    /\ UNCHANGED <<open, pushes>>

\* The apartment's queue runs the oldest continuation.
continuation ==
    /\ queue # << >>
    /\ Respond(Tail(queue), Head(queue).token, Head(queue).call, Head(queue).defers)
    /\ UNCHANGED <<open, pushes, inbound>>

\* message(id, formatter), called by the user.
push(i) ==
    /\ open
    /\ pushes < MaxPushes
    /\ pushes' = pushes + 1
    /\ outbound' = Append(outbound, [id |-> i, token |-> 0, call |-> 0])
    /\ UNCHANGED <<open, queue, inbound>>

\* The session is destroyed, and its private_queue with it, which forgets the tasks that
\* have not run: that a continuation does not outlive the members it refers to is the
\* queue's promise, taken from how the session uses it.
destroy ==
    /\ open
    /\ open' = FALSE
    /\ queue' = << >>
    /\ UNCHANGED <<pushes, inbound, outbound>>

Next == message \/ continuation \/ (\E i \in PushIds : push(i)) \/ destroy
=============================================================================
