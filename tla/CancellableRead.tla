-------------------------- MODULE CancellableRead --------------------------
(***************************************************************************)
(* What coipc::cancellable_read promises (coipc/cancellable_read.h): one   *)
(* thread reads, any thread may call cancel(), and cancel() comes with the *)
(* two clauses of its comment:                                             *)
(*                                                                         *)
(*   - every read() begun after a cancel() has returned throws             *)
(*     cancelled_exception;                                                *)
(*   - a read() that is going on, or starting, when cancel() is called     *)
(*     exits with cancelled_exception.                                     *)
(*                                                                         *)
(* The second clause is weaker than it sounds: a read that has obtained    *)
(* its data before the cancellation takes effect may still return it, so a *)
(* cancel() has an effect (Cancel) somewhere between its call and return.  *)
(***************************************************************************)

CONSTANT Cancellers     \* the threads that call cancel(); each calls it once

VARIABLES
    cancelled,  \* a cancel() has taken effect
    read,       \* the reading thread: idle, inside read(), or how read() ended
    cancel      \* cancel[t]: where thread t is in its cancel()

vars == <<cancelled, read, cancel>>

Ended == {"data", "thrown"}

TypeOK ==
    /\ cancelled \in BOOLEAN
    /\ read \in {"idle", "active"} \cup Ended
    /\ cancel \in [Cancellers -> {"idle", "active", "done"}]

Init ==
    /\ cancelled = FALSE
    /\ read = "idle"
    /\ cancel = [t \in Cancellers |-> "idle"]

BeginRead ==
    /\ read # "active"
    /\ read' = "active"
    /\ UNCHANGED <<cancelled, cancel>>

\* A read may return what it has read only if no cancel() has taken effect.
Complete ==
    /\ read = "active"
    /\ ~cancelled
    /\ read' = "data"
    /\ UNCHANGED <<cancelled, cancel>>

Throw ==
    /\ read = "active"
    /\ cancelled
    /\ read' = "thrown"
    /\ UNCHANGED <<cancelled, cancel>>

BeginCancel(t) ==
    /\ cancel[t] = "idle"
    /\ cancel' = [cancel EXCEPT ![t] = "active"]
    /\ UNCHANGED <<cancelled, read>>

Cancel(t) ==
    /\ cancel[t] = "active"
    /\ cancelled' = TRUE
    /\ UNCHANGED <<read, cancel>>

EndCancel(t) ==
    /\ cancel[t] = "active"
    /\ cancelled
    /\ cancel' = [cancel EXCEPT ![t] = "done"]
    /\ UNCHANGED <<cancelled, read>>

Next ==
    \/ BeginRead
    \/ Complete
    \/ Throw
    \/ \E t \in Cancellers : BeginCancel(t) \/ Cancel(t) \/ EndCancel(t)

\* The safety part of the promise.
SafeSpec == Init /\ [][Next]_vars

\* A cancel() that was called returns, and a read() it overtakes throws.
Spec ==
    /\ SafeSpec
    /\ WF_vars(Throw)
    /\ \A t \in Cancellers : WF_vars(Cancel(t)) /\ WF_vars(EndCancel(t))
=============================================================================
