------------------------------- MODULE Agenda -------------------------------
(***************************************************************************)
(* What nall/priority-queue.hpp promises: events fire when the ticks they  *)
(* were enqueued with have passed, the earliest first.                     *)
(***************************************************************************)
EXTENDS Integers

CONSTANTS
    Events,
    NoEvent,
    Capacity,   \* how many events fit
    Limit,      \* the longest delay
    MaxTick,    \* the most ticks that pass at once
    Reentrant   \* whether callbacks call the queue

VARIABLES
    pending,    \* records [event, left], left being the ticks still to pass
    size,       \* how many they are
    ticking,    \* "no", or in tick: "check" in its loop, "callback" in a callback
    returned    \* the event that was taken out last

vars == <<pending, size, ticking, returned>>

Init ==
    /\ pending = {} /\ size = 0
    /\ ticking = "no"
    /\ returned = NoEvent

\* Whether the queue may be called: from outside, or from a callback.
Callable == ticking = "no" \/ (Reentrant /\ ticking = "callback")

Enqueue(n, e) ==
    /\ Callable /\ size < Capacity
    /\ \A x \in pending : x.event # e
    /\ pending' = pending \union {[event |-> e, left |-> n]}
    /\ size' = size + 1
    /\ UNCHANGED <<ticking, returned>>

\* x is taken out; nothing pending is due before it.
Take(x) ==
    /\ \A y \in pending : x.left <= y.left
    /\ pending' = pending \ {x}
    /\ size' = size - 1
    /\ returned' = x.event

Dequeue == Callable /\ (\E x \in pending : Take(x)) /\ UNCHANGED ticking

Reset ==
    /\ Callable
    /\ pending' = {} /\ size' = 0
    /\ UNCHANGED <<ticking, returned>>

Tick(n) ==
    /\ ticking = "no" /\ ticking' = "check"
    /\ pending' = {[event |-> x.event, left |-> x.left - n] : x \in pending}
    /\ UNCHANGED <<size, returned>>

Fire ==
    /\ ticking # "no" /\ ticking' = "callback"
    /\ \E x \in pending : x.left <= 0 /\ Take(x)

\* tick returns only when nothing due is left.
Ticked ==
    /\ ticking # "no" /\ ticking' = "no"
    /\ \A x \in pending : x.left > 0
    /\ UNCHANGED <<pending, size, returned>>

Next ==
    \/ \E n \in 0 .. Limit, e \in Events : Enqueue(n, e)
    \/ Dequeue \/ Reset \/ Fire \/ Ticked
    \/ \E n \in 0 .. MaxTick : Tick(n)

Spec == Init /\ [][Next]_vars
=============================================================================
