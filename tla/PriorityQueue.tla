---------------------------- MODULE PriorityQueue ----------------------------
(***************************************************************************)
(* The priority queue of nall/priority-queue.hpp: a binary min-heap whose  *)
(* counters are unsigned and wrap around.  enqueue and dequeue move a hole *)
(* through the heap, one turn of their loops a step.                       *)
(*                                                                         *)
(* Events are told apart.  Left out: serialize, which copies the fields.   *)
(* Clients stay within the capacity and do not dequeue from an empty       *)
(* queue, neither of which the code checks; callbacks do not call tick.    *)
(***************************************************************************)
EXTENDS Integers

CONSTANTS
    Events,
    NoEvent,    \* nothing was returned yet
    Wrap,       \* how many values an unsigned has, 2^32
    Capacity,   \* heapcapacity
    Limit,      \* the longest delay clients enqueue with
    MaxTick,    \* the most ticks clients let pass at once
    Reentrant   \* whether callbacks call the queue

\* std::numeric_limits<unsigned>::max() >> 1
Half == (Wrap - 1) \div 2

ASSUME QueueAssumption ==
    /\ Wrap \in Nat /\ Capacity \in Nat /\ Limit \in Nat /\ MaxTick \in Nat
    /\ Limit <= Half /\ MaxTick < Half
    /\ Reentrant \in BOOLEAN /\ (Reentrant => Limit + MaxTick < Half)
    /\ NoEvent \notin Events

VARIABLES
    basecounter, heapsize,
    heap,       \* records [counter, event], from 0
    step,       \* "up" in the loop of enqueue, "down" in that of dequeue, or "none"
    at,         \* child in enqueue, parent in dequeue: where the hole is
    ticking,    \* "no", or in tick: "check" in its loop, "callback" in a callback
    returned    \* what dequeue returned last

vars == <<basecounter, heapsize, heap, step, at, ticking, returned>>

Counters == 0 .. Wrap - 1

\* Mutant of gte: counters are compared as if they never wrapped.
gteFlat(x, y) == x >= y

gte(x, y) == (x - y) % Wrap < Half

Parent(i) == (i - 1) \div 2

Init ==
    /\ basecounter = 0 /\ heapsize = 0
    /\ heap = [i \in 0 .. -1 |-> [counter |-> 0, event |-> NoEvent]]
    /\ step = "none" /\ at = 0
    /\ ticking = "no"
    /\ returned = NoEvent

-----------------------------------------------------------------------------
\* Whether the queue may be called: from outside, or from a callback.
Callable == step = "none" /\ (ticking = "no" \/ (Reentrant /\ ticking = "callback"))

\* The counter of an event that fires n ticks from now.
Counter(n) == (n + basecounter) % Wrap

\* enqueue, up to its loop.  The hole holds from now on what will fill it.
Enqueue(n, e) ==
    /\ Callable /\ heapsize < Capacity
    /\ \A i \in 0 .. heapsize - 1 : heap[i].event # e
    /\ heap' = [i \in 0 .. heapsize |->
                  IF i = heapsize THEN [counter |-> Counter(n), event |-> e] ELSE heap[i]]
    /\ heapsize' = heapsize + 1
    /\ step' = "up" /\ at' = heapsize
    /\ UNCHANGED <<basecounter, ticking, returned>>

\* The hole moves to i, and what was there to where the hole was.
MoveHole(i) ==
    /\ heap' = [heap EXCEPT ![at] = heap[i], ![i] = heap[at]]
    /\ at' = i
    /\ UNCHANGED <<basecounter, heapsize, step, ticking, returned>>

\* Whether the loop of enqueue goes on.
Rises == at > 0 /\ ~gte(heap[at].counter, heap[Parent(at)].counter)

Up == step = "up" /\ Rises /\ MoveHole(Parent(at))

\* dequeue, up to its loop: the root is returned, the last entry is to take
\* its place.
Shrink ==
    /\ step = "none" /\ step' = "down" /\ at' = 0
    /\ returned' = heap[0].event
    /\ heap' = [i \in 0 .. heapsize - 2 |-> IF i = 0 THEN heap[heapsize - 1] ELSE heap[i]]
    /\ heapsize' = heapsize - 1
    /\ UNCHANGED basecounter

Dequeue == Callable /\ heapsize > 0 /\ Shrink /\ UNCHANGED ticking

\* Mutant of Child: the left child, which may be the later one.
ChildLeft == 2 * at + 1

\* The earlier child of the hole.
Child ==
    LET left == 2 * at + 1
    IN  IF left + 1 < heapsize /\ gte(heap[left].counter, heap[left + 1].counter)
        THEN left + 1 ELSE left

\* Whether the loop of dequeue goes on.
Sinks == 2 * at + 1 < heapsize /\ ~gte(heap[Child].counter, heap[at].counter)

Down == step = "down" /\ Sinks /\ MoveHole(Child)

\* The end of either loop: the hole is filled.
Fill ==
    /\ \/ step = "up" /\ ~Rises
       \/ step = "down" /\ ~Sinks
    /\ step' = "none" /\ at' = 0
    /\ UNCHANGED <<basecounter, heapsize, heap, ticking, returned>>

Reset ==
    /\ Callable
    /\ basecounter' = 0 /\ heapsize' = 0
    /\ heap' = [i \in 0 .. -1 |-> heap[i]]
    /\ UNCHANGED <<step, at, ticking, returned>>

\* tick, up to its loop, which ends or goes on after each callback.
Tick(n) ==
    /\ step = "none"
    /\ ticking = "no" /\ ticking' = "check"
    /\ basecounter' = Counter(n)
    /\ UNCHANGED <<heapsize, heap, step, at, returned>>

Due == heapsize > 0 /\ gte(basecounter, heap[0].counter)

Fire ==
    /\ ticking # "no" /\ ticking' = "callback"
    /\ Due /\ Shrink

Ticked ==
    /\ step = "none" /\ ~Due
    /\ ticking # "no" /\ ticking' = "no"
    /\ UNCHANGED <<basecounter, heapsize, heap, step, at, returned>>

Next ==
    \/ \E n \in 0 .. Limit, e \in Events : Enqueue(n, e)
    \/ Up \/ Down \/ Fill \/ Dequeue \/ Reset \/ Fire \/ Ticked
    \/ \E n \in 0 .. MaxTick : Tick(n)

Spec == Init /\ [][Next]_vars

-----------------------------------------------------------------------------
\* How many ticks a counter is ahead of the clock, or behind it if negative.
Left(c) ==
    LET ahead == (c - basecounter) % Wrap
    IN  IF ahead <= Limit THEN ahead ELSE ahead - Wrap

Key(i) == Left(heap[i].counter)

\* Every variable has its type.
TypeOK ==
    /\ basecounter \in Counters /\ heapsize \in 0 .. Capacity
    /\ heap \in [0 .. heapsize - 1 -> [counter : Counters, event : Events]]
    /\ step \in {"none", "up", "down"}
    /\ at = 0 \/ (step # "none" /\ at \in 0 .. heapsize - 1)
    /\ ticking \in {"no", "check", "callback"}
    /\ returned \in Events \union {NoEvent}

\* No entry is due before its parent, by the clock and not by the counters;
\* around the hole, its children are not due before its parent.
HeapOrdered ==
    \A i \in 1 .. heapsize - 1 :
      /\ \/ Key(Parent(i)) <= Key(i)
         \/ step = "up" /\ i = at
         \/ step = "down" /\ Parent(i) = at
      /\ Parent(i) = at /\ at > 0 => Key(Parent(at)) <= Key(i)

\* The queue as its clients see it.
Pending == {[event |-> heap[i].event, left |-> Key(i)] : i \in 0 .. heapsize - 1}

Schedule == INSTANCE Agenda WITH pending <- Pending, size <- heapsize

\* Events fire when their ticks have passed, neither late nor out of order,
\* wherever in its range the clock stands.
OnTime == Schedule!Spec

\* tick returns when nothing due is left, with delays as long as the comment
\* on enqueue allows, max() >> 1.
NothingOverdue == [][Ticked => \A i \in 0 .. heapsize - 1 : Key(i) > 0]_vars
=============================================================================
