---------------------------- MODULE RunnableQueues ----------------------------
(***************************************************************************)
(* The class queues of one owner thread, as its loop and any work stealing *)
(* may use them (src/crates/terlan/src/commands/serve/handler_cache/       *)
(* shard_owner/runnable_queue.rs): entries come and go at any time, from   *)
(* any class, and slices are served by the cycle.                          *)
(***************************************************************************)
EXTENDS ServiceCycle

CONSTANTS
    Actors,          \* entries that may be queued
    Class,           \* the scheduling class of each
    QueueCapacity    \* RUNNABLE_QUEUE_CAPACITY

ASSUME QueueAssumption ==
    /\ Class \in [Actors -> Classes]
    /\ QueueCapacity \in Nat \ {0}

VARIABLES
    queues,          \* the queue of each class
    service_cursor,  \* where the owner is in its cycle
    passed           \* history: slices given to others in a row, by class,
                     \* while it had work

vars == <<queues, service_cursor, passed>>

Queued(a) == \E i \in DOMAIN queues[Class[a]] : queues[Class[a]][i] = a

\* Type correctness.
TypeOK ==
    /\ queues \in [Classes -> Seq(Actors)]
    /\ service_cursor \in Positions
    /\ passed \in [Classes -> Nat]

Init ==
    /\ queues = EmptyQueues
    /\ service_cursor = 0
    /\ passed = [c \in Classes |-> 0]

\* A class that has no work, or has just got some, was not passed over.
Recount(after) ==
    passed' = [c \in Classes |->
                  IF queues[c] = <<>> \/ after[c] = <<>> THEN 0 ELSE passed[c]]

\* push: a yielded or an imported actor
Push(a) ==
    /\ ~Queued(a)
    /\ QueueLength(queues) < QueueCapacity
    /\ queues' = Pushed(queues, Class[a], a)
    /\ Recount(queues')
    /\ UNCHANGED service_cursor

\* pop_weighted
PopWeighted ==
    LET wanted == Nonempty(queues)
        served == ServedClass(service_cursor, wanted) IN
    /\ wanted # {}
    /\ queues' = Popped(queues, served)
    /\ service_cursor' = CursorAfter(service_cursor, wanted)
    /\ passed' = [c \in Classes |->
                     IF c = served \/ c \notin wanted THEN 0 ELSE passed[c] + 1]

\* pop_for_steal
PopForSteal(c) ==
    /\ queues[c] # <<>>
    /\ queues' = Stolen(queues, c)
    /\ Recount(queues')
    /\ UNCHANGED service_cursor

\* pop_any: the first class that has an entry, at shutdown
PopAny ==
    \E c \in Nonempty(queues) :
       /\ \A d \in Nonempty(queues) : c <= d
       /\ queues' = Popped(queues, c)
       /\ Recount(queues')
       /\ UNCHANGED service_cursor

Next ==
    \/ \E a \in Actors : Push(a)
    \/ PopWeighted
    \/ \E c \in Classes : PopForSteal(c)
    \/ PopAny

Spec == Init /\ [][Next]_vars

-----------------------------------------------------------------------------
(* Slices between two of a class in SERVICE_CYCLE *)
Gap == [c \in Classes |-> IF c = 0 THEN 2 ELSE IF c = 1 THEN 3 ELSE 5]

\* The cycle bounds the wait of every class: while it has work, an owner gives
\* no more than Gap[c] slices in a row to others, however the queues fill,
\* drain and are stolen from meanwhile (pop_weighted, SERVICE_CYCLE).
ClassServed == \A c \in Classes : passed[c] <= Gap[c]

\* Positions the cursor has left since it last stood on one of class c.
Since(cursor, c) ==
    IF c = 0 THEN IF cursor = 0 THEN 2 ELSE IF cursor \in {3, 5} THEN 1 ELSE 0
    ELSE IF c = 1 THEN IF cursor = 2 THEN 3 ELSE IF cursor = 1 THEN 2
                       ELSE IF cursor \in {0, 4} THEN 1 ELSE 0
    ELSE cursor

\* A class was passed over no more often than the cursor moved since the last
\* position of its own: the strengthening that makes ClassServed inductive.
PassedByPositions == \A c \in Classes : passed[c] <= Since(service_cursor, c)

=============================================================================
