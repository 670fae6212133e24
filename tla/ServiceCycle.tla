----------------------------- MODULE ServiceCycle -----------------------------
(***************************************************************************)
(* Scheduling classes and the 3:2:1 cycle in which an owner thread serves  *)
(* them (src/crates/terlan/src/commands/serve/handler_cache/shard_owner/   *)
(* runnable_queue.rs).  A queue set is a function from classes to          *)
(* sequences, oldest entry first.                                          *)
(***************************************************************************)
EXTENDS Integers, Sequences

\* priority, normal and background, by class_index
Classes == 0 .. 2

SERVICE_CYCLE == [position \in 0 .. 5 |->
    IF position \in {0, 1, 3} THEN 0 ELSE IF position \in {2, 4} THEN 1 ELSE 2]

Positions == 0 .. 5

EmptyQueues == [c \in Classes |-> <<>>]

Nonempty(set) == {c \in Classes : set[c] # <<>>}

QueueLength(set) == Len(set[0]) + Len(set[1]) + Len(set[2])

Position(cursor, distance) == (cursor + distance) % 6

\* The cursor passes the positions of classes that have no work.
Skips(cursor, distance, wanted) ==
    \A d \in Positions :
       d < distance => SERVICE_CYCLE[Position(cursor, d)] \notin wanted

Ahead(cursor, wanted) ==
    CHOOSE d \in Positions : /\ SERVICE_CYCLE[Position(cursor, d)] \in wanted
                             /\ Skips(cursor, d, wanted)

\* What pop_weighted serves, and where it leaves the cursor.
ServedClass(cursor, wanted) ==
    SERVICE_CYCLE[Position(cursor, Ahead(cursor, wanted))]

\* Mutant: the cursor stands still when it has found work.
CursorAfterStands(cursor, wanted) == Position(cursor, Ahead(cursor, wanted))

CursorAfter(cursor, wanted) == Position(cursor, Ahead(cursor, wanted) + 1)

Pushed(set, c, a) == [set EXCEPT ![c] = Append(@, a)]

Popped(set, c) == [set EXCEPT ![c] = Tail(@)]

\* pop_for_steal takes the newest entry.
Stolen(set, c) == [set EXCEPT ![c] = SubSeq(@, 1, Len(@) - 1)]

=============================================================================
