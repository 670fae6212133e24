------------------------- MODULE RunnableQueuesProofs -------------------------
(***************************************************************************)
(* The 3:2:1 cycle of an owner bounds the wait of every class, for any     *)
(* actors, classes and queue capacity.  ClassServed is not inductive: how  *)
(* often a class was passed over has to be tied to where the cursor is,    *)
(* which is PassedByPositions.                                             *)
(***************************************************************************)
EXTENDS RunnableQueues, TLAPS

-----------------------------------------------------------------------------
(* The cycle *)

\* Positions wrap around the six of SERVICE_CYCLE.
LEMMA PositionType ==
    ASSUME NEW cursor \in Positions, NEW d \in 0 .. 6
    PROVE  /\ Position(cursor, d) \in Positions
           /\ Position(cursor, d) = IF cursor + d < 6 THEN cursor + d ELSE
                                    IF cursor + d < 12 THEN cursor + d - 6 ELSE 0
BY DEF Position, Positions

\* The class of every position of SERVICE_CYCLE.
LEMMA CycleClasses ==
    /\ SERVICE_CYCLE[0] = 0 /\ SERVICE_CYCLE[1] = 0 /\ SERVICE_CYCLE[2] = 1
    /\ SERVICE_CYCLE[3] = 0 /\ SERVICE_CYCLE[4] = 1 /\ SERVICE_CYCLE[5] = 2
BY DEF SERVICE_CYCLE

\* SERVICE_CYCLE has a position of every class, so pop_weighted finds one
\* within a single turn of the cycle if there is any work.
LEMMA CycleMeetsClass ==
    ASSUME NEW cursor \in Positions, NEW c \in Classes
    PROVE  \E d \in Positions : SERVICE_CYCLE[Position(cursor, d)] = c
<1>1. \E p \in Positions : SERVICE_CYCLE[p] = c
  BY CycleClasses DEF Positions, Classes
<1>2. PICK p \in Positions : SERVICE_CYCLE[p] = c
  BY <1>1
<1>3. CASE p >= cursor
  <2>1. /\ p - cursor \in Positions
        /\ Position(cursor, p - cursor) = p
    BY <1>3, PositionType DEF Positions
  <2> QED BY <2>1, <1>2
<1>4. CASE p < cursor
  <2>1. /\ p + 6 - cursor \in Positions
        /\ Position(cursor, p + 6 - cursor) = p
    BY <1>4, PositionType DEF Positions
  <2> QED BY <2>1, <1>2
<1> QED BY <1>3, <1>4 DEF Positions

\* pop_weighted stops at the first position whose class has work.
LEMMA AheadFound ==
    ASSUME NEW cursor \in Positions,
           NEW wanted \in SUBSET Classes, wanted # {}
    PROVE  LET d == Ahead(cursor, wanted) IN
           /\ d \in Positions
           /\ SERVICE_CYCLE[Position(cursor, d)] \in wanted
           /\ Skips(cursor, d, wanted)
<1> DEFINE Meets(d) == SERVICE_CYCLE[Position(cursor, d)] \in wanted
<1>1. PICK d \in Positions : Meets(d)
  BY CycleMeetsClass
<1>2. \E e \in Positions : Meets(e) /\ \A f \in Positions : f < e => ~Meets(f)
  <2> HIDE DEF Meets
  <2>1. CASE Meets(0)
    BY <2>1 DEF Positions
  <2>2. CASE ~Meets(0) /\ Meets(1)
    BY <2>2 DEF Positions
  <2>3. CASE ~Meets(0) /\ ~Meets(1) /\ Meets(2)
    BY <2>3 DEF Positions
  <2>4. CASE ~Meets(0) /\ ~Meets(1) /\ ~Meets(2) /\ Meets(3)
    BY <2>4 DEF Positions
  <2>5. CASE ~Meets(0) /\ ~Meets(1) /\ ~Meets(2) /\ ~Meets(3) /\ Meets(4)
    BY <2>5 DEF Positions
  <2>6. CASE ~Meets(0) /\ ~Meets(1) /\ ~Meets(2) /\ ~Meets(3) /\ ~Meets(4) /\ Meets(5)
    BY <2>6 DEF Positions
  <2>7. \/ d = 0 \/ d = 1 \/ d = 2 \/ d = 3 \/ d = 4 \/ d = 5
    BY DEF Positions
  <2> QED BY <1>1, <2>1, <2>2, <2>3, <2>4, <2>5, <2>6, <2>7
<1>3. \E e \in Positions : Meets(e) /\ Skips(cursor, e, wanted)
  BY <1>2 DEF Skips
<1> QED BY <1>3 DEF Ahead

\* A cursor that passes or serves other classes only gets further away from
\* the last position of a class.
LEMMA SinceAdvances ==
    ASSUME NEW cursor \in Positions, NEW d \in Positions, NEW c \in Classes,
           \A e \in Positions : e < d => SERVICE_CYCLE[Position(cursor, e)] # c,
           SERVICE_CYCLE[Position(cursor, d)] # c
    PROVE  Since(cursor, c) + 1 <= Since(Position(cursor, d + 1), c)
<1> DEFINE At(e) == SERVICE_CYCLE[Position(cursor, e)]
<1>1. d + 1 \in 0 .. 6 /\ \A e \in Positions : e \in 0 .. 6
  BY DEF Positions
<1>2. /\ d >= 0 => At(0) # c
      /\ d >= 1 => At(1) # c
      /\ d >= 2 => At(2) # c
      /\ d >= 3 => At(3) # c
      /\ d >= 4 => At(4) # c
      /\ d >= 5 => At(5) # c
  BY DEF Positions
<1>3. /\ Position(cursor, 0) = cursor
      /\ Position(cursor, 1) = IF cursor < 5 THEN cursor + 1 ELSE cursor - 5
      /\ Position(cursor, 2) = IF cursor < 4 THEN cursor + 2 ELSE cursor - 4
      /\ Position(cursor, 3) = IF cursor < 3 THEN cursor + 3 ELSE cursor - 3
      /\ Position(cursor, 4) = IF cursor < 2 THEN cursor + 4 ELSE cursor - 2
      /\ Position(cursor, 5) = IF cursor < 1 THEN cursor + 5 ELSE cursor - 1
      /\ Position(cursor, 6) = cursor
  BY DEF Position, Positions
<1>4. CASE c = 0
  BY <1>2, <1>3, <1>4, CycleClasses, PositionType, <1>1 DEF Since, Positions
<1>5. CASE c = 1
  BY <1>2, <1>3, <1>5, CycleClasses, PositionType, <1>1 DEF Since, Positions
<1>6. CASE c = 2
  BY <1>2, <1>3, <1>6, CycleClasses, PositionType, <1>1 DEF Since, Positions
<1> QED BY <1>4, <1>5, <1>6 DEF Classes

\* No class is further from its last position than its gap in the cycle.
LEMMA SinceBounded ==
    ASSUME NEW cursor \in Positions, NEW c \in Classes
    PROVE  Since(cursor, c) \in Nat /\ Since(cursor, c) <= Gap[c] /\ Gap[c] \in Nat
BY DEF Since, Gap, Positions, Classes

-----------------------------------------------------------------------------
(* The queues *)

Inv == TypeOK /\ PassedByPositions

\* pop_weighted serves a class that has work and leaves the cursor in the cycle.
LEMMA ServedType ==
    ASSUME TypeOK, Nonempty(queues) # {}
    PROVE  LET wanted == Nonempty(queues)
               served == ServedClass(service_cursor, wanted) IN
           /\ served \in wanted /\ served \in Classes /\ queues[served] # <<>>
           /\ CursorAfter(service_cursor, wanted) \in Positions
<1> DEFINE wanted == Nonempty(queues)
           d == Ahead(service_cursor, wanted)
<1>1. wanted \in SUBSET Classes /\ service_cursor \in Positions
  BY DEF TypeOK, Nonempty
<1>2. d \in Positions /\ SERVICE_CYCLE[Position(service_cursor, d)] \in wanted
  BY <1>1, AheadFound
<1>3. d + 1 \in 0 .. 6
  BY <1>2 DEF Positions
<1> QED BY <1>1, <1>2, <1>3, PositionType DEF ServedClass, CursorAfter, Nonempty

\* The queues keep their type and the counts theirs, whatever is done to them.
LEMMA TypeStep ==
    ASSUME TypeOK, [Next]_vars
    PROVE  TypeOK'
<1> USE DEF TypeOK
<1>1. ASSUME NEW a \in Actors, Push(a)
      PROVE  TypeOK'
  <2>1. Class[a] \in Classes
    BY QueueAssumption
  <2>2. queues' \in [Classes -> Seq(Actors)]
    BY <1>1, <2>1 DEF Push, Pushed
  <2>3. passed' \in [Classes -> Nat]
    BY <1>1 DEF Push, Recount
  <2> QED BY <1>1, <2>2, <2>3 DEF Push
<1>2. CASE PopWeighted
  <2> DEFINE served == ServedClass(service_cursor, Nonempty(queues))
  <2>1. /\ served \in Classes /\ queues[served] # <<>>
        /\ CursorAfter(service_cursor, Nonempty(queues)) \in Positions
    BY <1>2, ServedType DEF PopWeighted
  <2>2. Tail(queues[served]) \in Seq(Actors)
    BY <2>1
  <2>3. queues' \in [Classes -> Seq(Actors)]
    BY <1>2, <2>1, <2>2 DEF PopWeighted, Popped
  <2>4. passed' \in [Classes -> Nat]
    BY <1>2 DEF PopWeighted
  <2> QED BY <1>2, <2>1, <2>3, <2>4 DEF PopWeighted
<1>3. ASSUME NEW c \in Classes, PopForSteal(c)
      PROVE  TypeOK'
  <2>1. SubSeq(queues[c], 1, Len(queues[c]) - 1) \in Seq(Actors)
    BY <1>3 DEF PopForSteal
  <2>2. queues' \in [Classes -> Seq(Actors)]
    BY <1>3, <2>1 DEF PopForSteal, Stolen
  <2>3. passed' \in [Classes -> Nat]
    BY <1>3 DEF PopForSteal, Recount
  <2> QED BY <1>3, <2>2, <2>3 DEF PopForSteal
<1>4. CASE PopAny
  <2>1. PICK c \in Nonempty(queues) : queues' = Popped(queues, c)
    BY <1>4 DEF PopAny
  <2>2. c \in Classes /\ Tail(queues[c]) \in Seq(Actors)
    BY <2>1 DEF Nonempty
  <2>3. queues' \in [Classes -> Seq(Actors)]
    BY <2>1, <2>2 DEF Popped
  <2>4. passed' \in [Classes -> Nat]
    BY <1>4 DEF PopAny, Recount
  <2> QED BY <1>4, <2>3, <2>4 DEF PopAny
<1>5. CASE UNCHANGED vars
  BY <1>5 DEF vars
<1> QED BY <1>1, <1>2, <1>3, <1>4, <1>5 DEF Next

\* An entry that comes or is taken leaves the cursor where it is and counts
\* nothing.
LEMMA RecountKeeps ==
    ASSUME TypeOK, PassedByPositions, NEW after, Recount(after), UNCHANGED service_cursor
    PROVE  PassedByPositions'
<1> SUFFICES ASSUME NEW c \in Classes
             PROVE  passed'[c] <= Since(service_cursor, c)
  BY DEF PassedByPositions
<1>1. passed'[c] = 0 \/ passed'[c] = passed[c]
  BY DEF Recount
<1>2. Since(service_cursor, c) \in Nat
  BY SinceBounded DEF TypeOK
<1> QED BY <1>1, <1>2 DEF PassedByPositions

\* A slice that goes to another class moves the cursor at least as far as it
\* adds to the count.
LEMMA PopWeightedKeeps ==
    ASSUME TypeOK, PassedByPositions, PopWeighted
    PROVE  PassedByPositions'
<1> DEFINE wanted == Nonempty(queues)
           d == Ahead(service_cursor, wanted)
           served == ServedClass(service_cursor, wanted)
<1>1. /\ wanted \in SUBSET Classes /\ wanted # {} /\ service_cursor \in Positions
      /\ service_cursor' = CursorAfter(service_cursor, wanted)
  BY DEF TypeOK, Nonempty, PopWeighted
<1>2. /\ d \in Positions
      /\ Skips(service_cursor, d, wanted)
  BY <1>1, AheadFound
<1>3. service_cursor' \in Positions /\ service_cursor' = Position(service_cursor, d + 1)
  BY <1>1, ServedType DEF CursorAfter
<1> SUFFICES ASSUME NEW c \in Classes
             PROVE  passed'[c] <= Since(service_cursor', c)
  BY DEF PassedByPositions
<1>4. passed'[c] = IF c = served \/ c \notin wanted THEN 0 ELSE passed[c] + 1
  BY DEF PopWeighted
<1>5. Since(service_cursor', c) \in Nat /\ Since(service_cursor, c) \in Nat
  BY <1>1, <1>3, SinceBounded
<1>6. CASE c = served \/ c \notin wanted
  BY <1>4, <1>5, <1>6
<1>7. CASE c # served /\ c \in wanted
  <2>1. /\ \A e \in Positions : e < d => SERVICE_CYCLE[Position(service_cursor, e)] # c
        /\ SERVICE_CYCLE[Position(service_cursor, d)] # c
    BY <1>2, <1>7 DEF Skips, ServedClass
  <2>2. Since(service_cursor, c) + 1 <= Since(service_cursor', c)
    BY <1>1, <1>2, <1>3, <2>1, SinceAdvances
  <2>3. passed[c] <= Since(service_cursor, c) /\ passed[c] \in Nat
    BY DEF PassedByPositions, TypeOK
  <2> QED BY <1>4, <1>5, <1>7, <2>2, <2>3
<1> QED BY <1>6, <1>7

\* Every step keeps the counts below the way the cursor went.
LEMMA PassedStep ==
    ASSUME Inv, [Next]_vars
    PROVE  PassedByPositions'
<1> USE DEF Inv
<1>1. ASSUME NEW a \in Actors, Push(a)
      PROVE  PassedByPositions'
  BY <1>1, RecountKeeps DEF Push
<1>2. CASE PopWeighted
  BY <1>2, PopWeightedKeeps
<1>3. ASSUME NEW c \in Classes, PopForSteal(c)
      PROVE  PassedByPositions'
  BY <1>3, RecountKeeps DEF PopForSteal
<1>4. CASE PopAny
  BY <1>4, RecountKeeps DEF PopAny
<1>5. CASE UNCHANGED vars
  BY <1>5 DEF vars, PassedByPositions
<1> QED BY <1>1, <1>2, <1>3, <1>4, <1>5 DEF Next

\* The queues begin empty, with the cursor at the start of the cycle.
LEMMA InitInv ==
    ASSUME Init
    PROVE  Inv
<1>1. TypeOK
  BY DEF Init, TypeOK, EmptyQueues, Positions
<1>2. PassedByPositions
  <2> SUFFICES ASSUME NEW c \in Classes
               PROVE  passed[c] <= Since(service_cursor, c)
    BY DEF PassedByPositions
  <2>1. Since(service_cursor, c) \in Nat
    BY <1>1, SinceBounded DEF TypeOK
  <2>2. passed[c] = 0
    BY DEF Init
  <2> QED BY <2>1, <2>2
<1> QED BY <1>1, <1>2 DEF Inv

\* The queues of an owner and its cursor keep their types (push, pop_weighted,
\* pop_for_steal, pop_any), and no class was passed over more often than the
\* cursor moved since its last position.
THEOREM QueuesInv == Spec => []Inv
<1>1. Init => Inv
  BY InitInv
<1>2. Inv /\ [Next]_vars => Inv'
  BY TypeStep, PassedStep DEF Inv
<1> QED BY <1>1, <1>2, PTL DEF Spec

\* Type correctness of the class queues, for every capacity and set of actors.
THEOREM QueuesTypeOK == Spec => []TypeOK
<1>1. Inv => TypeOK
  BY DEF Inv
<1> QED BY <1>1, QueuesInv, PTL

\* The strengthening is an invariant for every capacity and set of actors.
THEOREM QueuesPassed == Spec => []PassedByPositions
<1>1. Inv => PassedByPositions
  BY DEF Inv
<1> QED BY <1>1, QueuesInv, PTL

\* Whatever is pushed and stolen meanwhile, an owner gives no more than two,
\* three or five slices in a row to others while a priority, normal or
\* background actor is queued (pop_weighted).
THEOREM QueuesServed == Spec => []ClassServed
<1>1. Inv => ClassServed
  <2> SUFFICES ASSUME Inv, NEW c \in Classes
               PROVE  passed[c] <= Gap[c]
    BY DEF ClassServed
  <2>1. passed[c] <= Since(service_cursor, c) /\ passed[c] \in Nat
    BY DEF Inv, PassedByPositions, TypeOK
  <2>2. /\ Since(service_cursor, c) \in Nat /\ Gap[c] \in Nat
        /\ Since(service_cursor, c) <= Gap[c]
    BY SinceBounded DEF Inv, TypeOK
  <2> QED BY <2>1, <2>2
<1> QED BY <1>1, QueuesInv, PTL

=============================================================================
