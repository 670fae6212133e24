----------------------- MODULE SourceSupervisionProofs -----------------------
(***************************************************************************)
(* Proofs about SourceSupervision: for any children, strategy, restart     *)
(* classes, delays, deadlines and intensity, a child never has two live    *)
(* processes, a stopped child never gets another one, and no window of the *)
(* past holds more restarts than the limit.                                *)
(*                                                                         *)
(* The invariant says that process identities are used one after the other *)
(* and that each live process is some child's; that the timers kept for    *)
(* restarts name children that are not stopped and processes that ended;   *)
(* and that only children that were started are listed or stopped.         *)
(*                                                                         *)
(* The restart window is a second invariant on top of it: what the         *)
(* supervisor remembers is the end of the history, what it forgot has      *)
(* expired, and restarts that lie Limit apart lie a window apart.          *)
(***************************************************************************)
EXTENDS SourceSupervision, FiniteSetTheorems, SequenceTheorems, NaturalsInduction,
        WellFoundedInduction, TLAPS

-----------------------------------------------------------------------------
(* Positions, ranks and the sequences picked by them *)

\* A set of numbers that is not empty has a least element.
LEMMA LeastNumber ==
    ASSUME NEW T \in SUBSET Nat, T # {}
    PROVE  \E m \in T : \A k \in T : m <= k
<1>1. PICK m \in T : \A k \in T : ~(<<k, m>> \in OpToRel(<, Nat))
  BY NatLessThanWellFounded, WFMin
<1>2. \A k \in T : ~(k < m)
  BY <1>1 DEF OpToRel
<1> QED
  BY <1>2

\* A member's rank counts the members below it, and greater members rank higher.
LEMMA RankOrder ==
    ASSUME NEW I \in SUBSET Int, IsFiniteSet(I)
    PROVE  /\ \A i \in I : Rank(I, i) \in 0 .. Cardinality(I) - 1
           /\ \A i, j \in I : i < j => Rank(I, i) < Rank(I, j)
<1>1. Cardinality(I) \in Nat
  BY FS_CardinalityType
<1>2. ASSUME NEW i \in I
      PROVE  IsFiniteSet({k \in I : k < i}) /\ Rank(I, i) \in Nat
  <2>1. {k \in I : k < i} \in SUBSET I
    OBVIOUS
  <2>2. IsFiniteSet({k \in I : k < i})
    BY <2>1, FS_Subset
  <2> QED
    BY <2>2, FS_CardinalityType DEF Rank
<1>3. ASSUME NEW i \in I
      PROVE  Rank(I, i) \in 0 .. Cardinality(I) - 1
  <2> DEFINE B == {k \in I : k < i}
  <2>1. B \in SUBSET I /\ B # I
    OBVIOUS
  <2>2. Cardinality(B) <= Cardinality(I) /\ Cardinality(B) # Cardinality(I)
    BY <2>1, FS_Subset
  <2> QED
    BY <1>1, <1>2, <2>2 DEF Rank
<1>4. ASSUME NEW i \in I, NEW j \in I, i < j
      PROVE  Rank(I, i) < Rank(I, j)
  <2> DEFINE A == {k \in I : k < i}
             B == {k \in I : k < j}
  <2>0. i \in Int /\ j \in Int /\ \A k \in I : k \in Int
    OBVIOUS
  <2>1. A \in SUBSET B /\ i \in B /\ i \notin A
    <3>1. \A k \in I : k < i => k < j
      BY <1>4, <2>0
    <3>2. ~(i < i)
      BY <2>0
    <3> QED
      BY <1>4, <3>1, <3>2
  <2>2. IsFiniteSet(B)
    BY <1>2
  <2>3. Cardinality(A) <= Cardinality(B) /\ Cardinality(A) # Cardinality(B)
    BY <2>1, <2>2, FS_Subset
  <2>4. Rank(I, i) = Cardinality(A) /\ Rank(I, j) = Cardinality(B)
    BY DEF Rank
  <2>5. Rank(I, i) \in Nat /\ Rank(I, j) \in Nat
    BY <1>2
  <2> HIDE DEF A, B
  <2> QED
    BY <2>3, <2>4, <2>5
<1> QED
  BY <1>3, <1>4

\* Every rank below the size of the set is some member's.
LEMMA RankCovers ==
    ASSUME NEW I \in SUBSET Int, IsFiniteSet(I), NEW r \in 0 .. Cardinality(I) - 1
    PROVE  \E i \in I : Rank(I, i) = r
<1> DEFINE N == Cardinality(I)
           T == 0 .. N - 1
           f == [i \in I |-> Rank(I, i)]
<1>1. N \in Nat
  BY FS_CardinalityType
<1>2. IsFiniteSet(T) /\ Cardinality(T) = N
  <2>1. N - 1 \in Int /\ (0 > N - 1 => N = 0)
    BY <1>1
  <2> HIDE DEF N
  <2> QED
    BY <1>1, <2>1, FS_Interval
<1>3. f \in Injection(I, T)
  <2>1. f \in [I -> T]
    BY RankOrder
  <2>2. \A i, j \in I : i # j => f[i] # f[j]
    <3> SUFFICES ASSUME NEW i \in I, NEW j \in I, i < j PROVE f[i] # f[j]
      OBVIOUS
    <3>1. f[i] < f[j] /\ f[i] \in Int /\ f[j] \in Int
      BY RankOrder
    <3> QED
      BY <3>1
  <2> QED
    BY <2>1, <2>2 DEF Injection, IsInjective
<1>4. f \in Surjection(I, T)
  BY <1>2, <1>3, FS_Injection
<1>5. \E i \in I : f[i] = r
  BY <1>4 DEF Surjection
<1> QED
  BY <1>5

\* What is picked from a sequence are its entries at the chosen positions.
LEMMA PickedEntries ==
    ASSUME NEW S, NEW s \in Seq(S), NEW I \in SUBSET (DOMAIN s)
    PROVE  /\ Picked(s, I) \in Seq(S)
           /\ Len(Picked(s, I)) = Cardinality(I)
           /\ Cardinality(I) \in Nat
           /\ \A k \in DOMAIN Picked(s, I) : \E i \in I : Picked(s, I)[k] = s[i]
<1>1. IsFiniteSet(I) /\ I \in SUBSET Int
  <2>1. DOMAIN s = 1 .. Len(s) /\ Len(s) \in Nat
    BY LenProperties
  <2>2. IsFiniteSet(1 .. Len(s))
    BY <2>1, FS_Interval
  <2> QED
    BY <2>1, <2>2, FS_Subset
<1> DEFINE N == Cardinality(I)
           At(k) == CHOOSE i \in I : Rank(I, i) = k - 1
<1>2. N \in Nat
  BY <1>1, FS_CardinalityType
<1>3. ASSUME NEW k \in 1 .. N
      PROVE  At(k) \in I
  <2>1. k - 1 \in 0 .. N - 1
    BY <1>2
  <2>2. \E i \in I : Rank(I, i) = k - 1
    BY <1>1, <2>1, RankCovers
  <2> QED
    BY <2>2
<1>4. \A i \in I : s[i] \in S
  OBVIOUS
<1>5. Picked(s, I) = [k \in 1 .. N |-> s[At(k)]]
  BY DEF Picked
<1>6. \A k \in 1 .. N : s[At(k)] \in S
  BY <1>3, <1>4
<1> HIDE DEF At, N
<1>7. Picked(s, I) \in [1 .. N -> S]
  BY <1>5, <1>6
<1>8. Picked(s, I) \in Seq(S) /\ Len(Picked(s, I)) = N
  BY <1>2, <1>7
<1> QED
  BY <1>2, <1>3, <1>5, <1>7, <1>8 DEF N

\* Every child has one position.
LEMMA Positions ==
    /\ \A c \in Children : Position[c] \in DOMAIN ChildSeq /\ ChildSeq[Position[c]] = c
    /\ DOMAIN ChildSeq = 1 .. Len(ChildSeq)
    /\ Len(ChildSeq) \in Nat
<1>1. ChildSeq \in Seq(Children)
  BY SupervisionAssumption
<1>2. \A c \in Children : \E i \in DOMAIN ChildSeq : ChildSeq[i] = c
  BY DEF Children, ToSet
<1> QED
  BY <1>1, <1>2, LenProperties DEF Position

\* A set of children has as many positions as members.
LEMMA PositionsCount ==
    ASSUME NEW S \in SUBSET Children
    PROVE  /\ PositionsOf(S) \in SUBSET (DOMAIN ChildSeq)
           /\ PositionsOf(S) \in SUBSET Int
           /\ IsFiniteSet(PositionsOf(S)) /\ IsFiniteSet(S)
           /\ Cardinality(PositionsOf(S)) = Cardinality(S)
           /\ Cardinality(S) \in Nat
           /\ \A c \in S : Position[c] \in PositionsOf(S)
<1> DEFINE f == [c \in S |-> Position[c]]
<1>1. PositionsOf(S) \in SUBSET (DOMAIN ChildSeq)
  BY Positions DEF PositionsOf
<1>2. DOMAIN ChildSeq \in SUBSET Int /\ IsFiniteSet(DOMAIN ChildSeq)
  <2>1. IsFiniteSet(1 .. Len(ChildSeq))
    BY Positions, FS_Interval
  <2> QED
    BY <2>1, Positions
<1>3. IsFiniteSet(PositionsOf(S))
  BY <1>1, <1>2, FS_Subset
<1>4. f \in Bijection(S, PositionsOf(S))
  <2>1. f \in [S -> PositionsOf(S)]
    BY DEF PositionsOf
  <2>2. \A c, d \in S : f[c] = f[d] => c = d
    BY Positions
  <2>3. \A i \in PositionsOf(S) : \E c \in S : f[c] = i
    BY DEF PositionsOf
  <2> QED
    BY <2>1, <2>2, <2>3 DEF Bijection, Injection, Surjection, IsInjective
<1>5. IsFiniteSet(S) /\ Cardinality(PositionsOf(S)) = Cardinality(S)
  <2>1. f \in Injection(S, PositionsOf(S)) /\ f \in Surjection(S, PositionsOf(S))
    BY <1>4 DEF Bijection
  <2> QED
    BY <1>3, <2>1, FS_Injection
<1> QED
  BY <1>1, <1>2, <1>3, <1>5, FS_CardinalityType DEF PositionsOf

\* A set of children in declared order has its members.
LEMMA OrderedChildren ==
    ASSUME NEW S \in SUBSET Children
    PROVE  /\ InOrder(S) \in Seq(Children)
           /\ \A k \in DOMAIN InOrder(S) : InOrder(S)[k] \in S
<1>1. PositionsOf(S) \in SUBSET (DOMAIN ChildSeq)
  BY PositionsCount
<1>2. /\ InOrder(S) \in Seq(Children)
      /\ \A k \in DOMAIN InOrder(S) : \E i \in PositionsOf(S) : InOrder(S)[k] = ChildSeq[i]
  BY <1>1, PickedEntries, SupervisionAssumption DEF InOrder
<1>3. \A i \in PositionsOf(S) : ChildSeq[i] \in S
  BY Positions DEF PositionsOf
<1> QED
  BY <1>2, <1>3

-----------------------------------------------------------------------------
(* Processes and who has them *)

ProcStates == {"unused", "live", "reaped"} \cup Reasons
Tables == [Pids -> ProcStates]
Kids == [Children -> [pid : Nat, restart_count : Nat, stopped : BOOLEAN,
                      handled : Nat, pending : BOOLEAN]]

\* Identities are used one after the other.
InUse(table) == \E k \in 0 .. MaxPid : \A p \in Pids : table[p] # "unused" <=> p <= k

\* A child's process has been spawned, and a live process is some child's.
Held(table, kids) ==
    /\ \A c \in Children : kids[c].pid \in Pids => table[kids[c].pid] # "unused"
    /\ \A p \in Pids : table[p] = "live" => \E c \in Children : kids[c].pid = p

\* The next identity is the first unused one.
LEMMA NextIdentity ==
    ASSUME NEW table, NEW k \in 0 .. MaxPid,
           \A p \in Pids : table[p] # "unused" <=> p <= k
    PROVE  NextPid(table) = k + 1
<1>0. MaxPid \in Nat
  BY SupervisionAssumption
<1>1. {p \in Pids : table[p] # "unused"} = 1 .. k
  BY <1>0 DEF Pids
<1>2. Cardinality(1 .. k) = k
  BY <1>0, FS_Interval
<1>3. NextPid(table) = 1 + Cardinality(1 .. k)
  BY <1>1 DEF NextPid
<1> QED
  BY <1>0, <1>2, <1>3

\* Ending the processes of some children: none of theirs is live, nothing else
\* changes, and no identity is used or freed.
LEMMA EndedTable ==
    ASSUME NEW table \in Tables, NEW doomed \in SUBSET Children, NEW reason \in Reasons
    PROVE  LET ended == Ended(table, doomed, reason)
           IN  /\ ended \in Tables
               /\ \A p \in Pids : /\ ended[p] = "unused" <=> table[p] = "unused"
                                  /\ ended[p] = "live" => table[p] = "live"
               /\ \A c \in doomed : child[c].pid \in Pids => ended[child[c].pid] # "live"
  BY DEF Ended, Tables, ProcStates, Reasons

\* Endings leave the identities and their holders in order.
LEMMA EndedHeld ==
    ASSUME NEW table \in Tables, NEW ended \in Tables, NEW kids,
           \A p \in Pids : /\ ended[p] = "unused" <=> table[p] = "unused"
                           /\ ended[p] = "live" => table[p] = "live"
    PROVE  /\ InUse(table) => InUse(ended)
           /\ Held(table, kids) => Held(ended, kids)
  BY DEF InUse, Held

\* A rank is below the number of the reborn.
LEMMA RebornRanks ==
    ASSUME NEW reborn \in SUBSET Children
    PROVE  /\ Cardinality(reborn) \in Nat
           /\ \A c \in reborn :
                 Rank(PositionsOf(reborn), Position[c]) \in 0 .. Cardinality(reborn) - 1
           /\ \A r \in 0 .. Cardinality(reborn) - 1 :
                 \E c \in reborn : Rank(PositionsOf(reborn), Position[c]) = r
<1>1. /\ PositionsOf(reborn) \in SUBSET Int
      /\ IsFiniteSet(PositionsOf(reborn))
      /\ Cardinality(PositionsOf(reborn)) = Cardinality(reborn)
      /\ Cardinality(reborn) \in Nat
      /\ \A c \in reborn : Position[c] \in PositionsOf(reborn)
  BY PositionsCount
<1>2. \A c \in reborn :
         Rank(PositionsOf(reborn), Position[c]) \in 0 .. Cardinality(reborn) - 1
  BY <1>1, RankOrder
<1>3. ASSUME NEW r \in 0 .. Cardinality(reborn) - 1
      PROVE  \E c \in reborn : Rank(PositionsOf(reborn), Position[c]) = r
  <2>1. PICK i \in PositionsOf(reborn) : Rank(PositionsOf(reborn), i) = r
    BY <1>1, RankCovers
  <2> QED
    BY <2>1 DEF PositionsOf
<1> QED
  BY <1>1, <1>2, <1>3

\* A replacement changes a reborn child's process and count, and nothing else.
LEMMA ReplacedKids ==
    ASSUME NEW table \in Tables, NEW kids \in Kids, NEW reborn \in SUBSET Children,
           InUse(table)
    PROVE  LET new == Replaced(kids, table, reborn)
           IN  /\ new \in Kids
               /\ \A c \in Children : /\ new[c].stopped = kids[c].stopped
                                      /\ new[c].handled = kids[c].handled
                                      /\ new[c].pending = kids[c].pending
               /\ \A c \in Children \ reborn : new[c] = kids[c]
               /\ \A c \in reborn :
                     /\ new[c].pid = NextPid(table) + Rank(PositionsOf(reborn), Position[c])
                     /\ new[c].pid \in Nat \ {0}
<1>0. MaxPid \in Nat
  BY SupervisionAssumption
<1>1. NextPid(table) \in Nat \ {0}
  BY <1>0, NextIdentity DEF InUse
<1>2. \A c \in reborn : Rank(PositionsOf(reborn), Position[c]) \in Nat
  BY RebornRanks
<1>3. \A c \in reborn :
         NextPid(table) + Rank(PositionsOf(reborn), Position[c]) \in Nat \ {0}
  BY <1>1, <1>2
<1> DEFINE new == Replaced(kids, table, reborn)
<1>4. ASSUME NEW c \in reborn
      PROVE  new[c] = [kids[c] EXCEPT
                          !.pid = NextPid(table) + Rank(PositionsOf(reborn), Position[c]),
                          !.restart_count = @ + 1]
  BY DEF Replaced
<1>5. \A c \in Children \ reborn : new[c] = kids[c]
  BY DEF Replaced
<1>6. DOMAIN new = Children /\ new = [c \in Children |-> new[c]]
  BY DEF Replaced
<1>7. ASSUME NEW c \in reborn
      PROVE  /\ new[c] \in [pid : Nat, restart_count : Nat, stopped : BOOLEAN,
                            handled : Nat, pending : BOOLEAN]
             /\ new[c].stopped = kids[c].stopped
             /\ new[c].handled = kids[c].handled
             /\ new[c].pending = kids[c].pending
             /\ new[c].pid = NextPid(table) + Rank(PositionsOf(reborn), Position[c])
  <2> DEFINE q == NextPid(table) + Rank(PositionsOf(reborn), Position[c])
             r == kids[c]
             Kid == [pid : Nat, restart_count : Nat, stopped : BOOLEAN,
                     handled : Nat, pending : BOOLEAN]
  <2>1. r \in Kid
    BY DEF Kids
  <2>2. q \in Nat /\ new[c] = [r EXCEPT !.pid = q, !.restart_count = @ + 1]
    BY <1>3, <1>4
  <2> HIDE DEF q, r, new
  <2>3. r = [pid |-> r.pid, restart_count |-> r.restart_count, stopped |-> r.stopped,
             handled |-> r.handled, pending |-> r.pending] /\ r.restart_count + 1 \in Nat
    BY <2>1
  <2>4. new[c] = [pid |-> q, restart_count |-> r.restart_count + 1,
                  stopped |-> r.stopped, handled |-> r.handled, pending |-> r.pending]
    BY <2>1, <2>2, <2>3
  <2> QED
    BY <2>1, <2>2, <2>3, <2>4 DEF q, r
<1> HIDE DEF new
<1>8. new \in Kids
  BY <1>5, <1>6, <1>7 DEF Kids
<1> QED
  BY <1>3, <1>5, <1>7, <1>8 DEF new

\* Replacing the processes of children that have no live one: each live process
\* still is some child's, and the identities in use stay consecutive.
LEMMA Respawned ==
    ASSUME NEW table \in Tables, NEW kids \in Kids, NEW reborn \in SUBSET Children,
           InUse(table), Held(table, kids),
           \A c \in reborn : kids[c].pid \in Pids => table[kids[c].pid] # "live"
    PROVE  LET t == Spawned(table, reborn)
           IN  /\ t \in Tables
               /\ \A p \in Pids : table[p] # "unused" => t[p] = table[p]
               /\ InUse(t)
               /\ Held(t, Replaced(kids, table, reborn))
<1> DEFINE n == Cardinality(reborn)
           t == Spawned(table, reborn)
           new == Replaced(kids, table, reborn)
<1>0. MaxPid \in Nat
  BY SupervisionAssumption
<1>1. PICK k \in 0 .. MaxPid : \A p \in Pids : table[p] # "unused" <=> p <= k
  BY DEF InUse
<1>2. NextPid(table) = k + 1
  BY <1>1, NextIdentity
<1>3. n \in Nat
  BY RebornRanks
<1>4. \A p \in Pids : t[p] = IF p \in k + 1 .. k + n THEN "live" ELSE table[p]
  <2>1. (k + 1) + n - 1 = k + n
    BY <1>0, <1>3
  <2> QED
    BY <1>2, <2>1 DEF Spawned
<1>5. t \in Tables
  BY DEF Spawned, Tables, ProcStates
<1>6. \A p \in Pids : table[p] # "unused" => t[p] = table[p]
  <2> HIDE DEF t, n
  <2> QED
    BY <1>0, <1>1, <1>3, <1>4 DEF Pids
<1>7. InUse(t)
  <2> DEFINE m == IF k + n <= MaxPid THEN k + n ELSE MaxPid
  <2>1. m \in 0 .. MaxPid
    BY <1>0, <1>3
  <2>2. \A p \in Pids : t[p] # "unused" <=> p <= m
    <3> HIDE DEF t, n
    <3> QED
      BY <1>0, <1>1, <1>3, <1>4 DEF Pids
  <2> HIDE DEF m, t
  <2> QED
    BY <2>1, <2>2 DEF InUse
<1>8. /\ \A c \in Children \ reborn : new[c] = kids[c]
      /\ \A c \in reborn :
            new[c].pid = (k + 1) + Rank(PositionsOf(reborn), Position[c])
  BY <1>2, ReplacedKids
<1>9. \A c \in Children : new[c].pid \in Pids => t[new[c].pid] # "unused"
  <2> SUFFICES ASSUME NEW c \in Children, new[c].pid \in Pids
               PROVE  t[new[c].pid] # "unused"
    OBVIOUS
  <2> HIDE DEF t, new, n
  <2>1. CASE c \notin reborn
    BY <1>6, <1>8, <2>1 DEF Held
  <2>2. CASE c \in reborn
    <3>1. Rank(PositionsOf(reborn), Position[c]) \in 0 .. n - 1
      BY <2>2, RebornRanks DEF n
    <3>2. new[c].pid \in k + 1 .. k + n
      BY <1>0, <1>3, <1>8, <2>2, <3>1
    <3> QED
      BY <1>4, <3>2
  <2> QED
    BY <2>1, <2>2
<1>10. ASSUME NEW p \in Pids, t[p] = "live"
       PROVE  \E c \in Children : new[c].pid = p
  <2> HIDE DEF t, new, n
  <2>1. CASE p \in k + 1 .. k + n
    <3>1. p - (k + 1) \in 0 .. n - 1
      BY <1>0, <1>3, <2>1
    <3>2. PICK c \in reborn : Rank(PositionsOf(reborn), Position[c]) = p - (k + 1)
      BY <3>1, RebornRanks DEF n
    <3>3. (k + 1) + (p - (k + 1)) = p
      BY <1>0, <2>1
    <3> QED
      BY <1>8, <3>2, <3>3
  <2>2. CASE p \notin k + 1 .. k + n
    <3>1. table[p] = "live"
      BY <1>4, <1>10, <2>2
    <3>2. PICK c \in Children : kids[c].pid = p
      BY <3>1 DEF Held
    <3>3. c \notin reborn
      BY <3>1, <3>2
    <3> QED
      BY <1>8, <3>2, <3>3
  <2> QED
    BY <2>1, <2>2
<1> QED
  BY <1>5, <1>6, <1>7, <1>9, <1>10 DEF Held

\* collect_replacements only withdraws marks.
LEMMA SettledKids ==
    ASSUME NEW kids \in Kids
    PROVE  /\ Settled(kids) \in Kids
           /\ \A c \in Children : /\ Settled(kids)[c].pid = kids[c].pid
                                  /\ Settled(kids)[c].stopped = kids[c].stopped
<1>1. ASSUME NEW c \in Children
      PROVE  LET s == [kids[c] EXCEPT !.pending = @ /\ kids[c].handled = kids[c].pid]
             IN  /\ s \in [pid : Nat, restart_count : Nat, stopped : BOOLEAN,
                           handled : Nat, pending : BOOLEAN]
                 /\ s.pid = kids[c].pid /\ s.stopped = kids[c].stopped
  <2>1. kids[c] \in [pid : Nat, restart_count : Nat, stopped : BOOLEAN,
                     handled : Nat, pending : BOOLEAN]
    BY DEF Kids
  <2>2. (kids[c].pending /\ kids[c].handled = kids[c].pid) \in BOOLEAN
    OBVIOUS
  <2> QED
    BY <2>1, <2>2
<1> QED
  BY <1>1 DEF Settled, Kids

\* The starts of the collected replacements are processes of children.
LEMMA StartsOfKids ==
    ASSUME NEW kids \in Kids
    PROVE  Starts(kids) \in Seq(Nat)
<1> DEFINE new == InOrder(Collected(kids))
<1>1. Collected(kids) \in SUBSET Children
  BY DEF Collected
<1>2. new \in Seq(Children)
  BY <1>1, OrderedChildren
<1>3. Starts(kids) = [i \in DOMAIN new |-> kids[new[i]].pid]
  BY DEF Starts
<1> HIDE DEF new
<1>4. DOMAIN new = 1 .. Len(new) /\ Len(new) \in Nat
  BY <1>2
<1>5. \A i \in DOMAIN new : kids[new[i]].pid \in Nat
  BY <1>2, <1>4 DEF Kids
<1> QED
  BY <1>3, <1>4, <1>5

-----------------------------------------------------------------------------
(* Entries of queues *)

\* The entries of a tail, a concatenation, an extension and a selection.
LEMMA TailEntries ==
    ASSUME NEW S, NEW s \in Seq(S), s # <<>>
    PROVE  /\ Tail(s) \in Seq(S) /\ ToSet(Tail(s)) \in SUBSET ToSet(s)
           /\ Head(s) \in ToSet(s) /\ Head(s) \in S
<1>1. /\ Tail(s) \in Seq(S) /\ Len(Tail(s)) = Len(s) - 1 /\ Len(s) \in Nat \ {0}
      /\ \A i \in 1 .. Len(Tail(s)) : Tail(s)[i] = s[i + 1]
      /\ Head(s) = s[1]
      /\ DOMAIN s = 1 .. Len(s) /\ DOMAIN Tail(s) = 1 .. Len(Tail(s))
  OBVIOUS
<1>2. 1 \in DOMAIN s /\ \A i \in DOMAIN Tail(s) : i + 1 \in DOMAIN s
  BY <1>1
<1> QED
  BY <1>1, <1>2 DEF ToSet

\* What two queues hold together.
LEMMA ConcatEntries ==
    ASSUME NEW S, NEW s \in Seq(S), NEW t \in Seq(S)
    PROVE  s \o t \in Seq(S) /\ ToSet(s \o t) = ToSet(s) \cup ToSet(t)
<1>1. /\ s \o t \in Seq(S)
      /\ Len(s \o t) = Len(s) + Len(t)
      /\ \A i \in 1 .. Len(s) + Len(t) :
            (s \o t)[i] = IF i <= Len(s) THEN s[i] ELSE t[i - Len(s)]
  BY ConcatProperties
<1>2. /\ DOMAIN (s \o t) = 1 .. Len(s) + Len(t)
      /\ DOMAIN s = 1 .. Len(s) /\ DOMAIN t = 1 .. Len(t)
      /\ Len(s) \in Nat /\ Len(t) \in Nat
  BY <1>1
<1> DEFINE u == s \o t
<1> HIDE DEF u
<1>3. ASSUME NEW i \in DOMAIN u
      PROVE  u[i] \in ToSet(s) \cup ToSet(t)
  <2>1. CASE i <= Len(s)
    BY <1>1, <1>2, <2>1 DEF ToSet, u
  <2>2. CASE ~(i <= Len(s))
    <3>1. i - Len(s) \in DOMAIN t
      BY <1>2, <2>2 DEF u
    <3> QED
      BY <1>1, <1>2, <2>2, <3>1 DEF ToSet, u
  <2> QED
    BY <2>1, <2>2
<1>4. ASSUME NEW i \in DOMAIN s
      PROVE  s[i] \in ToSet(u)
  BY <1>1, <1>2 DEF ToSet, u
<1>5. ASSUME NEW i \in DOMAIN t
      PROVE  t[i] \in ToSet(u)
  <2>1. i + Len(s) \in 1 .. Len(s) + Len(t) /\ ~(i + Len(s) <= Len(s))
        /\ (i + Len(s)) - Len(s) = i
    BY <1>2
  <2>2. u[i + Len(s)] = t[i]
    BY <1>1, <2>1 DEF u
  <2> QED
    BY <1>2, <2>1, <2>2 DEF ToSet, u
<1>6. ToSet(u) = ToSet(s) \cup ToSet(t)
  <2>1. ToSet(u) \subseteq ToSet(s) \cup ToSet(t)
    BY <1>3 DEF ToSet
  <2>2. ToSet(s) \subseteq ToSet(u) /\ ToSet(t) \subseteq ToSet(u)
    BY <1>4, <1>5 DEF ToSet
  <2> QED
    BY <2>1, <2>2
<1> QED
  BY <1>1, <1>6 DEF u

\* What a longer queue holds.
LEMMA AppendEntries ==
    ASSUME NEW S, NEW s \in Seq(S), NEW e \in S
    PROVE  Append(s, e) \in Seq(S) /\ ToSet(Append(s, e)) = ToSet(s) \cup {e}
<1>1. /\ Append(s, e) \in Seq(S)
      /\ Len(s) \in Nat
      /\ DOMAIN Append(s, e) = 1 .. Len(s) + 1
      /\ DOMAIN s = 1 .. Len(s)
      /\ \A i \in 1 .. Len(s) : Append(s, e)[i] = s[i]
      /\ Append(s, e)[Len(s) + 1] = e
  OBVIOUS
<1>2. 1 .. Len(s) + 1 = (1 .. Len(s)) \cup {Len(s) + 1}
  BY <1>1
<1> QED
  BY <1>1, <1>2 DEF ToSet

\* Picked timers are timers, and each comes from one of the picked positions.
LEMMA PickedSet ==
    ASSUME NEW S, NEW s \in Seq(S), NEW I \in SUBSET (DOMAIN s)
    PROVE  /\ Picked(s, I) \in Seq(S)
           /\ \A e \in ToSet(Picked(s, I)) : \E i \in I : e = s[i]
           /\ ToSet(Picked(s, I)) \in SUBSET ToSet(s)
<1>1. /\ Picked(s, I) \in Seq(S)
      /\ \A k \in DOMAIN Picked(s, I) : \E i \in I : Picked(s, I)[k] = s[i]
  BY PickedEntries
<1>2. \A e \in ToSet(Picked(s, I)) : \E i \in I : e = s[i]
  BY <1>1 DEF ToSet
<1>3. \A i \in I : s[i] \in ToSet(s)
  BY DEF ToSet
<1> QED
  BY <1>1, <1>2, <1>3

\* An empty queue holds nothing.
LEMMA NoEntries == ToSet(<<>>) = {}
  BY DEF ToSet

\* The records of ended children are of processes.
LEMMA RecordedSeq ==
    ASSUME child \in Kids, NEW doomed \in SUBSET Children, NEW reason \in Reasons
    PROVE  Recorded(doomed, reason) \in Seq([pid : Nat, reason : Reasons])
<1> DEFINE dead == InOrder({c \in doomed : Live(c)})
<1>1. dead \in Seq(Children)
  BY OrderedChildren
<1>2. Recorded(doomed, reason) =
         [i \in DOMAIN dead |-> [pid |-> child[dead[i]].pid, reason |-> reason]]
  BY DEF Recorded
<1> HIDE DEF dead
<1>3. DOMAIN dead = 1 .. Len(dead) /\ Len(dead) \in Nat
  BY <1>1
<1>4. \A i \in DOMAIN dead :
         [pid |-> child[dead[i]].pid, reason |-> reason] \in [pid : Nat, reason : Reasons]
  BY <1>1, <1>3 DEF Kids
<1> QED
  BY <1>2, <1>3, <1>4

-----------------------------------------------------------------------------
(* The restart window *)

\* What leaves the window is a prefix, all of it expired.
LEMMA DroppedPrefix ==
    ASSUME NEW S, restarts \in Seq(S)
    PROVE  /\ Dropped \in 0 .. Len(restarts)
           /\ \A i \in 1 .. Dropped : Expired(restarts[i])
<1> DEFINE L == Len(restarts)
           T == {i \in 1 .. L : ~Expired(restarts[i])}
           Fits(n) == /\ \A i \in 1 .. n : Expired(restarts[i])
                      /\ n < L => ~Expired(restarts[n + 1])
<1>1. L \in Nat
  OBVIOUS
<1>2. \E n \in 0 .. L : Fits(n)
  <2> HIDE DEF L
  <2>1. CASE T = {}
    <3>1. \A i \in 1 .. L : Expired(restarts[i])
      BY <2>1
    <3>2. L \in 0 .. L /\ ~(L < L)
      BY <1>1
    <3> QED
      BY <3>1, <3>2
  <2>2. CASE T # {}
    <3>1. T \in SUBSET Nat
      BY <1>1
    <3>2. PICK m \in T : \A k \in T : m <= k
      BY <2>2, <3>1, LeastNumber
    <3>3. m \in 1 .. L /\ ~Expired(restarts[m])
      OBVIOUS
    <3>4. \A i \in 1 .. m - 1 : i \in 1 .. L /\ ~(m <= i)
      BY <1>1, <3>3
    <3>5. \A i \in 1 .. m - 1 : Expired(restarts[i])
      BY <3>2, <3>4
    <3>6. m - 1 \in 0 .. L /\ (m - 1) + 1 = m
      BY <1>1, <3>3
    <3> QED
      BY <3>3, <3>5, <3>6
  <2> QED
    BY <2>1, <2>2
<1>3. Dropped \in 0 .. L /\ Fits(Dropped)
  <2>1. Dropped = CHOOSE n \in 0 .. L : Fits(n)
    BY DEF Dropped
  <2> HIDE DEF Fits, L
  <2> QED
    BY <1>2, <2>1
<1> QED
  BY <1>3

\* The window that is left is a suffix.
LEMMA WindowSuffix ==
    ASSUME NEW S, restarts \in Seq(S)
    PROVE  /\ InWindow \in Seq(S)
           /\ Len(InWindow) = Len(restarts) - Dropped
           /\ \A i \in 1 .. Len(InWindow) : InWindow[i] = restarts[Dropped + i]
<1>1. Dropped \in 0 .. Len(restarts) /\ Len(restarts) \in Nat
  BY DroppedPrefix
<1> DEFINE m == Dropped + 1
           n == Len(restarts)
<1>2. m \in Int /\ n \in Int
  BY <1>1
<1>3. \A i \in m .. n : restarts[i] \in S
  <2>1. \A i \in m .. n : i \in 1 .. Len(restarts)
    BY <1>1
  <2> QED
    BY <2>1, ElementOfSeq
<1>4. InWindow = SubSeq(restarts, m, n)
  BY DEF InWindow
<1> HIDE DEF m, n
<1>5. /\ InWindow \in Seq(S)
      /\ Len(InWindow) = IF m <= n THEN n - m + 1 ELSE 0
      /\ \A i \in 1 .. n - m + 1 : InWindow[i] = restarts[m + i - 1]
  BY <1>2, <1>3, <1>4, SubSeqProperties
<1>6. Len(InWindow) = n - Dropped /\ n - m + 1 = n - Dropped
  BY <1>1, <1>5 DEF m, n
<1>7. \A i \in 1 .. n - Dropped : m + i - 1 = Dropped + i
  BY <1>1 DEF m, n
<1> QED
  BY <1>5, <1>6, <1>7 DEF n

\* A restart delay is a number of ticks.
LEMMA DelayNat ==
    ASSUME child \in Kids, NEW c \in Children
    PROVE  Delay(c) \in Nat
<1> DEFINE n == child[c].restart_count
<1>1. n \in Nat /\ (n + 1) - 1 = n
  BY DEF Kids
<1>2. Cardinality(SUBSET (1 .. n)) = 2 ^ n /\ Cardinality(SUBSET (1 .. n)) \in Nat
  <2> HIDE DEF n
  <2>1. IsFiniteSet(1 .. n) /\ Cardinality(1 .. n) = n
    BY <1>1, FS_Interval
  <2> QED
    BY <2>1, FS_SUBSET, FS_CardinalityType
<1>3. InitialBackoff[c] \in Nat /\ MaximumBackoff[c] \in Nat
  BY SupervisionAssumption
<1>4. InitialBackoff[c] * 2 ^ n \in Nat
  <2> DEFINE p == 2 ^ n
  <2>1. p \in Nat
    BY <1>2
  <2> HIDE DEF p
  <2> QED
    BY <1>3, <2>1 DEF p
<1>5. DelayFor(c, n + 1) \in Nat
  BY <1>1, <1>3, <1>4 DEF DelayFor
<1> QED
  BY <1>5 DEF Delay

\* The intents of deferred children are timers that name them.
LEMMA IntentsTimers ==
    ASSUME TypeOK, exits # <<>>, NEW c \in Children
    PROVE  /\ Intents(c) \in Seq(Timers)
           /\ \A t \in ToSet(Intents(c)) : t.child \in Deferred(c) /\ t.pid = child[t.child].pid
<1> DEFINE late == InOrder(Deferred(c))
           intent(d) == [kind |-> "restart", child |-> d, pid |-> child[d].pid,
                         reason |-> Head(exits).reason, deadline |-> clock + Delay(d)]
<1>1. Selected(c) \in SUBSET Children
  BY SupervisionAssumption DEF Selected, TypeOK
<1>2. Deferred(c) \in SUBSET Children
  BY <1>1 DEF Deferred
<1>3. late \in Seq(Children) /\ \A i \in DOMAIN late : late[i] \in Deferred(c)
  BY <1>2, OrderedChildren
<1>4. child \in Kids /\ clock \in Nat /\ Head(exits).reason \in Reasons
  <2>1. Head(exits) \in [pid : Nat, reason : Reasons]
    BY TailEntries DEF TypeOK
  <2> QED
    BY <2>1 DEF TypeOK, Kids
<1>5. ASSUME NEW d \in Children
      PROVE  intent(d) \in Timers
  <2>1. Delay(d) \in Nat /\ child[d].pid \in Nat
    BY <1>4, DelayNat DEF Kids
  <2>2. clock + Delay(d) \in Nat
    BY <1>4, <2>1
  <2> QED
    BY <1>4, <2>1, <2>2 DEF Timers
<1>6. Intents(c) = [i \in DOMAIN late |-> intent(late[i])]
  BY DEF Intents
<1>7. \A d \in Children : intent(d).child = d /\ intent(d).pid = child[d].pid
  OBVIOUS
<1> HIDE DEF late, intent
<1>8. DOMAIN late = 1 .. Len(late) /\ Len(late) \in Nat
      /\ \A i \in DOMAIN late : late[i] \in Children
  BY <1>3
<1>9. Intents(c) \in Seq(Timers)
  BY <1>5, <1>6, <1>8
<1>10. \A t \in ToSet(Intents(c)) : \E i \in DOMAIN late : t = intent(late[i])
  BY <1>6 DEF ToSet
<1> QED
  BY <1>3, <1>7, <1>8, <1>9, <1>10

-----------------------------------------------------------------------------
(* The inductive invariant *)

\* A restart intent names a child that is not stopped and a process that ended.
Sound(t, table, kids) ==
    t.kind = "restart" =>
        /\ ~kids[t.child].stopped
        /\ t.pid \in Pids => table[t.pid] \notin {"live", "unused"}

IntentsSound ==
    \A t \in ToSet(timers) \cup ToSet(events) : Sound(t, proc, child)

\* Due timers are kept during an advance only; only what was started stops.
Orderly ==
    /\ mode # "firing" => events = <<>>
    /\ \A c \in Children : child[c].stopped => child[c].pid # NoPid
    /\ listed \in SUBSET Admitted

IInv ==
    TypeOK /\ InUse(proc) /\ Held(proc, child) /\ IntentsSound /\ Orderly

\* What endings and replacements leave of an intent.
LEMMA SoundKept ==
    ASSUME NEW t \in Timers, NEW table, NEW kids, NEW after, NEW later,
           Sound(t, table, kids),
           \A p \in Pids : table[p] \notin {"live", "unused"} =>
                              after[p] \notin {"live", "unused"},
           later[t.child].stopped => kids[t.child].stopped
    PROVE  Sound(t, after, later)
  BY DEF Sound

\* The first state.
LEMMA InitIInv == Init => IInv
<1> SUFFICES ASSUME Init PROVE IInv
  OBVIOUS
<1>0. MaxPid \in Nat /\ Limit \in Nat
  BY SupervisionAssumption
<1>1. TypeOK
  <2>1. NoChild \in [pid : Nat, restart_count : Nat, stopped : BOOLEAN,
                     handled : Nat, pending : BOOLEAN]
    BY DEF NoChild, NoPid
  <2>2. /\ restarts \in Seq(0 .. clock) /\ Len(restarts) <= Limit
        /\ timers \in Seq(Timers) /\ events \in Seq(Timers)
        /\ exits \in Seq([pid : Nat, reason : Reasons])
        /\ terminations \in Seq(Nat) /\ ready \in Seq(Nat)
        /\ incidents \in Seq(0 .. clock)
    BY <1>0, EmptySeq DEF Init
  <2>3. proc \in [Pids -> {"unused", "live", "reaped"} \cup Reasons]
    BY DEF Init
  <2>4. child \in [Children -> [pid : Nat, restart_count : Nat, stopped : BOOLEAN,
                               handled : Nat, pending : BOOLEAN]]
    BY <2>1 DEF Init
  <2> QED
    BY <2>2, <2>3, <2>4 DEF Init, TypeOK
<1>2. InUse(proc)
  <2>1. 0 \in 0 .. MaxPid /\ \A p \in Pids : ~(p <= 0)
    BY <1>0 DEF Pids
  <2> QED
    BY <2>1 DEF Init, InUse
<1>3. Held(proc, child)
  BY DEF Init, Held, NoChild, NoPid, Pids
<1>4. IntentsSound
  BY NoEntries DEF Init, IntentsSound
<1>5. Orderly
  BY DEF Init, Orderly, NoChild
<1> QED
  BY <1>1, <1>2, <1>3, <1>4, <1>5 DEF IInv

\* A step that at most ends processes, and sheds timers, keeps the invariant.
Ends(table, after) ==
    /\ after \in Tables
    /\ \A p \in Pids : /\ after[p] = "unused" <=> table[p] = "unused"
                       /\ after[p] = "live" => table[p] = "live"

\* Processes may end; children keep theirs, and no timer is added.
LEMMA EndingIInv ==
    ASSUME IInv, TypeOK', Ends(proc, proc'), listed' = listed,
           \A c \in Children : /\ child'[c].pid = child[c].pid
                               /\ child'[c].stopped = child[c].stopped,
           ToSet(timers') \cup ToSet(events') \subseteq ToSet(timers) \cup ToSet(events),
           mode' # "firing" => events' = <<>>
    PROVE  IInv'
<1>1. InUse(proc)' /\ Held(proc, child)'
  <2>1. InUse(proc') /\ Held(proc', child)
    BY EndedHeld DEF IInv, TypeOK, Ends, Tables, ProcStates
  <2> QED
    BY <2>1 DEF InUse, Held
<1>2. IntentsSound'
  <2> SUFFICES ASSUME NEW t \in ToSet(timers') \cup ToSet(events')
               PROVE  Sound(t, proc', child')
    BY DEF IntentsSound, Sound
  <2>1. t \in Timers /\ Sound(t, proc, child)
    <3>1. t \in ToSet(timers) \cup ToSet(events)
      OBVIOUS
    <3>2. timers \in Seq(Timers) /\ events \in Seq(Timers)
      BY DEF IInv, TypeOK
    <3>3. ToSet(timers) \in SUBSET Timers /\ ToSet(events) \in SUBSET Timers
      BY <3>2 DEF ToSet
    <3> QED
      BY <3>1, <3>3 DEF IInv, IntentsSound
  <2>2. t.child \in Children
    BY <2>1 DEF Timers
  <2> QED
    BY <2>1, <2>2 DEF Sound, Ends
<1>3. Orderly'
  BY DEF IInv, Orderly, Admitted
<1> QED
  BY <1>1, <1>2, <1>3 DEF IInv

\* Nothing ends.
LEMMA NoEnding == IInv => Ends(proc, proc)
  BY DEF IInv, TypeOK, Ends, Tables, ProcStates

\* Steps that touch neither processes nor children.
LEMMA QuietIInv ==
    ASSUME IInv,
           \/ Fired \/ FireStop \/ ExitsDone \/ TerminationsDone \/ SurfaceFailure
           \/ Drive \/ UNCHANGED vars
    PROVE  IInv'
<1>1. TypeOK'
  <2>1. CASE FireStop
    <3>1. Tail(events) \in Seq(Timers) /\ Head(events) \in Timers
      BY <2>1, TailEntries DEF FireStop, IInv, TypeOK
    <3>2. Append(terminations, Head(events).pid) \in Seq(Nat)
      BY <3>1, AppendEntries DEF IInv, TypeOK, Timers
    <3> QED
      BY <2>1, <3>1, <3>2 DEF FireStop, IInv, TypeOK
  <2>2. CASE TerminationsDone
    <3>1. timer_owner' \in BOOLEAN
      BY <2>2 DEF TerminationsDone, IInv, TypeOK
    <3> QED
      BY <2>2, <3>1 DEF TerminationsDone, IInv, TypeOK, Phases
  <2> QED
    BY <2>1, <2>2 DEF IInv, TypeOK, Phases, Fired, ExitsDone, SurfaceFailure, Drive, vars
<1>2. proc' = proc /\ child' = child /\ timers' = timers /\ listed' = listed
  BY DEF Fired, FireStop, ExitsDone, TerminationsDone, SurfaceFailure, Drive, vars
<1>3. ToSet(events') \in SUBSET ToSet(events)
  <2>1. CASE FireStop
    BY <2>1, TailEntries DEF FireStop, IInv, TypeOK
  <2> QED
    BY <2>1 DEF Fired, ExitsDone, TerminationsDone, SurfaceFailure, Drive, vars
<1>4. mode' # "firing" => events' = <<>>
  BY DEF IInv, Orderly, Fired, FireStop, ExitsDone, TerminationsDone, SurfaceFailure,
         Drive, vars
<1> QED
  BY <1>1, <1>2, <1>3, <1>4, NoEnding, EndingIInv

\* advance_clock sorts the timers into due ones and others.
LEMMA AdvanceIInv ==
    ASSUME IInv, NEW now \in Nat, now > clock, AdvanceClock(now)
    PROVE  IInv'
<1> DEFINE due == {i \in DOMAIN timers : timers[i].deadline <= now}
           rest == {i \in DOMAIN timers : timers[i].deadline > now}
<1>1. events' = Picked(timers, due) /\ timers' = Picked(timers, rest)
  BY DEF AdvanceClock
<1>2. /\ events' \in Seq(Timers) /\ ToSet(events') \in SUBSET ToSet(timers)
      /\ timers' \in Seq(Timers) /\ ToSet(timers') \in SUBSET ToSet(timers)
  <2>1. timers \in Seq(Timers) /\ due \in SUBSET (DOMAIN timers)
        /\ rest \in SUBSET (DOMAIN timers)
    BY DEF IInv, TypeOK
  <2> HIDE DEF due, rest
  <2> QED
    BY <1>1, <2>1, PickedSet
<1>3. clock \in Nat /\ 0 .. clock \subseteq 0 .. now
  BY DEF IInv, TypeOK
<1>4. restarts \in Seq(0 .. now) /\ incidents \in Seq(0 .. now)
  BY <1>3, SeqMonotonic DEF IInv, TypeOK
<1>5. TypeOK'
  BY <1>2, <1>4 DEF IInv, TypeOK, AdvanceClock
<1>6. proc' = proc /\ child' = child /\ listed' = listed /\ mode' = "firing"
  BY DEF AdvanceClock
<1> QED
  BY <1>2, <1>5, <1>6, NoEnding, EndingIInv

\* An exit that starts nothing.
LEMMA IgnoreIInv ==
    ASSUME IInv, IgnoreExit
    PROVE  IInv'
<1>0. child \in Kids /\ Tail(exits) \in Seq([pid : Nat, reason : Reasons])
      /\ Head(exits) \in [pid : Nat, reason : Reasons]
  BY TailEntries DEF IInv, TypeOK, Kids, IgnoreExit
<1>1. /\ child' \in Kids
      /\ \A c \in Children : /\ child'[c].pid = child[c].pid
                             /\ child'[c].stopped = child[c].stopped
  <2>1. ASSUME NEW c \in Children
        PROVE  LET s == [child[c] EXCEPT !.handled = Head(exits).pid]
               IN  /\ s \in [pid : Nat, restart_count : Nat, stopped : BOOLEAN,
                             handled : Nat, pending : BOOLEAN]
                   /\ s.pid = child[c].pid /\ s.stopped = child[c].stopped
    <3>1. child[c] \in [pid : Nat, restart_count : Nat, stopped : BOOLEAN,
                        handled : Nat, pending : BOOLEAN] /\ Head(exits).pid \in Nat
      BY <1>0 DEF Kids
    <3> QED
      BY <3>1
  <2> QED
    BY <1>0, <2>1 DEF Kids, IgnoreExit
<1>2. TypeOK'
  BY <1>0, <1>1 DEF IInv, TypeOK, IgnoreExit, Kids
<1>3. /\ proc' = proc /\ timers' = timers /\ listed' = listed /\ events' = events
      /\ mode' # "firing" => events' = <<>>
  BY DEF IgnoreExit, IInv, Orderly
<1> QED
  BY <1>1, <1>2, <1>3, NoEnding, EndingIInv

\* Children exit by themselves.
LEMMA ExitIInv ==
    ASSUME IInv, NEW S \in SUBSET Children, NEW reason \in Reasons,
           ChildrenExit(S, reason)
    PROVE  IInv'
<1>0. proc \in Tables /\ child \in Kids
  BY DEF IInv, TypeOK, Tables, Kids, ProcStates
<1>1. Ends(proc, proc')
  BY <1>0, EndedTable DEF ChildrenExit, Ends
<1>2. exits \o Recorded(S, reason) \in Seq([pid : Nat, reason : Reasons])
  BY <1>0, RecordedSeq, ConcatEntries DEF IInv, TypeOK
<1>3. TypeOK'
  BY <1>1, <1>2 DEF ChildrenExit, IInv, TypeOK, Ends, Tables, ProcStates, Phases
<1>4. /\ child' = child /\ timers' = timers /\ listed' = listed /\ events' = events
      /\ mode' # "firing" => events' = <<>>
  BY DEF ChildrenExit, IInv, Orderly
<1> QED
  BY <1>1, <1>3, <1>4, EndingIInv

\* A child past its shutdown deadline is killed.
LEMMA TerminateIInv ==
    ASSUME IInv, Terminate
    PROVE  IInv'
<1> DEFINE doomed == {c \in Admitted : child[c].pid = Head(terminations)}
<1>0. proc \in Tables /\ child \in Kids /\ doomed \in SUBSET Children
      /\ "error" \in Reasons
  BY DEF IInv, TypeOK, Tables, Kids, ProcStates, Admitted, Reasons
<1>1. /\ proc' = Ended(proc, doomed, "error")
      /\ exits' = exits \o Recorded(doomed, "error")
  BY DEF Terminate
<1> HIDE DEF doomed
<1>2. Ends(proc, proc')
  BY <1>0, <1>1, EndedTable DEF Ends
<1>3. exits' \in Seq([pid : Nat, reason : Reasons])
  BY <1>0, <1>1, RecordedSeq, ConcatEntries DEF IInv, TypeOK
<1>4. Tail(terminations) \in Seq(Nat)
  BY TailEntries DEF IInv, TypeOK, Terminate
<1>5. TypeOK'
  BY <1>2, <1>3, <1>4 DEF Terminate, IInv, TypeOK, Ends, Tables, ProcStates
<1>6. /\ child' = child /\ timers' = timers /\ listed' = listed /\ events' = events
      /\ mode' # "firing" => events' = <<>>
  BY DEF Terminate, IInv, Orderly
<1> QED
  BY <1>2, <1>5, <1>6, EndingIInv

\* A finished drive may reap what has ended.
LEMMA DoneIInv ==
    ASSUME IInv, DriveDone
    PROVE  IInv'
<1>1. Ends(proc, proc')
  BY DEF DriveDone, IInv, TypeOK, Ends, Tables, ProcStates, Reasons
<1>2. TypeOK'
  BY <1>1, EmptySeq DEF DriveDone, IInv, TypeOK, Ends, Tables, ProcStates
<1>3. /\ child' = child /\ timers' = timers /\ listed' = listed /\ events' = events
      /\ mode' # "firing" => events' = <<>>
  BY DEF DriveDone, IInv, Orderly
<1> QED
  BY <1>1, <1>2, <1>3, EndingIInv

\* The first execution of a child: it parks or ends.
LEMMA ExecuteIInv ==
    ASSUME IInv, NEW outcome \in {"live"} \cup Reasons, ExecuteStart(outcome)
    PROVE  IInv'
<1> DEFINE p == ready[NextStart]
<1>0. NextStart \in 1 .. Len(ready) /\ ready \in Seq(Nat) /\ Len(ready) \in Nat
  <2>1. ready \in Seq(Nat) /\ DOMAIN ready = 1 .. Len(ready) /\ Len(ready) \in Nat
    BY LenProperties DEF IInv, TypeOK
  <2>2. StartsLeft \in SUBSET Nat /\ StartsLeft # {} /\ StartsLeft \in SUBSET (DOMAIN ready)
    BY <2>1 DEF StartsLeft, ExecuteStart
  <2>3. \E i \in StartsLeft : \A j \in StartsLeft : i <= j
    BY <2>2, LeastNumber
  <2>4. NextStart \in StartsLeft
    BY <2>3 DEF NextStart
  <2> QED
    BY <2>1, <2>2, <2>4
<1>1. p \in Nat
  BY <1>0, ElementOfSeq
<1>2. SubSeq(ready, NextStart + 1, Len(ready)) \in Seq(Nat)
  <2>1. \A i \in NextStart + 1 .. Len(ready) : i \in 1 .. Len(ready)
    BY <1>0
  <2>2. \A i \in NextStart + 1 .. Len(ready) : ready[i] \in Nat
    BY <1>0, <2>1, ElementOfSeq
  <2>3. NextStart + 1 \in Int /\ Len(ready) \in Int
    BY <1>0
  <2> QED
    BY <2>2, <2>3, SubSeqProperties
<1>3. \/ proc' = proc /\ exits' = exits
      \/ /\ proc' = [proc EXCEPT ![p] = outcome] /\ proc[p] = "live"
         /\ \/ exits' = exits
            \/ /\ exits' = Append(exits, [pid |-> p, reason |-> outcome])
               /\ outcome \in Reasons
  <2>1. CASE proc[p] # "live"
    BY <2>1 DEF ExecuteStart
  <2>2. CASE proc[p] = "live"
    <3>1. /\ proc' = [proc EXCEPT ![p] = outcome]
          /\ exits' = IF outcome = "live" THEN exits
                      ELSE Append(exits, [pid |-> p, reason |-> outcome])
      BY <2>2 DEF ExecuteStart
    <3> HIDE DEF p
    <3> QED
      BY <2>2, <3>1
  <2> QED
    BY <2>1, <2>2
<1>4. Ends(proc, proc')
  <2> HIDE DEF p
  <2> QED
    BY <1>3 DEF IInv, TypeOK, Ends, Tables, ProcStates, Reasons
<1>5. exits' \in Seq([pid : Nat, reason : Reasons])
  <2>1. exits \in Seq([pid : Nat, reason : Reasons])
    BY DEF IInv, TypeOK
  <2> HIDE DEF p
  <2> QED
    <3>1. ASSUME outcome \in Reasons
          PROVE  Append(exits, [pid |-> p, reason |-> outcome])
                    \in Seq([pid : Nat, reason : Reasons])
      <4>1. [pid |-> p, reason |-> outcome] \in [pid : Nat, reason : Reasons]
        BY <1>1, <3>1
      <4> QED
        BY <2>1, <4>1, AppendEntries
    <3> QED
      BY <1>3, <2>1, <3>1
<1>6. ready' \in Seq(Nat) /\ mode' \in {"idle", "exits"}
  BY <1>2 DEF ExecuteStart
<1>7. UNCHANGED <<clock, owner_alive, child, listed, state, restarts, timers, events,
                  timer_owner, terminations, failure, incidents>>
  BY DEF ExecuteStart
<1>8. TypeOK'
  BY <1>4, <1>5, <1>6, <1>7 DEF IInv, TypeOK, Ends, Tables, ProcStates, Phases
<1>9. mode = "ready"
  BY DEF ExecuteStart
<1> QED
  BY <1>4, <1>6, <1>7, <1>8, <1>9, EndingIInv DEF IInv, Orderly

\* Who has a process depends on the children's processes only.
LEMMA HeldByPids ==
    ASSUME NEW table, NEW kids, NEW same, Held(table, kids),
           \A c \in Children : same[c].pid = kids[c].pid
    PROVE  Held(table, same)
  BY DEF Held

\* start: the child had no process and gets the next one.
LEMMA StartIInv ==
    ASSUME IInv, NEW c \in Children, StartChild(c)
    PROVE  IInv'
<1> DEFINE new == Replaced(child, proc, {c})
<1>0. /\ proc \in Tables /\ child \in Kids /\ {c} \in SUBSET Children
      /\ InUse(proc) /\ Held(proc, child)
      /\ child[c].pid = NoPid /\ NoPid \notin Pids
  BY DEF IInv, TypeOK, Tables, Kids, ProcStates, StartChild, Admitted, NoPid, Pids
<1>1. /\ proc' \in Tables
      /\ \A p \in Pids : proc[p] # "unused" => proc'[p] = proc[p]
      /\ InUse(proc') /\ Held(proc', new)
  BY <1>0, Respawned DEF StartChild
<1>2. NextPid(proc) \in Nat \ {0} /\ new[c].pid = NextPid(proc)
  <2>1. new[c].pid = NextPid(proc) + Rank(PositionsOf({c}), Position[c])
        /\ new[c].pid \in Nat \ {0}
    BY <1>0, ReplacedKids
  <2>2. Cardinality({c}) = 1
    BY FS_Singleton
  <2>3. Rank(PositionsOf({c}), Position[c]) \in 0 .. Cardinality({c}) - 1
    BY <1>0, RebornRanks
  <2>4. Rank(PositionsOf({c}), Position[c]) = 0
    BY <2>2, <2>3
  <2>5. NextPid(proc) \in Nat
    <3>1. PICK k \in 0 .. MaxPid : \A p \in Pids : proc[p] # "unused" <=> p <= k
      BY <1>0 DEF InUse
    <3>2. MaxPid \in Nat
      BY SupervisionAssumption
    <3>3. NextPid(proc) = k + 1
      BY <3>1, NextIdentity
    <3> QED
      BY <3>2, <3>3
  <2> HIDE DEF new
  <2> QED
    BY <2>1, <2>4, <2>5
<1>3. /\ child' \in Kids
      /\ child'[c].pid = NextPid(proc)
      /\ \A d \in Children : child'[d].stopped = child[d].stopped
      /\ \A d \in Children : d # c => child'[d] = child[d]
  <2>1. child' = [child EXCEPT ![c].pid = NextPid(proc)]
    BY DEF StartChild
  <2>2. NextPid(proc) \in Nat
    BY <1>2
  <2> QED
    BY <1>0, <2>1, <2>2 DEF Kids
<1>4. \A d \in Children : child'[d].pid = new[d].pid
  <2>1. \A d \in Children : d # c => new[d] = child[d]
    BY <1>0, ReplacedKids
  <2> HIDE DEF new
  <2> QED
    BY <1>2, <1>3, <2>1
<1>5. Held(proc, child)'
  <2>1. Held(proc', child')
    BY <1>1, <1>4, HeldByPids
  <2> QED
    BY <2>1 DEF Held
<1>6. InUse(proc)'
  BY <1>1 DEF InUse
<1>7. ready' \in Seq(Nat)
  BY <1>2, AppendEntries DEF IInv, TypeOK, StartChild
<1>8. TypeOK'
  BY <1>1, <1>3, <1>7 DEF IInv, TypeOK, StartChild, Kids, Tables, ProcStates, Phases
<1>9. timers' = timers /\ events' = events
  BY DEF StartChild
<1>10. ToSet(timers) \cup ToSet(events) \subseteq Timers
  BY DEF IInv, TypeOK, ToSet
<1>11. IntentsSound'
  <2>1. \A t \in ToSet(timers) \cup ToSet(events) : t.child \in Children
    BY <1>10 DEF Timers
  <2>2. \A t \in ToSet(timers) \cup ToSet(events) : Sound(t, proc', child')
    BY <1>1, <1>3, <2>1 DEF Sound, IInv, IntentsSound
  <2> QED
    BY <1>9, <2>2 DEF IntentsSound, Sound
<1>12. Orderly'
  <2>1. mode' # "firing" => events' = <<>>
    BY DEF IInv, Orderly, StartChild
  <2>2. \A d \in Children : child[d].pid # NoPid => child'[d].pid # NoPid
    BY <1>0, <1>2, <1>3 DEF NoPid
  <2>3. child'[c].pid # NoPid
    BY <1>2, <1>3 DEF NoPid
  <2>4. listed' = listed \cup {c}
    BY DEF StartChild
  <2> QED
    BY <1>3, <2>1, <2>2, <2>3, <2>4 DEF IInv, Orderly, Admitted
<1> QED
  BY <1>5, <1>6, <1>8, <1>11, <1>12 DEF IInv

\* cancel_child: the intents of some children are gone, nothing is added.
LEMMA WithoutIntentsEntries ==
    ASSUME TypeOK, NEW S
    PROVE  /\ WithoutIntents(S) \in Seq(Timers)
           /\ \A t \in ToSet(WithoutIntents(S)) :
                 t \in ToSet(timers) /\ ~(t.kind = "restart" /\ t.child \in S)
<1> DEFINE I == {i \in DOMAIN timers : ~(timers[i].kind = "restart" /\ timers[i].child \in S)}
<1>1. timers \in Seq(Timers) /\ I \in SUBSET (DOMAIN timers)
  BY DEF TypeOK
<1>2. /\ Picked(timers, I) \in Seq(Timers)
      /\ \A e \in ToSet(Picked(timers, I)) : \E i \in I : e = timers[i]
      /\ ToSet(Picked(timers, I)) \in SUBSET ToSet(timers)
  <2> HIDE DEF I
  <2> QED
    BY <1>1, PickedSet
<1>3. WithoutIntents(S) = Picked(timers, I)
  BY DEF WithoutIntents
<1> QED
  BY <1>2, <1>3

\* A step that ends processes and stops children, and leaves no intent of the
\* stopped ones, keeps the invariant.
LEMMA StoppingIInv ==
    ASSUME IInv, TypeOK', Ends(proc, proc'), listed' \in SUBSET listed,
           events' = <<>>, NEW S \in SUBSET Admitted,
           \A t \in ToSet(timers') :
              t.kind = "restart" => t \in ToSet(timers) /\ t.child \notin S,
           \A c \in Children : /\ child'[c].pid = child[c].pid
                               /\ c \notin S => child'[c].stopped = child[c].stopped
    PROVE  IInv'
<1>1. InUse(proc)' /\ Held(proc, child)'
  <2>1. InUse(proc') /\ Held(proc', child)
    BY EndedHeld DEF IInv, TypeOK, Ends, Tables, ProcStates
  <2> QED
    BY <2>1 DEF InUse, Held
<1>2. IntentsSound'
  <2> SUFFICES ASSUME NEW t \in ToSet(timers'), t.kind = "restart"
               PROVE  Sound(t, proc', child')
    BY NoEntries DEF IntentsSound, Sound
  <2>1. t \in ToSet(timers) /\ t.child \notin S
    OBVIOUS
  <2>2. t \in Timers
    <3>1. timers \in Seq(Timers)
      BY DEF IInv, TypeOK
    <3> QED
      BY <2>1, <3>1 DEF ToSet
  <2>3. Sound(t, proc, child) /\ t.child \in Children
    BY <2>1, <2>2 DEF IInv, IntentsSound, Timers
  <2> QED
    BY <2>1, <2>3 DEF Sound, Ends
<1>3. Orderly'
  BY DEF IInv, Orderly, Admitted
<1> QED
  BY <1>1, <1>2, <1>3 DEF IInv

\* stop: the child is marked, its intent withdrawn, its process killed or timed.
LEMMA StopIInv ==
    ASSUME IInv, NEW c \in Children, StopChild(c)
    PROVE  IInv'
<1> DEFINE stop == [kind |-> "stop", child |-> c, pid |-> child[c].pid,
                    reason |-> "error", deadline |-> clock + ShutdownTimeout[c]]
<1>0. /\ proc \in Tables /\ child \in Kids /\ {c} \in SUBSET Children
      /\ {c} \in SUBSET Admitted /\ "error" \in Reasons
  BY DEF IInv, TypeOK, Tables, Kids, ProcStates, StopChild, Admitted, Reasons
<1>1. child' \in Kids /\ \A d \in Children :
         /\ child'[d].pid = child[d].pid
         /\ d \notin {c} => child'[d].stopped = child[d].stopped
  BY <1>0 DEF StopChild, Kids
<1>2. stop \in Timers /\ stop.kind = "stop"
  <2>1. clock \in Nat /\ ShutdownTimeout[c] \in Nat /\ child[c].pid \in Nat
    BY <1>0, SupervisionAssumption DEF IInv, TypeOK, Kids
  <2>2. clock + ShutdownTimeout[c] \in Nat
    BY <2>1
  <2> QED
    BY <2>1, <2>2 DEF Timers, Reasons
<1>3. /\ WithoutIntents({c}) \in Seq(Timers)
      /\ \A t \in ToSet(WithoutIntents({c})) :
            t \in ToSet(timers) /\ ~(t.kind = "restart" /\ t.child \in {c})
  BY WithoutIntentsEntries DEF IInv
<1>4. \/ timers' = Append(WithoutIntents({c}), stop) /\ proc' = proc /\ exits' = exits
      \/ /\ timers' = WithoutIntents({c})
         /\ proc' = Ended(proc, {c}, "error")
         /\ exits' = exits \o Recorded({c}, "error")
  BY DEF StopChild
<1> HIDE DEF stop
<1>5. timers' \in Seq(Timers) /\ \A t \in ToSet(timers') :
         t.kind = "restart" => t \in ToSet(timers) /\ t.child \notin {c}
  <2>1. CASE timers' = WithoutIntents({c})
    BY <1>3, <2>1
  <2>2. CASE timers' = Append(WithoutIntents({c}), stop)
    <3>1. timers' \in Seq(Timers) /\ ToSet(timers') = ToSet(WithoutIntents({c})) \cup {stop}
      <4>1. WithoutIntents({c}) \in Seq(Timers) /\ stop \in Timers
        BY <1>2, <1>3
      <4> QED
        BY <2>2, <4>1, AppendEntries
    <3> QED
      BY <1>2, <1>3, <3>1
  <2> QED
    BY <1>4, <2>1, <2>2
<1>6. Ends(proc, proc')
  <2>1. CASE proc' = proc
    BY <2>1, NoEnding
  <2>2. CASE proc' = Ended(proc, {c}, "error")
    BY <1>0, <2>2, EndedTable DEF Ends
  <2> QED
    BY <1>4, <2>1, <2>2
<1>7. exits' \in Seq([pid : Nat, reason : Reasons])
  <2>1. exits \o Recorded({c}, "error") \in Seq([pid : Nat, reason : Reasons])
    BY <1>0, RecordedSeq, ConcatEntries DEF IInv, TypeOK
  <2> QED
    BY <1>4, <2>1 DEF IInv, TypeOK
<1>8. TypeOK'
  BY <1>1, <1>5, <1>6, <1>7
  DEF IInv, TypeOK, StopChild, Ends, Kids, Tables, ProcStates, Phases
<1>9. events' = <<>> /\ listed' \in SUBSET listed
  BY DEF StopChild, IInv, Orderly
<1> QED
  BY <1>0, <1>1, <1>5, <1>6, <1>8, <1>9, StoppingIInv

\* owner_exited: every child is stopped and every timer gone.
LEMMA OwnerIInv ==
    ASSUME IInv, OwnerExits
    PROVE  IInv'
<1>0. /\ proc \in Tables /\ child \in Kids /\ Admitted \in SUBSET Children
      /\ "error" \in Reasons
  BY DEF IInv, TypeOK, Tables, Kids, ProcStates, Admitted, Reasons
<1>1. child' \in Kids /\ \A d \in Children : /\ child'[d].pid = child[d].pid
                                             /\ child'[d].stopped = (d \in Admitted)
  <2>1. child' = [c \in Children |-> [child[c] EXCEPT !.stopped = c \in Admitted]]
    BY DEF OwnerExits
  <2>2. ASSUME NEW d \in Children
        PROVE  LET s == [child[d] EXCEPT !.stopped = d \in Admitted]
               IN  /\ s \in [pid : Nat, restart_count : Nat, stopped : BOOLEAN,
                             handled : Nat, pending : BOOLEAN]
                   /\ s.pid = child[d].pid /\ s.stopped = (d \in Admitted)
    <3>1. child[d] \in [pid : Nat, restart_count : Nat, stopped : BOOLEAN,
                        handled : Nat, pending : BOOLEAN]
      BY <1>0 DEF Kids
    <3>2. (d \in Admitted) \in BOOLEAN
      OBVIOUS
    <3> QED
      BY <3>1, <3>2
  <2> QED
    BY <2>1, <2>2 DEF Kids
<1>2. Ends(proc, proc')
  BY <1>0, EndedTable DEF Ends, OwnerExits
<1>3. exits' \in Seq([pid : Nat, reason : Reasons])
  BY <1>0, RecordedSeq, ConcatEntries DEF IInv, TypeOK, OwnerExits
<1>4. TypeOK'
  BY <1>1, <1>2, <1>3, EmptySeq
  DEF IInv, TypeOK, OwnerExits, Ends, Kids, Tables, ProcStates, Phases
<1>5. events' = <<>> /\ timers' = <<>> /\ listed' \in SUBSET listed
  BY DEF OwnerExits, IInv, Orderly
<1>6. \A d \in Children : d \notin Admitted => child'[d].stopped = child[d].stopped
  <2>1. \A d \in Children : d \notin Admitted => ~child[d].stopped
    BY DEF IInv, Orderly, Admitted
  <2>2. \A d \in Children : child[d].stopped \in BOOLEAN
    BY <1>0 DEF Kids
  <2> QED
    BY <1>1, <2>1, <2>2
<1> QED
  BY <1>1, <1>2, <1>4, <1>5, <1>6, NoEntries, StoppingIInv

\* The budget is spent: every process ends, every listed child is stopped.
LEMMA GiveUpIInv ==
    ASSUME IInv, NEW c \in Children, GiveUp(c)
    PROVE  IInv'
<1>0. /\ proc \in Tables /\ child \in Kids /\ Admitted \in SUBSET Children
      /\ Tail(exits) \in Seq([pid : Nat, reason : Reasons])
      /\ Head(exits).reason \in Reasons
  <2>1. exits # <<>> /\ exits \in Seq([pid : Nat, reason : Reasons])
    BY DEF GiveUp, Incident, IInv, TypeOK
  <2>2. /\ Tail(exits) \in Seq([pid : Nat, reason : Reasons])
        /\ Head(exits) \in [pid : Nat, reason : Reasons]
    BY <2>1, TailEntries
  <2> QED
    BY <2>2 DEF IInv, TypeOK, Tables, Kids, ProcStates, Admitted
<1>1. child' \in Kids /\ \A d \in Children :
         /\ child'[d].pid = child[d].pid
         /\ d \notin listed => child'[d].stopped = child[d].stopped
  <2>1. \A d \in Children : child'[d] = IF d \in listed
           THEN [child[d] EXCEPT !.stopped = TRUE, !.pending = FALSE] ELSE child[d]
    BY DEF GiveUp
  <2>2. DOMAIN child' = Children /\ child' = [d \in Children |-> child'[d]]
    BY DEF GiveUp
  <2>3. ASSUME NEW d \in Children
        PROVE  LET s == [child[d] EXCEPT !.stopped = TRUE, !.pending = FALSE]
               IN  /\ s \in [pid : Nat, restart_count : Nat, stopped : BOOLEAN,
                             handled : Nat, pending : BOOLEAN]
                   /\ s.pid = child[d].pid
    <3>1. child[d] \in [pid : Nat, restart_count : Nat, stopped : BOOLEAN,
                        handled : Nat, pending : BOOLEAN]
      BY <1>0 DEF Kids
    <3> QED
      BY <3>1
  <2>4. \A d \in Children : /\ child'[d] \in [pid : Nat, restart_count : Nat,
                                             stopped : BOOLEAN, handled : Nat,
                                             pending : BOOLEAN]
                            /\ child'[d].pid = child[d].pid
                            /\ d \notin listed => child'[d] = child[d]
    BY <1>0, <2>1, <2>3 DEF Kids
  <2> QED
    BY <2>2, <2>4 DEF Kids
<1>2. Ends(proc, proc')
  BY <1>0, EndedTable DEF Ends, GiveUp
<1>3. exits' \in Seq([pid : Nat, reason : Reasons])
  BY <1>0, RecordedSeq, ConcatEntries DEF GiveUp
<1>4. /\ WithoutIntents(listed) \in Seq(Timers)
      /\ \A t \in ToSet(WithoutIntents(listed)) :
            t \in ToSet(timers) /\ ~(t.kind = "restart" /\ t.child \in listed)
  BY WithoutIntentsEntries DEF IInv
<1>5. InWindow \in Seq(0 .. clock) /\ Len(InWindow) <= Limit
  <2>1. restarts \in Seq(0 .. clock) /\ Len(restarts) <= Limit /\ Limit \in Nat
    BY SupervisionAssumption DEF IInv, TypeOK
  <2>2. /\ InWindow \in Seq(0 .. clock)
        /\ Len(InWindow) = Len(restarts) - Dropped
        /\ Dropped \in 0 .. Len(restarts) /\ Len(restarts) \in Nat
    BY <2>1, WindowSuffix, DroppedPrefix
  <2> QED
    BY <2>1, <2>2
<1>6. TypeOK'
  BY <1>1, <1>2, <1>3, <1>4, <1>5
  DEF IInv, TypeOK, GiveUp, Ends, Kids, Tables, ProcStates
<1>7. events' = <<>> /\ listed' \in SUBSET listed /\ listed \in SUBSET Admitted
      /\ timers' = WithoutIntents(listed)
  BY DEF GiveUp, Incident, IInv, Orderly
<1> QED
  BY <1>1, <1>2, <1>4, <1>6, <1>7, StoppingIInv

\* A step that ends processes and then replaces some that are not live keeps
\* the invariant, and leaves every new intent sound.
LEMMA RebirthIInv ==
    ASSUME IInv, TypeOK', listed' = listed, mode' # "firing" => events' = <<>>,
           NEW table, Ends(proc, table), NEW kids, kids \in Kids,
           NEW reborn \in SUBSET Children,
           \A c \in Children : /\ kids[c].pid = child[c].pid
                               /\ kids[c].stopped = child[c].stopped,
           \A c \in reborn : child[c].pid \in Pids => table[child[c].pid] # "live",
           proc' = Spawned(table, reborn),
           \A c \in Children : /\ child'[c].pid = Replaced(kids, table, reborn)[c].pid
                               /\ child'[c].stopped = child[c].stopped,
           \A t \in ToSet(timers') \cup ToSet(events') :
              \/ t \in ToSet(timers) \cup ToSet(events)
              \/ t \in Timers /\ Sound(t, table, child)
    PROVE  IInv'
<1> DEFINE new == Replaced(kids, table, reborn)
<1>1. table \in Tables /\ InUse(table) /\ Held(table, kids)
  <2>1. InUse(table) /\ Held(table, child)
    BY EndedHeld DEF IInv, TypeOK, Ends, Tables, ProcStates
  <2> QED
    BY <2>1, HeldByPids DEF Ends
<1>2. \A c \in reborn : kids[c].pid \in Pids => table[kids[c].pid] # "live"
  OBVIOUS
<1>3. /\ proc' \in Tables
      /\ \A p \in Pids : table[p] # "unused" => proc'[p] = table[p]
      /\ InUse(proc')
      /\ Held(proc', new)
  BY <1>1, <1>2, Respawned
<1>4. InUse(proc)' /\ Held(proc, child)'
  <2>1. Held(proc', child')
    BY <1>3, HeldByPids
  <2> QED
    BY <1>3, <2>1 DEF InUse, Held
<1>5. IntentsSound'
  <2> SUFFICES ASSUME NEW t \in ToSet(timers') \cup ToSet(events')
               PROVE  Sound(t, proc', child')
    BY DEF IntentsSound, Sound
  <2>1. t \in Timers /\ Sound(t, table, child)
    <3>1. CASE t \in ToSet(timers) \cup ToSet(events)
      <4>1. timers \in Seq(Timers) /\ events \in Seq(Timers)
        BY DEF IInv, TypeOK
      <4>2. ToSet(timers) \in SUBSET Timers /\ ToSet(events) \in SUBSET Timers
        BY <4>1 DEF ToSet
      <4>3. t \in Timers /\ Sound(t, proc, child)
        BY <3>1, <4>2 DEF IInv, IntentsSound
      <4> QED
        BY <4>3 DEF Sound, Ends
    <3>2. CASE t \notin ToSet(timers) \cup ToSet(events)
      BY <3>2
    <3> QED
      BY <3>1, <3>2
  <2>2. t.child \in Children
    BY <2>1 DEF Timers
  <2> QED
    BY <1>3, <2>1, <2>2 DEF Sound
<1>6. Orderly'
  <2>1. \A c \in Children \ reborn : new[c] = kids[c]
    BY <1>1, ReplacedKids
  <2>2. \A c \in reborn : new[c].pid \in Nat \ {0}
    BY <1>1, ReplacedKids
  <2> HIDE DEF new
  <2>3. \A c \in Children : child[c].pid # NoPid => child'[c].pid # NoPid
    <3> SUFFICES ASSUME NEW c \in Children, child[c].pid # NoPid
                 PROVE  child'[c].pid # NoPid
      OBVIOUS
    <3>1. child'[c].pid = new[c].pid
      BY DEF new
    <3>2. CASE c \in reborn
      BY <2>2, <3>1, <3>2 DEF NoPid
    <3>3. CASE c \notin reborn
      BY <2>1, <3>1, <3>3
    <3> QED
      BY <3>2, <3>3
  <2> QED
    BY <2>3 DEF IInv, Orderly, Admitted
<1> QED
  BY <1>4, <1>5, <1>6 DEF IInv

\* What a replacement leaves, settled or not, of type and stops.
LEMMA NewKids ==
    ASSUME NEW table \in Tables, NEW kids \in Kids, NEW reborn \in SUBSET Children,
           InUse(table)
    PROVE  LET new == Replaced(kids, table, reborn)
           IN  /\ new \in Kids /\ Settled(new) \in Kids
               /\ Starts(new) \in Seq(Nat)
               /\ \A c \in Children : /\ new[c].stopped = kids[c].stopped
                                      /\ Settled(new)[c].pid = new[c].pid
                                      /\ Settled(new)[c].stopped = kids[c].stopped
<1> DEFINE new == Replaced(kids, table, reborn)
<1>1. new \in Kids /\ \A c \in Children : new[c].stopped = kids[c].stopped
  BY ReplacedKids
<1> HIDE DEF new
<1>2. /\ Settled(new) \in Kids /\ Starts(new) \in Seq(Nat)
      /\ \A c \in Children : /\ Settled(new)[c].pid = new[c].pid
                             /\ Settled(new)[c].stopped = new[c].stopped
  BY <1>1, SettledKids, StartsOfKids
<1> QED
  BY <1>1, <1>2 DEF new

\* handle_timer_event: a current intent replaces a process that ended.
LEMMA FireIInv ==
    ASSUME IInv, FireRestart
    PROVE  IInv'
<1> DEFINE intent == Head(events)
           current == timer_owner /\ child[intent.child].pid = intent.pid
           reborn == IF current /\ proc[intent.pid] # "reaped" THEN {intent.child} ELSE {}
           kids == Replaced(child, proc, reborn)
<1>1. /\ proc' = Spawned(proc, reborn)
      /\ child' = Settled(kids)
      /\ ready' = ready \o Starts(kids)
      /\ failure' = (failure \/ (current /\ proc[intent.pid] = "reaped"))
      /\ events' = Tail(events) /\ events # <<>>
      /\ intent.kind = "restart" /\ mode = "firing"
      /\ UNCHANGED <<mode, clock, owner_alive, listed, state, restarts, timers,
                     timer_owner, exits, terminations, incidents>>
  BY DEF FireRestart
<1>2. /\ intent \in Timers /\ intent \in ToSet(events)
      /\ Tail(events) \in Seq(Timers) /\ ToSet(Tail(events)) \in SUBSET ToSet(events)
  BY <1>1, TailEntries DEF IInv, TypeOK
<1>3. Sound(intent, proc, child)
  BY <1>2 DEF IInv, IntentsSound
<1>4. reborn \in SUBSET Children
  BY <1>2 DEF Timers
<1>5. \A c \in reborn : child[c].pid \in Pids => proc[child[c].pid] # "live"
  BY <1>1, <1>3 DEF Sound
<1>6. (failure \/ (current /\ proc[intent.pid] = "reaped")) \in BOOLEAN
  BY DEF IInv, TypeOK
<1>7. proc \in Tables /\ child \in Kids /\ InUse(proc)
  BY DEF IInv, TypeOK, Tables, Kids, ProcStates
<1> HIDE DEF intent, current, reborn
<1>8. /\ Settled(kids) \in Kids /\ Starts(kids) \in Seq(Nat)
      /\ \A c \in Children : /\ Settled(kids)[c].pid = kids[c].pid
                             /\ Settled(kids)[c].stopped = child[c].stopped
  BY <1>4, <1>7, NewKids
<1>9. proc' \in Tables
  BY <1>1, <1>4, <1>5, <1>7, Respawned DEF IInv
<1> HIDE DEF kids
<1>10. ready \o Starts(kids) \in Seq(Nat)
  BY <1>8, ConcatEntries DEF IInv, TypeOK
<1>11. TypeOK'
  BY <1>1, <1>2, <1>6, <1>8, <1>9, <1>10 DEF IInv, TypeOK, Kids, Tables, ProcStates
<1>12. Ends(proc, proc)
  BY NoEnding
<1>13. \A c \in Children : /\ child'[c].pid = Replaced(child, proc, reborn)[c].pid
                           /\ child'[c].stopped = child[c].stopped
  BY <1>1, <1>8 DEF kids
<1>14. \A t \in ToSet(timers') \cup ToSet(events') : t \in ToSet(timers) \cup ToSet(events)
  BY <1>1, <1>2
<1> QED
  BY <1>1, <1>4, <1>5, <1>7, <1>11, <1>12, <1>13, <1>14, RebirthIInv

-----------------------------------------------------------------------------
(* Restarting the selected children *)

\* Whom an incident concerns, and what is left of their processes.
LEMMA SelectedEnd ==
    ASSUME IInv, NEW c \in Children, IncidentCounted(c)
    PROVE  /\ Selected(c) \in SUBSET Children
           /\ Head(exits).reason \in Reasons
           /\ exits # <<>> /\ mode = "exits" /\ events = <<>>
           /\ Ends(proc, Ended(proc, Selected(c), Head(exits).reason))
           /\ Ended(proc, Selected(c), Head(exits).reason) \in Tables
           /\ InUse(Ended(proc, Selected(c), Head(exits).reason))
           /\ \A d \in Selected(c) : child[d].pid \in Pids =>
                 Ended(proc, Selected(c), Head(exits).reason)[child[d].pid]
                    \notin {"live", "unused"}
           /\ exits' \in Seq([pid : Nat, reason : Reasons])
           /\ restarts' \in Seq(0 .. clock) /\ Len(restarts') <= Limit
           /\ incidents' \in Seq(0 .. clock)
<1> DEFINE table == Ended(proc, Selected(c), Head(exits).reason)
<1>0. /\ mode = "exits" /\ exits # <<>> /\ ~Exhausted
      /\ restarts' = Append(InWindow, clock)
      /\ incidents' = Append(incidents, clock)
      /\ exits' = Tail(exits) \o Recorded(Selected(c), Head(exits).reason)
  BY DEF IncidentCounted, Incident
<1>1. Selected(c) \in SUBSET Children
  BY SupervisionAssumption DEF Selected, IInv, TypeOK
<1>2. /\ Tail(exits) \in Seq([pid : Nat, reason : Reasons])
      /\ Head(exits).reason \in Reasons
  <2>1. exits \in Seq([pid : Nat, reason : Reasons])
    BY DEF IInv, TypeOK
  <2>2. Head(exits) \in [pid : Nat, reason : Reasons]
    BY <1>0, <2>1, TailEntries
  <2> QED
    BY <1>0, <2>1, <2>2, TailEntries
<1>3. proc \in Tables /\ child \in Kids
  BY DEF IInv, TypeOK, Tables, Kids, ProcStates
<1>4. /\ table \in Tables
      /\ \A p \in Pids : /\ table[p] = "unused" <=> proc[p] = "unused"
                         /\ table[p] = "live" => proc[p] = "live"
      /\ \A d \in Selected(c) : child[d].pid \in Pids => table[child[d].pid] # "live"
  BY <1>1, <1>2, <1>3, EndedTable
<1> HIDE DEF table
<1>5. Ends(proc, table) /\ InUse(table)
  BY <1>3, <1>4, EndedHeld DEF Ends, IInv
<1>6. \A d \in Selected(c) : child[d].pid \in Pids => table[child[d].pid] # "unused"
  BY <1>1, <1>4 DEF IInv, Held
<1>7. exits' \in Seq([pid : Nat, reason : Reasons])
  BY <1>0, <1>1, <1>2, <1>3, RecordedSeq, ConcatEntries
<1>8. restarts' \in Seq(0 .. clock) /\ Len(restarts') <= Limit
  <2>1. restarts \in Seq(0 .. clock) /\ Limit \in Nat /\ clock \in 0 .. clock
    BY SupervisionAssumption DEF IInv, TypeOK
  <2>2. InWindow \in Seq(0 .. clock) /\ Len(InWindow) \in Nat
    BY <2>1, WindowSuffix
  <2>3. Len(InWindow) + 1 <= Limit
    BY <1>0, <2>1, <2>2 DEF Exhausted
  <2>4. Len(Append(InWindow, clock)) = Len(InWindow) + 1
        /\ Append(InWindow, clock) \in Seq(0 .. clock)
    BY <2>1, <2>2
  <2> QED
    BY <1>0, <2>3, <2>4
<1>9. incidents' \in Seq(0 .. clock)
  BY <1>0 DEF IInv, TypeOK
<1> QED
  BY <1>0, <1>1, <1>2, <1>4, <1>5, <1>6, <1>7, <1>8, <1>9 DEF table, IInv, Orderly

\* next_exit marks the selected children.
LEMMA MarkedKids ==
    ASSUME IInv, NEW c \in Children
    PROVE  /\ Marked(c) \in Kids
           /\ \A d \in Children : /\ Marked(c)[d].pid = child[d].pid
                                  /\ Marked(c)[d].stopped = child[d].stopped
<1>1. ASSUME NEW d \in Children
      PROVE  LET s == [child[d] EXCEPT !.handled = child[d].pid,
                                       !.pending = ShouldRestart(d, Head(exits).reason)]
             IN  /\ s \in [pid : Nat, restart_count : Nat, stopped : BOOLEAN,
                           handled : Nat, pending : BOOLEAN]
                 /\ s.pid = child[d].pid /\ s.stopped = child[d].stopped
  <2>1. child[d] \in [pid : Nat, restart_count : Nat, stopped : BOOLEAN,
                      handled : Nat, pending : BOOLEAN]
    BY DEF IInv, TypeOK
  <2>2. ShouldRestart(d, Head(exits).reason) \in BOOLEAN
    BY DEF ShouldRestart
  <2> QED
    BY <2>1, <2>2
<1>2. \A d \in Children : child[d] \in [pid : Nat, restart_count : Nat, stopped : BOOLEAN,
                                        handled : Nat, pending : BOOLEAN]
  BY DEF IInv, TypeOK
<1> QED
  BY <1>1, <1>2 DEF Marked, Kids

\* schedule_restart: the children without a delay restart, the others wait.
LEMMA RestartIInv ==
    ASSUME IInv, NEW c \in Children, RestartSelected(c)
    PROVE  IInv'
<1> DEFINE table == Ended(proc, Selected(c), Head(exits).reason)
           kids == Replaced(Marked(c), table, Reborn(c))
<1>1. /\ IncidentCounted(c)
      /\ proc' = Spawned(table, Reborn(c))
      /\ child' = Settled(kids)
      /\ ready' = ready \o Starts(kids)
      /\ timers' = timers \o Intents(c)
      /\ timer_owner' = (timer_owner \/ Deferred(c) # {})
      /\ mode' = mode
  BY DEF RestartSelected
<1>2. UNCHANGED <<clock, owner_alive, listed, state, events, terminations, failure>>
  BY <1>1 DEF IncidentCounted
<1>3. /\ Selected(c) \in SUBSET Children
      /\ exits # <<>> /\ mode = "exits" /\ events = <<>>
      /\ Ends(proc, table) /\ table \in Tables /\ InUse(table)
      /\ \A d \in Selected(c) :
            child[d].pid \in Pids => table[child[d].pid] \notin {"live", "unused"}
      /\ exits' \in Seq([pid : Nat, reason : Reasons])
      /\ restarts' \in Seq(0 .. clock) /\ Len(restarts') <= Limit
      /\ incidents' \in Seq(0 .. clock)
  BY <1>1, SelectedEnd
<1>4. /\ Marked(c) \in Kids
      /\ \A d \in Children : /\ Marked(c)[d].pid = child[d].pid
                             /\ Marked(c)[d].stopped = child[d].stopped
  BY MarkedKids
<1>5. Reborn(c) \in SUBSET Children /\ Reborn(c) \in SUBSET Selected(c)
      /\ Deferred(c) \in SUBSET Children /\ Deferred(c) \in SUBSET Selected(c)
  BY <1>3 DEF Reborn, Deferred
<1> HIDE DEF table
<1>6. /\ Settled(kids) \in Kids /\ Starts(kids) \in Seq(Nat)
      /\ \A d \in Children : /\ Settled(kids)[d].pid = kids[d].pid
                             /\ Settled(kids)[d].stopped = Marked(c)[d].stopped
  BY <1>3, <1>4, <1>5, NewKids
<1>7. proc' \in Tables
  <2>1. Held(table, Marked(c))
    <3>1. Held(table, child)
      BY <1>3, EndedHeld DEF IInv, TypeOK, Ends, Tables, ProcStates
    <3> QED
      BY <1>4, <3>1, HeldByPids
  <2>2. \A d \in Reborn(c) :
           Marked(c)[d].pid \in Pids => table[Marked(c)[d].pid] # "live"
    BY <1>3, <1>4, <1>5
  <2> QED
    BY <1>1, <1>3, <1>4, <1>5, <2>1, <2>2, Respawned
<1> HIDE DEF kids
<1>8. ready \o Starts(kids) \in Seq(Nat)
  BY <1>6, ConcatEntries DEF IInv, TypeOK
<1>9. /\ Intents(c) \in Seq(Timers)
      /\ \A t \in ToSet(Intents(c)) : t.child \in Deferred(c) /\ t.pid = child[t.child].pid
  BY <1>3, IntentsTimers DEF IInv
<1>10. timers' \in Seq(Timers) /\ ToSet(timers') = ToSet(timers) \cup ToSet(Intents(c))
  BY <1>1, <1>9, ConcatEntries DEF IInv, TypeOK
<1>11. TypeOK'
  <2>1. timer_owner' \in BOOLEAN
    BY <1>1 DEF IInv, TypeOK
  <2> QED
    BY <1>1, <1>2, <1>3, <1>6, <1>7, <1>8, <1>10, <2>1
    DEF IInv, TypeOK, Kids, Tables, ProcStates
<1>12. \A t \in ToSet(Intents(c)) : t \in Timers /\ Sound(t, table, child)
  <2> SUFFICES ASSUME NEW t \in ToSet(Intents(c))
               PROVE  t \in Timers /\ Sound(t, table, child)
    OBVIOUS
  <2>1. t \in Timers
    BY <1>9 DEF ToSet
  <2>2. t.child \in Deferred(c) /\ t.child \in Selected(c) /\ t.pid = child[t.child].pid
    BY <1>5, <1>9
  <2>3. ~child[t.child].stopped
    BY <2>2 DEF Deferred, ShouldRestart
  <2> QED
    BY <1>3, <2>1, <2>2, <2>3 DEF Sound
<1>13. \A t \in ToSet(timers') \cup ToSet(events') :
          \/ t \in ToSet(timers) \cup ToSet(events)
          \/ t \in Timers /\ Sound(t, table, child)
  BY <1>2, <1>10, <1>12
<1>14. \A d \in Children : /\ child'[d].pid = Replaced(Marked(c), table, Reborn(c))[d].pid
                           /\ child'[d].stopped = child[d].stopped
  BY <1>1, <1>4, <1>6 DEF kids
<1>15. \A d \in Reborn(c) : child[d].pid \in Pids => table[child[d].pid] # "live"
  BY <1>3, <1>5
<1>16. proc' = Spawned(table, Reborn(c)) /\ listed' = listed
       /\ (mode' # "firing" => events' = <<>>)
  BY <1>1, <1>2, <1>3
<1> QED
  BY <1>3, <1>4, <1>5, <1>11, <1>13, <1>14, <1>15, <1>16, RebirthIInv

\* A restart that fails may have replaced some of the group.
LEMMA FailIInv ==
    ASSUME IInv, NEW c \in Children, RestartFails(c)
    PROVE  IInv'
<1> DEFINE table == Ended(proc, Selected(c), Head(exits).reason)
           reborn == IF Refused(c) \/ Deferred(c) # {} THEN {} ELSE BeforeMissing(c)
           kids == Replaced(Marked(c), table, reborn)
<1>1. /\ IncidentCounted(c)
      /\ proc' = Spawned(table, reborn)
      /\ child' = kids
      /\ mode' = "idle"
      /\ UNCHANGED <<ready, timers, timer_owner>>
  BY DEF RestartFails
<1>2. UNCHANGED <<clock, owner_alive, listed, state, events, terminations, failure>>
  BY <1>1 DEF IncidentCounted
<1>3. /\ Selected(c) \in SUBSET Children
      /\ events = <<>>
      /\ Ends(proc, table) /\ table \in Tables /\ InUse(table)
      /\ \A d \in Selected(c) :
            child[d].pid \in Pids => table[child[d].pid] \notin {"live", "unused"}
      /\ exits' \in Seq([pid : Nat, reason : Reasons])
      /\ restarts' \in Seq(0 .. clock) /\ Len(restarts') <= Limit
      /\ incidents' \in Seq(0 .. clock)
  BY <1>1, SelectedEnd
<1>4. /\ Marked(c) \in Kids
      /\ \A d \in Children : /\ Marked(c)[d].pid = child[d].pid
                             /\ Marked(c)[d].stopped = child[d].stopped
  BY MarkedKids
<1>5. reborn \in SUBSET Children /\ reborn \in SUBSET Selected(c)
  BY <1>3 DEF BeforeMissing, Reborn
<1> HIDE DEF table, reborn
<1>6. /\ kids \in Kids
      /\ \A d \in Children : kids[d].stopped = Marked(c)[d].stopped
  BY <1>3, <1>4, <1>5, NewKids
<1>7. proc' \in Tables
  <2>1. Held(table, Marked(c))
    <3>1. Held(table, child)
      BY <1>3, EndedHeld DEF IInv, TypeOK, Ends, Tables, ProcStates
    <3> QED
      BY <1>4, <3>1, HeldByPids
  <2>2. \A d \in reborn : Marked(c)[d].pid \in Pids => table[Marked(c)[d].pid] # "live"
    BY <1>3, <1>4, <1>5
  <2> QED
    BY <1>1, <1>3, <1>4, <1>5, <2>1, <2>2, Respawned
<1> HIDE DEF kids
<1>8. TypeOK'
  BY <1>1, <1>2, <1>3, <1>6, <1>7 DEF IInv, TypeOK, Kids, Tables, ProcStates
<1>9. \A d \in Children : /\ child'[d].pid = Replaced(Marked(c), table, reborn)[d].pid
                          /\ child'[d].stopped = child[d].stopped
  BY <1>1, <1>4, <1>6 DEF kids
<1>10. \A d \in reborn : child[d].pid \in Pids => table[child[d].pid] # "live"
  BY <1>3, <1>5
<1>11. proc' = Spawned(table, reborn) /\ listed' = listed
       /\ (mode' # "firing" => events' = <<>>)
  BY <1>1, <1>2, <1>3
<1>12. \A t \in ToSet(timers') \cup ToSet(events') : t \in ToSet(timers) \cup ToSet(events)
  BY <1>1, <1>2
<1> QED
  BY <1>3, <1>4, <1>5, <1>8, <1>9, <1>10, <1>11, <1>12, RebirthIInv

-----------------------------------------------------------------------------
(* The invariant holds *)

\* A tick of the clock goes forward.
LEMMA TickForward ==
    ASSUME NEW now \in clock + 1 .. LastTick, clock \in Nat
    PROVE  now \in Nat /\ now > clock
  OBVIOUS

\* Every step keeps the invariant.
LEMMA NextIInv ==
    ASSUME IInv, [Next]_vars
    PROVE  IInv'
<1>1. CASE \E c \in Children : StartChild(c)
  BY <1>1, StartIInv
<1>2. CASE \E c \in Children : StopChild(c)
  BY <1>2, StopIInv
<1>3. CASE \E S \in (SUBSET Children) \ {{}}, reason \in Reasons : ChildrenExit(S, reason)
  BY <1>3, ExitIInv
<1>4. CASE OwnerExits
  BY <1>4, OwnerIInv
<1>5. CASE Tick
  <2>1. PICK now \in clock + 1 .. LastTick : AdvanceClock(now)
    BY <1>5 DEF Tick
  <2>2. clock \in Nat
    BY DEF IInv, TypeOK
  <2>3. now \in Nat /\ now > clock
    BY <2>2, TickForward
  <2> QED
    BY <2>1, <2>3, AdvanceIInv
<1>6. CASE Fired \/ FireStop \/ ExitsDone \/ TerminationsDone \/ SurfaceFailure
           \/ Drive \/ UNCHANGED vars
  BY <1>6, QuietIInv
<1>7. CASE FireRestart
  BY <1>7, FireIInv
<1>8. CASE IgnoreExit
  BY <1>8, IgnoreIInv
<1>9. CASE Terminate
  BY <1>9, TerminateIInv
<1>10. CASE \E c \in Children : GiveUp(c)
  BY <1>10, GiveUpIInv
<1>11. CASE \E c \in Children : RestartSelected(c)
  BY <1>11, RestartIInv
<1>12. CASE \E c \in Children : RestartFails(c)
  BY <1>12, FailIInv
<1>13. CASE DriveDone
  BY <1>13, DoneIInv
<1>14. CASE \E outcome \in {"live"} \cup Reasons : ExecuteStart(outcome)
  BY <1>14, ExecuteIInv
<1> QED
  BY <1>1, <1>2, <1>3, <1>4, <1>5, <1>6, <1>7, <1>8, <1>9, <1>10, <1>11, <1>12,
     <1>13, <1>14 DEF Next, Step

\* The inductive invariant: consecutive identities, live processes that are held,
\* sound restart intents.
THEOREM Invariance == Spec => []IInv
<1>1. Init => IInv
  BY InitIInv
<1>2. IInv /\ [Next]_vars => IInv'
  BY NextIInv
<1> QED
  BY <1>1, <1>2, PTL DEF Spec

\* Every reachable state is well typed: the supervisor's queues, timers and
\* children hold what their fields declare.
THEOREM TypeCorrect == Spec => []TypeOK
<1>1. IInv => TypeOK
  BY DEF IInv
<1> QED
  BY <1>1, Invariance, PTL

\* A child never has two live processes: whatever spawns one (a start, a timer's
\* restart, an immediate group restart) replaces one that has ended.
THEOREM OneProcess == Spec => []OneLiveProcess
<1>1. IInv => OneLiveProcess
  BY DEF IInv, Held, OneLiveProcess
<1> QED
  BY <1>1, Invariance, PTL

-----------------------------------------------------------------------------
(* Stopped children *)

\* What every step leaves of a stopped child.
StaysDown == \A c \in Children : child[c].stopped =>
                child'[c].stopped /\ child'[c].pid = child[c].pid

\* Children that are not reborn keep their process.
LEMMA RebirthStays ==
    ASSUME NEW table \in Tables, NEW kids \in Kids, NEW reborn \in SUBSET Children,
           InUse(table),
           \A c \in Children : /\ kids[c].pid = child[c].pid
                               /\ kids[c].stopped = child[c].stopped
                               /\ child[c].stopped => c \notin reborn,
           \/ child' = Replaced(kids, table, reborn)
           \/ child' = Settled(Replaced(kids, table, reborn))
    PROVE  StaysDown
<1> DEFINE new == Replaced(kids, table, reborn)
<1>1. /\ \A c \in Children \ reborn : new[c] = kids[c]
      /\ \A c \in Children : new[c].stopped = kids[c].stopped
  BY ReplacedKids
<1>2. \A c \in Children : /\ Settled(new)[c].pid = new[c].pid
                          /\ Settled(new)[c].stopped = kids[c].stopped
  BY NewKids
<1> HIDE DEF new
<1>3. \A c \in Children : child[c].stopped =>
         /\ new[c].pid = child[c].pid /\ new[c].stopped
         /\ Settled(new)[c].pid = child[c].pid /\ Settled(new)[c].stopped
  BY <1>1, <1>2
<1> QED
  BY <1>3 DEF StaysDown, new

\* No step gives a stopped child a process, or makes it restartable again.
LEMMA NextStaysDown ==
    ASSUME IInv, [Next]_vars
    PROVE  StaysDown
<1>0. child \in Kids /\ proc \in Tables /\ InUse(proc)
  BY DEF IInv, TypeOK, Kids, Tables, ProcStates
<1>1. CASE \E c \in Children : StartChild(c)
  <2>1. PICK c \in Children : StartChild(c)
    BY <1>1
  <2>2. c \notin Admitted /\ child' = [child EXCEPT ![c].pid = NextPid(proc)]
    BY <2>1 DEF StartChild
  <2>3. ~child[c].stopped
    BY <2>2 DEF IInv, Orderly, Admitted
  <2> QED
    BY <1>0, <2>2, <2>3 DEF StaysDown, Kids
<1>2. CASE \E c \in Children : StopChild(c)
  <2>1. PICK c \in Children : child' = [child EXCEPT ![c].stopped = TRUE]
    BY <1>2 DEF StopChild
  <2> QED
    BY <1>0, <2>1 DEF StaysDown, Kids
<1>3. CASE OwnerExits
  <2>1. child' = [c \in Children |-> [child[c] EXCEPT !.stopped = c \in Admitted]]
    BY <1>3 DEF OwnerExits
  <2>2. \A c \in Children : child[c].stopped => c \in Admitted
    BY DEF IInv, Orderly, Admitted
  <2> QED
    BY <1>0, <2>1, <2>2 DEF StaysDown, Kids
<1>4. CASE IgnoreExit
  BY <1>0, <1>4 DEF StaysDown, Kids, IgnoreExit
<1>5. CASE \E c \in Children : GiveUp(c)
  <2>1. child' = [d \in Children |-> IF d \in listed
                                    THEN [child[d] EXCEPT !.stopped = TRUE, !.pending = FALSE]
                                    ELSE child[d]]
    BY <1>5 DEF GiveUp
  <2> QED
    BY <1>0, <2>1 DEF StaysDown, Kids
<1>6. CASE FireRestart
  <2> DEFINE intent == Head(events)
             current == timer_owner /\ child[intent.child].pid = intent.pid
             reborn == IF current /\ proc[intent.pid] # "reaped" THEN {intent.child} ELSE {}
  <2>1. child' = Settled(Replaced(child, proc, reborn)) /\ events # <<>>
        /\ intent.kind = "restart"
    BY <1>6 DEF FireRestart
  <2>2. intent \in Timers /\ intent \in ToSet(events)
    BY <2>1, TailEntries DEF IInv, TypeOK
  <2>3. Sound(intent, proc, child)
    BY <2>2 DEF IInv, IntentsSound
  <2>4. ~child[intent.child].stopped
    BY <2>1, <2>3 DEF Sound
  <2>5. reborn \in SUBSET Children /\ \A c \in Children : child[c].stopped => c \notin reborn
    BY <2>2, <2>4 DEF Timers
  <2> HIDE DEF reborn
  <2> QED
    BY <1>0, <2>1, <2>5, RebirthStays
<1>7. CASE \E c \in Children : RestartSelected(c)
  <2>1. PICK c \in Children : RestartSelected(c)
    BY <1>7
  <2> DEFINE table == Ended(proc, Selected(c), Head(exits).reason)
  <2>2. /\ IncidentCounted(c)
        /\ child' = Settled(Replaced(Marked(c), table, Reborn(c)))
    BY <2>1 DEF RestartSelected
  <2>3. Selected(c) \in SUBSET Children /\ table \in Tables /\ InUse(table)
    BY <2>2, SelectedEnd
  <2>4. /\ Reborn(c) \in SUBSET Children
        /\ \A d \in Children : child[d].stopped => d \notin Reborn(c)
    BY <2>3 DEF Reborn, ShouldRestart
  <2> HIDE DEF table
  <2> QED
    BY <2>2, <2>3, <2>4, MarkedKids, RebirthStays
<1>8. CASE \E c \in Children : RestartFails(c)
  <2>1. PICK c \in Children : RestartFails(c)
    BY <1>8
  <2> DEFINE table == Ended(proc, Selected(c), Head(exits).reason)
             reborn == IF Refused(c) \/ Deferred(c) # {} THEN {} ELSE BeforeMissing(c)
  <2>2. /\ IncidentCounted(c)
        /\ child' = Replaced(Marked(c), table, reborn)
    BY <2>1 DEF RestartFails
  <2>3. Selected(c) \in SUBSET Children /\ table \in Tables /\ InUse(table)
    BY <2>2, SelectedEnd
  <2>4. /\ reborn \in SUBSET Children
        /\ \A d \in Children : child[d].stopped => d \notin reborn
    BY <2>3 DEF BeforeMissing, Reborn, ShouldRestart
  <2> HIDE DEF table, reborn
  <2> QED
    BY <2>2, <2>3, <2>4, MarkedKids, RebirthStays
<1>9. CASE UNCHANGED child
  BY <1>9 DEF StaysDown
<1> QED
  BY <1>1, <1>2, <1>3, <1>4, <1>5, <1>6, <1>7, <1>8, <1>9
  DEF Next, Step, vars, Tick, AdvanceClock, ChildrenExit, Drive, Fired, FireStop, ExitsDone,
      Terminate, TerminationsDone, SurfaceFailure, DriveDone, ExecuteStart

\* A stopped child is never given another process: restart intents are withdrawn
\* with the stop and a group restart passes stopped siblings over.
THEOREM StoppedStays == Spec => StoppedStaysDown
<1>1. IInv /\ [Next]_vars => [StaysDown]_vars
  BY NextStaysDown
<1> QED
  BY <1>1, Invariance, PTL DEF Spec, StoppedStaysDown, StaysDown

-----------------------------------------------------------------------------
(* Restart intensity *)

\* What the supervisor remembers is the end of the history, what it forgot has
\* expired, and a restart is a window apart from the one Limit places before.
\* The sequences and the clock are parameters, for the lemmas about one step.
Remembered(recent, all, now) ==
    /\ Len(recent) <= Len(all)
    /\ \A i \in 1 .. Len(recent) : recent[i] = all[Len(all) - Len(recent) + i]
    /\ \A i \in 1 .. Len(all) - Len(recent) : now - all[i] >= Window

Spread(all) ==
    /\ \A i, j \in 1 .. Len(all) : i <= j => all[i] <= all[j]
    /\ \A i, j \in 1 .. Len(all) : j = i + Limit => all[j] - all[i] >= Window

WindowInv == Remembered(restarts, incidents, clock) /\ Spread(incidents)

\* The clock moves on.
LEMMA LaterWindow ==
    ASSUME NEW recent, NEW now \in Nat, NEW later \in Nat, now <= later,
           NEW all \in Seq(0 .. now), Len(recent) \in Nat, Remembered(recent, all, now)
    PROVE  Remembered(recent, all, later)
<1>1. Len(all) \in Nat /\ \A i \in 1 .. Len(all) : all[i] \in Nat
  OBVIOUS
<1>2. \A i \in 1 .. Len(all) - Len(recent) : i \in 1 .. Len(all)
  BY <1>1
<1>3. Window \in Nat
  BY SupervisionAssumption
<1> QED
  BY <1>1, <1>2, <1>3 DEF Remembered

\* Expired incidents are forgotten.
LEMMA ForgetExpired ==
    ASSUME TypeOK, WindowInv
    PROVE  /\ Remembered(InWindow, incidents, clock)
           /\ InWindow \in Seq(0 .. clock) /\ Len(InWindow) \in Nat
<1> DEFINE r == Len(restarts)
           n == Len(incidents)
           d == Dropped
           w == Len(InWindow)
<1>1. r \in Nat /\ n \in Nat /\ d \in 0 .. r /\ r <= n /\ w = r - d /\ w \in Nat
  BY DroppedPrefix, WindowSuffix DEF TypeOK, WindowInv, Remembered
<1>2. /\ \A i \in 1 .. d : Expired(restarts[i])
      /\ \A i \in 1 .. w : InWindow[i] = restarts[d + i]
      /\ InWindow \in Seq(0 .. clock)
  BY DroppedPrefix, WindowSuffix DEF TypeOK
<1>3. /\ \A i \in 1 .. r : restarts[i] = incidents[n - r + i]
      /\ \A i \in 1 .. n - r : clock - incidents[i] >= Window
  BY DEF WindowInv, Remembered
<1> HIDE DEF r, n, d, w
<1>4. \A i \in 1 .. w : InWindow[i] = incidents[n - w + i]
  <2> SUFFICES ASSUME NEW i \in 1 .. w
               PROVE  InWindow[i] = incidents[n - w + i]
    OBVIOUS
  <2>1. d + i \in 1 .. r /\ n - r + (d + i) = n - w + i
    BY <1>1
  <2>2. restarts[d + i] = incidents[n - r + (d + i)]
    BY <1>3, <2>1
  <2> QED
    BY <1>2, <2>1, <2>2
<1>5. \A i \in 1 .. n - w : clock - incidents[i] >= Window
  <2> SUFFICES ASSUME NEW i \in 1 .. n - w
               PROVE  clock - incidents[i] >= Window
    OBVIOUS
  <2>1. CASE i <= n - r
    BY <1>1, <1>3, <2>1
  <2>2. CASE i > n - r
    <3> DEFINE k == i - (n - r)
    <3>1. k \in 1 .. d /\ k \in 1 .. r /\ n - r + k = i
      BY <1>1, <2>2
    <3> HIDE DEF k
    <3>2. Expired(restarts[k]) /\ restarts[k] = incidents[i]
      BY <1>2, <1>3, <3>1
    <3> QED
      BY <3>2 DEF Expired
  <2> QED
    BY <1>1, <2>1, <2>2
<1> QED
  BY <1>1, <1>2, <1>4, <1>5 DEF Remembered, n, w

\* Another restart is granted while fewer than Limit are remembered.
LEMMA AnotherIncident ==
    ASSUME NEW now \in Nat, NEW recent \in Seq(0 .. now), NEW all \in Seq(0 .. now),
           Remembered(recent, all, now), Spread(all), Len(recent) < Limit
    PROVE  /\ Remembered(Append(recent, now), Append(all, now), now)
           /\ Spread(Append(all, now))
<1> DEFINE w == Len(recent)
           n == Len(all)
           more == Append(all, now)
           seen == Append(recent, now)
<1>0. Limit \in Nat /\ Window \in Nat
  BY SupervisionAssumption
<1>1. /\ w \in Nat /\ n \in Nat /\ w <= n /\ w < Limit
      /\ \A i \in 1 .. w : recent[i] = all[n - w + i]
      /\ \A i \in 1 .. n - w : now - all[i] >= Window
      /\ \A i, j \in 1 .. n : i <= j => all[i] <= all[j]
      /\ \A i, j \in 1 .. n : j = i + Limit => all[j] - all[i] >= Window
      /\ \A i \in 1 .. n : all[i] \in Nat /\ all[i] <= now
  BY DEF Remembered, Spread
<1>2. /\ Len(more) = n + 1 /\ Len(seen) = w + 1
      /\ \A i \in 1 .. n : more[i] = all[i]
      /\ more[n + 1] = now /\ seen[w + 1] = now
      /\ \A i \in 1 .. w : seen[i] = recent[i]
  <2>1. Len(more) = n + 1 /\ \A i \in 1 .. n : more[i] = all[i]
    BY AppendProperties
  <2>2. Len(seen) = w + 1 /\ \A i \in 1 .. w : seen[i] = recent[i]
    BY AppendProperties
  <2>3. more[n + 1] = now /\ seen[w + 1] = now
    BY AppendProperties
  <2> QED
    BY <2>1, <2>2, <2>3
<1> HIDE DEF w, n, more, seen
<1>3. (n + 1) - (w + 1) = n - w /\ n - w \in Nat /\ n - w <= n
  BY <1>1
<1>4. \A i \in 1 .. w + 1 : seen[i] = more[n - w + i]
  <2> SUFFICES ASSUME NEW i \in 1 .. w + 1
               PROVE  seen[i] = more[n - w + i]
    OBVIOUS
  <2>1. CASE i = w + 1
    <3>1. n - w + i = n + 1
      BY <1>1, <2>1
    <3> QED
      BY <1>2, <2>1, <3>1
  <2>2. CASE i # w + 1
    <3>1. i \in 1 .. w /\ n - w + i \in 1 .. n
      BY <1>1, <2>2
    <3> QED
      BY <1>1, <1>2, <3>1
  <2> QED
    BY <2>1, <2>2
<1>5. \A i \in 1 .. n - w : now - more[i] >= Window
  <2>1. \A i \in 1 .. n - w : i \in 1 .. n
    BY <1>1
  <2> QED
    BY <1>1, <1>2, <2>1
<1>6. Remembered(seen, more, now)
  BY <1>1, <1>2, <1>3, <1>4, <1>5 DEF Remembered
<1>7. \A i, j \in 1 .. n + 1 : i <= j => more[i] <= more[j]
  <2> SUFFICES ASSUME NEW i \in 1 .. n + 1, NEW j \in 1 .. n + 1, i <= j
               PROVE  more[i] <= more[j]
    OBVIOUS
  <2>1. CASE j = n + 1 /\ i # j
    <3>1. i \in 1 .. n
      BY <1>1, <2>1
    <3> QED
      BY <1>1, <1>2, <2>1, <3>1
  <2>2. CASE j = n + 1 /\ i = j
    BY <1>2, <2>2
  <2>3. CASE j # n + 1
    <3>1. i \in 1 .. n /\ j \in 1 .. n
      BY <1>1, <2>3
    <3> QED
      BY <1>1, <1>2, <3>1
  <2> QED
    BY <2>1, <2>2, <2>3
<1>8. \A i, j \in 1 .. n + 1 : j = i + Limit => more[j] - more[i] >= Window
  <2> SUFFICES ASSUME NEW i \in 1 .. n + 1, NEW j \in 1 .. n + 1, j = i + Limit
               PROVE  more[j] - more[i] >= Window
    OBVIOUS
  <2>1. CASE j = n + 1
    <3>1. i \in 1 .. n - w /\ i \in 1 .. n
      BY <1>0, <1>1, <2>1
    <3> QED
      BY <1>2, <1>5, <2>1, <3>1
  <2>2. CASE j # n + 1
    <3>1. i \in 1 .. n /\ j \in 1 .. n
      BY <1>0, <1>1, <2>2
    <3> QED
      BY <1>1, <1>2, <3>1
  <2> QED
    BY <2>1, <2>2
<1> QED
  BY <1>2, <1>6, <1>7, <1>8 DEF Spread, more, seen

\* Every step keeps it.
LEMMA NextWindowInv ==
    ASSUME IInv, WindowInv, [Next]_vars
    PROVE  WindowInv'
<1>0. /\ clock \in Nat /\ incidents \in Seq(0 .. clock)
      /\ Len(restarts) \in Nat
  BY DEF IInv, TypeOK
<1>1. CASE Tick
  <2>1. PICK now \in clock + 1 .. LastTick : AdvanceClock(now)
    BY <1>1 DEF Tick
  <2>2. now \in Nat /\ clock <= now
    BY <1>0, <2>1, TickForward
  <2>3. Remembered(restarts, incidents, now)
    BY <1>0, <2>2, LaterWindow DEF WindowInv
  <2>4. clock' = now /\ restarts' = restarts /\ incidents' = incidents
    BY <2>1 DEF AdvanceClock
  <2> QED
    BY <2>3, <2>4 DEF WindowInv, Remembered, Spread
<1>2. CASE \E c \in Children : GiveUp(c)
  <2>1. restarts' = InWindow /\ clock' = clock /\ incidents' = incidents
    BY <1>2 DEF GiveUp
  <2>2. Remembered(InWindow, incidents, clock)
    BY ForgetExpired DEF IInv
  <2> QED
    BY <2>1, <2>2 DEF WindowInv, Remembered, Spread
<1>3. CASE \E c \in Children : RestartSelected(c) \/ RestartFails(c)
  <2>1. /\ restarts' = Append(InWindow, clock) /\ incidents' = Append(incidents, clock)
        /\ clock' = clock /\ ~Exhausted
    BY <1>3 DEF RestartSelected, RestartFails, IncidentCounted
  <2>2. /\ Remembered(InWindow, incidents, clock) /\ Spread(incidents)
        /\ InWindow \in Seq(0 .. clock) /\ Len(InWindow) \in Nat
    BY ForgetExpired DEF IInv, WindowInv
  <2>3. Len(InWindow) < Limit
    BY <2>1, <2>2, SupervisionAssumption DEF Exhausted
  <2>4. /\ Remembered(Append(InWindow, clock), Append(incidents, clock), clock)
        /\ Spread(Append(incidents, clock))
    BY <1>0, <2>2, <2>3, AnotherIncident
  <2> QED
    BY <2>1, <2>4 DEF WindowInv, Remembered, Spread
<1>4. CASE UNCHANGED <<clock, restarts, incidents>>
  BY <1>4 DEF WindowInv, Remembered, Spread
<1> QED
  BY <1>1, <1>2, <1>3, <1>4
  DEF Next, Step, vars, StartChild, StopChild, OwnerExits, ChildrenExit, Drive, Fired,
      FireStop, FireRestart, IgnoreExit, ExitsDone, Terminate, TerminationsDone,
      SurfaceFailure, DriveDone, ExecuteStart

\* Restarts a window apart whenever Limit lie between them: no window holds more.
LEMMA SpreadBounds ==
    ASSUME NEW all \in Seq(Nat), Spread(all), NEW from \in Nat
    PROVE  Cardinality({i \in DOMAIN all : all[i] \in from .. from + Window - 1}) <= Limit
<1> DEFINE A == {i \in DOMAIN all : all[i] \in from .. from + Window - 1}
           n == Len(all)
<1>0. Limit \in Nat /\ Window \in Nat \ {0}
  BY SupervisionAssumption
<1>1. n \in Nat /\ DOMAIN all = 1 .. n /\ \A i \in 1 .. n : all[i] \in Nat
  OBVIOUS
<1>2. CASE A = {}
  BY <1>0, <1>2, FS_EmptySet
<1>3. CASE A # {}
  <2>1. A \in SUBSET Nat
    BY <1>1
  <2>2. PICK m \in A : \A k \in A : m <= k
    BY <1>3, <2>1, LeastNumber
  <2>3. m \in 1 .. n /\ all[m] >= from /\ all[m] \in Nat
    BY <1>0, <1>1, <2>2
  <2>4. ASSUME NEW i \in A
        PROVE  i \in m .. m + Limit - 1
    <3>1. i \in 1 .. n /\ m <= i /\ all[i] < from + Window
      BY <1>0, <1>1, <2>2
    <3>2. CASE i >= m + Limit
      <4> DEFINE j == m + Limit
      <4>1. j \in 1 .. n /\ j <= i /\ j = m + Limit
        BY <1>0, <1>1, <2>3, <3>1, <3>2
      <4> HIDE DEF j
      <4>2. all[j] - all[m] >= Window
        BY <1>1, <2>3, <4>1 DEF Spread
      <4>3. all[j] <= all[i]
        BY <1>1, <3>1, <4>1 DEF Spread
      <4>4. all[j] \in Nat /\ all[i] \in Nat
        BY <1>1, <3>1, <4>1
      <4> DEFINE x == all[m]
                 y == all[j]
                 z == all[i]
      <4>5. /\ x \in Nat /\ y \in Nat /\ z \in Nat
            /\ x >= from /\ y - x >= Window /\ y <= z /\ z < from + Window
        BY <2>3, <3>1, <4>2, <4>3, <4>4
      <4> HIDE DEF x, y, z
      <4> QED
        BY <1>0, <4>5
    <3> QED
      BY <1>0, <2>3, <3>1, <3>2
  <2>5. A \in SUBSET (m .. m + Limit - 1)
    BY <2>4
  <2>6. /\ IsFiniteSet(m .. m + Limit - 1)
        /\ Cardinality(m .. m + Limit - 1) = Limit
    <3>1. CASE Limit = 0
      <4>1. m .. m + Limit - 1 = {}
        BY <2>3, <3>1
      <4> QED
        BY <3>1, <4>1, FS_EmptySet
    <3>2. CASE Limit # 0
      <4>1. m \in Int /\ m + Limit - 1 \in Int /\ m <= m + Limit - 1
        BY <1>0, <2>3, <3>2
      <4>2. (m + Limit - 1) - m + 1 = Limit
        BY <1>0, <2>3
      <4> DEFINE top == m + Limit - 1
      <4> HIDE DEF top
      <4>3. IsFiniteSet(m .. top) /\ Cardinality(m .. top) = top - m + 1
        BY <4>1, FS_Interval DEF top
      <4> QED
        BY <4>2, <4>3 DEF top
    <3> QED
      BY <3>1, <3>2
  <2>7. Cardinality(A) <= Cardinality(m .. m + Limit - 1)
    <3> HIDE DEF A
    <3> QED
      BY <2>5, <2>6, FS_Subset
  <2> QED
    BY <2>6, <2>7
<1> QED
  BY <1>2, <1>3

\* No window of ticks holds more than Limit restarts, although the supervisor
\* keeps only what the last look left in its window.
THEOREM IntensityIsBounded == Spec => []IntensityBounded
<1>1. Init => WindowInv
  <2> SUFFICES ASSUME Init PROVE WindowInv
    OBVIOUS
  <2>1. Len(incidents) = 0 /\ Len(restarts) = 0
    BY EmptySeq DEF Init
  <2> QED
    BY <2>1 DEF WindowInv, Remembered, Spread
<1>2. IInv /\ WindowInv /\ [Next]_vars => WindowInv'
  BY NextWindowInv
<1>3. IInv /\ WindowInv => IntensityBounded
  <2> SUFFICES ASSUME IInv, WindowInv, NEW from \in 0 .. clock
               PROVE  Cardinality({i \in DOMAIN incidents :
                                     incidents[i] \in from .. from + Window - 1}) <= Limit
    BY DEF IntensityBounded
  <2>1. incidents \in Seq(Nat) /\ from \in Nat
    BY SeqMonotonic DEF IInv, TypeOK
  <2> QED
    BY <2>1, SpreadBounds DEF WindowInv
<1> QED
  BY <1>1, <1>2, <1>3, Invariance, PTL DEF Spec
============================================================================
