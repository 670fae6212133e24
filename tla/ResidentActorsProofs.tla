---------------------- MODULE ResidentActorsProofs ----------------------
(***************************************************************************)
(* What the shard of one execution guarantees its actors, for any number   *)
(* of actors, any mailboxes and monitor references, and every set of       *)
(* operations they may ask for: continuations resume at most once, exits   *)
(* reach the linked component and nothing else, monitors report each end,  *)
(* and an actor that was killed under its own activation is silent.        *)
(*                                                                         *)
(* The cascade comes first: each of its stages has less left to do, so it  *)
(* ends within its steps, and has then ended the component.  Then what an  *)
(* exit leaves of the runtime (Fades), which one exit after another keeps; *)
(* the inductive invariant of runtime and stack; and one lemma per action. *)
(***************************************************************************)
EXTENDS ResidentActors, FiniteSetTheorems, SequenceTheorems, NaturalsInduction,
        WellFoundedInduction, TLAPS

-----------------------------------------------------------------------------
(* Peers in ascending order *)

\* A set of numbers that is not empty has a least element.
LEMMA LeastNumber ==
    ASSUME NEW T \in SUBSET Nat, T # {}
    PROVE  \E m \in T : \A k \in T : m <= k
<1>1. PICK m \in T : \A k \in T : ~(<<k, m>> \in OpToRel(<, Nat))
  BY NatLessThanWellFounded, WFMin
<1>2. \A k \in T : ~(k < m)
  BY <1>1 DEF OpToRel
<1> QED
  BY <1>2

\* A member's place counts the members below it, and greater ones come later.
LEMMA BelowOrder ==
    ASSUME NEW I \in SUBSET Int, IsFiniteSet(I)
    PROVE  /\ \A i \in I : Below(I, i) \in 0 .. Cardinality(I) - 1
           /\ \A i, j \in I : i < j => Below(I, i) < Below(I, j)
<1>1. Cardinality(I) \in Nat
  BY FS_CardinalityType
<1>2. ASSUME NEW i \in I
      PROVE  IsFiniteSet({k \in I : k < i}) /\ Below(I, i) \in Nat
  <2>1. {k \in I : k < i} \in SUBSET I
    OBVIOUS
  <2>2. IsFiniteSet({k \in I : k < i})
    BY <2>1, FS_Subset
  <2> QED
    BY <2>2, FS_CardinalityType DEF Below
<1>3. ASSUME NEW i \in I
      PROVE  Below(I, i) \in 0 .. Cardinality(I) - 1
  <2> DEFINE B == {k \in I : k < i}
  <2>1. B \in SUBSET I /\ B # I
    OBVIOUS
  <2>2. Cardinality(B) <= Cardinality(I) /\ Cardinality(B) # Cardinality(I)
    BY <2>1, FS_Subset
  <2> QED
    BY <1>1, <1>2, <2>2 DEF Below
<1>4. ASSUME NEW i \in I, NEW j \in I, i < j
      PROVE  Below(I, i) < Below(I, j)
  <2> DEFINE A == {k \in I : k < i}
             B == {k \in I : k < j}
  <2>0. i \in Int /\ j \in Int /\ \A k \in I : k \in Int
    OBVIOUS
  <2>1. A \in SUBSET B /\ i \in B /\ i \notin A
    <3>1. \A k \in I : k < i => k < j
      BY <1>4, <2>0
    <3>2. ~(i < i)
      BY <2>0
    <3> QED
      BY <1>4, <3>1, <3>2
  <2>2. IsFiniteSet(B)
    BY <1>2
  <2>3. Cardinality(A) <= Cardinality(B) /\ Cardinality(A) # Cardinality(B)
    BY <2>1, <2>2, FS_Subset
  <2>4. Below(I, i) = Cardinality(A) /\ Below(I, j) = Cardinality(B)
    BY DEF Below
  <2>5. Below(I, i) \in Nat /\ Below(I, j) \in Nat
    BY <1>2
  <2> HIDE DEF A, B
  <2> QED
    BY <2>3, <2>4, <2>5
<1> QED
  BY <1>3, <1>4

\* Every place is taken.
LEMMA BelowCovers ==
    ASSUME NEW I \in SUBSET Int, IsFiniteSet(I), NEW r \in 0 .. Cardinality(I) - 1
    PROVE  \E i \in I : Below(I, i) = r
<1> DEFINE N == Cardinality(I)
           T == 0 .. N - 1
           f == [i \in I |-> Below(I, i)]
<1>1. N \in Nat
  BY FS_CardinalityType
<1>2. IsFiniteSet(T) /\ Cardinality(T) = N
  <2>1. N - 1 \in Int /\ (0 > N - 1 => N = 0)
    BY <1>1
  <2> HIDE DEF N
  <2> QED
    BY <1>1, <2>1, FS_Interval
<1>3. f \in Injection(I, T)
  <2>1. f \in [I -> T]
    BY BelowOrder
  <2>2. \A i, j \in I : i # j => f[i] # f[j]
    <3> SUFFICES ASSUME NEW i \in I, NEW j \in I, i < j PROVE f[i] # f[j]
      OBVIOUS
    <3>1. f[i] < f[j] /\ f[i] \in Int /\ f[j] \in Int
      BY BelowOrder
    <3> QED
      BY <3>1
  <2> QED
    BY <2>1, <2>2 DEF Injection, IsInjective
<1>4. f \in Surjection(I, T)
  BY <1>2, <1>3, FS_Injection
<1>5. \E i \in I : f[i] = r
  BY <1>4 DEF Surjection
<1> QED
  BY <1>5

\* A set of actors in ascending order holds its members.
LEMMA AscendingEntries ==
    ASSUME NEW S \in SUBSET Actors
    PROVE  /\ IsFiniteSet(S) /\ Cardinality(S) \in Nat
           /\ Ascending(S) \in Seq(S) /\ Len(Ascending(S)) = Cardinality(S)
           /\ \A b \in S : \E k \in DOMAIN Ascending(S) : Ascending(S)[k] = b
<1>1. IsFiniteSet(S) /\ S \in SUBSET Int
  <2>1. IsFiniteSet(Actors) /\ Actors \in SUBSET Int
    BY MaxActorsAssumption, FS_Interval DEF Actors
  <2> QED
    BY <2>1, FS_Subset
<1> DEFINE N == Cardinality(S)
           At(k) == CHOOSE b \in S : Below(S, b) = k - 1
<1>2. N \in Nat
  BY <1>1, FS_CardinalityType
<1>3. ASSUME NEW k \in 1 .. N
      PROVE  At(k) \in S /\ Below(S, At(k)) = k - 1
  <2>1. k - 1 \in 0 .. N - 1
    BY <1>2
  <2>2. \E b \in S : Below(S, b) = k - 1
    BY <1>1, <2>1, BelowCovers
  <2> QED
    BY <2>2
<1>4. Ascending(S) = [k \in 1 .. N |-> At(k)]
  BY DEF Ascending
<1>5. ASSUME NEW b \in S
      PROVE  \E k \in 1 .. N : At(k) = b
  <2> DEFINE k == Below(S, b) + 1
  <2>1. Below(S, b) \in 0 .. N - 1
    BY <1>1, BelowOrder
  <2>2. k \in 1 .. N /\ k - 1 = Below(S, b)
    BY <1>2, <2>1
  <2> HIDE DEF k
  <2>3. PICK x \in S : x = At(k) /\ Below(S, x) = Below(S, b)
    BY <1>3, <2>2
  <2> HIDE DEF At
  <2>4. ~(x < b) /\ ~(b < x)
    <3>1. /\ x < b => Below(S, x) < Below(S, b)
          /\ b < x => Below(S, b) < Below(S, x)
      BY <1>1, BelowOrder
    <3> QED
      BY <2>1, <2>3, <3>1
  <2>5. x \in Int /\ b \in Int
    BY <1>1
  <2>6. x = b
    BY <2>4, <2>5
  <2> QED
    BY <2>2, <2>3, <2>6
<1> HIDE DEF At, N
<1>6. Ascending(S) \in [1 .. N -> S]
  BY <1>3, <1>4
<1>7. Ascending(S) \in Seq(S) /\ Len(Ascending(S)) = N /\ DOMAIN Ascending(S) = 1 .. N
  BY <1>2, <1>6
<1> QED
  BY <1>1, <1>2, <1>4, <1>5, <1>7 DEF N

-----------------------------------------------------------------------------
(* The steps of a cascade *)

\* The first steps of a cascade, as a function on them.
Partial(g, n, v, a, why) ==
    /\ DOMAIN g = 0 .. n
    /\ g[0] = [v |-> v, work |-> <<a>>]
    /\ \A i \in 1 .. n : g[i] = ExitStep(g[i - 1], why)

\* There are any number of first steps.
LEMMA PartialExists ==
    ASSUME NEW v, NEW a, NEW why, NEW n \in Nat
    PROVE  \E g : Partial(g, n, v, a, why)
<1> DEFINE Bad == {k \in Nat : ~\E g : Partial(g, k, v, a, why)}
<1>1. SUFFICES ASSUME Bad # {} PROVE FALSE
  OBVIOUS
<1>2. PICK m \in Bad : \A k \in Bad : m <= k
  BY <1>1, LeastNumber
<1>3. m \in Nat /\ ~\E g : Partial(g, m, v, a, why)
  BY <1>2
<1>4. CASE m = 0
  <2> DEFINE g == [i \in 0 .. 0 |-> [v |-> v, work |-> <<a>>]]
  <2>1. Partial(g, 0, v, a, why)
    BY DEF Partial
  <2> QED
    BY <1>3, <1>4, <2>1
<1>5. CASE m # 0
  <2>1. m - 1 \in Nat /\ m - 1 \notin Bad
    BY <1>2, <1>3, <1>5
  <2>2. PICK g : Partial(g, m - 1, v, a, why)
    BY <2>1
  <2> DEFINE h == [i \in 0 .. m |-> IF i = m THEN ExitStep(g[m - 1], why) ELSE g[i]]
  <2>3. DOMAIN h = 0 .. m /\ h[0] = [v |-> v, work |-> <<a>>]
    BY <1>3, <1>5, <2>2 DEF Partial
  <2>4. ASSUME NEW i \in 1 .. m
        PROVE  h[i] = ExitStep(h[i - 1], why)
    <3>1. i - 1 \in 0 .. m /\ i - 1 # m /\ i \in 0 .. m
      BY <1>3
    <3>2. h[i - 1] = g[i - 1]
      BY <3>1
    <3>3. CASE i = m
      BY <3>1, <3>2, <3>3
    <3>4. CASE i # m
      <4>1. i \in 1 .. m - 1
        BY <1>3, <3>4
      <4>2. g[i] = ExitStep(g[i - 1], why)
        BY <2>2, <4>1 DEF Partial
      <4> QED
        BY <3>1, <3>2, <3>4, <4>2
    <3> QED
      BY <3>3, <3>4
  <2> HIDE DEF h
  <2>5. Partial(h, m, v, a, why)
    BY <2>3, <2>4 DEF Partial
  <2> QED
    BY <1>3, <2>5
<1> QED
  BY <1>4, <1>5

\* They agree.
LEMMA PartialUnique ==
    ASSUME NEW v, NEW a, NEW why, NEW m \in Nat, NEW n \in Nat, NEW g, NEW h,
           Partial(g, m, v, a, why), Partial(h, n, v, a, why), NEW i \in 0 .. m, i <= n
    PROVE  g[i] = h[i]
<1> DEFINE Bad == {k \in Nat : k <= m /\ k <= n /\ g[k] # h[k]}
<1>1. SUFFICES ASSUME Bad # {} PROVE FALSE
  OBVIOUS
<1>2. PICK k \in Bad : \A j \in Bad : k <= j
  BY <1>1, LeastNumber
<1>3. k \in Nat /\ k <= m /\ k <= n /\ g[k] # h[k]
  BY <1>2
<1>4. k # 0
  BY <1>3 DEF Partial
<1>5. k - 1 \in Nat /\ k - 1 \notin Bad /\ k \in 1 .. m /\ k \in 1 .. n
  BY <1>2, <1>3, <1>4
<1>6. g[k - 1] = h[k - 1]
  BY <1>3, <1>5
<1> QED
  BY <1>3, <1>5, <1>6 DEF Partial

\* The cascade starts with the actor and goes on step by step.
LEMMA CascadeSteps ==
    ASSUME NEW v, NEW a, NEW why
    PROVE  /\ Cascade(v, a, why)[0] = [v |-> v, work |-> <<a>>]
           /\ \A n \in Nat : Cascade(v, a, why)[n + 1] = ExitStep(Cascade(v, a, why)[n], why)
<1> DEFINE first(n) == CHOOSE g : Partial(g, n, v, a, why)
           f == [n \in Nat |-> first(n)[n]]
           Runs(g) == g = [n \in Nat |-> IF n = 0 THEN [v |-> v, work |-> <<a>>]
                                         ELSE ExitStep(g[n - 1], why)]
<1>1. \A n \in Nat : Partial(first(n), n, v, a, why)
  BY PartialExists
<1> HIDE DEF first
<1>2. f[0] = [v |-> v, work |-> <<a>>]
  BY <1>1 DEF Partial
<1>3. ASSUME NEW n \in Nat, n # 0
      PROVE  f[n] = ExitStep(f[n - 1], why)
  <2>1. n - 1 \in Nat /\ n - 1 \in 0 .. n - 1 /\ n - 1 <= n /\ n \in 1 .. n
    BY <1>3
  <2>2. first(n)[n] = ExitStep(first(n)[n - 1], why)
    BY <1>1, <2>1 DEF Partial
  <2>3. first(n - 1)[n - 1] = first(n)[n - 1]
    <3> DEFINE k == n - 1
    <3>1. k \in Nat /\ k \in 0 .. k /\ k <= n
      BY <2>1
    <3> HIDE DEF k
    <3>2. first(k)[k] = first(n)[k]
      BY <1>1, <3>1, PartialUnique
    <3> QED
      BY <3>2 DEF k
  <2> QED
    BY <2>1, <2>2, <2>3
<1>4. Runs(f)
  <2>1. \A n \in Nat : f[n] = IF n = 0 THEN [v |-> v, work |-> <<a>>]
                              ELSE ExitStep(f[n - 1], why)
    BY <1>2, <1>3
  <2>2. DOMAIN f = Nat /\ f = [n \in Nat |-> f[n]]
    OBVIOUS
  <2> HIDE DEF f
  <2> QED
    BY <2>1, <2>2
<1>5. Cascade(v, a, why) = CHOOSE g : Runs(g)
  BY DEF Cascade
<1>6. Runs(Cascade(v, a, why))
  <2> HIDE DEF Runs, f
  <2> QED
    BY <1>4, <1>5
<1> DEFINE c == Cascade(v, a, why)
<1> HIDE DEF c
<1>7. \A n \in Nat : c[n] = IF n = 0 THEN [v |-> v, work |-> <<a>>]
                            ELSE ExitStep(c[n - 1], why)
  BY <1>6 DEF c
<1>8. \A n \in Nat : n + 1 \in Nat /\ n + 1 # 0 /\ (n + 1) - 1 = n
  OBVIOUS
<1>9. \A n \in Nat : c[n + 1] = ExitStep(c[n], why)
  BY <1>7, <1>8
<1>10. c[0] = [v |-> v, work |-> <<a>>]
  BY <1>7
<1> QED
  BY <1>9, <1>10 DEF c

-----------------------------------------------------------------------------
(* The runtime and what exits leave of it *)

\* What an exit is for, a link, a monitor.
Reasons == {"normal", "failed"}
Pairs == {l \in SUBSET Actors : Cardinality(l) = 2}
Monitors == [watcher : Actors, target : Actors,
             state : {"active", "told", "unheard", "dropped"}]

\* The runtime record.
Runtime ==
    [status : [Actors -> {"unborn", "live"} \cup Reasons],
     reaped : SUBSET Actors, cancelled : SUBSET Actors,
     links : SUBSET Pairs, monitors : Seq(Monitors),
     mail : [Actors -> 0 .. MaxMail],
     lease : SUBSET Actors, heap : SUBSET Actors,
     resident : [Actors -> Operations \cup {NoOp}],
     worker : SUBSET Actors, helper : SUBSET Actors]

\* Leases and links are of actors that live.
LeasesLive(v) == \A b \in v.lease : Live(v, b)
LinksLive(v) == \A l \in v.links : \A b \in l : Live(v, b)

\* What DownExact says, with the watchers and targets it speaks of.
MonitorExact(v, m) ==
    /\ v.status[m.watcher] # "unborn" /\ v.status[m.target] # "unborn"
    /\ Live(v, m.watcher) /\ m.state # "dropped" =>
          (m.state = "told" <=> ~Live(v, m.target)) /\ m.state # "unheard"

\* Every monitor is exact.
MonitorsExact(v) == \A r \in 1 .. Len(v.monitors) : MonitorExact(v, v.monitors[r])

\* Nothing is gained: w is v after some exits and releases.
Fades(v, w) ==
    /\ w \in Runtime
    /\ \A b \in Actors : /\ w.status[b] = "unborn" <=> v.status[b] = "unborn"
                         /\ Live(w, b) => Live(v, b)
                         /\ w.resident[b] \in {v.resident[b], NoOp}
                         /\ w.mail[b] <= v.mail[b]
                         /\ b \in v.lease /\ Live(w, b) => b \in w.lease
    /\ w.lease \subseteq v.lease /\ w.worker \subseteq v.worker
    /\ w.cancelled \subseteq v.cancelled /\ w.links \subseteq v.links
    /\ LeasesLive(v) => LeasesLive(w)
    /\ LinksLive(v) => LinksLive(w)
    /\ Len(w.monitors) = Len(v.monitors)
    /\ MonitorsExact(v) => MonitorsExact(w)

\* The links an actor's exit leaves.
Kept(L, a) == {l \in L : a \notin l}

\* A runtime that nothing happened to.
LEMMA FadesSelf == ASSUME NEW v \in Runtime PROVE Fades(v, v)
BY DEF Fades, Runtime

\* Two losses, one after the other, are a loss (exits compose).
LEMMA FadesThen ==
    ASSUME NEW u \in Runtime, NEW v \in Runtime, NEW w \in Runtime, Fades(u, v), Fades(v, w)
    PROVE  Fades(u, w)
<1>1. ASSUME NEW b \in Actors
      PROVE  w.mail[b] <= u.mail[b]
  <2>1. w.mail[b] <= v.mail[b] /\ v.mail[b] <= u.mail[b]
    BY DEF Fades
  <2>2. u.mail[b] \in Nat /\ v.mail[b] \in Nat /\ w.mail[b] \in Nat
    BY ResidentAssumption DEF Runtime
  <2> QED
    BY <2>1, <2>2
<1>2. \A b \in Actors : /\ w.status[b] = "unborn" <=> u.status[b] = "unborn"
                        /\ Live(w, b) => Live(u, b)
                        /\ w.resident[b] \in {u.resident[b], NoOp}
                        /\ b \in u.lease /\ Live(w, b) => b \in w.lease
  BY DEF Fades
<1>3. /\ w.lease \subseteq u.lease /\ w.worker \subseteq u.worker
      /\ w.cancelled \subseteq u.cancelled /\ w.links \subseteq u.links
  BY DEF Fades
<1> QED
  BY <1>1, <1>2, <1>3 DEF Fades

\* The monitors after the exit of an actor.
LEMMA MonitorsTaken ==
    ASSUME NEW v \in Runtime, NEW a \in Actors
    PROVE  /\ TakeMonitors(v, a) \in Seq(Monitors)
           /\ Len(TakeMonitors(v, a)) = Len(v.monitors)
           /\ \A r \in 1 .. Len(v.monitors) :
                 LET m == v.monitors[r]
                     t == TakeMonitors(v, a)[r]
                 IN  /\ t.watcher = m.watcher /\ t.target = m.target
                     /\ m.watcher = a => t.state = "dropped"
                     /\ m.watcher # a /\ m.state = "active" /\ m.target = a =>
                           t.state = IF Live(v, m.watcher) THEN "told" ELSE "unheard"
                     /\ m.watcher # a /\ ~(m.state = "active" /\ m.target = a) =>
                           t.state = m.state
<1>0. v.monitors \in Seq(Monitors) /\ DOMAIN v.monitors = 1 .. Len(v.monitors)
      /\ Len(v.monitors) \in Nat
  BY DEF Runtime
<1> DEFINE n == Len(v.monitors)
<1>1. ASSUME NEW r \in 1 .. n
      PROVE  LET m == v.monitors[r]
                 t == TakeMonitors(v, a)[r]
             IN  /\ t \in Monitors
                 /\ t.watcher = m.watcher /\ t.target = m.target
                 /\ m.watcher = a => t.state = "dropped"
                 /\ m.watcher # a /\ m.state = "active" /\ m.target = a =>
                       t.state = IF Live(v, m.watcher) THEN "told" ELSE "unheard"
                 /\ m.watcher # a /\ ~(m.state = "active" /\ m.target = a) =>
                       t.state = m.state
  <2> DEFINE m == v.monitors[r]
             heard == IF Live(v, m.watcher) THEN "told" ELSE "unheard"
  <2>1. m \in Monitors
    BY <1>0
  <2>2. TakeMonitors(v, a)[r] = IF m.watcher = a THEN [m EXCEPT !.state = "dropped"]
                                ELSE IF m.state # "active" \/ m.target # a THEN m
                                ELSE [m EXCEPT !.state = heard]
    BY <1>0 DEF TakeMonitors
  <2>3. heard \in {"told", "unheard"}
    OBVIOUS
  <2> HIDE DEF m, heard
  <2>4. CASE m.watcher = a
    BY <2>1, <2>2, <2>4 DEF Monitors, m
  <2>5. CASE m.watcher # a /\ ~(m.state = "active" /\ m.target = a)
    BY <2>1, <2>2, <2>5 DEF Monitors, m
  <2>6. CASE m.watcher # a /\ m.state = "active" /\ m.target = a
    <3>1. TakeMonitors(v, a)[r] = [m EXCEPT !.state = heard]
      BY <2>2, <2>6
    <3>2. [m EXCEPT !.state = heard] \in Monitors
      BY <2>1, <2>3 DEF Monitors
    <3>3. [m EXCEPT !.state = heard].watcher = m.watcher
          /\ [m EXCEPT !.state = heard].target = m.target
          /\ [m EXCEPT !.state = heard].state = heard
      BY <2>1 DEF Monitors
    <3> QED
      BY <2>6, <3>1, <3>2, <3>3 DEF m, heard
  <2> QED
    BY <2>4, <2>5, <2>6
<1>2. DOMAIN TakeMonitors(v, a) = 1 .. n
      /\ TakeMonitors(v, a) = [r \in 1 .. n |-> TakeMonitors(v, a)[r]]
  BY <1>0 DEF TakeMonitors
<1>3. TakeMonitors(v, a) \in [1 .. n -> Monitors]
  BY <1>1, <1>2
<1>4. TakeMonitors(v, a) \in Seq(Monitors) /\ Len(TakeMonitors(v, a)) = n
  BY <1>0, <1>3
<1> QED
  BY <1>1, <1>4

\* What the exit of one process changes.
Exited(v, a, why, w) ==
    /\ w.status = [v.status EXCEPT ![a] = why]
    /\ w.mail = [v.mail EXCEPT ![a] = 0]
    /\ w.lease = v.lease \ {a}
    /\ w.links = Kept(v.links, a)
    /\ w.monitors = TakeMonitors(v, a)
    /\ w.cancelled = v.cancelled /\ w.reaped = v.reaped
    /\ w.heap = v.heap /\ w.resident = v.resident
    /\ w.worker = v.worker /\ w.helper = v.helper

\* What one pass of exit_process_inner does to the runtime, field by field.
LEMMA ExitOneFields ==
    ASSUME NEW v \in Runtime, NEW a \in Actors, NEW why \in Reasons
    PROVE  ExitOne(v, a, why) \in Runtime /\ Exited(v, a, why, ExitOne(v, a, why))
<1> DEFINE w == ExitOne(v, a, why)
<1>1. w = [v EXCEPT !.status = [v.status EXCEPT ![a] = why],
                    !.mail = [v.mail EXCEPT ![a] = 0],
                    !.lease = v.lease \ {a},
                    !.links = Kept(v.links, a),
                    !.monitors = TakeMonitors(v, a)]
  BY DEF ExitOne, Runtime, Kept
<1>2. /\ w.status = [v.status EXCEPT ![a] = why]
      /\ w.mail = [v.mail EXCEPT ![a] = 0]
      /\ w.lease = v.lease \ {a}
      /\ w.links = Kept(v.links, a)
      /\ w.monitors = TakeMonitors(v, a)
      /\ w.cancelled = v.cancelled /\ w.reaped = v.reaped
      /\ w.heap = v.heap /\ w.resident = v.resident
      /\ w.worker = v.worker /\ w.helper = v.helper
  <2> HIDE DEF w
  <2> QED
    BY <1>1 DEF Runtime
<1>3. /\ [v.status EXCEPT ![a] = why] \in [Actors -> {"unborn", "live"} \cup Reasons]
      /\ [v.mail EXCEPT ![a] = 0] \in [Actors -> 0 .. MaxMail]
      /\ v.lease \ {a} \in SUBSET Actors
      /\ Kept(v.links, a) \in SUBSET Pairs
      /\ TakeMonitors(v, a) \in Seq(Monitors)
  <2>1. TakeMonitors(v, a) \in Seq(Monitors)
    BY MonitorsTaken
  <2>2. v.links \in SUBSET Pairs /\ v.lease \in SUBSET Actors
    BY DEF Runtime
  <2>3. /\ [v.status EXCEPT ![a] = why] \in [Actors -> {"unborn", "live"} \cup Reasons]
        /\ [v.mail EXCEPT ![a] = 0] \in [Actors -> 0 .. MaxMail]
    BY ResidentAssumption DEF Runtime
  <2> QED
    BY <2>1, <2>2, <2>3 DEF Kept
<1>4. w \in Runtime
  <2> HIDE DEF w
  <2> QED
    BY <1>1, <1>3 DEF Runtime
<1>5. Exited(v, a, why, w)
  <2> HIDE DEF w
  <2> QED
    BY <1>2 DEF Exited
<1> QED
  BY <1>4, <1>5

\* It is a loss.
LEMMA ExitOneFades ==
    ASSUME NEW v \in Runtime, NEW a \in Actors, NEW why \in Reasons, Live(v, a)
    PROVE  Fades(v, ExitOne(v, a, why))
<1> DEFINE w == ExitOne(v, a, why)
<1>0. w \in Runtime /\ Exited(v, a, why, w)
  BY ExitOneFields
<1> HIDE DEF w
<1>1. /\ w \in Runtime
      /\ w.status = [v.status EXCEPT ![a] = why]
      /\ w.mail = [v.mail EXCEPT ![a] = 0]
      /\ w.lease = v.lease \ {a}
      /\ w.links = Kept(v.links, a)
      /\ w.monitors = TakeMonitors(v, a)
      /\ w.cancelled = v.cancelled /\ w.resident = v.resident /\ w.worker = v.worker
  BY <1>0 DEF Exited
<1>2. v.status \in [Actors -> {"unborn", "live"} \cup Reasons] /\ v.mail \in [Actors -> Nat]
  BY ResidentAssumption DEF Runtime
<1>3. \A b \in Actors : /\ b # a => w.status[b] = v.status[b]
                        /\ ~Live(w, a) /\ w.status[a] # "unborn"
  BY <1>1, <1>2 DEF Live, Reasons
<1>4. \A b \in Actors : w.mail[b] <= v.mail[b]
  BY <1>1, <1>2
<1>5. \A b \in Actors : /\ w.status[b] = "unborn" <=> v.status[b] = "unborn"
                        /\ Live(w, b) => Live(v, b)
                        /\ Live(w, b) <=> Live(v, b) /\ b # a
  BY <1>3 DEF Live
<1>6. LeasesLive(v) => LeasesLive(w)
  <2>1. v.lease \in SUBSET Actors
    BY DEF Runtime
  <2> QED
    BY <1>1, <1>5, <2>1 DEF LeasesLive
<1>7. LinksLive(v) => LinksLive(w)
  <2>1. \A l \in v.links : \A b \in l : b \in Actors
    BY DEF Runtime, Pairs
  <2> QED
    BY <1>1, <1>5, <2>1 DEF LinksLive, Kept
<1>8. Len(w.monitors) = Len(v.monitors)
  BY <1>1, MonitorsTaken
<1>9. ASSUME MonitorsExact(v) PROVE MonitorsExact(w)
  <2> SUFFICES ASSUME NEW r \in 1 .. Len(v.monitors)
               PROVE  MonitorExact(w, w.monitors[r])
    BY <1>8 DEF MonitorsExact
  <2> DEFINE m == v.monitors[r]
             t == w.monitors[r]
  <2>1. /\ t.watcher = m.watcher /\ t.target = m.target
        /\ m.watcher = a => t.state = "dropped"
        /\ m.watcher # a /\ m.state = "active" /\ m.target = a =>
              t.state = IF Live(v, m.watcher) THEN "told" ELSE "unheard"
        /\ m.watcher # a /\ ~(m.state = "active" /\ m.target = a) => t.state = m.state
    BY <1>1, MonitorsTaken
  <2>2. m \in Monitors
    BY DEF Runtime
  <2>3. MonitorExact(v, m)
    BY <1>9 DEF MonitorsExact
  <2>0. SUFFICES MonitorExact(w, t)
    OBVIOUS
  <2> HIDE DEF m, t
  <2>4. m.watcher \in Actors /\ m.target \in Actors
        /\ m.state \in {"active", "told", "unheard", "dropped"}
    BY <2>2 DEF Monitors
  <2>5. CASE m.watcher = a
    BY <1>5, <2>1, <2>3, <2>4, <2>5 DEF MonitorExact, Live
  <2>6. CASE m.watcher # a /\ m.state = "active" /\ m.target = a
    BY <1>5, <2>1, <2>3, <2>4, <2>6 DEF MonitorExact, Live
  <2>7. CASE m.watcher # a /\ ~(m.state = "active" /\ m.target = a)
    BY <1>5, <2>1, <2>3, <2>4, <2>7 DEF MonitorExact, Live
  <2> QED
    BY <2>5, <2>6, <2>7
<1>10. w.lease \subseteq v.lease /\ w.links \subseteq v.links
  BY <1>1 DEF Kept
<1>11. \A b \in Actors : b \in v.lease /\ Live(w, b) => b \in w.lease
  BY <1>1, <1>5
<1>12. \A b \in Actors : w.resident[b] \in {v.resident[b], NoOp}
  BY <1>1
<1> QED
  BY <1>1, <1>4, <1>5, <1>6, <1>7, <1>8, <1>9, <1>10, <1>11, <1>12 DEF Fades, w

-----------------------------------------------------------------------------
(* The cascade ends the linked component and nothing else *)

\* A set of actors that holds whom its members are linked with.
Closed(v, C) == \A x \in C : PeerSet(v, x) \subseteq C

\* s is a stage of the cascade that starts with a in v, and E has ended so far.
Stage(s, v, a, why, E) ==
    /\ s \in [v : Runtime, work : Seq(Actors)] /\ Fades(v, s.v)
    /\ E \in SUBSET Actors /\ \A b \in E : Live(v, b)
    /\ \A b \in Actors : s.v.status[b] = IF b \in E THEN why ELSE v.status[b]
    /\ s.v.links = {l \in v.links : l \cap E = {}}
    /\ IF Live(v, a) THEN a \in E \cup ToSet(s.work) ELSE E = {}
    /\ IF why = "normal" \/ ~Live(v, a)
       THEN E \cup ToSet(s.work) \subseteq {a}
       ELSE /\ \A b \in E : PeerSet(v, b) \subseteq E \cup ToSet(s.work)
            /\ \A C \in SUBSET Actors :
                  a \in C /\ Closed(v, C) => E \cup ToSet(s.work) \subseteq C

\* What is left to do.
Measure(s) == Len(s.work) + 2 * Cardinality(s.v.links)

\* Links are finite.
LEMMA LinksFinite ==
    ASSUME NEW v \in Runtime
    PROVE  IsFiniteSet(v.links) /\ Cardinality(v.links) \in Nat
<1>1. IsFiniteSet(Actors)
  BY MaxActorsAssumption, FS_Interval DEF Actors
<1>2. IsFiniteSet(SUBSET Actors)
  BY <1>1, FS_SUBSET
<1>3. v.links \in SUBSET (SUBSET Actors)
  BY DEF Runtime, Pairs
<1> QED
  BY <1>2, <1>3, FS_Subset, FS_CardinalityType

\* An actor has no more peers than links, and its exit takes these.
LEMMA PeersOfLinks ==
    ASSUME NEW v \in Runtime, NEW a \in Actors
    PROVE  LET rest == {l \in v.links : a \notin l}
           IN  /\ Cardinality(rest) \in Nat /\ Cardinality(PeerSet(v, a)) \in Nat
               /\ Cardinality(PeerSet(v, a)) + Cardinality(rest) <= Cardinality(v.links)
<1> DEFINE mine == {l \in v.links : a \in l}
           rest == {l \in v.links : a \notin l}
           f == [b \in PeerSet(v, a) |-> {a, b}]
<1>1. IsFiniteSet(v.links) /\ Cardinality(v.links) \in Nat
  BY LinksFinite
<1>2. mine \in SUBSET v.links /\ v.links \ mine = rest /\ v.links \cap mine = mine
  OBVIOUS
<1>3. /\ IsFiniteSet(mine) /\ IsFiniteSet(rest)
      /\ Cardinality(rest) = Cardinality(v.links) - Cardinality(mine)
      /\ Cardinality(mine) \in Nat /\ Cardinality(rest) \in Nat
  <2> HIDE DEF mine, rest
  <2>1. IsFiniteSet(mine) /\ IsFiniteSet(rest)
        /\ Cardinality(rest) = Cardinality(v.links) - Cardinality(mine)
    <3>1. IsFiniteSet(mine)
      BY <1>1, <1>2, FS_Subset
    <3>2. /\ IsFiniteSet(v.links \ mine)
          /\ Cardinality(v.links \ mine) = Cardinality(v.links) - Cardinality(v.links \cap mine)
      BY <1>1, FS_Difference
    <3> QED
      BY <1>2, <3>1, <3>2
  <2> QED
    BY <2>1, FS_CardinalityType
<1>4. f \in Injection(PeerSet(v, a), mine)
  <2>1. f \in [PeerSet(v, a) -> mine]
    BY DEF PeerSet
  <2>2. \A b, c \in PeerSet(v, a) : f[b] = f[c] => b = c
    OBVIOUS
  <2> QED
    BY <2>1, <2>2 DEF Injection, IsInjective
<1>5. Cardinality(PeerSet(v, a)) <= Cardinality(mine)
  <2> HIDE DEF f, mine
  <2> QED
    BY <1>3, <1>4, FS_Injection
<1>6. PeerSet(v, a) \in SUBSET Actors
  BY DEF PeerSet
<1>7. Cardinality(PeerSet(v, a)) \in Nat
  BY <1>6, AscendingEntries
<1> HIDE DEF mine, rest
<1> QED
  BY <1>1, <1>3, <1>5, <1>7 DEF rest

\* The entries of work lists.
LEMMA HeadEntries ==
    ASSUME NEW s \in Seq(Actors), s # <<>>
    PROVE  /\ Head(s) \in Actors /\ Tail(s) \in Seq(Actors)
           /\ Len(s) \in Nat /\ Len(Tail(s)) = Len(s) - 1
           /\ ToSet(s) = {Head(s)} \cup ToSet(Tail(s))
<1>1. /\ Tail(s) \in Seq(Actors) /\ Len(Tail(s)) = Len(s) - 1 /\ Len(s) \in Nat \ {0}
      /\ \A i \in 1 .. Len(Tail(s)) : Tail(s)[i] = s[i + 1]
      /\ Head(s) = s[1] /\ Head(s) \in Actors
      /\ DOMAIN s = 1 .. Len(s) /\ DOMAIN Tail(s) = 1 .. Len(Tail(s))
  OBVIOUS
<1>2. 1 \in DOMAIN s /\ \A i \in DOMAIN Tail(s) : i + 1 \in DOMAIN s
  BY <1>1
<1>3. ASSUME NEW i \in DOMAIN s, i # 1
      PROVE  s[i] \in ToSet(Tail(s))
  <2>1. i - 1 \in DOMAIN Tail(s) /\ (i - 1) + 1 = i
    BY <1>1, <1>3
  <2> QED
    BY <1>1, <2>1 DEF ToSet
<1> QED
  BY <1>1, <1>2, <1>3 DEF ToSet

\* Two work lists, one before the other.
LEMMA JoinedEntries ==
    ASSUME NEW s \in Seq(Actors), NEW t \in Seq(Actors)
    PROVE  /\ s \o t \in Seq(Actors) /\ Len(s \o t) = Len(s) + Len(t)
           /\ ToSet(s \o t) = ToSet(s) \cup ToSet(t)
<1>1. /\ s \o t \in Seq(Actors)
      /\ Len(s \o t) = Len(s) + Len(t)
      /\ \A i \in 1 .. Len(s) + Len(t) :
            (s \o t)[i] = IF i <= Len(s) THEN s[i] ELSE t[i - Len(s)]
  BY ConcatProperties
<1>2. /\ DOMAIN (s \o t) = 1 .. Len(s) + Len(t)
      /\ DOMAIN s = 1 .. Len(s) /\ DOMAIN t = 1 .. Len(t)
      /\ Len(s) \in Nat /\ Len(t) \in Nat
  BY <1>1
<1> DEFINE u == s \o t
<1> HIDE DEF u
<1>3. ASSUME NEW i \in DOMAIN u
      PROVE  u[i] \in ToSet(s) \cup ToSet(t)
  <2>1. CASE i <= Len(s)
    BY <1>1, <1>2, <2>1 DEF ToSet, u
  <2>2. CASE ~(i <= Len(s))
    <3>1. i - Len(s) \in DOMAIN t
      BY <1>2, <2>2 DEF u
    <3> QED
      BY <1>1, <1>2, <2>2, <3>1 DEF ToSet, u
  <2> QED
    BY <2>1, <2>2
<1>4. ASSUME NEW i \in DOMAIN s
      PROVE  s[i] \in ToSet(u)
  BY <1>1, <1>2 DEF ToSet, u
<1>5. ASSUME NEW i \in DOMAIN t
      PROVE  t[i] \in ToSet(u)
  <2>1. i + Len(s) \in 1 .. Len(s) + Len(t) /\ ~(i + Len(s) <= Len(s))
        /\ (i + Len(s)) - Len(s) = i
    BY <1>2
  <2>2. u[i + Len(s)] = t[i]
    BY <1>1, <2>1 DEF u
  <2> QED
    BY <1>2, <2>1, <2>2 DEF ToSet, u
<1>6. ToSet(u) = ToSet(s) \cup ToSet(t)
  <2>1. ToSet(u) \subseteq ToSet(s) \cup ToSet(t)
    BY <1>3 DEF ToSet
  <2>2. ToSet(s) \subseteq ToSet(u) /\ ToSet(t) \subseteq ToSet(u)
    BY <1>4, <1>5 DEF ToSet
  <2> QED
    BY <2>1, <2>2
<1> QED
  BY <1>1, <1>6 DEF u

\* The actors an exit is passed on to.
LEMMA PropagatedEntries ==
    ASSUME NEW v \in Runtime, NEW a \in Actors, NEW why
    PROVE  /\ Propagated(v, a, why) \in Seq(Actors)
           /\ Len(Propagated(v, a, why)) \in Nat
           /\ Len(Propagated(v, a, why)) <= Cardinality(PeerSet(v, a))
           /\ ToSet(Propagated(v, a, why)) = IF why = "normal" THEN {} ELSE PeerSet(v, a)
<1>1. PeerSet(v, a) \in SUBSET Actors
  BY DEF PeerSet
<1>2. /\ Cardinality(PeerSet(v, a)) \in Nat
      /\ Peers(v, a) \in Seq(PeerSet(v, a))
      /\ Len(Peers(v, a)) = Cardinality(PeerSet(v, a))
      /\ \A b \in PeerSet(v, a) : \E k \in DOMAIN Peers(v, a) : Peers(v, a)[k] = b
  BY <1>1, AscendingEntries DEF Peers
<1>3. Peers(v, a) \in Seq(Actors)
  BY <1>1, <1>2
<1>4. ToSet(Peers(v, a)) = PeerSet(v, a)
  <2>1. \A k \in DOMAIN Peers(v, a) : Peers(v, a)[k] \in PeerSet(v, a)
    BY <1>2
  <2> QED
    BY <1>2, <2>1 DEF ToSet
<1>5. CASE why = "normal"
  <2>1. Propagated(v, a, why) = <<>>
    BY <1>5 DEF Propagated
  <2>2. ToSet(<<>>) = {} /\ <<>> \in Seq(Actors) /\ Len(<<>>) = 0
    BY DEF ToSet
  <2>3. 0 <= Cardinality(PeerSet(v, a))
    BY <1>2
  <2> QED
    BY <1>5, <2>1, <2>2, <2>3
<1>6. CASE why # "normal"
  <2>1. Propagated(v, a, why) = Peers(v, a)
    BY <1>6 DEF Propagated
  <2> QED
    BY <1>2, <1>3, <1>4, <1>6, <2>1
<1> QED
  BY <1>5, <1>6

\* The cascade starts in a stage.
LEMMA FirstStage ==
    ASSUME NEW v \in Runtime, NEW a \in Actors, NEW why \in Reasons
    PROVE  Stage([v |-> v, work |-> <<a>>], v, a, why, {})
<1>1. <<a>> \in Seq(Actors) /\ ToSet(<<a>>) = {a}
  <2>1. DOMAIN <<a>> = {1} /\ <<a>>[1] = a /\ <<a>> \in Seq(Actors)
    OBVIOUS
  <2> QED
    BY <2>1 DEF ToSet
<1> QED
  BY <1>1, FadesSelf DEF Stage

\* The next actor of the work list is no longer alive.
LEMMA SkippedStage ==
    ASSUME NEW v \in Runtime, LinksLive(v), NEW a \in Actors, NEW why \in Reasons,
           NEW s, NEW E, Stage(s, v, a, why, E), s.work # <<>>, ~Live(s.v, Head(s.work)),
           NEW s2, s2 = [s EXCEPT !.work = Tail(@)]
    PROVE  Stage(s2, v, a, why, E)
<1> DEFINE x == Head(s.work)
<1>0. s2.v = s.v /\ s2.work = Tail(s.work)
  BY DEF Stage
<1>1. /\ x \in Actors /\ Tail(s.work) \in Seq(Actors)
      /\ ToSet(s.work) = {x} \cup ToSet(s2.work)
  BY <1>0, HeadEntries DEF Stage
<1> HIDE DEF x
<1>00. s2 \in [v : Runtime, work : Seq(Actors)]
  BY <1>1 DEF Stage
<1>2. ~Live(s.v, x)
  BY DEF x
<1>3. x \in E \/ ~Live(v, x)
  BY <1>1, <1>2 DEF Stage, Live
<1>4. IF Live(v, a) THEN a \in E \cup ToSet(s2.work) ELSE E = {}
  BY <1>1, <1>3 DEF Stage
<1>5. ASSUME NEW b \in E, NEW c \in PeerSet(v, b)
      PROVE  Live(v, c)
  BY DEF PeerSet, LinksLive
<1>6. IF why = "normal" \/ ~Live(v, a)
      THEN E \cup ToSet(s2.work) \subseteq {a}
      ELSE /\ \A b \in E : PeerSet(v, b) \subseteq E \cup ToSet(s2.work)
           /\ \A C \in SUBSET Actors :
                 a \in C /\ Closed(v, C) => E \cup ToSet(s2.work) \subseteq C
  <2>1. CASE why = "normal" \/ ~Live(v, a)
    BY <1>1, <2>1 DEF Stage
  <2>2. CASE ~(why = "normal" \/ ~Live(v, a))
    <3>1. /\ \A b \in E : PeerSet(v, b) \subseteq E \cup ToSet(s.work)
          /\ \A C \in SUBSET Actors :
                a \in C /\ Closed(v, C) => E \cup ToSet(s.work) \subseteq C
      BY <2>2 DEF Stage
    <3>2. \A b \in E : PeerSet(v, b) \subseteq E \cup ToSet(s2.work)
      BY <1>1, <1>3, <1>5, <3>1
    <3> QED
      BY <1>1, <2>2, <3>1, <3>2
  <2> QED
    BY <2>1, <2>2
<1> QED
  BY <1>0, <1>00, <1>4, <1>6 DEF Stage

\* The next actor of the work list ends, and its peers are next.
LEMMA EndedStage ==
    ASSUME NEW v \in Runtime, LinksLive(v), NEW a \in Actors, NEW why \in Reasons,
           NEW s, NEW E, Stage(s, v, a, why, E), s.work # <<>>, Live(s.v, Head(s.work)),
           NEW s2,
           s2 = [v |-> ExitOne(s.v, Head(s.work), why),
                 work |-> Propagated(s.v, Head(s.work), why) \o Tail(s.work)]
    PROVE  Stage(s2, v, a, why, E \cup {Head(s.work)})
<1> DEFINE x == Head(s.work)
           p == Propagated(s.v, x, why)
<1>0. s.v \in Runtime /\ Fades(v, s.v)
  BY DEF Stage
<1>1. /\ x \in Actors /\ Tail(s.work) \in Seq(Actors)
      /\ ToSet(s.work) = {x} \cup ToSet(Tail(s.work))
  BY HeadEntries DEF Stage
<1> HIDE DEF x
<1>2. /\ p \in Seq(Actors)
      /\ ToSet(p) = IF why = "normal" THEN {} ELSE PeerSet(s.v, x)
  BY <1>0, <1>1, PropagatedEntries
<1>3. s2.work = p \o Tail(s.work) /\ s2.v = ExitOne(s.v, x, why) /\ Live(s.v, x)
  BY DEF x
<1> HIDE DEF p
<1>4. s2.work \in Seq(Actors) /\ ToSet(s2.work) = ToSet(p) \cup ToSet(Tail(s.work))
  BY <1>1, <1>2, <1>3, JoinedEntries
<1>5. /\ s2.v \in Runtime
      /\ s2.v.status = [s.v.status EXCEPT ![x] = why]
      /\ s2.v.links = Kept(s.v.links, x)
  <2>1. s2.v \in Runtime /\ Exited(s.v, x, why, s2.v)
    BY <1>0, <1>1, <1>3, ExitOneFields
  <2> QED
    BY <2>1 DEF Exited
<1>6. Fades(v, s2.v)
  <2>1. Fades(s.v, s2.v)
    BY <1>0, <1>1, <1>3, ExitOneFades
  <2> QED
    BY <1>0, <1>5, <2>1, FadesThen
<1>7. Live(v, x) /\ x \notin E
  <2>1. Live(v, x)
    BY <1>0, <1>1, <1>3 DEF Fades
  <2>2. x \notin E
    BY <1>1, <1>3 DEF Stage, Live, Reasons
  <2> QED
    BY <2>1, <2>2
<1> DEFINE F == E \cup {x}
<1>8. F \in SUBSET Actors /\ \A b \in F : Live(v, b)
  BY <1>1, <1>7 DEF Stage
<1>9. \A b \in Actors : s2.v.status[b] = IF b \in F THEN why ELSE v.status[b]
  <2>1. s.v.status \in [Actors -> {"unborn", "live"} \cup Reasons]
    BY <1>0 DEF Runtime
  <2> QED
    BY <1>5, <2>1 DEF Stage
<1>10. s2.v.links = {l \in v.links : l \cap F = {}}
  BY <1>5 DEF Stage, Kept
<1>11. IF Live(v, a) THEN a \in F \cup ToSet(s2.work) ELSE F = {}
  <2>1. CASE Live(v, a)
    BY <1>1, <1>4, <2>1 DEF Stage
  <2>2. CASE ~Live(v, a)
    BY <1>1, <1>7, <2>2 DEF Stage
  <2> QED
    BY <2>1, <2>2
<1>12. IF why = "normal" \/ ~Live(v, a)
       THEN F \cup ToSet(s2.work) \subseteq {a}
       ELSE /\ \A b \in F : PeerSet(v, b) \subseteq F \cup ToSet(s2.work)
            /\ \A C \in SUBSET Actors :
                  a \in C /\ Closed(v, C) => F \cup ToSet(s2.work) \subseteq C
  <2>1. CASE why = "normal"
    BY <1>1, <1>2, <1>4, <2>1 DEF Stage
  <2>2. CASE ~Live(v, a)
    BY <1>1, <1>7, <2>2 DEF Stage
  <2>3. CASE why # "normal" /\ Live(v, a)
    <3>1. /\ \A b \in E : PeerSet(v, b) \subseteq E \cup ToSet(s.work)
          /\ \A C \in SUBSET Actors :
                a \in C /\ Closed(v, C) => E \cup ToSet(s.work) \subseteq C
      BY <2>3 DEF Stage
    <3>2. ToSet(p) = PeerSet(s.v, x)
      BY <1>2, <2>3
    <3>3. PeerSet(s.v, x) \subseteq PeerSet(v, x)
      BY <1>0 DEF PeerSet, Fades
    <3>4. PeerSet(v, x) \subseteq E \cup PeerSet(s.v, x)
      <4> SUFFICES ASSUME NEW b \in PeerSet(v, x), b \notin E
                   PROVE  b \in PeerSet(s.v, x)
        OBVIOUS
      <4>1. b \in Actors /\ {x, b} \in v.links /\ {x, b} \cap E = {}
        BY <1>7 DEF PeerSet
      <4> QED
        BY <4>1 DEF PeerSet, Stage
    <3>5. \A b \in F : PeerSet(v, b) \subseteq F \cup ToSet(s2.work)
      BY <1>1, <1>4, <3>1, <3>2, <3>4
    <3>6. ASSUME NEW C \in SUBSET Actors, a \in C, Closed(v, C)
          PROVE  F \cup ToSet(s2.work) \subseteq C
      <4>1. E \cup ToSet(s.work) \subseteq C
        BY <3>1, <3>6
      <4>2. x \in C /\ PeerSet(v, x) \subseteq C
        BY <1>1, <3>6, <4>1 DEF Closed
      <4> QED
        BY <1>1, <1>4, <3>2, <3>3, <4>1, <4>2
    <3> QED
      BY <2>3, <3>5, <3>6
  <2> QED
    BY <2>1, <2>2, <2>3
<1>13. s2 \in [v : Runtime, work : Seq(Actors)]
  BY <1>3, <1>4, <1>5
<1> HIDE DEF F
<1> QED
  BY <1>4, <1>5, <1>6, <1>8, <1>9, <1>10, <1>11, <1>12, <1>13 DEF Stage, F, x

\* A step of the cascade leads to another stage with less left to do.
LEMMA NextStage ==
    ASSUME NEW v \in Runtime, LinksLive(v), NEW a \in Actors, NEW why \in Reasons,
           NEW s, NEW E, Stage(s, v, a, why, E)
    PROVE  /\ \E F : Stage(ExitStep(s, why), v, a, why, F)
           /\ s.work = <<>> => ExitStep(s, why) = s
           /\ s.work # <<>> => /\ Measure(s) \in Nat /\ Measure(ExitStep(s, why)) \in Nat
                               /\ Measure(ExitStep(s, why)) < Measure(s)
<1> DEFINE t == ExitStep(s, why)
           x == Head(s.work)
<1>1. CASE s.work = <<>>
  <2>1. ExitStep(s, why) = s
    BY <1>1 DEF ExitStep
  <2> QED
    BY <1>1, <2>1
<1>2. CASE s.work # <<>> /\ Live(s.v, x)
  <2>1. t = [v |-> ExitOne(s.v, x, why), work |-> Propagated(s.v, x, why) \o Tail(s.work)]
    BY <1>2 DEF ExitStep
  <2>2. s.v \in Runtime /\ s.work \in Seq(Actors)
    BY DEF Stage
  <2>3. x \in Actors /\ Tail(s.work) \in Seq(Actors) /\ Len(s.work) \in Nat
        /\ Len(Tail(s.work)) = Len(s.work) - 1
    BY <1>2, <2>2, HeadEntries
  <2>4. Stage(t, v, a, why, E \cup {x})
    <3> HIDE DEF t
    <3> QED
      BY <1>2, <2>1, EndedStage
  <2> HIDE DEF x
  <2> DEFINE rest == Kept(s.v.links, x)
             p == Propagated(s.v, x, why)
  <2>5. /\ Cardinality(rest) \in Nat /\ Cardinality(PeerSet(s.v, x)) \in Nat
        /\ Cardinality(PeerSet(s.v, x)) + Cardinality(rest) <= Cardinality(s.v.links)
        /\ Cardinality(s.v.links) \in Nat
    BY <2>2, <2>3, PeersOfLinks, LinksFinite DEF Kept
  <2>6. p \in Seq(Actors) /\ Len(p) \in Nat /\ Len(p) <= Cardinality(PeerSet(s.v, x))
    BY <2>2, <2>3, PropagatedEntries
  <2>7. Len(p \o Tail(s.work)) = Len(p) + Len(Tail(s.work))
    BY <2>3, <2>6, JoinedEntries
  <2>8. t.v.links = rest /\ t.work = p \o Tail(s.work)
    <3>1. Exited(s.v, x, why, ExitOne(s.v, x, why))
      BY <2>2, <2>3, ExitOneFields
    <3>2. t.v = ExitOne(s.v, x, why) /\ t.work = p \o Tail(s.work)
      <4> HIDE DEF t
      <4> QED
        BY <2>1
    <3> QED
      BY <3>1, <3>2 DEF Exited
  <2> HIDE DEF t, rest, p
  <2>9. Measure(s) \in Nat /\ Measure(t) \in Nat /\ Measure(t) < Measure(s)
    <3> DEFINE k == Len(p)
               n == Len(s.work)
               c == Cardinality(PeerSet(s.v, x))
               r == Cardinality(rest)
               l == Cardinality(s.v.links)
    <3>1. Measure(s) = n + 2 * l /\ Measure(t) = k + (n - 1) + 2 * r
      BY <2>3, <2>7, <2>8 DEF Measure
    <3>2. k \in Nat /\ n \in Nat \ {0} /\ c \in Nat /\ r \in Nat /\ l \in Nat
          /\ k <= c /\ c + r <= l
      BY <1>2, <2>2, <2>3, <2>5, <2>6, EmptySeq
    <3> HIDE DEF k, n, c, r, l
    <3>3. n + 2 * l \in Nat /\ k + (n - 1) + 2 * r \in Nat
      BY <3>2
    <3>4. k + (n - 1) + 2 * r < n + 2 * l
      BY <3>2
    <3> QED
      BY <3>1, <3>3, <3>4
  <2> QED
    BY <1>2, <2>4, <2>9 DEF t
<1>3. CASE s.work # <<>> /\ ~Live(s.v, x)
  <2>1. t = [s EXCEPT !.work = Tail(@)]
    BY <1>3 DEF ExitStep
  <2>2. s \in [v : Runtime, work : Seq(Actors)] /\ s.v \in Runtime /\ s.work \in Seq(Actors)
    BY DEF Stage
  <2>3. Len(s.work) \in Nat /\ Len(Tail(s.work)) = Len(s.work) - 1 /\ Len(s.work) # 0
    BY <1>3, <2>2, HeadEntries, EmptySeq
  <2>4. Stage(t, v, a, why, E)
    <3> HIDE DEF t
    <3> QED
      BY <1>3, <2>1, SkippedStage
  <2>5. t.v = s.v /\ t.work = Tail(s.work)
    BY <2>1, <2>2
  <2>6. Cardinality(s.v.links) \in Nat
    BY <2>2, LinksFinite
  <2> HIDE DEF t
  <2>7. Measure(s) \in Nat /\ Measure(t) \in Nat /\ Measure(t) < Measure(s)
    BY <2>3, <2>5, <2>6 DEF Measure
  <2> QED
    BY <1>3, <2>4, <2>7 DEF t
<1> QED
  BY <1>1, <1>2, <1>3

\* Every number of steps leads to a stage, and uses up what there was to do.
LEMMA CascadeStages ==
    ASSUME NEW v \in Runtime, LinksLive(v), NEW a \in Actors, NEW why \in Reasons,
           NEW n \in Nat
    PROVE  /\ \E E : Stage(Cascade(v, a, why)[n], v, a, why, E)
           /\ \/ Cascade(v, a, why)[n].work = <<>>
              \/ Measure(Cascade(v, a, why)[n]) + n <= 1 + 2 * Cardinality(v.links)
<1> DEFINE c == Cascade(v, a, why)
           L == Cardinality(v.links)
           Good(k) == /\ \E E : Stage(c[k], v, a, why, E)
                      /\ c[k].work = <<>> \/ Measure(c[k]) + k <= 1 + 2 * L
           Bad == {k \in Nat : ~Good(k)}
<1>1. c[0] = [v |-> v, work |-> <<a>>] /\ \A k \in Nat : c[k + 1] = ExitStep(c[k], why)
  BY CascadeSteps
<1>2. L \in Nat
  BY LinksFinite
<1> HIDE DEF c, L
<1>3. Good(0)
  <2>1. Stage(c[0], v, a, why, {})
    BY <1>1, FirstStage
  <2>2. Measure(c[0]) + 0 <= 1 + 2 * L
    <3>1. Measure(c[0]) = 1 + 2 * L
      BY <1>1 DEF Measure, L
    <3> QED
      BY <1>2, <3>1
  <2> QED
    BY <2>1, <2>2
<1>4. ASSUME NEW k \in Nat, Good(k)
      PROVE  Good(k + 1)
  <2>1. PICK E : Stage(c[k], v, a, why, E)
    BY <1>4
  <2>2. c[k + 1] = ExitStep(c[k], why)
    BY <1>1
  <2>3. \E F : Stage(c[k + 1], v, a, why, F)
    BY <2>1, <2>2, NextStage
  <2>4. CASE c[k].work = <<>>
    BY <2>1, <2>2, <2>3, <2>4, NextStage
  <2>5. CASE c[k].work # <<>>
    <3>1. /\ Measure(c[k]) \in Nat /\ Measure(c[k + 1]) \in Nat
          /\ Measure(c[k + 1]) < Measure(c[k])
      BY <2>1, <2>2, <2>5, NextStage
    <3>2. Measure(c[k]) + k <= 1 + 2 * L
      BY <1>4, <2>5
    <3>3. Measure(c[k + 1]) + (k + 1) <= 1 + 2 * L
      <4> DEFINE x == Measure(c[k])
                 y == Measure(c[k + 1])
      <4>1. x \in Nat /\ y \in Nat /\ y < x /\ x + k <= 1 + 2 * L
        BY <3>1, <3>2
      <4> HIDE DEF x, y
      <4>2. y + (k + 1) <= 1 + 2 * L
        BY <1>2, <4>1
      <4> QED
        BY <4>2 DEF y
    <3> QED
      BY <2>3, <3>3
  <2> QED
    BY <2>4, <2>5
<1> HIDE DEF Good
<1>5. Bad = {}
  <2> SUFFICES ASSUME Bad # {} PROVE FALSE
    OBVIOUS
  <2>1. PICK m \in Bad : \A k \in Bad : m <= k
    BY LeastNumber
  <2>2. m \in Nat /\ ~Good(m) /\ m # 0
    BY <1>3, <2>1
  <2>3. m - 1 \in Nat /\ m - 1 \notin Bad /\ (m - 1) + 1 = m
    BY <2>1, <2>2
  <2> QED
    BY <1>4, <2>2, <2>3
<1> QED
  BY <1>5 DEF Good, c, L

\* Whoever is linked with those of I, by any chain.
Joined(v, I) ==
    {b \in Actors : \A C \in SUBSET Actors : I \subseteq C /\ Closed(v, C) => b \in C}

\* Who ends when a does.
Doomed(v, a, why) ==
    IF ~Live(v, a) THEN {} ELSE IF why = "normal" THEN {a} ELSE Joined(v, {a})

\* An exit takes exactly the linked component, and is a loss.
LEMMA ExitActorEnds ==
    ASSUME NEW v \in Runtime, LinksLive(v), NEW a \in Actors, NEW why \in Reasons
    PROVE  LET w == ExitActor(v, a, why)
               E == Doomed(v, a, why)
           IN  /\ w \in Runtime /\ Fades(v, w) /\ LinksLive(w)
               /\ \A b \in E : Live(v, b)
               /\ \A b \in Actors : w.status[b] = IF b \in E THEN why ELSE v.status[b]
               /\ w.links = {l \in v.links : l \cap E = {}}
<1> DEFINE n == 1 + 2 * Cardinality(v.links)
           s == Cascade(v, a, why)[n]
<1>1. n \in Nat
  BY LinksFinite
<1>2. /\ \E E : Stage(s, v, a, why, E)
      /\ s.work = <<>> \/ Measure(s) + n <= n
  <2> HIDE DEF s
  <2>1. LET m == 1 + 2 * Cardinality(v.links)
        IN  /\ \E E : Stage(Cascade(v, a, why)[m], v, a, why, E)
            /\ \/ Cascade(v, a, why)[m].work = <<>>
               \/ Measure(Cascade(v, a, why)[m]) + m <= 1 + 2 * Cardinality(v.links)
    BY <1>1, CascadeStages
  <2> QED
    BY <2>1 DEF s
<1>3. PICK E : Stage(s, v, a, why, E)
  BY <1>2
<1>4. ExitActor(v, a, why) = s.v
  BY DEF ExitActor
<1> HIDE DEF s, n
<1>5. s.v \in Runtime /\ s.work \in Seq(Actors) /\ Fades(v, s.v)
  BY <1>3 DEF Stage
<1>6. s.work = <<>>
  <2>1. Len(s.work) \in Nat /\ Cardinality(s.v.links) \in Nat
    BY <1>5, LinksFinite
  <2>2. Measure(s) + n <= n => Len(s.work) = 0
    BY <1>1, <2>1 DEF Measure
  <2>3. Len(s.work) = 0 => s.work = <<>>
    BY <1>5, EmptySeq
  <2> QED
    BY <1>2, <2>2, <2>3
<1>7. ToSet(s.work) = {}
  BY <1>6 DEF ToSet
<1>8. E = Doomed(v, a, why)
  <2>1. CASE ~Live(v, a)
    BY <1>3, <2>1 DEF Stage, Doomed
  <2>2. CASE Live(v, a) /\ why = "normal"
    BY <1>3, <1>7, <2>2 DEF Stage, Doomed
  <2>3. CASE Live(v, a) /\ why # "normal"
    <3>1. /\ a \in E /\ E \in SUBSET Actors
          /\ \A b \in E : PeerSet(v, b) \subseteq E
          /\ \A C \in SUBSET Actors : a \in C /\ Closed(v, C) => E \subseteq C
      BY <1>3, <1>7, <2>3 DEF Stage
    <3>2. E = Joined(v, {a})
      BY <3>1 DEF Joined, Closed
    <3> QED
      BY <2>3, <3>2 DEF Doomed
  <2> QED
    BY <2>1, <2>2, <2>3
<1>9. LinksLive(s.v)
  BY <1>5 DEF Fades
<1> QED
  BY <1>3, <1>4, <1>5, <1>8, <1>9 DEF Stage

-----------------------------------------------------------------------------
(* Components of links, one exit after another *)

\* The links of nobody in E.
Apart(L, E) == {l \in L : l \cap E = {}}

\* w is v after those of I and whoever they are linked with failed.
Cut(v, w, I) ==
    /\ I \in SUBSET Actors /\ \A b \in I : Live(v, b)
    /\ \A b \in Actors : w.status[b] = IF b \in Joined(v, I) THEN "failed" ELSE v.status[b]
    /\ w.links = Apart(v.links, Joined(v, I))

CutWithin(v, w, S) == \E I \in SUBSET S : Cut(v, w, I)

\* A component is closed under links, holds those it starts from, and is alive
\* when they are.
LEMMA JoinedClosed ==
    ASSUME NEW v \in Runtime, NEW I \in SUBSET Actors
    PROVE  /\ I \subseteq Joined(v, I) /\ Joined(v, I) \in SUBSET Actors
           /\ Closed(v, Joined(v, I)) /\ Joined(v, {}) = {}
           /\ LinksLive(v) /\ (\A b \in I : Live(v, b)) => \A b \in Joined(v, I) : Live(v, b)
<1>1. I \subseteq Joined(v, I) /\ Joined(v, I) \in SUBSET Actors
  BY DEF Joined
<1>2. Closed(v, Joined(v, I))
  <2> SUFFICES ASSUME NEW x \in Joined(v, I), NEW b \in PeerSet(v, x),
                      NEW C \in SUBSET Actors, I \subseteq C, Closed(v, C)
               PROVE  b \in Actors /\ b \in C
    BY DEF Closed, Joined, PeerSet
  <2>1. x \in C
    BY DEF Joined
  <2> QED
    BY <2>1 DEF Closed, PeerSet
<1>3. Joined(v, {}) = {}
  <2>1. {} \in SUBSET Actors /\ Closed(v, {})
    BY DEF Closed
  <2> QED
    BY <2>1 DEF Joined
<1>4. ASSUME LinksLive(v), \A c \in I : Live(v, c), NEW b \in Joined(v, I)
      PROVE  Live(v, b)
  <2> DEFINE C == {c \in Actors : Live(v, c)}
  <2>1. I \subseteq C /\ C \in SUBSET Actors
    BY <1>4
  <2>2. Closed(v, C)
    <3> SUFFICES ASSUME NEW x \in C, NEW c \in PeerSet(v, x) PROVE c \in C
      BY DEF Closed
    <3>1. c \in Actors /\ {x, c} \in v.links /\ c \in {x, c}
      BY DEF PeerSet
    <3> QED
      BY <1>4, <3>1 DEF LinksLive
  <2>3. b \in C
    <3> HIDE DEF C
    <3> QED
      BY <2>1, <2>2 DEF Joined
  <2> QED
    BY <2>3
<1> QED
  BY <1>1, <1>2, <1>3, <1>4

\* Two failures one after the other take the component of both.
LEMMA CutThen ==
    ASSUME NEW u \in Runtime, NEW v \in Runtime, NEW w \in Runtime, LinksLive(u),
           NEW I, NEW J, Cut(u, v, I), Cut(v, w, J)
    PROVE  Cut(u, w, I \cup J)
<1> DEFINE A == Joined(u, I)
           B == Joined(v, J)
           K == Joined(u, I \cup J)
<1>1. I \in SUBSET Actors /\ J \in SUBSET Actors /\ I \cup J \in SUBSET Actors
  BY DEF Cut
<1>2. /\ I \subseteq A /\ A \in SUBSET Actors /\ Closed(u, A)
      /\ J \subseteq B /\ B \in SUBSET Actors /\ Closed(v, B)
      /\ \A b \in A : Live(u, b)
  BY <1>1, JoinedClosed DEF Cut
<1>3. /\ v.links = Apart(u.links, A) /\ w.links = Apart(v.links, B)
      /\ \A b \in Actors : v.status[b] = IF b \in A THEN "failed" ELSE u.status[b]
      /\ \A b \in Actors : w.status[b] = IF b \in B THEN "failed" ELSE v.status[b]
  <2>1. v.links = Apart(u.links, A) /\ w.links = Apart(v.links, B)
    BY DEF Cut
  <2>2. \A b \in Actors : v.status[b] = IF b \in A THEN "failed" ELSE u.status[b]
    BY DEF Cut
  <2>3. \A b \in Actors : w.status[b] = IF b \in B THEN "failed" ELSE v.status[b]
    BY DEF Cut
  <2> QED
    BY <2>1, <2>2, <2>3
<1>4. K \subseteq A \cup B
  <2>1. Closed(u, A \cup B)
    <3> SUFFICES ASSUME NEW x \in A \cup B, NEW b \in PeerSet(u, x)
                 PROVE  b \in A \cup B
      BY DEF Closed
    <3>1. CASE x \in A
      BY <1>2, <3>1 DEF Closed
    <3>2. CASE x \notin A /\ x \in B /\ b \notin A
      <4>1. b \in Actors /\ {x, b} \in u.links /\ {x, b} \cap A = {}
        BY <3>2 DEF PeerSet
      <4>2. b \in PeerSet(v, x)
        BY <1>3, <4>1 DEF PeerSet, Apart
      <4> QED
        BY <1>2, <3>2, <4>2 DEF Closed
    <3> QED
      BY <3>1, <3>2
  <2>2. A \cup B \in SUBSET Actors /\ I \cup J \subseteq A \cup B
    BY <1>2
  <2> HIDE DEF A, B
  <2> QED
    BY <2>1, <2>2 DEF Joined
<1>5. ASSUME NEW C \in SUBSET Actors, I \cup J \subseteq C, Closed(u, C)
      PROVE  A \cup B \subseteq C
  <2>1. A \subseteq C
    BY <1>5 DEF Joined
  <2>2. Closed(v, C)
    <3> SUFFICES ASSUME NEW x \in C, NEW b \in PeerSet(v, x) PROVE b \in C
      BY DEF Closed
    <3>1. b \in PeerSet(u, x)
      BY <1>3 DEF PeerSet, Apart
    <3> QED
      BY <1>5, <3>1 DEF Closed
  <2>3. B \subseteq C
    BY <1>5, <2>2 DEF Joined
  <2> QED
    BY <2>1, <2>3
<1>6. K = A \cup B
  <2>1. A \cup B \in SUBSET Actors
    BY <1>2
  <2> HIDE DEF A, B
  <2>2. A \cup B \subseteq K
    BY <1>5, <2>1 DEF Joined
  <2> QED
    BY <1>4, <2>2
<1>7. \A b \in I \cup J : Live(u, b)
  <2>1. \A b \in J : b \in Actors /\ Live(v, b)
    BY <1>1 DEF Cut
  <2> QED
    BY <1>3, <2>1 DEF Cut, Live
<1> HIDE DEF A, B, K
<1>8. \A b \in Actors : w.status[b] = IF b \in K THEN "failed" ELSE u.status[b]
  <2> SUFFICES ASSUME NEW b \in Actors
               PROVE  w.status[b] = IF b \in K THEN "failed" ELSE u.status[b]
    OBVIOUS
  <2>1. w.status[b] = IF b \in B THEN "failed" ELSE v.status[b]
    BY <1>3
  <2>2. v.status[b] = IF b \in A THEN "failed" ELSE u.status[b]
    BY <1>3
  <2> QED
    BY <1>6, <2>1, <2>2
<1>9. w.links = Apart(u.links, K)
  <2>1. w.links = Apart(Apart(u.links, A), B)
    BY <1>3
  <2>2. Apart(Apart(u.links, A), B) = Apart(u.links, A \cup B)
    BY DEF Apart
  <2> QED
    BY <1>6, <2>1, <2>2
<1> QED
  BY <1>1, <1>7, <1>8, <1>9 DEF Cut, K

\* Failures out of S and then out of T are failures out of both.
LEMMA CutWithinThen ==
    ASSUME NEW u \in Runtime, NEW v \in Runtime, NEW w \in Runtime, LinksLive(u),
           NEW S, NEW T, CutWithin(u, v, S), CutWithin(v, w, T)
    PROVE  CutWithin(u, w, S \cup T)
<1>1. PICK I \in SUBSET S : Cut(u, v, I)
  BY DEF CutWithin
<1>2. PICK J \in SUBSET T : Cut(v, w, J)
  BY DEF CutWithin
<1>3. Cut(u, w, I \cup J)
  BY <1>1, <1>2, CutThen
<1> QED
  BY <1>3 DEF CutWithin

\* Nothing but the shard's own state is given up.
Quiet(v, w) ==
    /\ w.status = v.status /\ w.links = v.links /\ w.monitors = v.monitors
    /\ w.mail = v.mail /\ w.lease = v.lease
    /\ w.cancelled \subseteq v.cancelled /\ w.worker \subseteq v.worker
    /\ \A b \in Actors : w.resident[b] \in {v.resident[b], NoOp}

\* A runtime whose actors are the same has lost nobody.
LEMMA QuietFades ==
    ASSUME NEW v \in Runtime, NEW w \in Runtime, Quiet(v, w), NEW S
    PROVE  Fades(v, w) /\ CutWithin(v, w, S)
<1>1. Fades(v, w)
  <2>1. /\ LeasesLive(v) => LeasesLive(w)
        /\ LinksLive(v) => LinksLive(w)
        /\ MonitorsExact(v) => MonitorsExact(w)
    BY DEF Quiet, LeasesLive, LinksLive, MonitorsExact, MonitorExact, Live
  <2>2. \A b \in Actors : w.mail[b] <= v.mail[b]
    BY ResidentAssumption DEF Quiet, Runtime
  <2> QED
    BY <2>1, <2>2 DEF Fades, Quiet, Live
<1>2. Cut(v, w, {})
  <2>1. Joined(v, {}) = {}
    BY JoinedClosed
  <2> QED
    BY <2>1 DEF Cut, Quiet, Apart
<1> QED
  BY <1>1, <1>2 DEF CutWithin

\* Taking an actor's suspension out of the shard ends nobody.
LEMMA ReleaseQuiet ==
    ASSUME NEW v \in Runtime, NEW a \in Actors
    PROVE  /\ Release(v, a) \in Runtime /\ Quiet(v, Release(v, a))
           /\ Release(v, a).resident[a] = NoOp
           /\ \A b \in Actors \ {a} : Release(v, a).resident[b] = v.resident[b]
BY DEF Release, Runtime, Quiet

\* Closing the capabilities of an owner ends nobody (close_owner).
LEMMA CloseOwnerQuiet ==
    ASSUME NEW v \in Runtime, NEW a \in Actors
    PROVE  /\ CloseOwner(v, a) \in Runtime /\ Quiet(v, CloseOwner(v, a))
           /\ CloseOwner(v, a).worker = v.worker \ {a}
BY DEF CloseOwner, Runtime, Quiet

\* Reaping the actors that exited ends nobody (reap_exited_processes).
LEMMA ReapExitedQuiet ==
    ASSUME NEW v \in Runtime
    PROVE  ReapExited(v) \in Runtime /\ Quiet(v, ReapExited(v))
BY DEF ReapExited, Runtime, Quiet

\* An exit as a failure, or as a normal end of one actor.
EndsOne(v, w, a) ==
    \A b \in Actors : /\ b # a => w.status[b] = v.status[b]
                      /\ w.status[b] \in {v.status[b], "normal"}

\* A failing actor takes those it is linked with; one that ends normally goes
\* alone (exit_process_inner).
LEMMA ExitActorCuts ==
    ASSUME NEW v \in Runtime, LinksLive(v), NEW a \in Actors, NEW why \in Reasons
    PROVE  LET w == ExitActor(v, a, why)
           IN  /\ w \in Runtime /\ Fades(v, w) /\ LinksLive(w)
               /\ why = "failed" => CutWithin(v, w, {a})
               /\ why = "normal" => EndsOne(v, w, a)
<1> DEFINE w == ExitActor(v, a, why)
           E == Doomed(v, a, why)
<1>1. /\ w \in Runtime /\ Fades(v, w) /\ LinksLive(w)
      /\ \A b \in E : Live(v, b)
      /\ \A b \in Actors : w.status[b] = IF b \in E THEN why ELSE v.status[b]
      /\ w.links = {l \in v.links : l \cap E = {}}
  BY ExitActorEnds
<1> HIDE DEF w
<1>2. ASSUME why = "failed"
      PROVE  CutWithin(v, w, {a})
  <2>1. CASE Live(v, a)
    <3>1. E = Joined(v, {a})
      BY <1>2, <2>1 DEF Doomed
    <3>2. Cut(v, w, {a})
      <4> HIDE DEF E
      <4> QED
        BY <1>1, <1>2, <2>1, <3>1 DEF Cut, Apart
    <3> QED
      BY <3>2 DEF CutWithin
  <2>2. CASE ~Live(v, a)
    <3>1. E = {} /\ Joined(v, {}) = {}
      BY <2>2, JoinedClosed DEF Doomed
    <3>2. Cut(v, w, {})
      <4> HIDE DEF E
      <4> QED
        BY <1>1, <3>1 DEF Cut, Apart
    <3> QED
      BY <3>2 DEF CutWithin
  <2> QED
    BY <2>1, <2>2
<1>3. ASSUME why = "normal"
      PROVE  EndsOne(v, w, a)
  <2>1. E \subseteq {a}
    BY <1>3 DEF Doomed
  <2> HIDE DEF E
  <2> QED
    BY <1>1, <1>3, <2>1 DEF EndsOne
<1> QED
  BY <1>1, <1>2, <1>3 DEF w

\* The same of the exit that ends an owner's call and closes what it held.
LEMMA FinishOwnerCuts ==
    ASSUME NEW v \in Runtime, LinksLive(v), NEW a \in Actors, NEW why \in Reasons
    PROVE  LET w == FinishOwner(v, a, why)
           IN  /\ w \in Runtime /\ Fades(v, w) /\ LinksLive(w)
               /\ why = "failed" => CutWithin(v, w, {a})
               /\ why = "normal" => EndsOne(v, w, a)
<1>1. CASE a \in v.reaped
  <2>1. FinishOwner(v, a, why) = v
    BY <1>1 DEF FinishOwner
  <2>2. Quiet(v, v) /\ EndsOne(v, v, a)
    BY DEF Quiet, EndsOne
  <2>3. Fades(v, v) /\ CutWithin(v, v, {a})
    BY <2>2, QuietFades
  <2> QED
    BY <2>1, <2>2, <2>3
<1>2. CASE a \notin v.reaped
  <2> DEFINE x == ExitActor(v, a, why)
             y == Release(x, a)
             z == ReapExited(y)
  <2>1. /\ x \in Runtime /\ Fades(v, x) /\ LinksLive(x)
        /\ why = "failed" => CutWithin(v, x, {a})
        /\ why = "normal" => EndsOne(v, x, a)
    BY ExitActorCuts
  <2> HIDE DEF x
  <2>2. y \in Runtime /\ Quiet(x, y)
    BY <2>1, ReleaseQuiet
  <2> HIDE DEF y
  <2>3. z \in Runtime /\ Quiet(y, z)
    BY <2>2, ReapExitedQuiet
  <2>4. FinishOwner(v, a, why) = z
    BY <1>2 DEF FinishOwner, x, y
  <2> HIDE DEF z
  <2>5. Fades(x, y) /\ CutWithin(x, y, {a}) /\ Fades(y, z) /\ CutWithin(y, z, {a})
    BY <2>1, <2>2, <2>3, QuietFades
  <2>6. Fades(x, z)
    BY <2>1, <2>2, <2>3, <2>5, FadesThen
  <2>7. Fades(v, z)
    BY <2>1, <2>3, <2>6, FadesThen
  <2>8. LinksLive(y) /\ LinksLive(z)
    BY <2>1, <2>5 DEF Fades
  <2>9. CutWithin(x, z, {a} \cup {a})
    BY <2>1, <2>2, <2>3, <2>5, CutWithinThen
  <2>10. ASSUME why = "failed" PROVE CutWithin(v, z, {a})
    <3>1. CutWithin(x, z, {a}) /\ CutWithin(v, x, {a})
      <4>1. {a} \cup {a} = {a}
        OBVIOUS
      <4> QED
        BY <2>1, <2>9, <2>10, <4>1
    <3>2. CutWithin(v, z, {a} \cup {a})
      BY <2>1, <2>3, <3>1, CutWithinThen
    <3>3. {a} \cup {a} = {a}
      OBVIOUS
    <3> QED
      BY <3>2, <3>3
  <2>11. ASSUME why = "normal" PROVE EndsOne(v, z, a)
    <3>1. z.status = x.status
      BY <2>2, <2>3 DEF Quiet
    <3> QED
      BY <2>1, <2>11, <3>1 DEF EndsOne
  <2> QED
    BY <2>3, <2>4, <2>7, <2>8, <2>10, <2>11
<1> QED
  BY <1>1, <1>2

-----------------------------------------------------------------------------
(* The inductive invariant *)

\* The record of a call.
CallType == [root : 0 .. MaxActors, result : {"none", "running", "ok", "error"}]

\* Identities are handed out one after another.
Consecutive(v) ==
    \E k \in 0 .. MaxActors : \A a \in Actors : v.status[a] # "unborn" <=> a <= k

\* The runtime holds the suspension of an actor.
Held(v, a) == v.resident[a] # NoOp \/ a \in v.worker

\* A suspension is with the shard or at a worker, never both, and a live
\* actor whose suspension is held there has its lease.
HeldInv(v, a) ==
    /\ Held(v, a) => v.status[a] # "unborn"
    /\ v.resident[a] = NoOp \/ a \notin v.worker
    /\ Held(v, a) /\ Live(v, a) => a \in v.lease

\* What holds of the runtime between any two steps.
VmInv(v) ==
    /\ v \in Runtime
    /\ LeasesLive(v) /\ LinksLive(v) /\ MonitorsExact(v)
    /\ \A a \in Actors : HeldInv(v, a)
    /\ Consecutive(v)
    /\ v.worker # {} => Op("capability", 0) \in Operations

\* The activation holds the suspension of its actor.
Holding(f) == f.pc \in {"service", "settle"} /\ f.op.op # "done"

\* An activation is of an actor that was born and that the shard holds nothing
\* of; it is at a worker only while it waits there, and leased while it holds
\* its actor's suspension.
FrameInv(v, f, root) ==
    /\ f \in FrameType
    /\ v.status[f.actor] # "unborn"
    /\ v.resident[f.actor] = NoOp
    /\ f.actor \in v.worker => f.pc = "wait"
    /\ Holding(f) /\ Live(v, f.actor) => f.actor \in v.lease
    /\ f.kind = "root" => f.actor = root

\* The activations of a call are of different actors, the root's at the bottom.
StackInv(v, st, root) ==
    /\ st \in Seq(FrameType)
    /\ \A i \in 1 .. Len(st) : FrameInv(v, st[i], root)
    /\ \A i, j \in 1 .. Len(st) : st[i].actor = st[j].actor => i = j
    /\ st # <<>> => st[1].actor = root

\* The inductive invariant.
IInv ==
    /\ VmInv(vm)
    /\ StackInv(vm, stack, call.root)
    /\ turn \in {"poll", "service", "step"}
    /\ call \in CallType

-----------------------------------------------------------------------------
(* Stacks *)

\* Entries below the top of a stack.
LEMMA FrontEntries ==
    ASSUME NEW st \in Seq(FrameType), st # <<>>
    PROVE  \A i \in 1 .. Len(st) - 1 : Front(st)[i] = st[i]
BY EmptySeq DEF Front, SubSeq

\* The stack without its top.
LEMMA FrontStack ==
    ASSUME NEW v, NEW st, NEW root, StackInv(v, st, root), st # <<>>
    PROVE  /\ StackInv(v, Front(st), root)
           /\ FrameInv(v, Last(st), root)
           /\ \A i \in 1 .. Len(Front(st)) : Front(st)[i].actor # Last(st).actor
           /\ Front(st) = <<>> => Last(st).actor = root
           /\ root \in Actors /\ Len(Front(st)) = Len(st) - 1 /\ Len(st) \in Nat
<1>1. st \in Seq(FrameType) /\ Len(st) \in Nat /\ Len(st) # 0
  BY EmptySeq DEF StackInv
<1> DEFINE n == Len(st)
           t == Front(st)
<1>2. t = [i \in 1 .. n - 1 |-> st[i]]
  BY <1>1 DEF Front, SubSeq
<1>3. t \in Seq(FrameType) /\ Len(t) = n - 1 /\ \A i \in 1 .. n - 1 : t[i] = st[i]
  <2>1. \A i \in 1 .. n - 1 : st[i] \in FrameType
    BY <1>1
  <2>2. n - 1 \in Nat
    BY <1>1
  <2> HIDE DEF t, n
  <2>3. t \in [1 .. n - 1 -> FrameType]
    BY <1>2, <2>1
  <2> QED
    BY <1>2, <2>2, <2>3
<1>4. Last(st) = st[n] /\ n \in 1 .. n /\ 1 \in 1 .. n
  BY <1>1 DEF Last
<1> HIDE DEF t
<1>5. \A i \in 1 .. n - 1 : i \in 1 .. n /\ i # n
  BY <1>1
<1>6. StackInv(v, t, root)
  <2>1. t # <<>> => 1 \in 1 .. n - 1
    BY <1>1, <1>3, EmptySeq
  <2>2. \A i \in 1 .. Len(t) : FrameInv(v, t[i], root)
    BY <1>3, <1>5 DEF StackInv
  <2>3. \A i, j \in 1 .. Len(t) : t[i].actor = t[j].actor => i = j
    BY <1>3, <1>5 DEF StackInv
  <2>4. t # <<>> => t[1].actor = root
    BY <1>1, <1>3, <2>1, EmptySeq DEF StackInv
  <2> QED
    BY <1>3, <2>2, <2>3, <2>4 DEF StackInv
<1>7. FrameInv(v, Last(st), root)
  BY <1>4 DEF StackInv
<1>8. \A i \in 1 .. n - 1 : t[i].actor # Last(st).actor
  BY <1>3, <1>4, <1>5 DEF StackInv
<1>9. t = <<>> => Last(st).actor = root
  <2>1. t = <<>> => n = 1
    BY <1>1, <1>3, EmptySeq
  <2> QED
    BY <1>4, <2>1 DEF StackInv
<1>10. root \in Actors
  <2>1. st[1] \in FrameType /\ st[1].actor = root
    BY <1>1, <1>4 DEF StackInv
  <2> QED
    BY <2>1 DEF FrameType
<1> QED
  BY <1>1, <1>3, <1>6, <1>7, <1>8, <1>9, <1>10 DEF t, n

\* The stack with another activation on top.
LEMMA PushStack ==
    ASSUME NEW v, NEW st, NEW root, NEW f, StackInv(v, st, root), FrameInv(v, f, root),
           \A i \in 1 .. Len(st) : st[i].actor # f.actor, st = <<>> => f.actor = root
    PROVE  StackInv(v, st \o <<f>>, root) /\ Len(st \o <<f>>) = Len(st) + 1
           /\ \A b \in Actors :
                 b # f.actor /\ (\A i \in 1 .. Len(st) : st[i].actor # b)
                 => \A i \in 1 .. Len(st) + 1 : (st \o <<f>>)[i].actor # b
<1> DEFINE n == Len(st)
           t == st \o <<f>>
<1>1. st \in Seq(FrameType) /\ n \in Nat /\ f \in FrameType
  BY DEF StackInv, FrameInv
<1>2. /\ t \in Seq(FrameType) /\ Len(t) = n + 1
      /\ \A i \in 1 .. n : t[i] = st[i]
      /\ t[n + 1] = f
  BY <1>1
<1> HIDE DEF t
<1>3. \A i \in 1 .. n + 1 : i \in 1 .. n \/ i = n + 1
  BY <1>1
<1>4. \A i \in 1 .. n + 1 : FrameInv(v, t[i], root)
  BY <1>2, <1>3 DEF StackInv
<1>5. \A i, j \in 1 .. n + 1 : t[i].actor = t[j].actor => i = j
  <2> SUFFICES ASSUME NEW i \in 1 .. n + 1, NEW j \in 1 .. n + 1, t[i].actor = t[j].actor
               PROVE  i = j
    OBVIOUS
  <2>1. CASE i \in 1 .. n /\ j \in 1 .. n
    <3>1. st[i].actor = st[j].actor
      BY <1>2, <2>1
    <3> QED
      BY <2>1, <3>1 DEF StackInv
  <2>2. CASE i \in 1 .. n /\ j = n + 1
    BY <1>2, <2>2
  <2>3. CASE i = n + 1 /\ j \in 1 .. n
    BY <1>2, <2>3
  <2> QED
    BY <1>3, <2>1, <2>2, <2>3
<1>6. t[1].actor = root
  <2>1. CASE st = <<>>
    <3>1. n = 0 /\ n + 1 = 1
      BY <2>1
    <3> QED
      BY <1>2, <2>1, <3>1
  <2>2. CASE st # <<>>
    <3>1. 1 \in 1 .. n
      BY <1>1, <2>2, EmptySeq
    <3> QED
      BY <1>2, <2>2, <3>1 DEF StackInv
  <2> QED
    BY <2>1, <2>2
<1>7. \A b \in Actors :
          b # f.actor /\ (\A i \in 1 .. n : st[i].actor # b)
          => \A i \in 1 .. n + 1 : t[i].actor # b
  BY <1>2, <1>3
<1> QED
  BY <1>2, <1>4, <1>5, <1>6, <1>7 DEF StackInv, t

\* No stack at all.
LEMMA EmptyStack == ASSUME NEW v, NEW root PROVE StackInv(v, <<>>, root)
<1>1. <<>> \in Seq(FrameType) /\ Len(<<>>) = 0 /\ 1 .. 0 = {}
  OBVIOUS
<1> QED
  BY <1>1 DEF StackInv

\* What a stack needs to know of its actors.
Agree(v, w, a) ==
    /\ w.status[a] = v.status[a] /\ w.resident[a] = v.resident[a]
    /\ a \in w.worker <=> a \in v.worker
    /\ a \in v.lease => a \in w.lease

\* A stack stands when its actors are as they were.
LEMMA AgreeStack ==
    ASSUME NEW v, NEW w, NEW st, NEW root, StackInv(v, st, root),
           \A i \in 1 .. Len(st) : Agree(v, w, st[i].actor)
    PROVE  StackInv(w, st, root)
<1>1. \A i \in 1 .. Len(st) : FrameInv(w, st[i], root)
  BY DEF StackInv, FrameInv, Agree, Live
<1> QED
  BY <1>1 DEF StackInv

\* A loss leaves the invariant.
LEMMA FadeVm ==
    ASSUME NEW v, NEW w, VmInv(v), Fades(v, w)
    PROVE  VmInv(w)
<1>1. \A a \in Actors : HeldInv(w, a)
  <2> SUFFICES ASSUME NEW a \in Actors PROVE HeldInv(w, a)
    OBVIOUS
  <2>1. /\ w.status[a] = "unborn" <=> v.status[a] = "unborn"
        /\ Live(w, a) => Live(v, a)
        /\ w.resident[a] \in {v.resident[a], NoOp}
        /\ a \in v.lease /\ Live(w, a) => a \in w.lease
        /\ a \in w.worker => a \in v.worker
    BY DEF Fades
  <2>2. Held(w, a) => Held(v, a)
    BY <2>1 DEF Held
  <2>3. HeldInv(v, a)
    BY DEF VmInv
  <2> QED
    BY <2>1, <2>2, <2>3 DEF HeldInv
<1>2. Consecutive(w)
  BY DEF VmInv, Consecutive, Fades
<1>3. w.worker # {} => v.worker # {}
  BY DEF Fades
<1> QED
  BY <1>1, <1>2, <1>3 DEF VmInv, Fades

\* A loss leaves what is known of an activation.
LEMMA FadeFrame ==
    ASSUME NEW v, NEW w, NEW f, NEW root, FrameInv(v, f, root), Fades(v, w)
    PROVE  FrameInv(w, f, root)
<1> DEFINE a == f.actor
<1>1. a \in Actors
  BY DEF FrameInv, FrameType
<1>2. /\ w.status[a] = "unborn" <=> v.status[a] = "unborn"
      /\ Live(w, a) => Live(v, a)
      /\ w.resident[a] \in {v.resident[a], NoOp}
      /\ a \in v.lease /\ Live(w, a) => a \in w.lease
      /\ a \in w.worker => a \in v.worker
  BY <1>1 DEF Fades
<1> QED
  BY <1>2 DEF FrameInv

\* A loss leaves what is known of the stack.
LEMMA FadeStack ==
    ASSUME NEW v, NEW w, NEW st, NEW root, StackInv(v, st, root), Fades(v, w)
    PROVE  StackInv(w, st, root)
BY FadeFrame DEF StackInv

\* What an operation names.
LEMMA OperationEntries ==
    ASSUME NEW o \in Operations
    PROVE  /\ o.op \in {"send", "link", "unlink", "monitor", "cancel"} => o.to \in Actors
           /\ o.op = "capability" => o = Op("capability", 0)
           /\ o.op # "none" /\ o.op # "done"
<1>1. PICK a \in Actors : o \in OperationsOf(a)
  BY DEF Operations
<1>2. CASE \E p \in {"receive", "spawn", "fail", "capability"} : o = Op(p, 0)
  BY <1>2 DEF Op
<1>3. CASE \E p \in {"send", "link", "unlink", "monitor", "cancel"}, b \in Actors : o = Op(p, b)
  BY <1>3 DEF Op
<1>4. CASE \E r \in 1 .. MaxRefs : o = Op("demonitor", r)
  BY <1>4 DEF Op
<1> QED
  BY <1>1, <1>2, <1>3, <1>4 DEF OperationsOf

-----------------------------------------------------------------------------
(* Losses *)

\* Nothing is gained, and some of S and whoever they are linked with failed.
Lost(v, w, S) == Fades(v, w) /\ CutWithin(v, w, S)

\* Two failures, one after the other.
LEMMA LostThen ==
    ASSUME NEW u, NEW v, NEW w, NEW S, NEW T, u \in Runtime, LinksLive(u),
           Lost(u, v, S), Lost(v, w, T)
    PROVE  Lost(u, w, S \cup T) /\ LinksLive(v) /\ LinksLive(w) /\ v \in Runtime /\ w \in Runtime
<1>1. v \in Runtime /\ w \in Runtime /\ LinksLive(v) /\ LinksLive(w)
  BY DEF Lost, Fades
<1>2. Fades(u, w)
  BY <1>1, FadesThen DEF Lost
<1>3. CutWithin(u, w, S \cup T)
  BY <1>1, CutWithinThen DEF Lost
<1> QED
  BY <1>1, <1>2, <1>3 DEF Lost

\* A failure out of fewer is a failure out of more.
LEMMA LostMore ==
    ASSUME NEW v, NEW w, NEW S, NEW T, Lost(v, w, S), S \subseteq T
    PROVE  Lost(v, w, T)
BY DEF Lost, CutWithin

\* Where nobody ends there is no failure.
LEMMA QuietLost ==
    ASSUME NEW v, NEW w, NEW S, v \in Runtime, w \in Runtime, Quiet(v, w)
    PROVE  Lost(v, w, S)
BY QuietFades DEF Lost

\* An owner that is finished as failed fails alone with its component.
LEMMA FinishLost ==
    ASSUME NEW v, NEW a, v \in Runtime, LinksLive(v), a \in Actors
    PROVE  Lost(v, FinishOwner(v, a, "failed"), {a})
BY FinishOwnerCuts DEF Lost, Reasons

\* So does an actor that exits as failed.
LEMMA ExitLost ==
    ASSUME NEW v, NEW a, v \in Runtime, LinksLive(v), a \in Actors
    PROVE  Lost(v, ExitActor(v, a, "failed"), {a})
BY ExitActorCuts DEF Lost, Reasons

\* What is left of the invariant when runtime and stack only lose.
LEMMA LostInv ==
    ASSUME IInv, Fades(vm, vm'), NEW st, StackInv(vm, st, call.root), stack' = st,
           turn' \in {turn, "poll"}, call' \in CallType, call'.root = call.root
    PROVE  IInv'
<1>1. VmInv(vm')
  BY FadeVm DEF IInv
<1>2. StackInv(vm', st, call.root)
  BY FadeStack
<1>3. turn' \in {"poll", "service", "step"}
  BY DEF IInv
<1> QED
  BY <1>1, <1>2, <1>3 DEF IInv

\* The end of a call, after losses.
LEMMA EndCallInv ==
    ASSUME IInv, stack # <<>>, NEW u, Fades(vm, u), NEW result \in {"ok", "error"},
           EndCall(u, result)
    PROVE  IInv' /\ Fades(vm, vm') /\ Quiet(u, vm') /\ Lost(u, vm', {})
<1>1. call.root \in Actors /\ vm \in Runtime /\ u \in Runtime
  BY FrontStack DEF IInv, VmInv, Fades
<1>2. vm' \in Runtime /\ Quiet(u, vm')
  BY <1>1, CloseOwnerQuiet DEF EndCall
<1>3. Lost(u, vm', {})
  BY <1>1, <1>2, QuietLost
<1>4. Fades(vm, vm')
  BY <1>1, <1>2, <1>3, FadesThen DEF Lost
<1>5. call' \in CallType /\ call'.root = call.root
  BY DEF EndCall, IInv, CallType
<1>6. StackInv(vm, <<>>, call.root) /\ stack' = <<>> /\ turn' = "poll"
  BY EmptyStack DEF EndCall
<1>7. IInv'
  BY <1>4, <1>5, <1>6, LostInv
<1> QED
  BY <1>2, <1>3, <1>4, <1>7

\* An error that leaves an activation is a loss.
LEMMA FailFrameInv ==
    ASSUME IInv, stack # <<>>, NEW f \in FrameType, NEW v, Lost(vm, v, {f.actor}),
           FailFrame(f, v)
    PROVE  IInv' /\ Lost(vm, vm', {f.actor, call.root})
<1> DEFINE a == f.actor
           r == call.root
<1>1. a \in Actors /\ r \in Actors /\ vm \in Runtime /\ LinksLive(vm)
  BY FrontStack DEF IInv, VmInv, FrameType
<1>2. v \in Runtime /\ LinksLive(v) /\ Lost(v, v, {})
  <2>1. v \in Runtime /\ LinksLive(v)
    BY <1>1 DEF Lost, Fades
  <2>2. Quiet(v, v)
    BY DEF Quiet
  <2> QED
    BY <2>1, <2>2, QuietLost
<1> HIDE DEF a, r
<1>3. ASSUME NEW u, Lost(vm, u, {a, r}), EndCall(u, "error")
      PROVE  IInv' /\ Lost(vm, vm', {a, r})
  <2>1. IInv' /\ Lost(u, vm', {})
    BY <1>3, EndCallInv DEF Lost
  <2>2. Lost(vm, vm', {a, r} \cup {})
    BY <1>1, <1>3, <2>1, LostThen
  <2> QED
    BY <2>1, <2>2
<1>4. CASE f.kind = "root"
  <2> DEFINE u == FinishOwner(v, a, "failed")
  <2>1. EndCall(u, "error")
    BY <1>4 DEF FailFrame, a
  <2>2. Lost(v, u, {a})
    BY <1>1, <1>2, FinishLost
  <2> HIDE DEF u
  <2>3. Lost(vm, u, {a} \cup {a})
    BY <1>1, <2>2, LostThen DEF a
  <2>4. Lost(vm, u, {a, r})
    BY <2>3, LostMore
  <2> QED
    BY <1>3, <2>1, <2>4 DEF a, r
<1>5. CASE f.kind = "serve"
  <2> DEFINE x == CloseOwner(v, a)
             y == FinishOwner(x, a, "failed")
             u == FinishOwner(y, r, "failed")
  <2>1. EndCall(u, "error")
    BY <1>5 DEF FailFrame, a, r
  <2>2. Lost(v, x, {})
    BY <1>1, <1>2, CloseOwnerQuiet, QuietLost
  <2> HIDE DEF x
  <2>3. Lost(vm, x, {a} \cup {}) /\ x \in Runtime /\ LinksLive(x)
    BY <1>1, <2>2, LostThen DEF a
  <2>4. Lost(x, y, {a})
    BY <1>1, <2>3, FinishLost
  <2> HIDE DEF y
  <2>5. Lost(vm, y, ({a} \cup {}) \cup {a}) /\ y \in Runtime /\ LinksLive(y)
    BY <1>1, <2>3, <2>4, LostThen
  <2>6. Lost(y, u, {r})
    BY <1>1, <2>5, FinishLost
  <2> HIDE DEF u
  <2>7. Lost(vm, u, (({a} \cup {}) \cup {a}) \cup {r})
    BY <1>1, <2>5, <2>6, LostThen
  <2>8. Lost(vm, u, {a, r})
    <3>1. (({a} \cup {}) \cup {a}) \cup {r} \subseteq {a, r}
      OBVIOUS
    <3> QED
      BY <2>7, <3>1, LostMore
  <2> QED
    BY <1>3, <2>1, <2>8 DEF a, r
<1>6. CASE f.kind = "reply"
  <2> DEFINE x == CloseOwner(v, a)
             u == FinishOwner(x, a, "failed")
  <2>1. EndCall(u, "error")
    BY <1>6 DEF FailFrame, a
  <2>2. Lost(v, x, {})
    BY <1>1, <1>2, CloseOwnerQuiet, QuietLost
  <2> HIDE DEF x
  <2>3. Lost(vm, x, {a} \cup {}) /\ x \in Runtime /\ LinksLive(x)
    BY <1>1, <2>2, LostThen DEF a
  <2>4. Lost(x, u, {a})
    BY <1>1, <2>3, FinishLost
  <2> HIDE DEF u
  <2>5. Lost(vm, u, ({a} \cup {}) \cup {a})
    BY <1>1, <2>3, <2>4, LostThen
  <2>6. Lost(vm, u, {a, r})
    <3>1. ({a} \cup {}) \cup {a} \subseteq {a, r}
      OBVIOUS
    <3> QED
      BY <2>5, <3>1, LostMore
  <2> QED
    BY <1>3, <2>1, <2>6 DEF a, r
<1>7. CASE f.kind \in {"child", "resident", "served"}
  <2> DEFINE x == Release(v, a)
             w == ExitActor(x, a, "failed")
  <2>1. /\ vm' = IF f.kind = "served" THEN CloseOwner(w, a) ELSE w
        /\ stack' = Front(stack)
        /\ UNCHANGED <<turn, call>>
    BY <1>7 DEF FailFrame, a
  <2>2. Lost(v, x, {})
    BY <1>1, <1>2, ReleaseQuiet, QuietLost
  <2> HIDE DEF x
  <2>3. Lost(vm, x, {a} \cup {}) /\ x \in Runtime /\ LinksLive(x)
    BY <1>1, <2>2, LostThen DEF a
  <2>4. Lost(x, w, {a})
    BY <1>1, <2>3, ExitLost
  <2> HIDE DEF w
  <2>5. Lost(vm, w, ({a} \cup {}) \cup {a}) /\ w \in Runtime
    BY <1>1, <2>3, <2>4, LostThen
  <2>6. Lost(w, vm', {})
    <3>1. Quiet(w, w)
      BY DEF Quiet
    <3>2. CloseOwner(w, a) \in Runtime /\ Quiet(w, CloseOwner(w, a))
      BY <1>1, <2>5, CloseOwnerQuiet
    <3> QED
      BY <2>1, <2>5, <3>1, <3>2, QuietLost
  <2>7. Lost(vm, vm', (({a} \cup {}) \cup {a}) \cup {})
    BY <1>1, <2>5, <2>6, LostThen
  <2>8. Lost(vm, vm', {a, r})
    <3>1. (({a} \cup {}) \cup {a}) \cup {} \subseteq {a, r}
      OBVIOUS
    <3> QED
      BY <2>7, <3>1, LostMore
  <2>9. StackInv(vm, Front(stack), call.root)
    BY FrontStack DEF IInv
  <2>10. call' \in CallType /\ call'.root = call.root /\ turn' \in {turn, "poll"}
    BY <2>1 DEF IInv
  <2>11. IInv'
    BY <2>1, <2>8, <2>9, <2>10, LostInv DEF Lost
  <2> QED
    BY <2>8, <2>11 DEF a, r
<1> QED
  BY <1>4, <1>5, <1>6, <1>7 DEF FrameType

-----------------------------------------------------------------------------
(* What the steps have to show *)

\* How actors end in one step.
Harm(v, w) ==
    \/ \A a \in Actors : Live(v, a) => Live(w, a)
    \/ \E a, b \in Actors : CutWithin(v, w, {a, b})
    \/ \E a \in Actors : EndsOne(v, w, a)

\* Nothing comes from the step.
Silent(v, w) ==
    /\ \A a \in Actors : w.mail[a] <= v.mail[a] /\ (w.status[a] = "live" => Live(v, a))
    /\ w.links \subseteq v.links
    /\ w.cancelled \subseteq v.cancelled
    /\ Len(w.monitors) = Len(v.monitors)

Good ==
    /\ IInv'
    /\ Harm(vm, vm')
    /\ stack # <<>> /\ ~Live(vm, Top.actor) => Silent(vm, vm')

\* The actors and what they have to do with each other are the same.
SameWorld(v, w) ==
    /\ w.status = v.status /\ w.mail = v.mail /\ w.links = v.links
    /\ w.cancelled = v.cancelled /\ w.monitors = v.monitors

\* A step that leaves the actors alone ends nobody and comes from nobody.
LEMMA SameWorldGood ==
    ASSUME NEW v \in Runtime, NEW w, SameWorld(v, w)
    PROVE  Harm(v, w) /\ Silent(v, w)
<1>1. \A a \in Actors : w.mail[a] <= v.mail[a]
  BY ResidentAssumption DEF SameWorld, Runtime
<1> QED
  BY <1>1 DEF SameWorld, Harm, Silent, Live

\* A loss sends nothing and creates nothing.
LEMMA FadesSilent ==
    ASSUME NEW v, NEW w, Fades(v, w)
    PROVE  Silent(v, w)
BY DEF Fades, Silent, Live

\* An error is silent and fails one actor, or the root with it.
LEMMA FailGood ==
    ASSUME IInv, stack # <<>>, NEW f \in FrameType, NEW v, Lost(vm, v, {f.actor}),
           FailFrame(f, v)
    PROVE  Good
<1>1. IInv' /\ Lost(vm, vm', {f.actor, call.root})
  BY FailFrameInv
<1>2. f.actor \in Actors /\ call.root \in Actors
  BY FrontStack DEF IInv, FrameType
<1>3. Harm(vm, vm') /\ Silent(vm, vm')
  BY <1>1, <1>2, FadesSilent DEF Harm, Lost
<1> QED
  BY <1>1, <1>3 DEF Good

-----------------------------------------------------------------------------
(* The running activation *)

\* No activation is of b.
Offstack(st, b) == \A i \in 1 .. Len(st) : st[i].actor # b

\* The running activation.
LEMMA TopEntries ==
    ASSUME NEW v, StackInv(v, stack, call.root), stack # <<>>
    PROVE  /\ FrameInv(v, Top, call.root) /\ Top \in FrameType /\ Top.actor \in Actors
           /\ Top.pc # "wait" => ~Held(v, Top.actor)
           /\ call.root \in Actors
<1>1. FrameInv(v, Top, call.root) /\ call.root \in Actors
  <2>1. FrameInv(v, Last(stack), call.root) /\ call.root \in Actors
    BY FrontStack
  <2> QED
    BY <2>1 DEF Top
<1>2. Top \in FrameType /\ Top.actor \in Actors
  BY <1>1 DEF FrameInv, FrameType
<1>3. Top.pc # "wait" => ~Held(v, Top.actor)
  BY <1>1 DEF FrameInv, Held
<1> QED
  BY <1>1, <1>2, <1>3

\* Only the running activation changes.
LEMMA RetopStack ==
    ASSUME NEW v, NEW w, NEW f, StackInv(v, stack, call.root), stack # <<>>,
           FrameInv(w, f, call.root), f.actor = Top.actor,
           \A b \in Actors : b # Top.actor => Agree(v, w, b)
    PROVE  /\ StackInv(w, Retop(f), call.root)
           /\ \A b \in Actors : Offstack(stack, b) => Offstack(Retop(f), b)
           /\ Retop(f) # <<>>
<1> DEFINE t == Front(stack)
           n == Len(t)
<1>1. /\ StackInv(v, t, call.root)
      /\ \A i \in 1 .. n : t[i].actor # Top.actor
      /\ t = <<>> => Top.actor = call.root
      /\ n = Len(stack) - 1 /\ Len(stack) \in Nat
  BY FrontStack DEF Top
<1> HIDE DEF t
<1>2. t \in Seq(FrameType)
  BY <1>1 DEF StackInv
<1>3. StackInv(w, t, call.root)
  <2>1. \A i \in 1 .. n : t[i].actor \in Actors
    <3>1. \A i \in 1 .. n : t[i] \in FrameType
      BY <1>2
    <3> QED
      BY <3>1 DEF FrameType
  <2> QED
    BY <1>1, <2>1, AgreeStack
<1>4. /\ StackInv(w, t \o <<f>>, call.root)
      /\ Len(t \o <<f>>) = n + 1
      /\ \A b \in Actors : b # f.actor /\ (\A i \in 1 .. n : t[i].actor # b)
                           => \A i \in 1 .. n + 1 : (t \o <<f>>)[i].actor # b
  BY <1>1, <1>3, PushStack
<1>5. ASSUME NEW b \in Actors, Offstack(stack, b)
      PROVE  b # Top.actor /\ \A i \in 1 .. n : t[i].actor # b
  <2>1. stack \in Seq(FrameType) /\ Len(stack) # 0
    BY EmptySeq DEF StackInv
  <2>2. Top = stack[Len(stack)] /\ Len(stack) \in 1 .. Len(stack)
    BY <1>1, <2>1 DEF Top, Last
  <2>3. \A i \in 1 .. n : i \in 1 .. Len(stack) /\ t[i] = stack[i]
    <3>1. \A i \in 1 .. Len(stack) - 1 : t[i] = stack[i]
      BY <2>1, FrontEntries DEF t, StackInv
    <3> QED
      BY <1>1, <3>1
  <2> QED
    BY <1>5, <2>2, <2>3 DEF Offstack
<1>6. \A b \in Actors : Offstack(stack, b) => Offstack(t \o <<f>>, b)
  BY <1>4, <1>5 DEF Offstack
<1>7. t \o <<f>> # <<>>
  <2>1. Len(t \o <<f>>) # 0
    BY <1>1, <1>4
  <2> QED
    BY <2>1
<1> QED
  BY <1>4, <1>6, <1>7 DEF Retop, t

-----------------------------------------------------------------------------
(* Small changes of the runtime *)

\* Links, monitors, messages and requests do not matter to suspensions.
LEMMA KeptInv ==
    ASSUME NEW v, NEW w, VmInv(v), w \in Runtime, w.status = v.status, w.lease = v.lease,
           w.resident = v.resident, w.worker = v.worker, LinksLive(w), MonitorsExact(w)
    PROVE  VmInv(w) /\ \A b \in Actors : Agree(v, w, b)
<1>1. \A b \in Actors : Agree(v, w, b) /\ HeldInv(w, b)
  BY DEF Agree, HeldInv, VmInv, Held, Live
<1>2. LeasesLive(w)
  BY DEF VmInv, LeasesLive, Live
<1>3. Consecutive(w)
  BY DEF VmInv, Consecutive
<1>4. w.worker # {} => Op("capability", 0) \in Operations
  BY DEF VmInv
<1> QED
  BY <1>1, <1>2, <1>3, <1>4 DEF VmInv

\* A stack stands when all actors are as they were.
LEMMA AgreedStack ==
    ASSUME NEW v, NEW w, NEW st, NEW root, StackInv(v, st, root),
           \A b \in Actors : Agree(v, w, b)
    PROVE  StackInv(w, st, root)
<1>1. \A i \in 1 .. Len(st) : st[i].actor \in Actors
  <2>1. \A i \in 1 .. Len(st) : st[i] \in FrameType
    BY DEF StackInv
  <2> QED
    BY <2>1 DEF FrameType
<1> QED
  BY <1>1, AgreeStack

\* The lease of an actor is consumed.
Consumed(v, a) == [v EXCEPT !.lease = @ \ {a}]

\* A transition consumes its lease (consume_native_continuation).
LEMMA ConsumedInv ==
    ASSUME NEW v, VmInv(v), NEW a \in Actors, ~Held(v, a)
    PROVE  /\ VmInv(Consumed(v, a)) /\ ~Held(Consumed(v, a), a)
           /\ SameWorld(v, Consumed(v, a)) /\ Consumed(v, a).status = v.status
           /\ \A b \in Actors : b # a => Agree(v, Consumed(v, a), b)
           /\ Consumed(v, a).resident = v.resident
<1> DEFINE w == Consumed(v, a)
<1>1. v \in Runtime
  BY DEF VmInv
<1>2. /\ w \in Runtime /\ SameWorld(v, w) /\ w.lease = v.lease \ {a}
      /\ w.resident = v.resident /\ w.worker = v.worker /\ w.status = v.status
  BY <1>1 DEF Consumed, Runtime, SameWorld
<1> HIDE DEF w
<1>3. \A b \in Actors : HeldInv(w, b)
  BY <1>2 DEF VmInv, HeldInv, Held, Live
<1>4. \A b \in Actors : b # a => Agree(v, w, b)
  BY <1>2 DEF Agree
<1>5. LeasesLive(w) /\ LinksLive(w) /\ MonitorsExact(w)
  BY <1>2 DEF VmInv, LeasesLive, LinksLive, MonitorsExact, MonitorExact, Live, SameWorld
<1>6. Consecutive(w)
  BY <1>2 DEF VmInv, Consecutive
<1>7. w.worker # {} => Op("capability", 0) \in Operations
  BY <1>2 DEF VmInv
<1>8. ~Held(w, a)
  BY <1>2 DEF Held
<1> QED
  BY <1>2, <1>3, <1>4, <1>5, <1>6, <1>7, <1>8 DEF VmInv, w

-----------------------------------------------------------------------------
(* A transition is served *)

\* A transition that was serviced goes on to its next slice.
LEMMA ServedInv ==
    ASSUME IInv, stack # <<>>, Top.pc = "service", NEW v, VmInv(v),
           StackInv(v, stack, call.root), Served(v)
    PROVE  IInv' /\ SameWorld(v, vm')
<1> DEFINE a == Top.actor
           f == [Top EXCEPT !.pc = "finish"]
<1>1. /\ FrameInv(v, Top, call.root) /\ Top \in FrameType /\ a \in Actors /\ ~Held(v, a)
      /\ call.root \in Actors
  BY TopEntries
<1>2. vm' = Consumed(v, a) /\ stack' = Retop(f) /\ turn' \in {"poll", turn} /\ call' = call
  BY DEF Served, Consumed
<1>3. /\ f \in FrameType /\ f.actor = a /\ f.pc = "finish" /\ f.op = Top.op
      /\ f.kind = Top.kind
  BY <1>1 DEF FrameType
<1> HIDE DEF a, f
<1>4. /\ VmInv(vm') /\ ~Held(vm', a) /\ SameWorld(v, vm') /\ vm'.status = v.status
      /\ \A b \in Actors : b # a => Agree(v, vm', b)
  BY <1>1, <1>2, ConsumedInv
<1>5. FrameInv(vm', f, call.root)
  <2>1. v.status[a] # "unborn" /\ (f.kind = "root" => a = call.root)
    BY <1>1, <1>3 DEF FrameInv, a
  <2>2. vm'.status[a] # "unborn" /\ vm'.resident[a] = NoOp /\ a \notin vm'.worker
    BY <1>4, <2>1 DEF Held
  <2>3. ~Holding(f)
    BY <1>3 DEF Holding
  <2> QED
    BY <1>3, <2>1, <2>2, <2>3 DEF FrameInv
<1>6. StackInv(vm', stack', call.root)
  BY <1>2, <1>3, <1>4, <1>5, RetopStack DEF a
<1> QED
  BY <1>2, <1>4, <1>6 DEF IInv

\* A request that was granted leaves the actors as they are.
LEMMA ServedGood ==
    ASSUME IInv, stack # <<>>, Top.pc = "service", Leased, NEW v, v \in Runtime,
           v.status = vm.status, v.lease = vm.lease, v.resident = vm.resident,
           v.worker = vm.worker, LinksLive(v), MonitorsExact(v), Served(v)
    PROVE  Good
<1>1. VmInv(v) /\ \A b \in Actors : Agree(vm, v, b)
  BY KeptInv DEF IInv
<1>2. StackInv(v, stack, call.root)
  BY <1>1, AgreedStack DEF IInv
<1>3. IInv' /\ SameWorld(v, vm')
  BY <1>1, <1>2, ServedInv
<1>4. vm'.status = vm.status
  BY <1>3 DEF SameWorld
<1>5. Live(vm, Top.actor)
  BY DEF IInv, VmInv, LeasesLive, Leased
<1> QED
  BY <1>3, <1>4, <1>5 DEF Good, Harm, Live

\* Nothing was lost before the error.
LEMMA FailsHere ==
    ASSUME IInv, stack # <<>>, FailFrame(Top, vm)
    PROVE  Good
<1>1. Top \in FrameType /\ vm \in Runtime
  BY TopEntries DEF IInv, VmInv
<1>2. Quiet(vm, vm)
  BY DEF Quiet
<1>3. Lost(vm, vm, {Top.actor})
  BY <1>1, <1>2, QuietLost
<1> QED
  BY <1>1, <1>3, FailGood

\* A suspension is parked with the shard.
Parked(v, a, o) == [v EXCEPT !.resident[a] = o]

\* A suspension that was not held anywhere is held by the shard
\* (park_resident_suspension).
LEMMA ParkedInv ==
    ASSUME NEW v, VmInv(v), NEW a \in Actors, NEW o \in Operations \cup {NoOp},
           ~Held(v, a), v.status[a] # "unborn", Live(v, a) => a \in v.lease
    PROVE  /\ VmInv(Parked(v, a, o)) /\ SameWorld(v, Parked(v, a, o))
           /\ \A b \in Actors : b # a => Agree(v, Parked(v, a, o), b)
<1> DEFINE w == Parked(v, a, o)
<1>1. v \in Runtime
  BY DEF VmInv
<1>2. /\ w \in Runtime /\ SameWorld(v, w) /\ w.lease = v.lease /\ w.worker = v.worker
      /\ \A b \in Actors : b # a => w.resident[b] = v.resident[b]
  BY <1>1 DEF Parked, Runtime, SameWorld
<1> HIDE DEF w
<1>3. \A b \in Actors : HeldInv(w, b)
  <2> SUFFICES ASSUME NEW b \in Actors PROVE HeldInv(w, b)
    OBVIOUS
  <2>1. HeldInv(v, b)
    BY DEF VmInv
  <2>2. CASE b = a
    BY <1>2, <2>2 DEF HeldInv, Held, Live, SameWorld
  <2>3. CASE b # a
    BY <1>2, <2>1, <2>3 DEF HeldInv, Held, Live, SameWorld
  <2> QED
    BY <2>2, <2>3
<1>4. \A b \in Actors : b # a => Agree(v, w, b)
  BY <1>2 DEF Agree, SameWorld
<1>5. LeasesLive(w) /\ LinksLive(w) /\ MonitorsExact(w)
  BY <1>2 DEF VmInv, LeasesLive, LinksLive, MonitorsExact, MonitorExact, Live, SameWorld
<1>6. Consecutive(w)
  BY <1>2 DEF VmInv, Consecutive, SameWorld
<1>7. w.worker # {} => Op("capability", 0) \in Operations
  BY <1>2 DEF VmInv
<1> QED
  BY <1>2, <1>3, <1>4, <1>5, <1>6, <1>7 DEF VmInv, w

\* The activation parks its suspension: the root keeps it for its next round, a
\* resident leaves it with the shard (park_resident_suspension).
LEMMA ParkInv ==
    ASSUME IInv, stack # <<>>, NEW v, VmInv(v), StackInv(v, stack, call.root),
           NEW f, f.actor = Top.actor, f.op \in Operations \cup {NoOp},
           ~Held(v, Top.actor), Live(v, Top.actor) => Top.actor \in v.lease, Park(f, v)
    PROVE  IInv' /\ SameWorld(v, vm')
<1> DEFINE a == Top.actor
<1>1. a \in Actors /\ v.status[a] # "unborn"
  BY TopEntries DEF FrameInv
<1>2. CASE f.kind = "root"
  BY <1>2 DEF Park, IInv, SameWorld
<1>3. CASE f.kind # "root"
  <2>1. vm' = Parked(v, a, f.op) /\ stack' = Front(stack) /\ turn' = turn /\ call' = call
    BY <1>3 DEF Park, Parked
  <2> HIDE DEF a
  <2>2. /\ VmInv(vm') /\ SameWorld(v, vm')
        /\ \A b \in Actors : b # a => Agree(v, vm', b)
    BY <1>1, <2>1, ParkedInv DEF a
  <2>3. /\ StackInv(v, Front(stack), call.root)
        /\ \A i \in 1 .. Len(Front(stack)) : Front(stack)[i].actor # a
    BY FrontStack DEF Top, a
  <2>4. \A i \in 1 .. Len(Front(stack)) : Front(stack)[i].actor \in Actors
    <3>1. \A i \in 1 .. Len(Front(stack)) : Front(stack)[i] \in FrameType
      BY <2>3 DEF StackInv
    <3> QED
      BY <3>1 DEF FrameType
  <2>5. StackInv(vm', Front(stack), call.root)
    BY <2>2, <2>3, <2>4, AgreeStack
  <2> QED
    BY <2>1, <2>2, <2>5 DEF IInv
<1> QED
  BY <1>2, <1>3

\* The activation has its next execution.
LEMMA SettleInv ==
    ASSUME IInv, stack # <<>>, NEW v, VmInv(v), StackInv(v, stack, call.root),
           NEW f \in FrameType, f.actor = Top.actor, f.kind = "root" => f.actor = call.root,
           ~Held(v, Top.actor),
           f.op.op # "done" /\ Live(v, Top.actor) => Top.actor \in v.lease, Settle(f, v)
    PROVE  /\ IInv' /\ Silent(v, vm')
           /\ SameWorld(v, vm') \/ EndsOne(v, vm', Top.actor)
<1> DEFINE a == Top.actor
<1>1. a \in Actors /\ v.status[a] # "unborn" /\ v \in Runtime
      /\ v.resident[a] = NoOp /\ a \notin v.worker
  BY TopEntries DEF FrameInv, VmInv, Held
<1>2. CASE f.op.op = "done" /\ f.kind # "root"
  <2> DEFINE x == Release(v, a)
             w == ExitActor(x, a, "normal")
  <2>1. /\ vm' = IF f.kind = "served" THEN CloseOwner(w, a) ELSE w
        /\ stack' = Front(stack) /\ turn' = turn /\ call' = call
    BY <1>2 DEF Settle
  <2> HIDE DEF a
  <2>2. x \in Runtime /\ Quiet(v, x) /\ Fades(v, x)
    BY <1>1, ReleaseQuiet, QuietFades
  <2> HIDE DEF x
  <2>3. w \in Runtime /\ Fades(x, w) /\ EndsOne(x, w, a)
    <3>1. LinksLive(x)
      BY <2>2 DEF VmInv, Fades
    <3> QED
      BY <1>1, <2>2, <3>1, ExitActorCuts DEF Reasons
  <2> HIDE DEF w
  <2>4. Quiet(w, vm') /\ vm' \in Runtime /\ Fades(w, vm')
    <3>1. Quiet(w, w)
      BY DEF Quiet
    <3>2. CloseOwner(w, a) \in Runtime /\ Quiet(w, CloseOwner(w, a))
      BY <1>1, <2>3, CloseOwnerQuiet
    <3>3. Quiet(w, vm') /\ vm' \in Runtime
      BY <2>1, <2>3, <3>1, <3>2
    <3> QED
      BY <2>3, <3>3, QuietFades
  <2>5. Fades(v, vm')
    <3>1. Fades(v, w)
      BY <1>1, <2>2, <2>3, FadesThen
    <3> QED
      BY <1>1, <2>3, <2>4, <3>1, FadesThen
  <2>6. EndsOne(v, vm', a)
    <3>1. x.status = v.status /\ vm'.status = w.status
      BY <2>2, <2>4 DEF Quiet
    <3> QED
      BY <2>3, <3>1 DEF EndsOne
  <2>7. VmInv(vm') /\ StackInv(vm', Front(stack), call.root)
    <3>1. StackInv(v, Front(stack), call.root)
      BY FrontStack
    <3> QED
      BY <2>5, <3>1, FadeVm, FadeStack
  <2>8. IInv'
    BY <2>1, <2>7 DEF IInv
  <2> QED
    BY <2>5, <2>6, <2>8, FadesSilent DEF a
<1>3. CASE ~(f.op.op = "done" /\ f.kind # "root") /\ f.park
  <2> DEFINE g == [f EXCEPT !.pc = "service", !.park = FALSE]
  <2>1. Park(g, v)
    BY <1>3 DEF Settle
  <2>2. g.actor = f.actor /\ g.op = f.op /\ g.kind = f.kind
    BY DEF FrameType
  <2> HIDE DEF g
  <2>3. IInv' /\ SameWorld(v, vm')
    <3>1. CASE f.op.op = "done"
      BY <1>3, <2>1, <2>2, <3>1 DEF Park, IInv, SameWorld
    <3>2. CASE f.op.op # "done"
      <4>1. f.op \in Operations \cup {NoOp}
        BY <3>2 DEF FrameType, Op
      <4>2. Live(v, Top.actor) => Top.actor \in v.lease
        BY <3>2
      <4> QED
        BY <2>1, <2>2, <4>1, <4>2, ParkInv
    <3> QED
      BY <3>1, <3>2
  <2> QED
    BY <1>1, <2>3, SameWorldGood
<1>4. CASE ~(f.op.op = "done" /\ f.kind # "root") /\ ~f.park
  <2> DEFINE g == [f EXCEPT !.pc = "service"]
  <2>1. vm' = v /\ stack' = Retop(g) /\ turn' = turn /\ call' = call
    BY <1>4 DEF Settle
  <2>2. /\ g \in FrameType /\ g.actor = a /\ g.op = f.op /\ g.kind = f.kind
        /\ g.pc = "service"
    BY DEF FrameType
  <2> HIDE DEF g
  <2>3. FrameInv(v, g, call.root)
    BY <1>1, <2>2 DEF FrameInv, Holding
  <2>4. \A b \in Actors : b # a => Agree(v, v, b)
    BY DEF Agree
  <2>5. StackInv(v, Retop(g), call.root)
    BY <2>2, <2>3, <2>4, RetopStack
  <2>6. SameWorld(v, vm')
    BY <2>1 DEF SameWorld
  <2>7. IInv'
    BY <2>1, <2>5 DEF IInv
  <2> QED
    BY <1>1, <2>6, <2>7, SameWorldGood
<1> QED
  BY <1>2, <1>3, <1>4 DEF FrameType

\* The recipient of a message is driven before that.
LEMMA SlicedInv ==
    ASSUME IInv, stack # <<>>, NEW v, VmInv(v), StackInv(v, stack, call.root),
           NEW f \in FrameType, f.actor = Top.actor, f.kind = "root" => f.actor = call.root,
           ~Held(v, Top.actor),
           f.op.op # "done" /\ Live(v, Top.actor) => Top.actor \in v.lease, Sliced(f, v)
    PROVE  /\ IInv' /\ Silent(v, vm')
           /\ SameWorld(v, vm') \/ EndsOne(v, vm', Top.actor)
<1> DEFINE a == Top.actor
           to == Top.op.to
           o == v.resident[to]
           drives == Drives(Top.op, Top.kind, v)
<1>1. a \in Actors /\ v.status[a] # "unborn" /\ v \in Runtime
      /\ v.resident[a] = NoOp /\ a \notin v.worker /\ Top \in FrameType
  BY TopEntries DEF FrameInv, VmInv, Held
<1>2. CASE ~drives
  BY <1>2, SettleInv DEF Sliced
<1>3. CASE drives
  <2> DEFINE g == [f EXCEPT !.pc = "settle"]
             h == Frame(to, "resident", "service", o)
             w == Parked(v, to, NoOp)
  <2>1. vm' = w /\ stack' = Retop(g) \o <<h>> /\ turn' = turn /\ call' = call
    BY <1>3 DEF Sliced, Parked
  <2>2. to \in Actors /\ o # NoOp /\ o \in Operations
    <3>1. Top.op.op = "send" /\ o # NoOp
      BY <1>3 DEF Drives
    <3>2. Top.op \in Operations
      BY <1>1, <3>1 DEF FrameType, Op, NoOp
    <3>3. to \in Actors
      BY <3>1, <3>2, OperationEntries
    <3> QED
      BY <1>1, <3>1, <3>3 DEF Runtime
  <2>3. /\ v.status[to] # "unborn" /\ to \notin v.worker
        /\ Live(v, to) => to \in v.lease
    BY <2>2 DEF VmInv, HeldInv, Held
  <2>4. Offstack(stack, to)
    <3> SUFFICES ASSUME NEW i \in 1 .. Len(stack) PROVE stack[i].actor # to
      BY DEF Offstack
    <3>1. v.resident[stack[i].actor] = NoOp
      BY DEF StackInv, FrameInv
    <3> QED
      BY <2>2, <3>1
  <2>5. /\ g \in FrameType /\ g.actor = a /\ g.op = f.op /\ g.kind = f.kind
        /\ g.pc = "settle"
    BY DEF FrameType
  <2>6. /\ h \in FrameType /\ h.actor = to /\ h.op = o /\ h.kind = "resident"
        /\ h.pc = "service"
    BY <2>2 DEF Frame, FrameType
  <2>7. /\ w \in Runtime /\ Quiet(v, w) /\ SameWorld(v, w)
        /\ w.resident[to] = NoOp /\ w.lease = v.lease /\ w.worker = v.worker
        /\ w.status = v.status
    BY <1>1, <2>2 DEF Parked, Runtime, Quiet, SameWorld
  <2>8. \A b \in Actors : b # to => Agree(v, w, b)
    BY <1>1, <2>2 DEF Agree, Parked, Runtime
  <2>9. w.resident[a] = NoOp
    BY <1>1, <2>7 DEF Quiet
  <2> HIDE DEF g, h, w, to, o
  <2>10. VmInv(w) /\ StackInv(w, stack, call.root)
    BY <1>1, <2>7, QuietFades, FadeVm, FadeStack
  <2>11. FrameInv(w, g, call.root)
    BY <1>1, <2>5, <2>7, <2>9 DEF FrameInv, Holding, Live
  <2>12. /\ StackInv(w, Retop(g), call.root) /\ Offstack(Retop(g), to) /\ Retop(g) # <<>>
    <3>1. \A b \in Actors : b # a => Agree(w, w, b)
      BY DEF Agree
    <3> QED
      BY <2>2, <2>4, <2>5, <2>10, <2>11, <3>1, RetopStack
  <2>13. FrameInv(w, h, call.root)
    BY <2>3, <2>6, <2>7 DEF FrameInv, Holding, Live
  <2>14. StackInv(w, Retop(g) \o <<h>>, call.root)
    BY <2>6, <2>12, <2>13, PushStack DEF Offstack
  <2>15. IInv'
    BY <2>1, <2>10, <2>14 DEF IInv
  <2> QED
    BY <1>1, <2>1, <2>7, <2>15, SameWorldGood
<1> QED
  BY <1>2, <1>3

-----------------------------------------------------------------------------
(* The answer of a capability *)

\* A worker's answer, right or wrong, of an actor nobody else holds.
LEMMA AnsweredGood ==
    ASSUME IInv, stack # <<>>, NEW f \in FrameType, f.pc = "finish",
           f.kind = "root" => f.actor = call.root,
           NEW v \in Runtime, Quiet(vm, v), ~Held(v, f.actor), v.status[f.actor] # "unborn",
           NEW below, \/ below = <<>> /\ f.actor = call.root
                      \/ below = stack /\ Offstack(stack, f.actor),
           NEW ok, Answered(f, v, ok, below)
    PROVE  Good
<1> DEFINE a == f.actor
<1>1. a \in Actors /\ vm \in Runtime
  BY DEF FrameType, IInv, VmInv
<1>2. Lost(vm, v, {a})
  BY <1>1, QuietLost
<1>3. CASE ~(ok /\ a \in v.lease)
  <2>1. FailFrame(f, v)
    BY <1>3 DEF Answered
  <2> QED
    BY <1>2, <2>1, FailGood
<1>4. CASE ok /\ a \in v.lease
  <2>1. /\ vm' = Consumed(v, a) /\ stack' = below \o <<f>> /\ call' = call
        /\ turn' \in {"poll", "service", "step"}
    BY <1>4 DEF Answered, Consumed
  <2>2. Fades(vm, v)
    BY <1>2 DEF Lost
  <2>3. VmInv(v) /\ StackInv(v, stack, call.root)
    BY <2>2, FadeVm, FadeStack DEF IInv
  <2> HIDE DEF a
  <2>4. ~Held(v, a) /\ v.status[a] # "unborn"
    BY DEF a
  <2>5. /\ VmInv(vm') /\ ~Held(vm', a) /\ SameWorld(v, vm') /\ vm'.status = v.status
        /\ \A b \in Actors : b # a => Agree(v, vm', b)
    BY <1>1, <2>1, <2>3, <2>4, ConsumedInv
  <2>6. FrameInv(vm', f, call.root)
    <3>1. vm'.status[a] # "unborn" /\ vm'.resident[a] = NoOp /\ a \notin vm'.worker
      BY <2>4, <2>5 DEF Held
    <3> QED
      BY <3>1 DEF FrameInv, Holding, a
  <2>7. StackInv(vm', below \o <<f>>, call.root)
    <3>1. CASE below = <<>> /\ a = call.root
      <4>1. StackInv(vm', <<>>, call.root) /\ Len(<<>>) = 0 /\ 1 .. 0 = {}
        BY EmptyStack
      <4> QED
        BY <2>6, <3>1, <4>1, PushStack DEF a
    <3>2. CASE below = stack /\ Offstack(stack, a)
      <4>1. \A i \in 1 .. Len(stack) : stack[i].actor \in Actors /\ stack[i].actor # a
        <5>1. \A i \in 1 .. Len(stack) : stack[i] \in FrameType
          BY <2>3 DEF StackInv
        <5> QED
          BY <3>2, <5>1 DEF FrameType, Offstack
      <4>2. StackInv(vm', stack, call.root)
        BY <2>3, <2>5, <4>1, AgreeStack
      <4> QED
        BY <2>6, <3>2, <4>1, <4>2, PushStack DEF a
    <3> QED
      BY <3>1, <3>2 DEF a
  <2>8. IInv'
    BY <2>1, <2>5, <2>7 DEF IInv
  <2>9. Silent(vm, vm')
    <3>1. Silent(vm, v)
      BY <2>2, FadesSilent
    <3> QED
      BY <2>5, <3>1 DEF Silent, SameWorld
  <2>10. Harm(vm, vm')
    BY <2>5 DEF Harm, Live, Quiet
  <2> QED
    BY <2>8, <2>9, <2>10 DEF Good
<1> QED
  BY <1>3, <1>4

\* A suspension goes to a worker.
LEMMA HandedInv ==
    ASSUME NEW v, VmInv(v), NEW a \in Actors, v.status[a] # "unborn",
           Live(v, a) => a \in v.lease, Op("capability", 0) \in Operations,
           NEW w \in Runtime, SameWorld(v, w), w.lease = v.lease,
           w.worker = v.worker \cup {a}, w.resident[a] = NoOp,
           \A b \in Actors : b # a => w.resident[b] = v.resident[b]
    PROVE  VmInv(w) /\ \A b \in Actors : b # a => Agree(v, w, b)
<1>1. \A b \in Actors : HeldInv(w, b)
  <2> SUFFICES ASSUME NEW b \in Actors PROVE HeldInv(w, b)
    OBVIOUS
  <2>1. HeldInv(v, b)
    BY DEF VmInv
  <2>2. CASE b = a
    BY <2>2 DEF HeldInv, Held, Live, SameWorld
  <2>3. CASE b # a
    BY <2>1, <2>3 DEF HeldInv, Held, Live, SameWorld
  <2> QED
    BY <2>2, <2>3
<1>2. \A b \in Actors : b # a => Agree(v, w, b)
  BY DEF Agree, SameWorld
<1>3. LeasesLive(w) /\ LinksLive(w) /\ MonitorsExact(w)
  BY DEF VmInv, LeasesLive, LinksLive, MonitorsExact, MonitorExact, Live, SameWorld
<1>4. Consecutive(w)
  BY DEF VmInv, Consecutive, SameWorld
<1> QED
  BY <1>1, <1>2, <1>3, <1>4 DEF VmInv

-----------------------------------------------------------------------------
(* A new actor *)

Spawned(v, a) == [SpawnActor(v, a) EXCEPT !.heap = @ \cup {a}]

\* A child has an identity that was not used, and holds nothing yet.
LEMMA SpawnedInv ==
    ASSUME NEW v, VmInv(v), NEW a, a = NextActor(v), a \in Actors
    PROVE  /\ v.status[a] = "unborn" /\ VmInv(Spawned(v, a)) /\ ~Held(Spawned(v, a), a)
           /\ Spawned(v, a).status = [v.status EXCEPT ![a] = "live"]
           /\ \A b \in Actors : b # a => Agree(v, Spawned(v, a), b)
           /\ \A b \in Actors : Live(v, b) => Live(Spawned(v, a), b)
<1> DEFINE w == Spawned(v, a)
           born == {b \in Actors : v.status[b] # "unborn"}
<1>1. v \in Runtime
  BY DEF VmInv
<1>2. PICK k \in 0 .. MaxActors : \A b \in Actors : v.status[b] # "unborn" <=> b <= k
  BY DEF VmInv, Consecutive
<1>3. k \in Nat /\ MaxActors \in Nat /\ k <= MaxActors
  BY <1>2, MaxActorsAssumption
<1>4. born = 1 .. k
  BY <1>2, <1>3 DEF Actors
<1>5. a = k + 1
  <2>1. Cardinality(1 .. k) = k
    <3>1. 1 > k => k = 0
      BY <1>3
    <3>2. Cardinality(1 .. k) = IF 1 > k THEN 0 ELSE k - 1 + 1
      BY <1>3, FS_Interval
    <3> QED
      BY <1>3, <3>1, <3>2
  <2>2. a = Cardinality(born) + 1
    BY DEF NextActor
  <2> HIDE DEF born
  <2> QED
    BY <1>4, <2>1, <2>2
<1>6. v.status[a] = "unborn"
  BY <1>2, <1>3, <1>5
<1>7. HeldInv(v, a) /\ ~Held(v, a)
  BY <1>6 DEF VmInv, HeldInv
<1>8. /\ w \in Runtime /\ w.status = [v.status EXCEPT ![a] = "live"]
      /\ w.lease = v.lease /\ w.resident = v.resident /\ w.worker = v.worker
      /\ w.links = v.links /\ w.monitors = v.monitors
  BY <1>1 DEF Spawned, SpawnActor, Runtime
<1> HIDE DEF w, born
<1>9. /\ w.status[a] = "live" /\ \A b \in Actors : b # a => w.status[b] = v.status[b]
  BY <1>1, <1>8 DEF Runtime
<1>10. \A b \in Actors : Live(v, b) => Live(w, b)
  BY <1>6, <1>9 DEF Live
<1>11. \A b \in Actors : b # a => Agree(v, w, b)
  BY <1>8, <1>9 DEF Agree
<1>12. ~Held(w, a)
  BY <1>7, <1>8 DEF Held
<1>13. \A b \in Actors : HeldInv(w, b)
  <2> SUFFICES ASSUME NEW b \in Actors PROVE HeldInv(w, b)
    OBVIOUS
  <2>1. HeldInv(v, b)
    BY DEF VmInv
  <2>2. CASE b = a
    BY <1>12, <2>2 DEF HeldInv, Held
  <2>3. CASE b # a
    BY <1>8, <1>9, <2>1, <2>3 DEF HeldInv, Held, Live
  <2> QED
    BY <2>2, <2>3
<1>14. LeasesLive(w)
  <2>1. v.lease \in SUBSET Actors
    BY <1>1 DEF Runtime
  <2> QED
    BY <1>8, <1>10, <2>1 DEF VmInv, LeasesLive
<1>15. LinksLive(w)
  <2>1. \A l \in v.links : \A b \in l : b \in Actors
    BY <1>1 DEF Runtime, Pairs
  <2> QED
    BY <1>8, <1>10, <2>1 DEF VmInv, LinksLive
<1>16. MonitorsExact(w)
  <2> SUFFICES ASSUME NEW r \in 1 .. Len(v.monitors) PROVE MonitorExact(w, v.monitors[r])
    BY <1>8 DEF MonitorsExact
  <2> DEFINE m == v.monitors[r]
  <2>1. m \in Monitors /\ MonitorExact(v, m)
    BY <1>1 DEF Runtime, VmInv, MonitorsExact
  <2> HIDE DEF m
  <2>2. m.watcher \in Actors /\ m.target \in Actors /\ m.watcher # a /\ m.target # a
    BY <1>6, <2>1 DEF Monitors, MonitorExact
  <2>3. MonitorExact(w, m)
    BY <1>9, <2>1, <2>2 DEF MonitorExact, Live
  <2> QED
    BY <2>3 DEF m
<1>17. Consecutive(w)
  <2>1. k + 1 \in 0 .. MaxActors
    BY <1>3, <1>5 DEF Actors
  <2>2. \A b \in Actors : w.status[b] # "unborn" <=> b <= k + 1
    <3> SUFFICES ASSUME NEW b \in Actors PROVE w.status[b] # "unborn" <=> b <= k + 1
      OBVIOUS
    <3>1. b \in Int /\ k \in Int
      BY <1>3 DEF Actors
    <3>2. CASE b = a
      BY <1>5, <1>9, <3>1, <3>2
    <3>3. CASE b # a
      <4>1. v.status[b] # "unborn" <=> b <= k
        BY <1>2
      <4>2. b <= k <=> b <= k + 1
        BY <1>5, <3>1, <3>3
      <4> QED
        BY <1>9, <3>3, <4>1, <4>2
    <3> QED
      BY <3>2, <3>3
  <2> QED
    BY <2>1, <2>2 DEF Consecutive
<1>18. w.worker # {} => Op("capability", 0) \in Operations
  BY <1>8 DEF VmInv
<1> QED
  BY <1>6, <1>8, <1>10, <1>11, <1>12, <1>13, <1>14, <1>15, <1>16, <1>17, <1>18
  DEF VmInv, w

\* A stack does not know the unborn.
LEMMA UnbornOffstack ==
    ASSUME NEW v, NEW st, NEW root, StackInv(v, st, root), NEW a, v.status[a] = "unborn"
    PROVE  Offstack(st, a)
BY DEF StackInv, FrameInv, Offstack

-----------------------------------------------------------------------------
(* The rounds of a call *)

\* A call begins with a fresh root (begin_call).
LEMMA BeginCallGood == ASSUME IInv, BeginCall PROVE Good
<1> DEFINE root == NextActor(vm)
           f == Frame(root, "root", "finish", NoOp)
<1>1. /\ root \in Actors /\ stack = <<>> /\ vm' = Spawned(vm, root) /\ stack' = <<f>>
      /\ turn' = "poll" /\ call' = [root |-> root, result |-> "running"]
  BY DEF BeginCall, Spawned
<1> HIDE DEF root
<1>2. /\ VmInv(vm') /\ ~Held(vm', root) /\ vm'.status = [vm.status EXCEPT ![root] = "live"]
      /\ \A b \in Actors : Live(vm, b) => Live(vm', b)
  BY <1>1, SpawnedInv DEF IInv, root
<1>3. vm'.status[root] = "live"
  BY <1>1, <1>2 DEF IInv, VmInv, Runtime
<1>4. f \in FrameType /\ f.actor = root /\ f.pc = "finish"
  BY <1>1 DEF Frame, FrameType
<1> HIDE DEF f
<1>5. FrameInv(vm', f, root)
  BY <1>2, <1>3, <1>4 DEF FrameInv, Holding, Held
<1>6. StackInv(vm', <<>>, root) /\ Len(<<>>) = 0 /\ 1 .. 0 = {}
  BY EmptyStack
<1>7. StackInv(vm', <<>> \o <<f>>, root)
  BY <1>4, <1>5, <1>6, PushStack
<1>8. stack' = <<>> \o <<f>>
  BY <1>1
<1>9. call' \in CallType /\ call'.root = root
  BY <1>1, MaxActorsAssumption DEF CallType, Actors
<1>10. IInv'
  BY <1>1, <1>2, <1>7, <1>8, <1>9 DEF IInv
<1> QED
  BY <1>1, <1>2, <1>10 DEF Good, Harm

\* Steps of the loop alone.
LEMMA TurnGood ==
    ASSUME IInv, vm' = vm, stack' = stack, call' = call, turn' \in {"poll", "service", "step"}
    PROVE  Good
<1>1. SameWorld(vm, vm') /\ vm \in Runtime
  BY DEF SameWorld, IInv, VmInv
<1> QED
  BY <1>1, SameWorldGood DEF Good, IInv

\* Between two rounds only the root's activation is left.
LEMMA OneFrame ==
    ASSUME IInv, NEW t, AtTurn(t)
    PROVE  stack # <<>> /\ Len(stack) = 1 /\ stack[1].actor = call.root /\ call.root \in Actors
<1>1. stack # <<>> /\ Len(stack) = 1
  BY DEF AtTurn
<1> QED
  BY <1>1, FrontStack DEF IInv, StackInv

\* A worker pool that cannot be polled fails the root.
LEMMA PollFailsGood == ASSUME IInv, PollFails PROVE Good
BY FailsHere, OneFrame DEF PollFails

\* A worker completes for the root or for a resident.
LEMMA PollCompletionGood ==
    ASSUME IInv, NEW a \in Actors, NEW ok, PollCompletion(a, ok)
    PROVE  Good
<1> DEFINE kind == IF a = call.root THEN "root" ELSE "reply"
           f == Frame(a, kind, "finish", Op("capability", 0))
           v == [vm EXCEPT !.worker = @ \ {a}]
           below == IF a = call.root THEN <<>> ELSE stack
<1>1. a \in vm.worker /\ Answered(f, v, ok, below)
  BY DEF PollCompletion
<1>2. stack # <<>> /\ Len(stack) = 1 /\ stack[1].actor = call.root
  BY OneFrame DEF PollCompletion
<1>3. vm \in Runtime /\ HeldInv(vm, a) /\ Op("capability", 0) \in Operations
  BY <1>1 DEF IInv, VmInv
<1>4. /\ f \in FrameType /\ f.pc = "finish" /\ f.actor = a
      /\ f.kind = "root" => a = call.root
  BY <1>3 DEF Frame, FrameType
<1>5. /\ v \in Runtime /\ Quiet(vm, v) /\ v.status = vm.status
      /\ v.resident = vm.resident /\ v.worker = vm.worker \ {a}
  BY <1>3 DEF Runtime, Quiet
<1>6. ~Held(v, a) /\ v.status[a] # "unborn"
  BY <1>1, <1>3, <1>5 DEF HeldInv, Held
<1>7. \/ below = <<>> /\ a = call.root
      \/ below = stack /\ Offstack(stack, a)
  BY <1>2 DEF Offstack
<1> HIDE DEF f, v, below
<1> QED
  BY <1>1, <1>2, <1>4, <1>5, <1>6, <1>7, AnsweredGood

\* Who is claimed has parked a capability and runs nowhere.
LEMMA ClaimedEntries ==
    ASSUME IInv, NEW a, Claimed(a)
    PROVE  /\ a \in Actors /\ vm.resident[a] = Op("capability", 0) /\ vm.resident[a] # NoOp
           /\ Op("capability", 0) \in Operations /\ vm.status[a] # "unborn"
           /\ a \notin vm.worker /\ (Live(vm, a) => a \in vm.lease)
           /\ Offstack(stack, a) /\ stack # <<>> /\ call.root \in Actors
<1>1. a = Min(Waiting) /\ Waiting # {} /\ AtTurn("service")
  BY DEF Claimed
<1>2. a \in Waiting
  <2>1. Waiting \in SUBSET Nat
    BY DEF Waiting, Actors
  <2>2. \E m \in Waiting : \A k \in Waiting : m <= k
    BY <1>1, <2>1, LeastNumber
  <2> QED
    BY <1>1, <2>2 DEF Min
<1>3. a \in Actors /\ vm.resident[a].op = "capability" /\ vm \in Runtime /\ HeldInv(vm, a)
  BY <1>2 DEF Waiting, IInv, VmInv
<1>4. vm.resident[a] \in Operations /\ vm.resident[a] # NoOp
  BY <1>3 DEF Runtime, NoOp, Op
<1>5. vm.resident[a] = Op("capability", 0)
  BY <1>3, <1>4, OperationEntries
<1>6. /\ vm.status[a] # "unborn" /\ a \notin vm.worker
      /\ Live(vm, a) => a \in vm.lease
  BY <1>3, <1>4 DEF HeldInv, Held
<1>7. Offstack(stack, a)
  BY <1>4 DEF IInv, StackInv, FrameInv, Offstack
<1> QED
  BY <1>1, <1>3, <1>4, <1>5, <1>6, <1>7, OneFrame

\* The lowest resident that waits for a capability is answered at once.
LEMMA ServeResidentGood ==
    ASSUME IInv, NEW ok, ServeResident(ok)
    PROVE  Good
<1>1. PICK a \in Actors :
        /\ Claimed(a)
        /\ Answered(Frame(a, "serve", "finish", Op("capability", 0)),
                    [vm EXCEPT !.resident[a] = NoOp,
                               !.helper = IF ok THEN @ \union {a} ELSE @], ok, stack)
  BY DEF ServeResident
<1> DEFINE f == Frame(a, "serve", "finish", Op("capability", 0))
           v == [vm EXCEPT !.resident[a] = NoOp,
                           !.helper = IF ok THEN @ \union {a} ELSE @]
<1>2. /\ Op("capability", 0) \in Operations /\ vm.status[a] # "unborn" /\ a \notin vm.worker
      /\ Offstack(stack, a) /\ stack # <<>> /\ vm \in Runtime
  BY <1>1, ClaimedEntries DEF IInv, VmInv
<1>3. f \in FrameType /\ f.pc = "finish" /\ f.actor = a /\ f.kind = "serve"
  BY <1>2 DEF Frame, FrameType
<1>4. v \in Runtime /\ Quiet(vm, v) /\ v.status = vm.status
      /\ v.resident[a] = NoOp /\ v.worker = vm.worker
  BY <1>2 DEF Runtime, Quiet
<1>5. ~Held(v, a) /\ v.status[a] # "unborn"
  BY <1>2, <1>4 DEF Held
<1>6. Answered(f, v, ok, stack)
  BY <1>1
<1> HIDE DEF f, v
<1> QED
  BY <1>2, <1>3, <1>4, <1>5, <1>6, AnsweredGood

\* Its suspension moves from the shard to a worker (submit_postgres,
\* submit_storage).
LEMMA SubmitResidentGood == ASSUME IInv, SubmitResident PROVE Good
<1>1. PICK a \in Actors :
        /\ Claimed(a)
        /\ vm' = [vm EXCEPT !.resident[a] = NoOp,
                            !.helper = @ \union {a},
                            !.worker = @ \union {a}]
        /\ turn' = "step"
        /\ UNCHANGED <<stack, call>>
  BY DEF SubmitResident
<1>2. /\ Op("capability", 0) \in Operations /\ vm.status[a] # "unborn"
      /\ Live(vm, a) => a \in vm.lease
      /\ Offstack(stack, a) /\ vm \in Runtime /\ VmInv(vm)
  BY <1>1, ClaimedEntries DEF IInv, VmInv
<1>3. /\ vm' \in Runtime /\ SameWorld(vm, vm') /\ vm'.lease = vm.lease
      /\ vm'.worker = vm.worker \cup {a} /\ vm'.resident[a] = NoOp
      /\ \A b \in Actors : b # a => vm'.resident[b] = vm.resident[b]
  BY <1>1, <1>2 DEF Runtime, SameWorld
<1>4. VmInv(vm') /\ \A b \in Actors : b # a => Agree(vm, vm', b)
  BY <1>2, <1>3, HandedInv
<1>5. StackInv(vm', stack, call.root)
  <2>1. \A i \in 1 .. Len(stack) : stack[i].actor \in Actors /\ stack[i].actor # a
    <3>1. \A i \in 1 .. Len(stack) : stack[i] \in FrameType
      BY DEF IInv, StackInv
    <3> QED
      BY <1>2, <3>1 DEF FrameType, Offstack
  <2> QED
    BY <1>4, <2>1, AgreeStack DEF IInv
<1>6. IInv'
  BY <1>1, <1>4, <1>5 DEF IInv
<1> QED
  BY <1>2, <1>3, <1>6, SameWorldGood DEF Good

\* The capability is refused, and resident and root fail (begin_capability_call).
LEMMA RefuseResidentGood == ASSUME IInv, RefuseResident PROVE Good
<1>1. PICK a \in Actors :
        /\ Claimed(a)
        /\ EndCall(FinishOwner(FinishOwner([vm EXCEPT !.resident[a] = NoOp], a, "failed"),
                               call.root, "failed"), "error")
  BY DEF RefuseResident
<1> DEFINE r == call.root
           x == [vm EXCEPT !.resident[a] = NoOp]
           y == FinishOwner(x, a, "failed")
           u == FinishOwner(y, r, "failed")
<1>2. vm \in Runtime /\ LinksLive(vm) /\ stack # <<>> /\ r \in Actors
  BY <1>1, ClaimedEntries DEF IInv, VmInv
<1>3. x \in Runtime /\ Quiet(vm, x)
  BY <1>2 DEF Runtime, Quiet
<1>4. EndCall(u, "error")
  BY <1>1
<1> HIDE DEF r, x
<1>5. Lost(vm, x, {}) /\ LinksLive(x)
  BY <1>2, <1>3, QuietLost DEF Lost, Fades
<1>6. Lost(x, y, {a})
  BY <1>3, <1>5, FinishLost
<1> HIDE DEF y
<1>7. Lost(vm, y, {} \cup {a}) /\ y \in Runtime /\ LinksLive(y)
  BY <1>2, <1>5, <1>6, LostThen
<1>8. Lost(y, u, {r})
  BY <1>2, <1>7, FinishLost
<1> HIDE DEF u
<1>9. Lost(vm, u, ({} \cup {a}) \cup {r})
  BY <1>2, <1>7, <1>8, LostThen
<1>10. IInv' /\ Lost(u, vm', {})
  BY <1>2, <1>4, <1>9, EndCallInv DEF Lost
<1>11. Lost(vm, vm', (({} \cup {a}) \cup {r}) \cup {})
  BY <1>2, <1>9, <1>10, LostThen
<1>12. Lost(vm, vm', {a, r})
  <2>1. (({} \cup {a}) \cup {r}) \cup {} \subseteq {a, r}
    OBVIOUS
  <2> QED
    BY <1>11, <2>1, LostMore
<1>13. Harm(vm, vm') /\ Silent(vm, vm')
  BY <1>2, <1>12, FadesSilent DEF Harm, Lost
<1> QED
  BY <1>10, <1>13 DEF Good

\* The root's activation is at a capability.
LEMMA RootAtCapability ==
    ASSUME IInv, Serving("capability")
    PROVE  /\ stack # <<>> /\ Top.actor \in Actors /\ Top \in FrameType /\ Top.pc = "service"
           /\ FrameInv(vm, Top, call.root) /\ ~Held(vm, Top.actor)
           /\ Top.op = Op("capability", 0) /\ Top.op \in Operations
           /\ (Live(vm, Top.actor) => Top.actor \in vm.lease)
<1>1. stack # <<>> /\ Top.pc = "service" /\ Top.op.op = "capability"
  BY DEF Serving
<1>2. /\ FrameInv(vm, Top, call.root) /\ Top \in FrameType /\ Top.actor \in Actors
      /\ ~Held(vm, Top.actor)
  BY <1>1, TopEntries DEF IInv
<1>3. Top.op \in Operations
  BY <1>1, <1>2 DEF FrameType, NoOp, Op
<1>4. Top.op = Op("capability", 0)
  BY <1>1, <1>3, OperationEntries
<1>5. Live(vm, Top.actor) => Top.actor \in vm.lease
  BY <1>1, <1>2 DEF FrameInv, Holding
<1> QED
  BY <1>1, <1>2, <1>3, <1>4, <1>5

\* The root's own capability is answered at once.
LEMMA ServeRootGood ==
    ASSUME IInv, NEW ok, ServeRoot(ok)
    PROVE  Good
<1> DEFINE a == Top.actor
           f == [Top EXCEPT !.pc = "finish"]
           v == [vm EXCEPT !.helper = IF ok THEN @ \union {Top.actor} ELSE @]
<1>1. Serving("capability") /\ Top.kind = "root" /\ Answered(f, v, ok, <<>>)
  BY DEF ServeRoot
<1>2. /\ stack # <<>> /\ a \in Actors /\ Top \in FrameType /\ FrameInv(vm, Top, call.root)
      /\ ~Held(vm, a) /\ vm \in Runtime
  BY <1>1, RootAtCapability DEF IInv, VmInv
<1>3. f \in FrameType /\ f.pc = "finish" /\ f.actor = a
  BY <1>2 DEF FrameType
<1>4. v \in Runtime /\ Quiet(vm, v) /\ v.status = vm.status
      /\ v.resident = vm.resident /\ v.worker = vm.worker
  BY <1>2 DEF Runtime, Quiet
<1>5. a = call.root /\ vm.status[a] # "unborn"
  BY <1>1, <1>2 DEF FrameInv
<1>6. ~Held(v, a) /\ v.status[a] # "unborn"
  BY <1>2, <1>4, <1>5 DEF Held
<1> HIDE DEF a, f, v
<1> QED
  BY <1>1, <1>2, <1>3, <1>4, <1>5, <1>6, AnsweredGood

\* The root waits for a worker.
LEMMA SubmitRootGood == ASSUME IInv, SubmitRoot PROVE Good
<1> DEFINE a == Top.actor
           f == [Top EXCEPT !.pc = "wait"]
<1>1. /\ Serving("capability") /\ Top.kind = "root" /\ stack' = Retop(f)
      /\ vm' = [vm EXCEPT !.helper = @ \union {a}, !.worker = @ \union {a}]
      /\ turn' = "poll" /\ call' = call
  BY DEF SubmitRoot
<1>2. /\ stack # <<>> /\ a \in Actors /\ Top \in FrameType /\ FrameInv(vm, Top, call.root)
      /\ ~Held(vm, a) /\ Op("capability", 0) \in Operations
      /\ (Live(vm, a) => a \in vm.lease) /\ vm \in Runtime /\ VmInv(vm)
  BY <1>1, RootAtCapability DEF IInv, VmInv
<1>3. /\ vm' \in Runtime /\ SameWorld(vm, vm') /\ vm'.lease = vm.lease
      /\ vm'.worker = vm.worker \cup {a} /\ vm'.resident = vm.resident
      /\ vm'.status = vm.status
  BY <1>1, <1>2 DEF Runtime, SameWorld
<1>4. f \in FrameType /\ f.actor = a /\ f.pc = "wait" /\ f.kind = Top.kind
  BY <1>2 DEF FrameType
<1>5. vm.status[a] # "unborn" /\ vm.resident[a] = NoOp /\ a = call.root
  BY <1>1, <1>2 DEF FrameInv
<1> HIDE DEF a, f
<1>6. VmInv(vm') /\ \A b \in Actors : b # a => Agree(vm, vm', b)
  BY <1>2, <1>3, <1>5, HandedInv
<1>7. FrameInv(vm', f, call.root)
  BY <1>3, <1>4, <1>5 DEF FrameInv, Holding
<1>8. StackInv(vm', Retop(f), call.root)
  BY <1>2, <1>4, <1>6, <1>7, RetopStack DEF IInv, a
<1>9. IInv'
  BY <1>1, <1>6, <1>8 DEF IInv
<1> QED
  BY <1>2, <1>3, <1>9, SameWorldGood DEF Good

\* The root completes and ends normally (finish_completed_call).
LEMMA RootCompletesGood == ASSUME IInv, RootCompletes PROVE Good
<1> DEFINE r == call.root
           u == FinishOwner(vm, r, "normal")
<1>1. stack # <<>> /\ EndCall(u, "ok") /\ vm \in Runtime /\ LinksLive(vm) /\ r \in Actors
  BY FrontStack DEF RootCompletes, Serving, IInv, VmInv
<1> HIDE DEF r
<1>2. Fades(vm, u) /\ EndsOne(vm, u, r)
  BY <1>1, FinishOwnerCuts DEF Reasons
<1> HIDE DEF u
<1>3. IInv' /\ Fades(vm, vm') /\ Quiet(u, vm')
  BY <1>1, <1>2, EndCallInv
<1>4. EndsOne(vm, vm', r)
  BY <1>2, <1>3 DEF EndsOne, Quiet
<1> QED
  BY <1>1, <1>3, <1>4, FadesSilent DEF Good, Harm

-----------------------------------------------------------------------------
(* The transitions of the running activation *)

\* What a transition that is serviced names.
LEMMA ServingEntries ==
    ASSUME IInv, NEW o, Serving(o)
    PROVE  /\ stack # <<>> /\ Top.pc = "service" /\ Top.actor \in Actors
           /\ Top \in FrameType /\ vm \in Runtime /\ LinksLive(vm) /\ MonitorsExact(vm)
           /\ Leased => Live(vm, Top.actor)
           /\ o \in {"send", "link", "unlink", "monitor", "cancel"} => Top.op.to \in Actors
<1>1. stack # <<>> /\ Top.pc = "service" /\ Top.op.op = o
  BY DEF Serving
<1>2. Top \in FrameType /\ Top.actor \in Actors
  BY <1>1, TopEntries DEF IInv
<1>3. vm \in Runtime /\ LinksLive(vm) /\ MonitorsExact(vm)
  BY DEF IInv, VmInv
<1>4. Leased => Live(vm, Top.actor)
  BY DEF IInv, VmInv, LeasesLive, Leased
<1>5. ASSUME o \in {"send", "link", "unlink", "monitor", "cancel"}
      PROVE  Top.op.to \in Actors
  <2>1. Top.op \in Operations
    BY <1>1, <1>2, <1>5 DEF FrameType, NoOp, Op
  <2> QED
    BY <1>1, <1>5, <2>1, OperationEntries
<1> QED
  BY <1>1, <1>2, <1>3, <1>4, <1>5

\* Send: one message more for an actor that lives, or an error.
LEMMA ServiceSendGood == ASSUME IInv, ServiceSend PROVE Good
<1> DEFINE to == Top.op.to
           v == [vm EXCEPT !.mail[to] = @ + 1]
<1>1. /\ stack # <<>> /\ Top.pc = "service" /\ vm \in Runtime /\ to \in Actors
      /\ LinksLive(vm) /\ MonitorsExact(vm)
  BY ServingEntries DEF ServiceSend
<1>2. CASE ~(Leased /\ Live(vm, to))
  BY <1>1, <1>2, FailsHere DEF ServiceSend
<1>3. CASE Leased /\ Live(vm, to)
  <2>1. vm.mail[to] < MaxMail /\ Served(v)
    BY <1>3 DEF ServiceSend
  <2> HIDE DEF to
  <2>2. vm.mail[to] + 1 \in 0 .. MaxMail
    BY <1>1, <2>1, ResidentAssumption DEF Runtime
  <2>3. /\ v \in Runtime /\ v.status = vm.status /\ v.lease = vm.lease
        /\ v.resident = vm.resident /\ v.worker = vm.worker
        /\ v.links = vm.links /\ v.monitors = vm.monitors
    BY <1>1, <2>2 DEF Runtime
  <2> HIDE DEF v
  <2>4. LinksLive(v) /\ MonitorsExact(v)
    BY <1>1, <2>3 DEF LinksLive, MonitorsExact, MonitorExact, Live
  <2> QED
    BY <1>1, <1>3, <2>1, <2>3, <2>4, ServedGood
<1> QED
  BY <1>2, <1>3

\* Receive: one message less, a parked suspension, or an error.
LEMMA ServiceReceiveGood == ASSUME IInv, ServiceReceive PROVE Good
<1> DEFINE a == Top.actor
           v == [vm EXCEPT !.mail[a] = @ - 1]
<1>1. /\ stack # <<>> /\ Top.pc = "service" /\ vm \in Runtime /\ a \in Actors
      /\ LinksLive(vm) /\ MonitorsExact(vm) /\ Top \in FrameType /\ Top.op.op = "receive"
  BY ServingEntries DEF ServiceReceive, Serving
<1>2. CASE ~Leased
  BY <1>1, <1>2, FailsHere DEF ServiceReceive
<1>3. CASE Leased /\ vm.mail[a] > 0
  <2>1. Served(v)
    BY <1>3 DEF ServiceReceive
  <2> HIDE DEF a
  <2>2. vm.mail[a] - 1 \in 0 .. MaxMail
    BY <1>1, <1>3, ResidentAssumption DEF Runtime
  <2>3. /\ v \in Runtime /\ v.status = vm.status /\ v.lease = vm.lease
        /\ v.resident = vm.resident /\ v.worker = vm.worker
        /\ v.links = vm.links /\ v.monitors = vm.monitors
    BY <1>1, <2>2 DEF Runtime
  <2> HIDE DEF v
  <2>4. LinksLive(v) /\ MonitorsExact(v)
    BY <1>1, <2>3 DEF LinksLive, MonitorsExact, MonitorExact, Live
  <2> QED
    BY <1>1, <1>3, <2>1, <2>3, <2>4, ServedGood
<1>4. CASE Leased /\ ~(vm.mail[a] > 0)
  <2>1. Park(Top, vm)
    BY <1>4 DEF ServiceReceive
  <2>2. Top.op \in Operations \cup {NoOp}
    BY <1>1 DEF FrameType, Op
  <2>3. ~Held(vm, a)
    BY <1>1, TopEntries DEF IInv
  <2>4. IInv' /\ SameWorld(vm, vm')
    BY <1>1, <1>4, <2>1, <2>2, <2>3, ParkInv DEF IInv, Leased
  <2> QED
    BY <1>1, <2>4, SameWorldGood DEF Good
<1> QED
  BY <1>2, <1>3, <1>4

\* Spawn: the child's first slice on top of the parent's activation.
LEMMA ServiceSpawnGood == ASSUME IInv, ServiceSpawn PROVE Good
<1> DEFINE a == Top.actor
           child == NextActor(vm)
           f == [Top EXCEPT !.pc = "finish"]
           h == Frame(child, "child", "finish", NoOp)
           w == Spawned(vm, child)
<1>1. /\ stack # <<>> /\ Top.pc = "service" /\ vm \in Runtime /\ a \in Actors
      /\ Top \in FrameType /\ (Leased => Live(vm, a)) /\ VmInv(vm)
      /\ StackInv(vm, stack, call.root)
  BY ServingEntries DEF ServiceSpawn, IInv
<1>2. CASE ~Leased
  BY <1>1, <1>2, FailsHere DEF ServiceSpawn
<1>3. CASE Leased
  <2>1. /\ child \in Actors
        /\ vm' = [SpawnActor(vm, child) EXCEPT !.lease = @ \ {a}, !.heap = @ \union {child}]
        /\ stack' = Retop(f) \o <<h>>
        /\ turn' \in {"poll", turn} /\ call' = call
    BY <1>3 DEF ServiceSpawn
  <2>2. vm' = Consumed(w, a)
    BY <1>1, <2>1 DEF Spawned, Consumed, SpawnActor, Runtime
  <2>3. /\ f \in FrameType /\ f.actor = a /\ f.pc = "finish" /\ f.kind = Top.kind
    BY <1>1 DEF FrameType
  <2>4. /\ h \in FrameType /\ h.actor = child /\ h.pc = "finish" /\ h.kind = "child"
    BY <2>1 DEF Frame, FrameType
  <2> HIDE DEF f, h, w
  <2>5. /\ vm.status[child] = "unborn" /\ VmInv(w) /\ ~Held(w, child)
        /\ w.status = [vm.status EXCEPT ![child] = "live"]
        /\ \A b \in Actors : b # child => Agree(vm, w, b)
        /\ \A b \in Actors : Live(vm, b) => Live(w, b)
    BY <1>1, <2>1, SpawnedInv DEF w
  <2> HIDE DEF child
  <2>6. Offstack(stack, child) /\ a # child
    <3>1. FrameInv(vm, Top, call.root)
      BY <1>1, TopEntries
    <3> QED
      BY <1>1, <2>5, <3>1, UnbornOffstack DEF FrameInv
  <2>7. StackInv(w, stack, call.root)
    <3>1. \A i \in 1 .. Len(stack) : stack[i].actor \in Actors /\ stack[i].actor # child
      <4>1. \A i \in 1 .. Len(stack) : stack[i] \in FrameType
        BY <1>1 DEF StackInv
      <4> QED
        BY <2>6, <4>1 DEF FrameType, Offstack
    <3> QED
      BY <1>1, <2>5, <3>1, AgreeStack
  <2>8. FrameInv(w, Top, call.root) /\ ~Held(w, a)
    BY <1>1, <2>7, TopEntries
  <2>9. /\ VmInv(vm') /\ ~Held(vm', a) /\ vm'.status = w.status
        /\ \A b \in Actors : b # a => Agree(w, vm', b)
        /\ vm'.resident = w.resident
    BY <1>1, <2>2, <2>5, <2>8, ConsumedInv
  <2>10. FrameInv(vm', f, call.root)
    <3>1. w.status[a] # "unborn" /\ (f.kind = "root" => a = call.root)
      BY <2>3, <2>8 DEF FrameInv, a
    <3> QED
      BY <2>3, <2>9, <3>1 DEF FrameInv, Holding, Held
  <2>11. StackInv(vm', Retop(f), call.root) /\ Offstack(Retop(f), child) /\ Retop(f) # <<>>
    BY <1>1, <2>1, <2>3, <2>6, <2>7, <2>9, <2>10, RetopStack
  <2>12. FrameInv(vm', h, call.root)
    <3>1. w.status[child] = "live" /\ w.resident[child] = NoOp /\ child \notin w.worker
      BY <1>1, <2>1, <2>5 DEF Runtime, Held
    <3>2. Agree(w, vm', child)
      BY <2>1, <2>6, <2>9
    <3> QED
      BY <2>4, <3>1, <3>2 DEF FrameInv, Holding, Agree
  <2>13. StackInv(vm', Retop(f) \o <<h>>, call.root)
    BY <2>4, <2>11, <2>12, PushStack DEF Offstack
  <2>14. IInv'
    BY <2>1, <2>9, <2>13 DEF IInv
  <2>15. \A b \in Actors : Live(vm, b) => Live(vm', b)
    BY <2>5, <2>9 DEF Live
  <2> QED
    BY <1>1, <1>3, <2>14, <2>15 DEF Good, Harm
<1> QED
  BY <1>2, <1>3

\* Link: of two different actors that live.
LEMMA ServiceLinkGood == ASSUME IInv, ServiceLink PROVE Good
<1> DEFINE a == Top.actor
           to == Top.op.to
           v == LinkActors(vm, a, to)
<1>1. /\ stack # <<>> /\ Top.pc = "service" /\ vm \in Runtime /\ a \in Actors /\ to \in Actors
      /\ LinksLive(vm) /\ MonitorsExact(vm) /\ (Leased => Live(vm, a))
  BY ServingEntries DEF ServiceLink
<1>2. CASE ~(Leased /\ to # a /\ Live(vm, to))
  BY <1>1, <1>2, FailsHere DEF ServiceLink
<1>3. CASE Leased /\ to # a /\ Live(vm, to)
  <2>1. Served(v)
    BY <1>3 DEF ServiceLink
  <2> HIDE DEF a, to
  <2>2. {a, to} \in Pairs
    <3>1. IsFiniteSet({a}) /\ Cardinality({a}) = 1
      BY FS_Singleton
    <3>2. Cardinality({a} \cup {to}) = 2
      BY <1>3, <3>1, FS_AddElement
    <3>3. {a} \cup {to} = {a, to}
      OBVIOUS
    <3> QED
      BY <1>1, <3>2, <3>3 DEF Pairs
  <2>3. /\ v \in Runtime /\ v.status = vm.status /\ v.lease = vm.lease
        /\ v.resident = vm.resident /\ v.worker = vm.worker
        /\ v.links = vm.links \cup {{a, to}} /\ v.monitors = vm.monitors
    BY <1>1, <2>2 DEF Runtime, LinkActors
  <2> HIDE DEF v
  <2>4. LinksLive(v) /\ MonitorsExact(v)
    BY <1>1, <1>3, <2>3 DEF LinksLive, MonitorsExact, MonitorExact, Live
  <2> QED
    BY <1>1, <1>3, <2>1, <2>3, <2>4, ServedGood
<1> QED
  BY <1>2, <1>3

\* Unlink.
LEMMA ServiceUnlinkGood == ASSUME IInv, ServiceUnlink PROVE Good
<1> DEFINE a == Top.actor
           to == Top.op.to
           v == UnlinkActors(vm, a, to)
<1>1. /\ stack # <<>> /\ Top.pc = "service" /\ vm \in Runtime /\ a \in Actors /\ to \in Actors
      /\ LinksLive(vm) /\ MonitorsExact(vm)
  BY ServingEntries DEF ServiceUnlink
<1>2. CASE ~(Leased /\ to # a /\ Live(vm, to))
  BY <1>1, <1>2, FailsHere DEF ServiceUnlink
<1>3. CASE Leased /\ to # a /\ Live(vm, to)
  <2>1. Served(v)
    BY <1>3 DEF ServiceUnlink
  <2> HIDE DEF a, to
  <2>2. /\ v \in Runtime /\ v.status = vm.status /\ v.lease = vm.lease
        /\ v.resident = vm.resident /\ v.worker = vm.worker
        /\ v.links = vm.links \ {{a, to}} /\ v.monitors = vm.monitors
    BY <1>1 DEF Runtime, UnlinkActors
  <2> HIDE DEF v
  <2>3. LinksLive(v) /\ MonitorsExact(v)
    BY <1>1, <2>2 DEF LinksLive, MonitorsExact, MonitorExact, Live
  <2> QED
    BY <1>1, <1>3, <2>1, <2>2, <2>3, ServedGood
<1> QED
  BY <1>2, <1>3

\* Monitor: a target that is gone already is reported at once
\* (monitor_or_complete).
LEMMA ServiceMonitorGood == ASSUME IInv, ServiceMonitor PROVE Good
<1> DEFINE a == Top.actor
           to == Top.op.to
           state == IF Live(vm, to) THEN "active" ELSE "told"
           m == [watcher |-> a, target |-> to, state |-> state]
           v == MonitorActor(vm, a, to)
<1>1. /\ stack # <<>> /\ Top.pc = "service" /\ vm \in Runtime /\ a \in Actors /\ to \in Actors
      /\ LinksLive(vm) /\ MonitorsExact(vm) /\ (Leased => Live(vm, a))
  BY ServingEntries DEF ServiceMonitor
<1>2. CASE ~(Leased /\ Known(vm, to))
  BY <1>1, <1>2, FailsHere DEF ServiceMonitor
<1>3. CASE Leased /\ Known(vm, to)
  <2>1. Served(v)
    BY <1>3 DEF ServiceMonitor
  <2> HIDE DEF a, to
  <2>2. m \in Monitors
    BY <1>1 DEF Monitors
  <2>3. /\ v \in Runtime /\ v.status = vm.status /\ v.lease = vm.lease
        /\ v.resident = vm.resident /\ v.worker = vm.worker
        /\ v.links = vm.links /\ v.monitors = Append(vm.monitors, m)
    <3> DEFINE u == Append(vm.monitors, m)
    <3>1. v = [vm EXCEPT !.monitors = u]
      BY <1>1 DEF MonitorActor, Runtime
    <3> HIDE DEF v, m
    <3>2. u \in Seq(Monitors)
      BY <1>1, <2>2 DEF Runtime
    <3> HIDE DEF u
    <3>3. /\ v \in Runtime /\ v.status = vm.status /\ v.lease = vm.lease
          /\ v.resident = vm.resident /\ v.worker = vm.worker
          /\ v.links = vm.links /\ v.monitors = u
      BY <1>1, <3>1, <3>2 DEF Runtime
    <3> QED
      BY <3>3 DEF u
  <2>4. m.watcher = a /\ m.target = to
        /\ m.state = IF Live(vm, to) THEN "active" ELSE "told"
    OBVIOUS
  <2> HIDE DEF v, m
  <2>5. MonitorExact(vm, m)
    BY <1>1, <1>3, <2>4 DEF MonitorExact, Known, Live
  <2>6. /\ Len(Append(vm.monitors, m)) = Len(vm.monitors) + 1 /\ Len(vm.monitors) \in Nat
        /\ \A r \in 1 .. Len(vm.monitors) : Append(vm.monitors, m)[r] = vm.monitors[r]
        /\ Append(vm.monitors, m)[Len(vm.monitors) + 1] = m
    BY <1>1, <2>2 DEF Runtime
  <2>7. \A r \in 1 .. Len(v.monitors) : MonitorExact(vm, v.monitors[r])
    <3>1. \A r \in 1 .. Len(vm.monitors) + 1 :
             r \in 1 .. Len(vm.monitors) \/ r = Len(vm.monitors) + 1
      BY <2>6
    <3> QED
      BY <1>1, <2>3, <2>5, <2>6, <3>1 DEF MonitorsExact
  <2>8. LinksLive(v) /\ MonitorsExact(v)
    BY <1>1, <2>3, <2>7 DEF LinksLive, MonitorsExact, MonitorExact, Live
  <2> QED
    BY <1>1, <1>3, <2>1, <2>3, <2>8, ServedGood
<1> QED
  BY <1>2, <1>3

\* Demonitor: only by its watcher.
LEMMA ServiceDemonitorGood == ASSUME IInv, ServiceDemonitor PROVE Good
<1> DEFINE r == Top.op.to
           active == r \in DOMAIN vm.monitors /\ vm.monitors[r].state = "active"
           v == IF active THEN DemonitorActor(vm, r) ELSE vm
<1>1. /\ stack # <<>> /\ Top.pc = "service" /\ vm \in Runtime
      /\ LinksLive(vm) /\ MonitorsExact(vm)
  BY ServingEntries DEF ServiceDemonitor
<1>2. CASE ~Leased \/ (active /\ vm.monitors[r].watcher # Top.actor)
  BY <1>1, <1>2, FailsHere DEF ServiceDemonitor
<1>3. CASE ~(~Leased \/ (active /\ vm.monitors[r].watcher # Top.actor))
  <2>1. Served(v)
    BY <1>3 DEF ServiceDemonitor
  <2> HIDE DEF r
  <2>2. CASE ~active
    BY <1>1, <1>3, <2>1, <2>2, ServedGood
  <2>3. CASE active
    <3> DEFINE n == Len(vm.monitors)
               m == [vm.monitors[r] EXCEPT !.state = "dropped"]
               u == [vm.monitors EXCEPT ![r] = m]
    <3>1. r \in 1 .. n /\ n \in Nat /\ vm.monitors \in Seq(Monitors)
          /\ vm.monitors[r] \in Monitors
      BY <1>1, <2>3 DEF Runtime
    <3>2. m \in Monitors /\ m.watcher = vm.monitors[r].watcher
          /\ m.target = vm.monitors[r].target /\ m.state = "dropped"
      BY <3>1 DEF Monitors
    <3> HIDE DEF m
    <3>3. u \in Seq(Monitors) /\ Len(u) = n /\ u[r] = m
          /\ \A i \in 1 .. n : i # r => u[i] = vm.monitors[i]
      BY <3>1, <3>2
    <3>4. v = [vm EXCEPT !.monitors = u]
      BY <1>1, <2>3 DEF DemonitorActor, Runtime, m
    <3> HIDE DEF u, v
    <3>5. /\ v \in Runtime /\ v.status = vm.status /\ v.lease = vm.lease
          /\ v.resident = vm.resident /\ v.worker = vm.worker
          /\ v.links = vm.links /\ v.monitors = u
      BY <1>1, <3>3, <3>4 DEF Runtime
    <3>6. \A i \in 1 .. n : MonitorExact(vm, u[i])
      <4> SUFFICES ASSUME NEW i \in 1 .. n PROVE MonitorExact(vm, u[i])
        OBVIOUS
      <4>1. MonitorExact(vm, vm.monitors[i])
        BY <1>1 DEF MonitorsExact
      <4>2. CASE i = r
        BY <3>2, <3>3, <4>1, <4>2 DEF MonitorExact
      <4>3. CASE i # r
        BY <3>3, <4>1, <4>3
      <4> QED
        BY <4>2, <4>3
    <3>7. LinksLive(v) /\ MonitorsExact(v)
      BY <1>1, <3>3, <3>5, <3>6 DEF LinksLive, MonitorsExact, MonitorExact, Live
    <3> QED
      BY <1>1, <1>3, <2>1, <3>5, <3>7, ServedGood
  <2> QED
    BY <2>2, <2>3
<1> QED
  BY <1>2, <1>3

\* Cancel: a request of an actor that lives, to an actor that lives.
LEMMA ServiceCancellationGood == ASSUME IInv, ServiceCancellation PROVE Good
<1> DEFINE to == Top.op.to
           v == [vm EXCEPT !.cancelled = @ \union {to}]
<1>1. /\ stack # <<>> /\ Top.pc = "service" /\ vm \in Runtime /\ to \in Actors
      /\ LinksLive(vm) /\ MonitorsExact(vm)
  BY ServingEntries DEF ServiceCancellation
<1>2. CASE ~(Leased /\ Live(vm, to))
  BY <1>1, <1>2, FailsHere DEF ServiceCancellation
<1>3. CASE Leased /\ Live(vm, to)
  <2>1. Served(v)
    BY <1>3 DEF ServiceCancellation
  <2> HIDE DEF to
  <2>2. /\ v \in Runtime /\ v.status = vm.status /\ v.lease = vm.lease
        /\ v.resident = vm.resident /\ v.worker = vm.worker
        /\ v.links = vm.links /\ v.monitors = vm.monitors
    BY <1>1 DEF Runtime
  <2> HIDE DEF v
  <2>3. LinksLive(v) /\ MonitorsExact(v)
    BY <1>1, <2>2 DEF LinksLive, MonitorsExact, MonitorExact, Live
  <2> QED
    BY <1>1, <1>3, <2>1, <2>2, <2>3, ServedGood
<1> QED
  BY <1>2, <1>3

\* Fail: the actor and whoever it is linked with.
LEMMA ServiceFailureGood == ASSUME IInv, ServiceFailure PROVE Good
<1> DEFINE a == Top.actor
           v == ExitActor(vm, a, "failed")
<1>1. /\ stack # <<>> /\ Top.pc = "service" /\ vm \in Runtime /\ a \in Actors
      /\ LinksLive(vm) /\ (Leased => Live(vm, a))
  BY ServingEntries DEF ServiceFailure
<1>2. CASE ~Leased
  BY <1>1, <1>2, FailsHere DEF ServiceFailure
<1>3. CASE Leased
  <2>1. Served(v)
    BY <1>3 DEF ServiceFailure
  <2>2. Lost(vm, v, {a})
    BY <1>1, ExitLost
  <2> HIDE DEF v
  <2>3. VmInv(v) /\ StackInv(v, stack, call.root)
    BY <2>2, FadeVm, FadeStack DEF IInv, Lost
  <2>4. IInv' /\ SameWorld(v, vm')
    BY <1>1, <2>1, <2>3, ServedInv
  <2>5. CutWithin(vm, vm', {a})
    BY <2>2, <2>4 DEF Lost, CutWithin, Cut, SameWorld
  <2>6. Harm(vm, vm')
    <3>1. {a, a} = {a}
      OBVIOUS
    <3>2. CutWithin(vm, vm', {a, a})
      BY <2>5, <3>1
    <3> QED
      BY <1>1, <3>2 DEF Harm
  <2> QED
    BY <1>1, <1>3, <2>4, <2>6 DEF Good
<1> QED
  BY <1>2, <1>3

\* A spawned actor parks on a capability.
LEMMA ParkCapabilityGood == ASSUME IInv, ParkCapability PROVE Good
<1>1. /\ stack # <<>> /\ Top.op \in Operations /\ ~Held(vm, Top.actor)
      /\ (Live(vm, Top.actor) => Top.actor \in vm.lease) /\ vm \in Runtime
  BY RootAtCapability DEF ParkCapability, IInv, VmInv
<1>2. Park(Top, vm)
  BY DEF ParkCapability
<1>3. IInv' /\ SameWorld(vm, vm')
  BY <1>1, <1>2, ParkInv DEF IInv
<1> QED
  BY <1>1, <1>3, SameWorldGood DEF Good

-----------------------------------------------------------------------------
(* Slices *)

\* A slice of an actor that was cancelled or has exited is refused
\* (enforce_native_cancellation_boundary).
LEMMA SliceRefusedGood == ASSUME IInv, SliceRefused PROVE Good
<1> DEFINE a == Top.actor
           v == IF a \in vm.cancelled THEN ExitActor(vm, a, "failed") ELSE vm
<1>1. /\ stack # <<>> /\ a \in Actors /\ Top \in FrameType /\ vm \in Runtime
      /\ LinksLive(vm) /\ FailFrame(Top, v)
  BY TopEntries DEF SliceRefused, Slicing, IInv, VmInv
<1>2. Lost(vm, v, {a})
  <2>1. Quiet(vm, vm)
    BY DEF Quiet
  <2>2. Lost(vm, vm, {a}) /\ Lost(vm, ExitActor(vm, a, "failed"), {a})
    BY <1>1, <2>1, QuietLost, ExitLost
  <2> QED
    BY <2>2
<1> HIDE DEF v
<1> QED
  BY <1>1, <1>2, FailGood

\* A slice that traps fails its actor.
LEMMA SliceTrapsGood == ASSUME IInv, SliceTraps PROVE Good
BY FailsHere DEF SliceTraps, Slicing

\* The activation whose slice has ended.
LEMMA SlicingEntries ==
    ASSUME IInv, Slicing
    PROVE  /\ stack # <<>> /\ Top \in FrameType /\ Top.actor \in Actors
           /\ FrameInv(vm, Top, call.root) /\ ~Held(vm, Top.actor)
           /\ vm \in Runtime /\ VmInv(vm) /\ StackInv(vm, stack, call.root)
           /\ Driven(Top) \in {"root", "child", "resident", "served"}
           /\ (Driven(Top) = "root" => Top.actor = call.root)
<1>1. stack # <<>> /\ Top.pc = "finish" /\ VmInv(vm) /\ StackInv(vm, stack, call.root)
  BY DEF Slicing, IInv
<1>2. /\ Top \in FrameType /\ Top.actor \in Actors
      /\ FrameInv(vm, Top, call.root) /\ ~Held(vm, Top.actor)
  BY <1>1, TopEntries
<1>3. Driven(Top) \in {"root", "child", "resident", "served"}
  BY <1>2 DEF Driven, FrameType
<1>4. Driven(Top) = "root" => Top.actor = call.root
  BY <1>2 DEF Driven, FrameInv
<1> QED
  BY <1>1, <1>2, <1>3, <1>4 DEF VmInv

\* A slice that completes its actor.
LEMMA SliceCompletesGood == ASSUME IInv, SliceCompletes PROVE Good
<1> DEFINE f == [Top EXCEPT !.op = Op("done", 0), !.kind = Driven(Top)]
<1>1. /\ stack # <<>> /\ Top \in FrameType /\ Top.actor \in Actors
      /\ ~Held(vm, Top.actor) /\ vm \in Runtime /\ VmInv(vm)
      /\ StackInv(vm, stack, call.root)
      /\ Driven(Top) \in {"root", "child", "resident", "served"}
      /\ (Driven(Top) = "root" => Top.actor = call.root)
  BY SlicingEntries DEF SliceCompletes
<1>2. Sliced(f, vm)
  BY DEF SliceCompletes
<1>3. /\ f \in FrameType /\ f.actor = Top.actor /\ f.kind = Driven(Top)
      /\ f.op.op = "done"
  BY <1>1 DEF FrameType, Op
<1> HIDE DEF f
<1>4. /\ IInv' /\ Silent(vm, vm')
      /\ SameWorld(vm, vm') \/ EndsOne(vm, vm', Top.actor)
  BY <1>1, <1>2, <1>3, SlicedInv
<1> QED
  BY <1>1, <1>4, SameWorldGood DEF Good, Harm

\* The lease of a live actor is back.
LEMMA LeasedInv ==
    ASSUME NEW v, VmInv(v), NEW a \in Actors, Live(v, a), ~Held(v, a),
           NEW w, w = [v EXCEPT !.lease = @ \cup {a}]
    PROVE  VmInv(w) /\ SameWorld(v, w) /\ ~Held(w, a) /\ a \in w.lease
           /\ \A b \in Actors : Agree(v, w, b)
<1>1. v \in Runtime
  BY DEF VmInv
<1>2. /\ w \in Runtime /\ SameWorld(v, w) /\ w.lease = v.lease \cup {a}
      /\ w.resident = v.resident /\ w.worker = v.worker /\ w.status = v.status
  BY <1>1 DEF Runtime, SameWorld
<1>3. \A b \in Actors : Agree(v, w, b) /\ HeldInv(w, b)
  BY <1>2 DEF Agree, VmInv, HeldInv, Held, Live
<1>4. LeasesLive(w) /\ LinksLive(w) /\ MonitorsExact(w)
  BY <1>2 DEF VmInv, LeasesLive, LinksLive, MonitorsExact, MonitorExact, Live, SameWorld
<1>5. Consecutive(w)
  BY <1>2 DEF VmInv, Consecutive
<1> QED
  BY <1>2, <1>3, <1>4, <1>5 DEF VmInv, Held

\* A slice that suspends again takes a new lease (park_native_continuation).
LEMMA SliceSuspendsGood ==
    ASSUME IInv, NEW o, NEW again \in BOOLEAN, SliceSuspends(o, again)
    PROVE  Good
<1> DEFINE a == Top.actor
           park == again /\ Top.kind \in {"child", "resident", "served"}
           f == [Top EXCEPT !.op = o, !.kind = Driven(Top), !.park = park]
           v == [vm EXCEPT !.lease = @ \union {Top.actor}]
<1>1. /\ stack # <<>> /\ Top \in FrameType /\ a \in Actors
      /\ ~Held(vm, a) /\ vm \in Runtime /\ VmInv(vm)
      /\ StackInv(vm, stack, call.root)
      /\ Driven(Top) \in {"root", "child", "resident", "served"}
      /\ (Driven(Top) = "root" => a = call.root)
  BY SlicingEntries DEF SliceSuspends
<1>2. Sliced(f, v) /\ Live(vm, a)
  BY DEF SliceSuspends, Admitted
<1>3. o \in Operations
  BY <1>1 DEF SliceSuspends, Operations
<1>4. f \in FrameType /\ f.actor = a /\ f.kind = Driven(Top)
  BY <1>1, <1>3 DEF FrameType
<1>5. VmInv(v) /\ SameWorld(vm, v) /\ ~Held(v, a) /\ a \in v.lease
      /\ \A b \in Actors : Agree(vm, v, b)
  BY <1>1, <1>2, LeasedInv
<1> HIDE DEF a, f, v
<1>6. StackInv(v, stack, call.root)
  BY <1>1, <1>5, AgreedStack
<1>7. /\ IInv' /\ Silent(v, vm')
      /\ SameWorld(v, vm') \/ EndsOne(v, vm', a)
  BY <1>1, <1>2, <1>4, <1>5, <1>6, SlicedInv DEF a
<1>8. Harm(vm, vm')
  <2>1. CASE SameWorld(v, vm')
    BY <1>5, <2>1 DEF SameWorld, Harm, Live
  <2>2. CASE EndsOne(v, vm', a)
    <3>1. EndsOne(vm, vm', a)
      BY <1>5, <2>2 DEF SameWorld, EndsOne
    <3> QED
      BY <1>1, <3>1 DEF Harm
  <2> QED
    BY <1>7, <2>1, <2>2
<1> QED
  BY <1>2, <1>7, <1>8 DEF Good, a

\* The driven recipient is done and the sender goes on.
LEMMA DriveReturnsGood == ASSUME IInv, DriveReturns PROVE Good
<1>1. stack # <<>> /\ Top.pc = "settle" /\ Settle(Top, vm) /\ VmInv(vm)
      /\ StackInv(vm, stack, call.root) /\ vm \in Runtime
  BY DEF DriveReturns, IInv, VmInv
<1>2. /\ FrameInv(vm, Top, call.root) /\ Top \in FrameType /\ Top.actor \in Actors
      /\ ~Held(vm, Top.actor)
  BY <1>1, TopEntries
<1>3. /\ Top.kind = "root" => Top.actor = call.root
      /\ Top.op.op # "done" /\ Live(vm, Top.actor) => Top.actor \in vm.lease
  BY <1>1, <1>2 DEF FrameInv, Holding
<1>4. /\ IInv' /\ Silent(vm, vm')
      /\ SameWorld(vm, vm') \/ EndsOne(vm, vm', Top.actor)
  BY <1>1, <1>2, <1>3, SettleInv
<1> QED
  BY <1>1, <1>2, <1>4, SameWorldGood DEF Good, Harm

-----------------------------------------------------------------------------
(* The invariant *)

\* Before the first call nobody was born.
LEMMA InitInv == Init => IInv
<1> SUFFICES ASSUME Init PROVE IInv
  OBVIOUS
<1>1. vm = [status    |-> [a \in Actors |-> "unborn"],
            reaped    |-> {},
            cancelled |-> {},
            links     |-> {},
            monitors  |-> <<>>,
            mail      |-> [a \in Actors |-> 0],
            lease     |-> {},
            heap      |-> {},
            resident  |-> [a \in Actors |-> NoOp],
            worker    |-> {},
            helper    |-> {}]
  BY DEF Init
<1>2. vm \in Runtime
  <2>1. [a \in Actors |-> 0] \in [Actors -> 0 .. MaxMail]
    BY ResidentAssumption
  <2>2. <<>> \in Seq(Monitors)
    OBVIOUS
  <2>3. [a \in Actors |-> "unborn"] \in [Actors -> {"unborn", "live"} \cup Reasons]
        /\ [a \in Actors |-> NoOp] \in [Actors -> Operations \cup {NoOp}]
    OBVIOUS
  <2> QED
    BY <1>1, <2>1, <2>2, <2>3 DEF Runtime
<1>3. /\ vm.lease = {} /\ vm.links = {} /\ vm.worker = {} /\ vm.monitors = <<>>
      /\ \A a \in Actors : vm.status[a] = "unborn" /\ vm.resident[a] = NoOp
  BY <1>1
<1>4. LeasesLive(vm) /\ LinksLive(vm) /\ MonitorsExact(vm)
  <2>1. Len(vm.monitors) = 0 /\ 1 .. 0 = {}
    BY <1>3
  <2> QED
    BY <1>3, <2>1 DEF LeasesLive, LinksLive, MonitorsExact
<1>5. \A a \in Actors : HeldInv(vm, a)
  BY <1>3 DEF HeldInv, Held
<1>6. Consecutive(vm)
  <2>1. 0 \in 0 .. MaxActors /\ \A a \in Actors : vm.status[a] # "unborn" <=> a <= 0
    BY <1>3, MaxActorsAssumption DEF Actors
  <2> QED
    BY <2>1 DEF Consecutive
<1>7. VmInv(vm)
  BY <1>2, <1>3, <1>4, <1>5, <1>6 DEF VmInv
<1>8. stack = <<>> /\ turn = "poll" /\ call \in CallType
  BY MaxActorsAssumption DEF Init, CallType
<1>9. StackInv(vm, stack, call.root)
  BY <1>8, EmptyStack
<1> QED
  BY <1>7, <1>8, <1>9 DEF IInv

\* Every step keeps the invariant, ends actors as an exit does, and does
\* nothing in the name of an actor that is gone.
LEMMA NextGood == ASSUME IInv, [Next]_vars PROVE Good
<1>1. CASE UNCHANGED vars
  BY <1>1, TurnGood DEF vars, IInv
<1>2. CASE BeginCall
  BY <1>2, BeginCallGood
<1>3. CASE Polled \/ NoResidentCapability \/ RootWaits
  BY <1>3, TurnGood DEF Polled, NoResidentCapability, RootWaits
<1>4. CASE PollFails
  BY <1>4, PollFailsGood
<1>5. CASE \E a \in Actors, ok \in Outcomes : PollCompletion(a, ok)
  BY <1>5, PollCompletionGood
<1>6. CASE \E ok \in Outcomes : ServeResident(ok) \/ ServeRoot(ok)
  BY <1>6, ServeResidentGood, ServeRootGood
<1>7. CASE SubmitResident
  BY <1>7, SubmitResidentGood
<1>8. CASE RefuseResident
  BY <1>8, RefuseResidentGood
<1>9. CASE SubmitRoot
  BY <1>9, SubmitRootGood
<1>10. CASE RootCompletes
  BY <1>10, RootCompletesGood
<1>11. CASE ServiceSend
  BY <1>11, ServiceSendGood
<1>12. CASE ServiceReceive
  BY <1>12, ServiceReceiveGood
<1>13. CASE ServiceSpawn
  BY <1>13, ServiceSpawnGood
<1>14. CASE ServiceLink
  BY <1>14, ServiceLinkGood
<1>15. CASE ServiceUnlink
  BY <1>15, ServiceUnlinkGood
<1>16. CASE ServiceMonitor
  BY <1>16, ServiceMonitorGood
<1>17. CASE ServiceDemonitor
  BY <1>17, ServiceDemonitorGood
<1>18. CASE ServiceCancellation
  BY <1>18, ServiceCancellationGood
<1>19. CASE ServiceFailure
  BY <1>19, ServiceFailureGood
<1>20. CASE ParkCapability
  BY <1>20, ParkCapabilityGood
<1>21. CASE SliceRefused
  BY <1>21, SliceRefusedGood
<1>22. CASE SliceTraps
  BY <1>22, SliceTrapsGood
<1>23. CASE SliceCompletes
  BY <1>23, SliceCompletesGood
<1>24. CASE \E o \in Operations, again \in BOOLEAN : SliceSuspends(o, again)
  BY <1>24, SliceSuspendsGood
<1>25. CASE DriveReturns
  BY <1>25, DriveReturnsGood
<1> QED
  BY <1>1, <1>2, <1>3, <1>4, <1>5, <1>6, <1>7, <1>8, <1>9, <1>10, <1>11, <1>12, <1>13,
     <1>14, <1>15, <1>16, <1>17, <1>18, <1>19, <1>20, <1>21, <1>22, <1>23, <1>24, <1>25
  DEF Next

\* The inductive invariant holds in every reachable state.
THEOREM Invariance == Spec => []IInv
<1>1. Init => IInv
  BY InitInv
<1>2. IInv /\ [Next]_vars => IInv'
  BY NextGood DEF Good
<1> QED
  BY <1>1, <1>2, PTL DEF Spec

\* The runtime record, the stack of activations and the loop of the call keep
\* their types through every service, slice, worker answer and exit
\* (execute_root, service_transition, finish_transition_resume).
THEOREM TypeCorrect == Spec => []TypeOK
<1>1. IInv => TypeOK
  <2> SUFFICES ASSUME IInv PROVE TypeOK
    OBVIOUS
  <2>1. vm \in Runtime /\ stack \in Seq(FrameType)
    BY DEF IInv, VmInv, StackInv
  <2>2. /\ vm.status \in [Actors -> {"unborn", "live", "normal", "failed"}]
        /\ \A s \in {vm.reaped, vm.cancelled, vm.lease, vm.heap, vm.worker, vm.helper} :
              s \subseteq Actors
        /\ vm.mail \in [Actors -> 0 .. MaxMail]
        /\ vm.resident \in [Actors -> Operations \union {NoOp}]
    BY <2>1 DEF Runtime, Reasons
  <2>3. \A l \in vm.links : l \subseteq Actors /\ Cardinality(l) = 2
    BY <2>1 DEF Runtime, Pairs
  <2>4. \A i \in DOMAIN stack : stack[i] \in FrameType
    BY <2>1
  <2>5. turn \in {"poll", "service", "step"} /\ call.result \in {"none", "running", "ok", "error"}
    BY DEF IInv, CallType
  <2> QED
    BY <2>2, <2>3, <2>4, <2>5 DEF TypeOK
<1> QED
  BY <1>1, Invariance, PTL

\* A suspension is held in one place, an actor has one activation at most, and
\* the lease is there exactly while a live actor's suspension is held
\* (park_native_continuation, consume_native_continuation,
\* remove_native_continuation_for_owner).
THEOREM LeasesAreExact == Spec => []LeaseExact
<1>1. IInv => LeaseExact
  <2> SUFFICES ASSUME IInv PROVE LeaseExact
    OBVIOUS
  <2>1. /\ stack \in Seq(FrameType) /\ DOMAIN stack = 1 .. Len(stack)
        /\ \A i \in DOMAIN stack : FrameInv(vm, stack[i], call.root)
        /\ \A i, j \in DOMAIN stack : stack[i].actor = stack[j].actor => i = j
    BY DEF IInv, StackInv
  <2>2. ASSUME NEW a \in Actors
        PROVE  /\ Cardinality(Holders(a)) <= 1
               /\ a \in vm.lease => Live(vm, a)
               /\ Live(vm, a) /\ Holders(a) # {} => a \in vm.lease
    <3>1. HeldInv(vm, a) /\ (a \in vm.lease => Live(vm, a))
      BY DEF IInv, VmInv, LeasesLive
    <3> DEFINE on == {i \in DOMAIN stack : /\ stack[i].actor = a
                                           /\ stack[i].pc \in {"service", "settle"}
                                           /\ stack[i].op.op # "done"}
    <3>2. Holders(a) = on \cup (IF vm.resident[a] # NoOp THEN {0} ELSE {})
                          \cup (IF a \in vm.worker THEN {-1} ELSE {})
      BY DEF Holders
    <3>3. \A i \in on : vm.resident[a] = NoOp /\ a \notin vm.worker
                        /\ (Live(vm, a) => a \in vm.lease)
      BY <2>1 DEF FrameInv, Holding
    <3>4. \A i, j \in on : i = j
      BY <2>1
    <3> HIDE DEF on
    <3>5. Holders(a) = {} \/ \E x : Holders(a) = {x}
      <4>1. CASE vm.resident[a] # NoOp
        <5>1. on = {} /\ a \notin vm.worker
          BY <3>1, <3>3, <4>1 DEF HeldInv
        <5> QED
          BY <3>2, <4>1, <5>1
      <4>2. CASE vm.resident[a] = NoOp /\ a \in vm.worker
        <5>1. on = {}
          BY <3>3, <4>2
        <5> QED
          BY <3>2, <4>2, <5>1
      <4>3. CASE vm.resident[a] = NoOp /\ a \notin vm.worker
        <5>1. Holders(a) = on
          BY <3>2, <4>3
        <5>2. on = {} \/ \E x : on = {x}
          <6>1. ASSUME NEW x \in on PROVE on = {x}
            BY <3>4
          <6> QED
            BY <6>1
        <5> QED
          BY <5>1, <5>2
      <4> QED
        BY <4>1, <4>2, <4>3
    <3>6. Cardinality(Holders(a)) <= 1
      <4>1. CASE Holders(a) = {}
        BY <4>1, FS_EmptySet
      <4>2. CASE \E x : Holders(a) = {x}
        BY <4>2, FS_Singleton
      <4> QED
        BY <3>5, <4>1, <4>2
    <3>7. Live(vm, a) /\ Holders(a) # {} => a \in vm.lease
      <4>1. Holders(a) # {} => on # {} \/ Held(vm, a)
        BY <3>2 DEF Held
      <4> QED
        BY <3>1, <3>3, <4>1 DEF HeldInv
    <3> QED
      BY <3>1, <3>6, <3>7
  <2> QED
    BY <2>1, <2>2 DEF LeaseExact
<1> QED
  BY <1>1, Invariance, PTL

\* A watcher that lives is told exactly when its target is gone, whichever
\* cascade took it (monitor_or_complete, exit_process_inner).
THEOREM DownIsExact == Spec => []DownExact
<1>1. IInv => DownExact
  <2> SUFFICES ASSUME IInv, NEW r \in DOMAIN vm.monitors
               PROVE  LET m == vm.monitors[r]
                      IN  Live(vm, m.watcher) /\ m.state # "dropped" =>
                              (m.state = "told" <=> ~Live(vm, m.target))
    BY DEF DownExact
  <2>1. r \in 1 .. Len(vm.monitors)
    BY DEF IInv, VmInv, Runtime
  <2>2. MonitorExact(vm, vm.monitors[r])
    BY <2>1 DEF IInv, VmInv, MonitorsExact
  <2> QED
    BY <2>2 DEF MonitorExact
<1> QED
  BY <1>1, Invariance, PTL

-----------------------------------------------------------------------------
(* Exits *)

CascadeStep ==
    LET failed == {a \in Actors : Live(vm, a) /\ vm'.status[a] = "failed"}
        normal == {a \in Actors : Live(vm, a) /\ vm'.status[a] = "normal"}
    IN  /\ Cardinality(normal) <= 1
        /\ normal = {} \/ failed = {}
        /\ \E I \in SUBSET failed : Cardinality(I) <= 2 /\ failed = LinkedWith(I)

\* The linked component of the property is that of the proof.
LEMMA LinkedIsJoined == ASSUME NEW I PROVE LinkedWith(I) = Joined(vm, I)
BY DEF LinkedWith, Joined, Closed

\* At most two actors.
LEMMA PairSize ==
    ASSUME NEW a, NEW b, NEW I \in SUBSET {a, b}
    PROVE  Cardinality(I) <= 2
<1>1. IsFiniteSet({a}) /\ Cardinality({a}) = 1
  BY FS_Singleton
<1>2. IsFiniteSet({a} \cup {b}) /\ Cardinality({a} \cup {b}) \in {1, 2}
  <2>1. /\ IsFiniteSet({a} \cup {b})
        /\ Cardinality({a} \cup {b}) =
               IF b \in {a} THEN Cardinality({a}) ELSE Cardinality({a}) + 1
    BY <1>1, FS_AddElement
  <2> QED
    BY <1>1, <2>1
<1>3. {a} \cup {b} = {a, b}
  OBVIOUS
<1>4. Cardinality(I) <= Cardinality({a, b}) /\ Cardinality(I) \in Nat
  BY <1>2, <1>3, FS_Subset, FS_CardinalityType
<1> QED
  BY <1>2, <1>3, <1>4

\* The ways actors end in one step are those the property allows.
LEMMA HarmCascade == ASSUME IInv, Harm(vm, vm') PROVE CascadeStep
<1> DEFINE failed == {a \in Actors : Live(vm, a) /\ vm'.status[a] = "failed"}
           normal == {a \in Actors : Live(vm, a) /\ vm'.status[a] = "normal"}
<1>0. vm \in Runtime /\ LinksLive(vm) /\ LinkedWith({}) = {} /\ Cardinality({}) = 0
  BY JoinedClosed, LinkedIsJoined, FS_EmptySet DEF IInv, VmInv
<1>1. CASE \A a \in Actors : Live(vm, a) => Live(vm', a)
  <2>1. failed = {} /\ normal = {}
    BY <1>1 DEF Live
  <2> QED
    BY <1>0, <2>1 DEF CascadeStep
<1>2. CASE \E a, b \in Actors : CutWithin(vm, vm', {a, b})
  <2>1. PICK a \in Actors, b \in Actors : CutWithin(vm, vm', {a, b})
    BY <1>2
  <2>2. PICK I \in SUBSET {a, b} : Cut(vm, vm', I)
    BY <2>1 DEF CutWithin
  <2>3. I \in SUBSET Actors
    BY <2>2 DEF Cut
  <2>4. I \subseteq Joined(vm, I) /\ Joined(vm, I) \in SUBSET Actors
        /\ \A c \in Joined(vm, I) : Live(vm, c)
    BY <1>0, <2>2, <2>3, JoinedClosed DEF Cut
  <2>5. \A c \in Actors : vm'.status[c] = IF c \in Joined(vm, I) THEN "failed"
                                          ELSE vm.status[c]
    BY <2>2 DEF Cut
  <2>6. failed = LinkedWith(I) /\ normal = {}
    <3>1. LinkedWith(I) = Joined(vm, I)
      BY LinkedIsJoined
    <3> QED
      BY <2>4, <2>5, <3>1 DEF Live
  <2>7. I \in SUBSET failed /\ Cardinality(I) <= 2
    BY <2>4, <2>6, LinkedIsJoined, PairSize
  <2> QED
    BY <1>0, <2>6, <2>7 DEF CascadeStep
<1>3. CASE \E a \in Actors : EndsOne(vm, vm', a)
  <2>1. PICK a \in Actors : EndsOne(vm, vm', a)
    BY <1>3
  <2>2. failed = {} /\ normal \subseteq {a}
    BY <2>1 DEF EndsOne, Live
  <2>3. Cardinality(normal) <= 1
    <3>1. IsFiniteSet({a}) /\ Cardinality({a}) = 1
      BY FS_Singleton
    <3>2. IsFiniteSet(normal) /\ Cardinality(normal) <= Cardinality({a})
      BY <2>2, <3>1, FS_Subset
    <3> HIDE DEF normal
    <3> QED
      BY <3>1, <3>2
  <2> QED
    BY <1>0, <2>2, <2>3 DEF CascadeStep
<1> QED
  BY <1>1, <1>2, <1>3 DEF Harm

\* A step that ends actors abnormally ends the linked component of the one
\* that failed, and of the root when the call goes with it, and nobody else
\* (exit_process_inner).
THEOREM CascadesAreExact == Spec => CascadeExact
<1>1. IInv /\ [Next]_vars => [CascadeStep]_vars
  BY NextGood, HarmCascade DEF Good
<1>2. Spec => [][CascadeStep]_vars
  BY <1>1, Invariance, PTL DEF Spec
<1> QED
  BY <1>2, PTL DEF CascadeExact, CascadeStep

SilentStep ==
    stack # <<>> /\ ~Live(vm, Top.actor) =>
        /\ \A a \in Actors : /\ vm'.mail[a] <= vm.mail[a]
                              /\ vm'.status[a] = "live" => Live(vm, a)
        /\ vm'.links \subseteq vm.links
        /\ vm'.cancelled \subseteq vm.cancelled
        /\ Len(vm'.monitors) = Len(vm.monitors)

\* An activation whose actor was killed sends, creates, links and cancels
\* nothing (validate_native_continuation_owner).
THEOREM DeadAreSilent == Spec => DeadIsSilent
<1>1. IInv /\ [Next]_vars => [SilentStep]_vars
  BY NextGood DEF Good, Silent, SilentStep
<1>2. Spec => [][SilentStep]_vars
  BY <1>1, Invariance, PTL DEF Spec
<1> QED
  BY <1>2 DEF DeadIsSilent, SilentStep

=============================================================================
