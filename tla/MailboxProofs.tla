---------------------------- MODULE MailboxProofs ----------------------------
(***************************************************************************)
(* What the control plane guarantees, for any number of producers,         *)
(* schedulers, slots and process identities and any capacity.              *)
(*                                                                         *)
(* About the ownership of actors: the mutator of an actor is exclusive, a  *)
(* release never fails, and nothing is reclaimed under a call or a lease.  *)
(*                                                                         *)
(* About its mailboxes: they hold fragments, admission is exact, one       *)
(* producer's fragments stay in order, and every step is a step of the     *)
(* abstract mailboxes of ActorMail or invisible to them.                   *)
(*                                                                         *)
(* Two guarantees rest on the whole protocol: a migration ticket that      *)
(* validates names the actor it was issued for, and an actor is never left *)
(* parked with mail in its mailbox.  Both hold as long as no slot          *)
(* generation comes round to a value that an outstanding ticket still      *)
(* names.  Their theorems ask for no more registrations than there are     *)
(* generations, which excludes it.                                         *)
(***************************************************************************)
EXTENDS MailRefinement, SequenceTheorems, FiniteSetTheorems, TLAPS

(* The inductive invariant *)

\* The shapes of the variables that ownership depends on.
Shape ==
    /\ actor_slots \in [Pids -> Slots \cup {NoSlot}]
    /\ generation \in [Slots -> Generations]
    /\ word \in [Slots -> Word]
    /\ route \in [Slots -> Schedulers \cup {NoOwner}]
    /\ next_sequence \in [Slots -> Nat]
    /\ call \in [Threads -> Call]
    /\ lease \in [Schedulers -> Token \cup {NoLease}]
    /\ ticket \in [Schedulers -> Ticket \cup {NoTicket}]
    /\ registered \in Nat
    /\ born \in [Slots -> Nat]

\* The cell behind the index has a route and carries its slot's generation.
Indexed ==
    \A pid \in Pids :
       Resolves(pid) =>
          /\ route[actor_slots[pid]] \in Schedulers
          /\ word[actor_slots[pid]].actorGen = generation[actor_slots[pid]]

LeaseLabels ==
    {"activate", "drain_pop", "drain_dec", "drain_empty", "drain_ack",
     "park_cas", "park_check", "park_notify", "park_commit", "rel_load",
     "rel_cas"}

\* What a thread inside a call may rely on: its cell stays in the directory,
\* the word it loaded had no owner, the lease it works for is its own.
CallOK(t) ==
    pc(t) # "idle" =>
       /\ at(t) \in Slots
       /\ Occupied(at(t))
       /\ pc(t) \in {"enq_cas", "requeue_cas"} =>
             MayTransition(call[t].before, {"Yielding", "Parked"})
       /\ t \in Schedulers =>
             /\ pc(t) = "acq_cas" => /\ MayAcquire(call[t].before)
                                     /\ lease[t] = NoLease
                                     /\ route[at(t)] = t
             /\ pc(t) \in LeaseLabels => /\ lease[t] # NoLease
                                         /\ lease[t].slot = at(t)
             /\ pc(t) = "rel_cas" => call[t].before = word[at(t)]

CallsOK == \A t \in Threads : CallOK(t)

\* A lease names its holder.
LeasesNamed == \A s \in Schedulers : lease[s] # NoLease => lease[s].owner = s

OwnInv == Shape /\ Indexed /\ CallsOK /\ LeasesNamed /\ ExclusiveMutator

-----------------------------------------------------------------------------
(* Words and generations *)

\* next_generation stays within the mask.
LEMMA NextGenerationType ==
    ASSUME NEW g \in Generations
    PROVE  NextGeneration(g) \in Generations
<1>1. GenerationMask + 1 \in Nat \ {0} /\ g + 1 \in Nat
  BY MaskAssumption DEF Generations
<1>2. (g + 1) % (GenerationMask + 1) \in 0 .. GenerationMask
  BY <1>1, MaskAssumption
<1> QED
  BY <1>2, MaskAssumption DEF NextGeneration, Generations

\* The words the directory stores are words.
LEMMA WordType ==
    ASSUME NEW w \in Word
    PROVE  /\ \A l \in Lifecycles : /\ Unowned(w, l) \in Word
                                    /\ Unowned(w, l).owner = NoOwner
                                    /\ Unowned(w, l).lifecycle = l
                                    /\ Unowned(w, l).actorGen = w.actorGen
                                    /\ Unowned(w, l).ownerGen = w.ownerGen
           /\ \A s \in Schedulers : /\ Owned(w, s) \in Word
                                    /\ Owned(w, s).owner = s
                                    /\ Owned(w, s).lifecycle = "Executing"
                                    /\ Owned(w, s).actorGen = w.actorGen
                                    /\ Owned(w, s).ownerGen = NextGeneration(w.ownerGen)
<1>1. /\ w.actorGen \in Generations /\ w.ownerGen \in Generations
      /\ NextGeneration(w.ownerGen) \in Generations
  BY NextGenerationType DEF Word
<1>2. ASSUME NEW l \in Lifecycles, NEW g \in Generations,
             NEW h \in Generations, NEW o \in Schedulers \cup {NoOwner}
      PROVE  /\ PackState(l, g, h, o) \in Word
             /\ PackState(l, g, h, o).lifecycle = l
             /\ PackState(l, g, h, o).actorGen = g
             /\ PackState(l, g, h, o).ownerGen = h
             /\ PackState(l, g, h, o).owner = o
  BY DEF PackState, Word
<1>3. "Executing" \in Lifecycles
  BY DEF Lifecycles
<1> QED
  BY <1>1, <1>2, <1>3 DEF Unowned, Owned

\* A call that has not loaded a word yet.
LEMMA IdleType ==
    /\ Idle \in Call
    /\ NoWord \in Word
    /\ \A label \in Labels, i \in Slots :
          [Idle EXCEPT !.pc = label, !.slot = i] \in Call
<1>1. 0 \in Generations /\ "Reclaimed" \in Lifecycles
  BY MaskAssumption DEF Generations, Lifecycles
<1>2. NoWord \in Word
  BY <1>1 DEF NoWord, PackState, Word
<1>3. "idle" \in Labels /\ "Yielding" \in Releasable /\ 0 \in Nat
  BY DEF Labels, Releasable
<1>4. Idle \in Call
  BY <1>2, <1>3 DEF Idle, Call
<1> QED
  BY <1>2, <1>4 DEF Call

-----------------------------------------------------------------------------
(* Ownership *)

\* The invariant holds of an empty directory.
LEMMA InitOwn == Init => OwnInv
<1> SUFFICES ASSUME Init PROVE OwnInv
  OBVIOUS
<1>1. Shape
  <2>1. 0 \in Generations /\ 0 \in Nat
    BY MaskAssumption DEF Generations
  <2>2. NoWord \in Word /\ Idle \in Call
    BY IdleType, Zenon
  <2>3. /\ actor_slots \in [Pids -> Slots \cup {NoSlot}]
        /\ generation \in [Slots -> Generations]
        /\ next_sequence \in [Slots -> Nat] /\ born \in [Slots -> Nat]
        /\ registered \in Nat
    BY <2>1 DEF Init
  <2>4. /\ word \in [Slots -> Word]
        /\ route \in [Slots -> Schedulers \cup {NoOwner}]
        /\ call \in [Threads -> Call]
        /\ lease \in [Schedulers -> Token \cup {NoLease}]
        /\ ticket \in [Schedulers -> Ticket \cup {NoTicket}]
    BY <2>2 DEF Init
  <2> QED
    BY <2>3, <2>4 DEF Shape
<1>2. Indexed /\ LeasesNamed
  BY SlotAssumption DEF Init, Indexed, Resolves, LeasesNamed
<1>3. CallsOK
  BY DEF Init, CallsOK, CallOK, pc, Idle
<1>4. ExclusiveMutator
  BY DEF Init, ExclusiveMutator, NoWord, PackState
<1> QED
  BY <1>1, <1>2, <1>3, <1>4 DEF OwnInv

\* Two leases never name one slot, and a slot with a lease is executing.
LEMMA LeaseSlots ==
    ASSUME OwnInv, NEW s \in Schedulers, lease[s] # NoLease
    PROVE  /\ lease[s].slot \in Slots
           /\ word[lease[s].slot].lifecycle = "Executing"
           /\ word[lease[s].slot].owner = s
           /\ \A r \in Schedulers :
                 lease[r] # NoLease /\ lease[r].slot = lease[s].slot => r = s
  BY DEF OwnInv, Shape, LeasesNamed, ExclusiveMutator, LeaseValid,
         TokenMatches, Token

\* A step of one thread inside its call that changes neither the directory nor
\* a word nor a lease.
LEMMA CallStep ==
    ASSUME OwnInv, NEW t \in Threads, NEW c \in Call,
           call' = [call EXCEPT ![t] = c],
           UNCHANGED <<directoryVars, word, heldVars>>,
           next_sequence' \in [Slots -> Nat],
           CallOK(t)'
    PROVE  OwnInv'
<1>1. Shape'
  BY DEF OwnInv, Shape, directoryVars, heldVars
<1>2. Indexed' /\ LeasesNamed' /\ ExclusiveMutator'
  BY DEF OwnInv, Indexed, Resolves, LeasesNamed, ExclusiveMutator, LeaseValid,
         TokenMatches, directoryVars, heldVars
<1>3. CallsOK'
  <2> SUFFICES ASSUME NEW u \in Threads, u # t
               PROVE  CallOK(u)'
    BY DEF CallsOK
  <2>1. call'[u] = call[u] /\ CallOK(u)
    BY DEF OwnInv, Shape, CallsOK
  <2> QED
    BY <2>1 DEF CallOK, pc, at, Occupied, directoryVars, heldVars
<1> QED
  BY <1>1, <1>2, <1>3 DEF OwnInv

\* A word nobody owns is replaced by another one nobody owns: no lease and no
\* other call can tell the difference.
LEMMA WordStep ==
    ASSUME OwnInv, NEW i \in Slots, NEW w \in Word,
           word[i].owner = NoOwner, w.owner = NoOwner,
           w.actorGen = word[i].actorGen,
           word' = [word EXCEPT ![i] = w],
           UNCHANGED <<actor_slots, generation, route, lease>>
    PROVE  /\ Indexed' /\ LeasesNamed' /\ ExclusiveMutator'
           /\ \A u \in Threads : call'[u] = call[u] => CallOK(u)'
<1>0. /\ word \in [Slots -> Word]
      /\ \A s \in Schedulers : lease[s] # NoLease => lease[s].slot # i
  BY LeaseSlots, OwnerAssumption DEF OwnInv, Shape
<1>1. Indexed'
  BY <1>0 DEF OwnInv, Indexed, Resolves, Shape
<1>2. LeasesNamed'
  BY DEF OwnInv, LeasesNamed
<1>3. ExclusiveMutator'
  BY <1>0 DEF OwnInv, ExclusiveMutator, LeaseValid, TokenMatches
<1>4. ASSUME NEW u \in Threads, call'[u] = call[u]
      PROVE  CallOK(u)'
  <2>1. CallOK(u)
    BY DEF OwnInv, CallsOK
  <2>2. u \in Schedulers /\ pc(u) = "rel_cas" => word'[at(u)] = word[at(u)]
    BY <2>1, <1>0 DEF CallOK, LeaseLabels
  <2> QED
    BY <2>1, <2>2, <1>4 DEF CallOK, pc, at, Occupied
<1> QED
  BY <1>1, <1>2, <1>3, <1>4

\* enqueue_notified_parked and mark_queued: the compare-exchange of a word
\* that had no owner.
LEMMA QueueCas ==
    ASSUME OwnInv, NEW t \in Threads, pc(t) \in {"enq_cas", "requeue_cas"},
           CompareExchange(t, Unowned(call[t].before, "Queued")), Return(t),
           UNCHANGED <<directoryVars, mailboxVars, heldVars>>
    PROVE  OwnInv'
<1>1. /\ call \in [Threads -> Call] /\ call[t] \in Call
      /\ at(t) \in Slots /\ call[t].before \in Word
      /\ call[t].before.owner = NoOwner
  BY DEF OwnInv, Shape, CallsOK, CallOK, Call, MayTransition, pc, at
<1>2. call' = [call EXCEPT ![t] = Idle] /\ Idle \in Call /\ CallOK(t)'
  BY <1>1, IdleType DEF Return, CallOK, pc, Idle
<1>3. CASE word[at(t)] = call[t].before
  <2> DEFINE w == Unowned(call[t].before, "Queued")
  <2>1. /\ w \in Word /\ w.owner = NoOwner
        /\ w.actorGen = word[at(t)].actorGen
        /\ word' = [word EXCEPT ![at(t)] = w]
    BY <1>1, <1>3, WordType DEF CompareExchange, Lifecycles
  <2> HIDE DEF w
  <2>2. /\ Indexed' /\ LeasesNamed' /\ ExclusiveMutator'
        /\ \A u \in Threads : call'[u] = call[u] => CallOK(u)'
    BY <1>1, <1>3, <2>1, WordStep DEF directoryVars, heldVars
  <2>3. CallsOK'
    BY <1>1, <1>2, <2>2 DEF CallsOK
  <2>4. Shape'
    BY <1>2, <2>1 DEF OwnInv, Shape, directoryVars, mailboxVars, heldVars
  <2> QED
    BY <2>2, <2>3, <2>4 DEF OwnInv
<1>4. CASE word[at(t)] # call[t].before
  <2>1. UNCHANGED word /\ next_sequence' \in [Slots -> Nat]
    BY <1>4 DEF CompareExchange, OwnInv, Shape, mailboxVars
  <2> QED
    BY <1>2, <2>1, CallStep
<1> QED
  BY <1>3, <1>4

\* acquire_mutator: the exchange finds the queued word the scheduler loaded,
\* so nobody held the actor, and the lease names the generation it stores.
LEMMA AcquireCasOwn ==
    ASSUME OwnInv, NEW s \in Schedulers, AcquireCas(s)
    PROVE  OwnInv'
<1> DEFINE b == call[s].before
           i == at(s)
<1>1. /\ s \in Threads /\ call \in [Threads -> Call] /\ call[s] \in Call
      /\ CallOK(s) /\ pc(s) = "acq_cas"
  BY DEF OwnInv, Shape, CallsOK, Threads, AcquireCas
<1>2. /\ i \in Slots /\ b \in Word /\ MayAcquire(b)
      /\ lease[s] = NoLease /\ route[i] = s /\ Occupied(i)
  BY <1>1 DEF CallOK, Call, pc, at
<1>3. CASE word[i] = b
  <2> DEFINE w == Owned(b, s)
  <2>1. PICK pid \in Pids :
           /\ actor_slots[pid] = i
           /\ lease' = [lease EXCEPT ![s] =
                 [pid |-> pid, slot |-> i, owner |-> s, actorGen |-> b.actorGen,
                  ownerGen |-> NextGeneration(b.ownerGen)]]
    BY <1>3 DEF AcquireCas
  <2>2. /\ w \in Word /\ w.owner = s /\ w.lifecycle = "Executing"
        /\ w.actorGen = b.actorGen /\ w.ownerGen = NextGeneration(b.ownerGen)
    BY <1>2, WordType
  <2>3. /\ word' = [word EXCEPT ![i] = w] /\ Goto(s, "activate")
        /\ UNCHANGED <<directoryVars, mailboxVars, ticket>>
    BY <1>3 DEF AcquireCas, CompareExchange
  <2> HIDE DEF w
  <2>4. [pid |-> pid, slot |-> i, owner |-> s, actorGen |-> b.actorGen,
         ownerGen |-> NextGeneration(b.ownerGen)] \in Token
    BY <1>2, NextGenerationType DEF Token, Word
  <2>5. /\ lease'[s] # NoLease /\ lease'[s].slot = i /\ lease'[s].owner = s
        /\ lease'[s].pid = pid /\ lease'[s].actorGen = w.actorGen
        /\ lease'[s].ownerGen = w.ownerGen
        /\ lease' \in [Schedulers -> Token \cup {NoLease}]
        /\ \A r \in Schedulers : r # s => lease'[r] = lease[r]
    BY <2>1, <2>2, <2>4, HeldAssumption DEF OwnInv, Shape
  <2>6. generation[i] = b.actorGen
    BY <1>2, <1>3, <2>1, SlotAssumption DEF OwnInv, Indexed, Resolves
  <2>7. \A r \in Schedulers : lease[r] # NoLease => lease[r].slot # i
    BY <1>2, <1>3, LeaseSlots, OwnerAssumption DEF MayAcquire
  <2>8. /\ call' = [call EXCEPT ![s].pc = "activate"] /\ call' \in [Threads -> Call]
        /\ call'[s].pc = "activate" /\ call'[s].slot = i
        /\ \A u \in Threads : u # s => call'[u] = call[u]
    <3>1. [call[s] EXCEPT !.pc = "activate"] \in Call
      BY <1>1 DEF Call, Labels
    <3> QED
      BY <1>1, <2>3, <3>1 DEF Goto, Call, at
  <2>9. Shape'
    BY <2>2, <2>3, <2>5, <2>8 DEF OwnInv, Shape, directoryVars, mailboxVars
  <2>10. Indexed'
    BY <1>3, <2>2, <2>3, SlotAssumption
    DEF OwnInv, Shape, Indexed, Resolves, directoryVars
  <2>11. LeasesNamed'
    BY <2>5 DEF OwnInv, LeasesNamed
  <2>12. ExclusiveMutator'
    <3>1. /\ word'[i] = w
          /\ \A j \in Slots : j # i => word'[j] = word[j]
      BY <1>2, <2>3 DEF OwnInv, Shape
    <3>2. LeaseValid(s)'
      BY <1>2, <2>1, <2>2, <2>3, <2>5, <2>6, <3>1
      DEF LeaseValid, TokenMatches, directoryVars
    <3>3. \A r \in Schedulers : r # s /\ lease'[r] # NoLease => LeaseValid(r)'
      <4> SUFFICES ASSUME NEW r \in Schedulers, r # s, lease'[r] # NoLease
                   PROVE  LeaseValid(r)'
        OBVIOUS
      <4>1. /\ lease'[r] = lease[r] /\ LeaseValid(r) /\ lease[r].slot \in Slots
            /\ word'[lease[r].slot] = word[lease[r].slot]
        BY <2>5, <2>7, <3>1, LeaseSlots DEF OwnInv, ExclusiveMutator
      <4> QED
        BY <4>1, <2>3 DEF LeaseValid, TokenMatches, directoryVars
    <3>4. ASSUME NEW j \in Slots, word'[j].owner # NoOwner
          PROVE  /\ word'[j].lifecycle = "Executing"
                 /\ lease'[word'[j].owner] # NoLease
                 /\ lease'[word'[j].owner].slot = j
      <4>1. CASE j = i
        BY <4>1, <3>1, <2>2, <2>5
      <4>2. CASE j # i
        <5>1. /\ word'[j] = word[j] /\ word[j].owner \in Schedulers
              /\ word[j].lifecycle = "Executing"
              /\ lease[word[j].owner] # NoLease
              /\ lease[word[j].owner].slot = j
          BY <3>1, <3>4, <4>2 DEF OwnInv, ExclusiveMutator, Shape, Word
        <5> QED
          BY <5>1, <2>5, <1>2
      <4> QED
        BY <4>1, <4>2
    <3> QED
      BY <3>2, <3>3, <3>4 DEF ExclusiveMutator
  <2>13. CallsOK'
    <3>1. CallOK(s)'
      BY <1>2, <2>3, <2>5, <2>8 DEF CallOK, pc, at, Occupied, directoryVars
    <3>2. ASSUME NEW u \in Threads, u # s
          PROVE  CallOK(u)'
      <4>1. CallOK(u) /\ call'[u] = call[u]
        BY <2>8, <3>2 DEF OwnInv, CallsOK
      <4>2. u \in Schedulers => lease'[u] = lease[u]
        BY <2>5, <3>2
      <4>3. u \in Schedulers /\ pc(u) = "rel_cas" => word'[at(u)] = word[at(u)]
        BY <4>1, <2>3, <2>7, <1>2 DEF CallOK, LeaseLabels, OwnInv, Shape
      <4> QED
        BY <4>1, <4>2, <4>3, <2>3 DEF CallOK, pc, at, Occupied, directoryVars
    <3> QED
      BY <3>1, <3>2 DEF CallsOK
  <2> QED
    BY <2>9, <2>10, <2>11, <2>12, <2>13 DEF OwnInv
<1>4. CASE word[i] # b
  <2>1. /\ UNCHANGED <<directoryVars, word, heldVars, next_sequence>>
        /\ call' = [call EXCEPT ![s] = Idle]
    BY <1>4 DEF AcquireCas, CompareExchange, Return, heldVars, mailboxVars
  <2>2. CallOK(s)' /\ next_sequence' \in [Slots -> Nat]
    BY <1>1, <2>1 DEF CallOK, pc, Idle, OwnInv, Shape
  <2> QED
    BY <1>1, <2>1, <2>2, IdleType, CallStep
<1> QED
  BY <1>3, <1>4

\* release_mutator: the exchange always finds the word of the lease, and
\* takes the owner out of it as the lease goes.
LEMMA ReleaseCasOwn ==
    ASSUME OwnInv, NEW s \in Schedulers, ReleaseCas(s)
    PROVE  OwnInv'
<1> DEFINE i == at(s)
           w == Unowned(call[s].before, call[s].next)
<1>1. /\ s \in Threads /\ call \in [Threads -> Call] /\ call[s] \in Call
      /\ CallOK(s) /\ pc(s) = "rel_cas"
  BY DEF OwnInv, Shape, CallsOK, Threads, ReleaseCas
<1>2. /\ i \in Slots /\ Occupied(i) /\ lease[s] # NoLease /\ lease[s].slot = i
      /\ word[i] = call[s].before
  BY <1>1 DEF CallOK, LeaseLabels
<1>3. /\ call[s].before \in Word /\ call[s].next \in Lifecycles
  BY <1>1 DEF Call, Releasable, Lifecycles
<1>4. /\ w \in Word /\ w.owner = NoOwner /\ w.actorGen = word[i].actorGen
  BY <1>2, <1>3, WordType
<1>5. /\ word' = [word EXCEPT ![i] = w]
      /\ lease' = [lease EXCEPT ![s] = NoLease]
      /\ Goto(s, "rel_notified") \/ Return(s)
      /\ UNCHANGED <<directoryVars, mailboxVars, ticket>>
  BY <1>2 DEF ReleaseCas, CompareExchange
<1> HIDE DEF w
<1>6. /\ \A r \in Schedulers : r # s /\ lease[r] # NoLease => lease[r].slot # i
      /\ word[i].owner = s
  BY <1>2, LeaseSlots
<1>7. /\ call' \in [Threads -> Call]
      /\ call'[s].pc \in {"idle", "rel_notified"}
      /\ call'[s].pc # "idle" => call'[s].slot = i
      /\ \A u \in Threads : u # s => call'[u] = call[u]
  <2>1. [call[s] EXCEPT !.pc = "rel_notified"] \in Call
    BY <1>1 DEF Call, Labels
  <2>2. CASE Goto(s, "rel_notified")
    BY <2>1, <2>2, <1>1 DEF Goto, Call, at
  <2>3. CASE Return(s)
    BY <2>3, <1>1, IdleType DEF Return, Idle
  <2> QED
    BY <1>5, <2>2, <2>3
<1>8. /\ word'[i] = w /\ \A j \in Slots : j # i => word'[j] = word[j]
      /\ lease'[s] = NoLease
      /\ \A r \in Schedulers : r # s => lease'[r] = lease[r]
  BY <1>2, <1>5 DEF OwnInv, Shape
<1>9. Shape'
  BY <1>4, <1>5, <1>7 DEF OwnInv, Shape, directoryVars, mailboxVars
<1>10. Indexed' /\ LeasesNamed'
  BY <1>4, <1>5, <1>8, SlotAssumption
  DEF OwnInv, Shape, Indexed, Resolves, LeasesNamed, directoryVars
<1>11. ExclusiveMutator'
  <2>1. ASSUME NEW r \in Schedulers, lease'[r] # NoLease
        PROVE  LeaseValid(r)'
    <3>1. /\ r # s /\ lease'[r] = lease[r] /\ LeaseValid(r)
          /\ lease[r].slot \in Slots
          /\ word'[lease[r].slot] = word[lease[r].slot]
      BY <1>6, <1>8, <2>1, LeaseSlots DEF OwnInv, ExclusiveMutator
    <3> QED
      BY <3>1, <1>5 DEF LeaseValid, TokenMatches, directoryVars
  <2>2. ASSUME NEW j \in Slots, word'[j].owner # NoOwner
        PROVE  /\ word'[j].lifecycle = "Executing"
               /\ lease'[word'[j].owner] # NoLease
               /\ lease'[word'[j].owner].slot = j
    <3>1. /\ j # i /\ word'[j] = word[j] /\ word[j].owner \in Schedulers
          /\ word[j].lifecycle = "Executing"
          /\ lease[word[j].owner] # NoLease /\ lease[word[j].owner].slot = j
      BY <1>4, <1>8, <2>2 DEF OwnInv, ExclusiveMutator, Shape, Word
    <3>2. word[j].owner # s
      BY <3>1, <1>2
    <3> QED
      BY <3>1, <3>2, <1>8
  <2> QED
    BY <2>1, <2>2 DEF ExclusiveMutator
<1>12. CallsOK'
  <2>1. CallOK(s)'
    BY <1>2, <1>5, <1>7 DEF CallOK, pc, at, Occupied, directoryVars, LeaseLabels
  <2>2. ASSUME NEW u \in Threads, u # s
        PROVE  CallOK(u)'
    <3>1. CallOK(u) /\ call'[u] = call[u]
      BY <1>7, <2>2 DEF OwnInv, CallsOK
    <3>2. u \in Schedulers => lease'[u] = lease[u]
      BY <1>8, <2>2
    <3>3. u \in Schedulers /\ pc(u) = "rel_cas" => word'[at(u)] = word[at(u)]
      BY <3>1, <1>6, <1>8, <2>2 DEF CallOK, LeaseLabels
    <3> QED
      BY <3>1, <3>2, <3>3, <1>5 DEF CallOK, pc, at, Occupied, directoryVars
  <2> QED
    BY <2>1, <2>2 DEF CallsOK
<1> QED
  BY <1>9, <1>10, <1>11, <1>12 DEF OwnInv

-----------------------------------------------------------------------------
(* The steps of a call that touch neither a word nor a lease *)

\* A call that returns relies on nothing any more.
LEMMA ReturnStep ==
    ASSUME OwnInv, NEW t \in Threads, Return(t),
           UNCHANGED <<directoryVars, word, heldVars>>,
           next_sequence' \in [Slots -> Nat]
    PROVE  OwnInv'
<1>1. /\ call' = [call EXCEPT ![t] = Idle] /\ Idle \in Call
      /\ call'[t] = Idle
  BY IdleType DEF Return, OwnInv, Shape
<1>2. CallOK(t)'
  BY <1>1 DEF CallOK, pc, Idle
<1> QED
  BY <1>1, <1>2, CallStep

\* A call that goes on at the same slot towards a step that relies on nothing
\* new: it may not start to rely on a lease.
LEMMA AdvanceStep ==
    ASSUME OwnInv, NEW t \in Threads, NEW c \in Call, pc(t) # "idle",
           call' = [call EXCEPT ![t] = c], c.slot = at(t),
           c.pc \notin {"enq_cas", "requeue_cas", "acq_cas", "rel_cas"},
           c.pc \in LeaseLabels => pc(t) \in LeaseLabels,
           UNCHANGED <<directoryVars, word, heldVars>>,
           next_sequence' \in [Slots -> Nat]
    PROVE  OwnInv'
<1>1. CallOK(t) /\ call'[t] = c
  BY DEF OwnInv, Shape, CallsOK
<1>2. CallOK(t)'
  BY <1>1 DEF CallOK, pc, at, Occupied, directoryVars, heldVars
<1> QED
  BY <1>2, CallStep

\* The same for a bare change of the program counter.
LEMMA GotoStep ==
    ASSUME OwnInv, NEW t \in Threads, NEW label \in Labels, pc(t) # "idle",
           Goto(t, label),
           label \notin {"enq_cas", "requeue_cas", "acq_cas", "rel_cas"},
           label \in LeaseLabels => pc(t) \in LeaseLabels,
           UNCHANGED <<directoryVars, word, heldVars>>,
           next_sequence' \in [Slots -> Nat]
    PROVE  OwnInv'
<1> DEFINE c == [call[t] EXCEPT !.pc = label]
<1>1. call[t] \in Call
  BY DEF OwnInv, Shape
<1>2. c \in Call /\ c.slot = at(t) /\ c.pc = label
  BY <1>1 DEF Call, at
<1>3. call' = [call EXCEPT ![t] = c]
  BY DEF Goto
<1> HIDE DEF c
<1> QED
  BY <1>2, <1>3, AdvanceStep

\* A call that loads the word of its slot before a compare-exchange.
LEMMA LoadStep ==
    ASSUME OwnInv, NEW t \in Threads, pc(t) # "idle",
           NEW label \in {"enq_cas", "requeue_cas", "rel_cas"},
           call' = [call EXCEPT ![t].pc = label, ![t].before = word[at(t)]],
           label # "rel_cas" => MayTransition(word[at(t)], {"Yielding", "Parked"}),
           label = "rel_cas" => pc(t) \in LeaseLabels,
           UNCHANGED <<directoryVars, word, mailboxVars, heldVars>>
    PROVE  OwnInv'
<1> DEFINE c == [call[t] EXCEPT !.pc = label, !.before = word[at(t)]]
<1>1. call[t] \in Call /\ CallOK(t) /\ word[at(t)] \in Word
  BY DEF OwnInv, Shape, CallsOK, CallOK
<1>2. /\ c \in Call /\ c.slot = at(t) /\ c.pc = label
      /\ c.before = word[at(t)]
  BY <1>1 DEF Call, at, Labels
<1>3. call' = [call EXCEPT ![t] = c]
  OBVIOUS
<1> HIDE DEF c
<1>4. call'[t] = c
  BY <1>3 DEF OwnInv, Shape
<1>5. CallOK(t)'
  BY <1>1, <1>2, <1>4
  DEF CallOK, pc, at, Occupied, directoryVars, heldVars, LeaseLabels
<1>6. next_sequence' \in [Slots -> Nat]
  BY DEF OwnInv, Shape, mailboxVars
<1> QED
  BY <1>2, <1>3, <1>5, <1>6, CallStep

\* A call that begins: its slot is one the index resolves.
LEMMA BeginStep ==
    ASSUME OwnInv, NEW t \in Threads, NEW c \in Call, NEW pid \in Pids,
           Resolves(pid), call' = [call EXCEPT ![t] = c],
           c.slot = actor_slots[pid],
           c.pc \notin {"enq_cas", "requeue_cas", "rel_cas"},
           c.pc = "acq_cas" => /\ MayAcquire(c.before) /\ lease[t] = NoLease
                               /\ route[c.slot] = t,
           c.pc \in LeaseLabels => lease[t] # NoLease /\ lease[t].slot = c.slot,
           UNCHANGED <<directoryVars, word, mailboxVars, heldVars>>
    PROVE  OwnInv'
<1>1. /\ call'[t] = c /\ c.slot \in Slots /\ Occupied(c.slot)
      /\ next_sequence' \in [Slots -> Nat]
  BY DEF OwnInv, Shape, Resolves, Occupied, mailboxVars
<1>2. CallOK(t)'
  BY <1>1 DEF CallOK, pc, at, Occupied, directoryVars, heldVars
<1> QED
  BY <1>1, <1>2, CallStep

-----------------------------------------------------------------------------
(* One lemma per kind of call *)

\* Publications change the mailbox only.
LEMMA PublishOwn ==
    ASSUME OwnInv, NEW p \in Producers, PublishStart(p) \/ ProducerStep(p)
    PROVE  OwnInv'
<1>0. /\ p \in Threads /\ next_sequence \in [Slots -> Nat]
      /\ call \in [Threads -> Call] /\ call[p] \in Call
  BY DEF Threads, OwnInv, Shape
<1>1. CASE PublishStart(p)
  <2>1. PICK pid \in Pids : /\ Resolves(pid)
                            /\ Begin(p, "admit", actor_slots[pid])
    BY <1>1 DEF PublishStart
  <2> DEFINE c == [Idle EXCEPT !.pc = "admit", !.slot = actor_slots[pid]]
  <2>2. c \in Call /\ c.slot = actor_slots[pid] /\ c.pc = "admit"
    BY <2>1, IdleType DEF OwnInv, Shape, Resolves, Labels, Idle
  <2>3. call' = [call EXCEPT ![p] = c]
    BY <2>1 DEF Begin
  <2> HIDE DEF c
  <2>4. "admit" \notin LeaseLabels
    BY DEF LeaseLabels
  <2> QED
    BY <1>0, <1>1, <2>1, <2>2, <2>3, <2>4, BeginStep DEF PublishStart
<1>2. CASE PublishAdmit(p)
  <2>1. next_sequence' \in [Slots -> Nat] /\ pc(p) # "idle"
    BY <1>0, <1>2 DEF PublishAdmit
  <2>2. CASE Goto(p, "sequence")
    BY <1>0, <1>2, <2>1, <2>2, GotoStep DEF PublishAdmit, Labels, LeaseLabels
  <2>3. CASE Return(p)
    BY <1>0, <1>2, <2>1, <2>3, ReturnStep DEF PublishAdmit
  <2> QED
    BY <1>2, <2>2, <2>3 DEF PublishAdmit
<1>3. CASE PublishSequence(p)
  <2>1. at(p) \in Slots /\ next_sequence[at(p)] \in Nat
    BY <1>0, <1>3 DEF OwnInv, CallsOK, CallOK, PublishSequence
  <2>2. next_sequence' \in [Slots -> Nat] /\ pc(p) # "idle"
    BY <1>0, <1>3, <2>1 DEF PublishSequence
  <2> DEFINE n == next_sequence[at(p)] + 1
             c == [call[p] EXCEPT !.pc = "push", !.seq = n]
  <2>3. call' = [call EXCEPT ![p] = c]
    BY <1>3 DEF PublishSequence
  <2>4. n \in Nat /\ "push" \in Labels
    BY <2>1 DEF Labels
  <2> HIDE DEF n
  <2>5. c \in Call /\ c.slot = at(p) /\ c.pc = "push"
    BY <1>0, <2>4 DEF Call, at
  <2> HIDE DEF c
  <2> QED
    BY <1>0, <1>3, <2>2, <2>3, <2>5, AdvanceStep
    DEF PublishSequence, LeaseLabels
<1>4. CASE PublishPush(p)
  <2>1. next_sequence' \in [Slots -> Nat] /\ pc(p) # "idle"
    BY <1>0, <1>4 DEF PublishPush
  <2>2. CASE Goto(p, "swap")
    BY <1>0, <1>4, <2>1, <2>2, GotoStep DEF PublishPush, Labels, LeaseLabels
  <2>3. CASE Return(p)
    BY <1>0, <1>4, <2>1, <2>3, ReturnStep DEF PublishPush
  <2> QED
    BY <1>4, <2>2, <2>3 DEF PublishPush
<1>5. CASE PublishSwap(p)
  <2>1. next_sequence' \in [Slots -> Nat] /\ pc(p) # "idle"
    BY <1>0, <1>5 DEF PublishSwap
  <2>2. CASE Goto(p, "enq_load")
    BY <1>0, <1>5, <2>1, <2>2, GotoStep DEF PublishSwap, Labels, LeaseLabels
  <2>3. CASE Return(p)
    BY <1>0, <1>5, <2>1, <2>3, ReturnStep DEF PublishSwap
  <2> QED
    BY <1>5, <2>2, <2>3 DEF PublishSwap
<1> QED
  BY <1>1, <1>2, <1>3, <1>4, <1>5 DEF ProducerStep

\* The wake of a parked actor, by a producer or by the releaser.
LEMMA EnqueueOwn ==
    ASSUME OwnInv, NEW t \in Threads, EnqueueStep(t)
    PROVE  OwnInv'
<1>1. CASE EnqueueLoad(t)
  <2>1. /\ next_sequence' \in [Slots -> Nat] /\ pc(t) # "idle"
        /\ UNCHANGED <<directoryVars, word, mailboxVars, heldVars>>
    BY <1>1 DEF EnqueueLoad, OwnInv, Shape, mailboxVars
  <2>2. CASE Return(t)
    BY <2>1, <2>2, ReturnStep
  <2>3. CASE /\ MayTransition(word[at(t)], {"Parked"})
             /\ call' = [call EXCEPT ![t].pc = "enq_cas",
                                     ![t].before = word[at(t)]]
    <3>1. MayTransition(word[at(t)], {"Yielding", "Parked"})
      BY <2>3 DEF MayTransition
    <3> QED
      BY <2>1, <2>3, <3>1, LoadStep
  <2> QED
    BY <1>1, <2>2, <2>3 DEF EnqueueLoad
<1>2. CASE EnqueueCas(t)
  BY <1>2, QueueCas DEF EnqueueCas
<1> QED
  BY <1>1, <1>2 DEF EnqueueStep

\* An acquisition, up to the activation of the mailbox.
LEMMA AcquireOwn ==
    ASSUME OwnInv, NEW s \in Schedulers, AcquireStart(s) \/ AcquireStep(s)
    PROVE  OwnInv'
<1>0. s \in Threads
  BY DEF Threads
<1>1. CASE AcquireStart(s)
  <2>1. PICK pid \in Pids :
           /\ Resolves(pid)
           /\ route[actor_slots[pid]] = s
           /\ MayAcquire(word[actor_slots[pid]])
           /\ call' = [call EXCEPT ![s] =
                 [Idle EXCEPT !.pc = "acq_cas", !.slot = actor_slots[pid],
                              !.before = word[actor_slots[pid]]]]
    BY <1>1 DEF AcquireStart
  <2> DEFINE c == [Idle EXCEPT !.pc = "acq_cas", !.slot = actor_slots[pid],
                               !.before = word[actor_slots[pid]]]
  <2>2. actor_slots[pid] \in Slots /\ word[actor_slots[pid]] \in Word
    BY <2>1 DEF OwnInv, Shape, Resolves
  <2>3. /\ c \in Call /\ c.slot = actor_slots[pid] /\ c.pc = "acq_cas"
        /\ c.before = word[actor_slots[pid]]
    <3>1. Idle \in Call
      BY IdleType, Zenon
    <3> QED
      BY <2>2, <3>1 DEF Call, Labels
  <2>4. call' = [call EXCEPT ![s] = c]
    BY <2>1
  <2> HIDE DEF c
  <2>5. c.pc \notin LeaseLabels /\ c.pc \notin {"enq_cas", "requeue_cas", "rel_cas"}
    BY <2>3 DEF LeaseLabels
  <2>6. /\ lease[s] = NoLease
        /\ UNCHANGED <<directoryVars, word, mailboxVars, heldVars>>
    BY <1>1 DEF AcquireStart
  <2> QED
    BY <1>0, <2>1, <2>3, <2>4, <2>5, <2>6, BeginStep
<1>2. CASE AcquireCas(s)
  BY <1>2, AcquireCasOwn
<1>3. CASE Activate(s)
  BY <1>0, <1>3, ReturnStep DEF Activate, OwnInv, Shape
<1> QED
  BY <1>1, <1>2, <1>3 DEF AcquireStep

\* A drain of the lease's own mailbox.
LEMMA DrainOwn ==
    ASSUME OwnInv, NEW s \in Schedulers, DrainStart(s) \/ DrainStep(s)
    PROVE  OwnInv'
<1>0. /\ s \in Threads /\ next_sequence \in [Slots -> Nat]
      /\ call \in [Threads -> Call] /\ call[s] \in Call
  BY DEF Threads, OwnInv, Shape
<1>1. CASE DrainStart(s)
  <2>1. /\ LeaseValid(s) /\ Begin(s, "drain_pop", lease[s].slot)
        /\ UNCHANGED <<directoryVars, word, mailboxVars, heldVars>>
    BY <1>1 DEF DrainStart
  <2>2. /\ lease[s] # NoLease /\ lease[s].pid \in Pids /\ lease[s].slot \in Slots
        /\ actor_slots[lease[s].pid] = lease[s].slot /\ Resolves(lease[s].pid)
    BY <2>1, SlotAssumption DEF LeaseValid, OwnInv, Shape, Token, Resolves
  <2> DEFINE c == [Idle EXCEPT !.pc = "drain_pop", !.slot = lease[s].slot]
  <2>3. c \in Call /\ c.slot = lease[s].slot /\ c.pc = "drain_pop"
    BY <2>2, IdleType DEF Labels, Idle
  <2>4. call' = [call EXCEPT ![s] = c]
    BY <2>1 DEF Begin
  <2> HIDE DEF c
  <2> QED
    BY <1>0, <2>1, <2>2, <2>3, <2>4, BeginStep
<1>2. CASE DrainPop(s)
  <2>1. next_sequence' \in [Slots -> Nat] /\ pc(s) = "drain_pop"
    BY <1>0, <1>2 DEF DrainPop
  <2>2. CASE Goto(s, "drain_dec")
    BY <1>0, <1>2, <2>1, <2>2, GotoStep DEF DrainPop, Labels, LeaseLabels
  <2>3. CASE Goto(s, "drain_empty")
    BY <1>0, <1>2, <2>1, <2>3, GotoStep DEF DrainPop, Labels, LeaseLabels
  <2> QED
    BY <1>2, <2>2, <2>3 DEF DrainPop
<1>3. CASE DrainDecrement(s)
  <2>1. next_sequence' \in [Slots -> Nat] /\ pc(s) = "drain_dec"
    BY <1>0, <1>3 DEF DrainDecrement
  <2> QED
    BY <1>0, <1>3, <2>1, GotoStep DEF DrainDecrement, Labels, LeaseLabels
<1>4. CASE DrainEmpty(s)
  <2>1. next_sequence' \in [Slots -> Nat] /\ pc(s) = "drain_empty"
    BY <1>0, <1>4 DEF DrainEmpty, mailboxVars
  <2>2. CASE Goto(s, "drain_ack")
    BY <1>0, <1>4, <2>1, <2>2, GotoStep DEF DrainEmpty, Labels, LeaseLabels
  <2>3. CASE Return(s)
    BY <1>0, <1>4, <2>1, <2>3, ReturnStep DEF DrainEmpty
  <2> QED
    BY <1>4, <2>2, <2>3 DEF DrainEmpty
<1>5. CASE DrainAcknowledge(s)
  BY <1>0, <1>5, ReturnStep DEF DrainAcknowledge
<1> QED
  BY <1>1, <1>2, <1>3, <1>4, <1>5 DEF DrainStep

\* A release, with the attempt to park that may precede it.
LEMMA ReleaseOwn ==
    ASSUME OwnInv, NEW s \in Schedulers, ReleaseStart(s) \/ ReleaseStep(s)
    PROVE  OwnInv'
<1>0. /\ s \in Threads /\ next_sequence \in [Slots -> Nat]
      /\ call \in [Threads -> Call] /\ call[s] \in Call
  BY DEF Threads, OwnInv, Shape
<1>1. CASE ReleaseStart(s)
  <2>1. /\ LeaseValid(s)
        /\ UNCHANGED <<directoryVars, word, mailboxVars, heldVars>>
    BY <1>1 DEF ReleaseStart
  <2>2. /\ lease[s] # NoLease /\ lease[s].pid \in Pids /\ lease[s].slot \in Slots
        /\ actor_slots[lease[s].pid] = lease[s].slot /\ Resolves(lease[s].pid)
    BY <2>1, SlotAssumption DEF LeaseValid, OwnInv, Shape, Token, Resolves
  <2>3. PICK boundary \in Releasable :
           call' = [call EXCEPT ![s] =
              [Idle EXCEPT !.pc = IF boundary = "Parked" THEN "park_cas"
                                                         ELSE "rel_load",
                           !.slot = lease[s].slot, !.next = boundary]]
    BY <1>1 DEF ReleaseStart
  <2> DEFINE label == IF boundary = "Parked" THEN "park_cas" ELSE "rel_load"
             c == [Idle EXCEPT !.pc = label, !.slot = lease[s].slot,
                               !.next = boundary]
  <2>4. call' = [call EXCEPT ![s] = c]
    BY <2>3
  <2>5. /\ label \in Labels /\ label \in LeaseLabels
        /\ label \notin {"enq_cas", "requeue_cas", "acq_cas", "rel_cas"}
    BY DEF Labels, LeaseLabels
  <2> HIDE DEF label
  <2>6. c \in Call /\ c.slot = lease[s].slot /\ c.pc = label
    <3>1. Idle \in Call
      BY IdleType, Zenon
    <3> QED
      BY <2>2, <2>5, <3>1 DEF Call
  <2> HIDE DEF c
  <2> QED
    BY <1>0, <2>1, <2>2, <2>4, <2>5, <2>6, BeginStep
<1>2. ASSUME pc(s) \in LeaseLabels, ParkRefused(s),
             UNCHANGED <<directoryVars, word, heldVars, next_sequence>>
      PROVE  OwnInv'
  <2> DEFINE c == [call[s] EXCEPT !.pc = "rel_load", !.next = "Yielding"]
  <2>1. c \in Call /\ c.slot = at(s) /\ c.pc = "rel_load"
    BY <1>0 DEF Call, Labels, Releasable, at
  <2>2. call' = [call EXCEPT ![s] = c]
    BY <1>2 DEF ParkRefused
  <2> HIDE DEF c
  <2>3. pc(s) # "idle"
    BY <1>2 DEF LeaseLabels
  <2> QED
    BY <1>0, <1>2, <2>1, <2>2, <2>3, AdvanceStep
<1>3. CASE ParkCas(s)
  <2>1. /\ next_sequence' \in [Slots -> Nat] /\ pc(s) = "park_cas"
        /\ UNCHANGED <<directoryVars, word, heldVars, next_sequence>>
    BY <1>0, <1>3 DEF ParkCas
  <2>2. CASE Goto(s, "park_check")
    BY <1>0, <2>1, <2>2, GotoStep DEF Labels, LeaseLabels
  <2>3. CASE ParkRefused(s)
    BY <1>2, <2>1, <2>3 DEF LeaseLabels
  <2> QED
    BY <1>3, <2>2, <2>3 DEF ParkCas
<1>4. CASE ParkCheck(s)
  <2>1. /\ next_sequence' \in [Slots -> Nat] /\ pc(s) = "park_check"
        /\ UNCHANGED <<directoryVars, word, heldVars, next_sequence>>
    BY <1>0, <1>4 DEF ParkCheck, mailboxVars
  <2>2. CASE Goto(s, "park_notify")
    BY <1>0, <2>1, <2>2, GotoStep DEF Labels, LeaseLabels
  <2>3. CASE Goto(s, "park_commit")
    BY <1>0, <2>1, <2>3, GotoStep DEF Labels, LeaseLabels
  <2> QED
    BY <1>4, <2>2, <2>3 DEF ParkCheck
<1>5. CASE ParkNotify(s)
  BY <1>2, <1>5 DEF ParkNotify, LeaseLabels
<1>6. CASE ParkCommit(s)
  <2>1. /\ next_sequence' \in [Slots -> Nat] /\ pc(s) = "park_commit"
        /\ UNCHANGED <<directoryVars, word, heldVars, next_sequence>>
    BY <1>0, <1>6 DEF ParkCommit
  <2>2. CASE Goto(s, "rel_load")
    BY <1>0, <2>1, <2>2, GotoStep DEF Labels, LeaseLabels
  <2>3. CASE ParkRefused(s)
    BY <1>2, <2>1, <2>3 DEF LeaseLabels
  <2> QED
    BY <1>6, <2>2, <2>3 DEF ParkCommit
<1>7. CASE ReleaseLoad(s)
  <2>1. /\ pc(s) = "rel_load" /\ pc(s) \in LeaseLabels
        /\ call' = [call EXCEPT ![s].pc = "rel_cas", ![s].before = word[at(s)]]
        /\ UNCHANGED <<directoryVars, word, mailboxVars, heldVars>>
    BY <1>7 DEF ReleaseLoad, LeaseLabels
  <2> QED
    BY <1>0, <2>1, LoadStep
<1>8. CASE ReleaseCas(s)
  BY <1>8, ReleaseCasOwn
<1>9. CASE ReleaseNotified(s)
  <2>1. /\ next_sequence' \in [Slots -> Nat] /\ pc(s) = "rel_notified"
        /\ UNCHANGED <<directoryVars, word, heldVars>>
    BY <1>0, <1>9 DEF ReleaseNotified, mailboxVars
  <2>2. CASE Goto(s, "enq_load")
    BY <1>0, <2>1, <2>2, GotoStep DEF Labels, LeaseLabels
  <2>3. CASE Return(s)
    BY <1>0, <2>1, <2>3, ReturnStep
  <2> QED
    BY <1>9, <2>2, <2>3 DEF ReleaseNotified
<1> QED
  BY <1>1, <1>3, <1>4, <1>5, <1>6, <1>7, <1>8, <1>9 DEF ReleaseStep

\* The requeueing of a yielded or parked actor.
LEMMA RequeueOwn ==
    ASSUME OwnInv, NEW s \in Schedulers, RequeueStart(s) \/ RequeueStep(s)
    PROVE  OwnInv'
<1>0. s \in Threads
  BY DEF Threads
<1>1. CASE RequeueStart(s)
  <2>1. PICK pid \in Pids : /\ Resolves(pid)
                            /\ Begin(s, "requeue_load", actor_slots[pid])
    BY <1>1 DEF RequeueStart
  <2> DEFINE c == [Idle EXCEPT !.pc = "requeue_load", !.slot = actor_slots[pid]]
  <2>2. c \in Call /\ c.slot = actor_slots[pid] /\ c.pc = "requeue_load"
    BY <2>1, IdleType DEF OwnInv, Shape, Resolves, Labels, Idle
  <2>3. call' = [call EXCEPT ![s] = c]
    BY <2>1 DEF Begin
  <2> HIDE DEF c
  <2>4. "requeue_load" \notin LeaseLabels
    BY DEF LeaseLabels
  <2> QED
    BY <1>0, <1>1, <2>1, <2>2, <2>3, <2>4, BeginStep DEF RequeueStart
<1>2. CASE RequeueLoad(s)
  <2>1. /\ next_sequence' \in [Slots -> Nat] /\ pc(s) # "idle"
        /\ UNCHANGED <<directoryVars, word, mailboxVars, heldVars>>
    BY <1>2 DEF RequeueLoad, OwnInv, Shape, mailboxVars
  <2>2. CASE Return(s)
    BY <1>0, <2>1, <2>2, ReturnStep
  <2>3. CASE /\ MayTransition(word[at(s)], {"Yielding", "Parked"})
             /\ call' = [call EXCEPT ![s].pc = "requeue_cas",
                                     ![s].before = word[at(s)]]
    BY <1>0, <2>1, <2>3, LoadStep
  <2> QED
    BY <1>2, <2>2, <2>3 DEF RequeueLoad
<1>3. CASE RequeueCas(s)
  BY <1>0, <1>3, QueueCas DEF RequeueCas
<1> QED
  BY <1>1, <1>2, <1>3 DEF RequeueStep

-----------------------------------------------------------------------------
(* Operations under the write half of the lock *)

\* While the lock has no reader, no call relies on anything.
LEMMA QuietCalls ==
    ASSUME NoReaders, UNCHANGED call
    PROVE  CallsOK'
  BY DEF NoReaders, CallsOK, CallOK, pc

\* A slot that is not executing, or that is empty, has no lease.
LEMMA NoLeaseAt ==
    ASSUME OwnInv, NEW i \in Slots,
           ~Occupied(i) \/ word[i].lifecycle # "Executing"
    PROVE  /\ \A s \in Schedulers : lease[s] # NoLease => lease[s].slot # i
           /\ word[i].owner = NoOwner
<1>1. \A s \in Schedulers : lease[s] # NoLease => lease[s].slot # i
  <2> SUFFICES ASSUME NEW s \in Schedulers, lease[s] # NoLease
               PROVE  lease[s].slot # i
    OBVIOUS
  <2>1. /\ word[lease[s].slot].lifecycle = "Executing"
        /\ lease[s].pid \in Pids /\ actor_slots[lease[s].pid] = lease[s].slot
    BY LeaseSlots DEF OwnInv, ExclusiveMutator, LeaseValid, Shape, Token
  <2> QED
    BY <2>1 DEF Occupied
<1>2. word[i].owner = NoOwner
  <2> SUFFICES ASSUME word[i].owner # NoOwner PROVE FALSE
    OBVIOUS
  <2>1. /\ word[i].owner \in Schedulers
        /\ lease[word[i].owner] # NoLease /\ lease[word[i].owner].slot = i
    BY DEF OwnInv, ExclusiveMutator, Shape, Word
  <2> QED
    BY <2>1, <1>1
<1> QED
  BY <1>1, <1>2

\* register: the slot it takes is free, so no lease names it.
LEMMA RegisterOwn ==
    ASSUME OwnInv, NEW pid \in Pids, NEW s \in Schedulers, Register(pid, s)
    PROVE  OwnInv'
<1>1. PICK i \in Slots :
         /\ MayAllocate(i)
         /\ generation' = [generation EXCEPT ![i] = NextGeneration(@)]
         /\ actor_slots' = [actor_slots EXCEPT ![pid] = i]
         /\ route' = [route EXCEPT ![i] = s]
         /\ word' = [word EXCEPT ![i] =
                        Unowned(NewWord(NextGeneration(generation[i])), "Queued")]
         /\ born' = [born EXCEPT ![i] = registered + 1]
         /\ FreshMailbox({i})
  BY DEF Register
<1>2. /\ NoReaders /\ registered' = registered + 1
      /\ UNCHANGED <<call, lease, ticket>>
  BY DEF Register, heldVars
<1> DEFINE g == NextGeneration(generation[i])
           w == Unowned(NewWord(g), "Queued")
<1>3. g \in Generations
  BY NextGenerationType DEF OwnInv, Shape
<1>4. /\ generation' = [generation EXCEPT ![i] = g]
      /\ word' = [word EXCEPT ![i] = w]
  BY <1>1
<1> HIDE DEF g
<1>5. w \in Word /\ w.owner = NoOwner /\ w.actorGen = g
  <2>1. NewWord(g) \in Word /\ NewWord(g).actorGen = g
    BY <1>3, MaskAssumption
    DEF NewWord, PackState, Word, Lifecycles, Generations
  <2> QED
    BY <2>1, WordType DEF Lifecycles
<1> HIDE DEF w
<1>6. /\ \A r \in Schedulers : lease[r] # NoLease => lease[r].slot # i
      /\ \A p \in Pids : actor_slots[p] # i
  BY <1>1, NoLeaseAt DEF MayAllocate, Occupied
<1>7. /\ actor_slots'[pid] = i /\ route'[i] = s
      /\ word'[i] = w /\ generation'[i] = g
      /\ \A p \in Pids : p # pid => actor_slots'[p] = actor_slots[p]
      /\ \A j \in Slots : j # i => /\ word'[j] = word[j]
                                   /\ route'[j] = route[j]
                                   /\ generation'[j] = generation[j]
  BY <1>1, <1>4 DEF OwnInv, Shape
<1>8. Shape'
  <2>1. next_sequence' \in [Slots -> Nat]
    BY <1>1 DEF FreshMailbox, OwnInv, Shape
  <2>2. registered' \in Nat /\ born' \in [Slots -> Nat]
    BY <1>1, <1>2 DEF OwnInv, Shape
  <2> QED
    BY <1>1, <1>2, <1>3, <1>4, <1>5, <2>1, <2>2 DEF OwnInv, Shape
<1>9. Indexed'
  <2> SUFFICES ASSUME NEW p \in Pids, Resolves(p)'
               PROVE  /\ route'[actor_slots'[p]] \in Schedulers
                      /\ word'[actor_slots'[p]].actorGen
                            = generation'[actor_slots'[p]]
    BY DEF Indexed
  <2>1. CASE p = pid
    BY <2>1, <1>5, <1>7
  <2>2. CASE p # pid
    <3>1. /\ actor_slots'[p] = actor_slots[p] /\ Resolves(p)
          /\ actor_slots[p] \in Slots /\ actor_slots[p] # i
      BY <2>2, <1>6, <1>7 DEF Resolves, OwnInv, Shape
    <3> QED
      BY <3>1, <1>7 DEF OwnInv, Indexed
  <2> QED
    BY <2>1, <2>2
<1>10. LeasesNamed' /\ CallsOK'
  BY <1>2, QuietCalls DEF OwnInv, LeasesNamed
<1>11. ExclusiveMutator'
  <2>1. ASSUME NEW r \in Schedulers, lease'[r] # NoLease
        PROVE  LeaseValid(r)'
    <3>1. /\ lease'[r] = lease[r] /\ LeaseValid(r) /\ lease[r].slot \in Slots
          /\ lease[r].slot # i /\ lease[r].pid \in Pids
      BY <1>2, <1>6, <2>1, LeaseSlots
      DEF OwnInv, ExclusiveMutator, Shape, Token
    <3>2. lease[r].pid # pid
      BY <3>1, SlotAssumption DEF LeaseValid, Register, Resolves
    <3> QED
      BY <3>1, <3>2, <1>7 DEF LeaseValid, TokenMatches
  <2>2. ASSUME NEW j \in Slots, word'[j].owner # NoOwner
        PROVE  /\ word'[j].lifecycle = "Executing"
               /\ lease'[word'[j].owner] # NoLease
               /\ lease'[word'[j].owner].slot = j
    BY <1>2, <1>5, <1>7, <2>2 DEF OwnInv, ExclusiveMutator
  <2> QED
    BY <2>1, <2>2 DEF ExclusiveMutator
<1> QED
  BY <1>8, <1>9, <1>10, <1>11 DEF OwnInv

\* begin_migration: only an actor without an owner starts to migrate.
LEMMA BeginMigrationOwn ==
    ASSUME OwnInv, NEW s \in Schedulers, NEW d \in Schedulers,
           NEW pid \in Pids, BeginMigration(s, pid, d)
    PROVE  OwnInv'
<1> DEFINE i == actor_slots[pid]
           w == Unowned(word[i], "Migrating")
           k == [pid |-> pid, slot |-> i, actorGen |-> generation[i],
                 ownerGen |-> word[i].ownerGen, source |-> route[i],
                 destination |-> d, lifecycle |-> word[i].lifecycle,
                 born |-> born[i]]
<1>1. /\ NoReaders /\ i \in Slots /\ Resolves(pid)
      /\ MayTransition(word[i], Transferable)
      /\ word' = [word EXCEPT ![i] = w]
      /\ ticket' = [ticket EXCEPT ![s] = k]
      /\ UNCHANGED <<directoryVars, mailboxVars, call, lease>>
  BY DEF BeginMigration, OwnInv, Shape, Resolves
<1>2. /\ w \in Word /\ w.owner = NoOwner /\ w.actorGen = word[i].actorGen
      /\ word[i] \in Word
  BY <1>1, WordType DEF OwnInv, Shape, Lifecycles
<1>3. k \in Ticket
  <2>1. route[i] \in Schedulers /\ generation[i] \in Generations /\ born[i] \in Nat
    BY <1>1 DEF OwnInv, Indexed, Shape
  <2> QED
    BY <1>1, <1>2, <2>1 DEF Ticket, Word
<1> HIDE DEF w, k
<1>4. Shape'
  BY <1>1, <1>2, <1>3 DEF OwnInv, Shape, directoryVars, mailboxVars
<1>5. word[i].owner = NoOwner
  BY <1>1 DEF MayTransition
<1>6. Indexed' /\ LeasesNamed' /\ ExclusiveMutator'
  BY <1>1, <1>2, <1>5, WordStep DEF directoryVars
<1>7. CallsOK'
  BY <1>1, QuietCalls
<1> QED
  BY <1>4, <1>6, <1>7 DEF OwnInv

\* complete_migration: an accepted ticket finds the actor still without an
\* owner, so its route may change under no lease.
LEMMA CompleteMigrationOwn ==
    ASSUME OwnInv, NEW s \in Schedulers, CompleteMigration(s)
    PROVE  OwnInv'
<1> DEFINE k == ticket[s]
<1>1. /\ NoReaders /\ k \in Ticket
      /\ ticket' = [ticket EXCEPT ![s] = NoTicket]
      /\ UNCHANGED <<actor_slots, generation, registered, born, mailboxVars,
                     call, lease>>
  BY DEF CompleteMigration, OwnInv, Shape
<1>2. CallsOK'
  BY <1>1, QuietCalls
<1>3. CASE TicketValid(k)
  <2> DEFINE i == k.slot
             w == Unowned(word[i], RestoredLifecycle(k))
  <2>1. /\ i \in Slots /\ k.destination \in Schedulers
        /\ word[i].owner = NoOwner /\ word[i] \in Word
        /\ word[i].lifecycle = "Migrating"
    BY <1>1, <1>3 DEF TicketValid, MayTransition, Ticket, OwnInv, Shape
  <2>2. /\ word' = [word EXCEPT ![i] = w]
        /\ route' = [route EXCEPT ![i] = k.destination]
    BY <1>3 DEF CompleteMigration
  <2>3. w \in Word /\ w.owner = NoOwner /\ w.actorGen = word[i].actorGen
    BY <2>1, WordType DEF RestoredLifecycle, Lifecycles
  <2> HIDE DEF w
  <2>4. \A r \in Schedulers : lease[r] # NoLease => lease[r].slot # i
    BY <2>1, NoLeaseAt
  <2>5. /\ word'[i] = w /\ route'[i] = k.destination
        /\ \A j \in Slots : j # i => word'[j] = word[j] /\ route'[j] = route[j]
    BY <2>1, <2>2 DEF OwnInv, Shape
  <2>6. Shape'
    BY <1>1, <2>1, <2>2, <2>3 DEF OwnInv, Shape, mailboxVars
  <2>7. Indexed'
    <3> SUFFICES ASSUME NEW p \in Pids, Resolves(p)
                 PROVE  /\ route'[actor_slots[p]] \in Schedulers
                        /\ word'[actor_slots[p]].actorGen
                              = generation[actor_slots[p]]
      BY <1>1 DEF Indexed, Resolves
    <3>1. /\ actor_slots[p] \in Slots /\ route[actor_slots[p]] \in Schedulers
          /\ word[actor_slots[p]].actorGen = generation[actor_slots[p]]
      BY DEF OwnInv, Indexed, Shape, Resolves
    <3> QED
      BY <3>1, <2>1, <2>3, <2>5
  <2>8. LeasesNamed'
    BY <1>1 DEF OwnInv, LeasesNamed
  <2>9. ExclusiveMutator'
    <3>1. ASSUME NEW r \in Schedulers, lease'[r] # NoLease
          PROVE  LeaseValid(r)'
      <4>1. /\ lease'[r] = lease[r] /\ LeaseValid(r)
            /\ lease[r].slot \in Slots /\ lease[r].slot # i
        BY <1>1, <2>4, <3>1, LeaseSlots DEF OwnInv, ExclusiveMutator
      <4> QED
        BY <4>1, <1>1, <2>5 DEF LeaseValid, TokenMatches
    <3>2. ASSUME NEW j \in Slots, word'[j].owner # NoOwner
          PROVE  /\ word'[j].lifecycle = "Executing"
                 /\ lease'[word'[j].owner] # NoLease
                 /\ lease'[word'[j].owner].slot = j
      BY <1>1, <2>3, <2>5, <3>2 DEF OwnInv, ExclusiveMutator
    <3> QED
      BY <3>1, <3>2 DEF ExclusiveMutator
  <2> QED
    BY <1>2, <2>6, <2>7, <2>8, <2>9 DEF OwnInv
<1>4. CASE ~TicketValid(k)
  <2>1. UNCHANGED <<word, route>>
    BY <1>4 DEF CompleteMigration
  <2>2. Shape'
    BY <1>1, <2>1 DEF OwnInv, Shape, mailboxVars
  <2>3. Indexed' /\ LeasesNamed' /\ ExclusiveMutator'
    BY <1>1, <2>1
    DEF OwnInv, Indexed, Resolves, LeasesNamed, ExclusiveMutator, LeaseValid,
        TokenMatches
  <2> QED
    BY <1>2, <2>2, <2>3 DEF OwnInv
<1> QED
  BY <1>3, <1>4

\* mark_retired and reclaim: what is removed is not executing.
LEMMA RemoveOwn ==
    ASSUME OwnInv, NoReaders, NEW Gone \in SUBSET Slots, Remove(Gone),
           \A i \in Gone : word[i].lifecycle # "Executing"
    PROVE  OwnInv'
<1>1. /\ \A s \in Schedulers : lease[s] # NoLease => lease[s].slot \notin Gone
      /\ UNCHANGED <<generation, registered, born, call, lease, ticket>>
  BY NoLeaseAt DEF Remove, heldVars
<1>2. \A i \in Slots : /\ Unowned(word[i], "Reclaimed") \in Word
                        /\ Unowned(word[i], "Reclaimed").owner = NoOwner
  BY WordType DEF OwnInv, Shape, Lifecycles
<1>3. /\ \A i \in Gone : word'[i].owner = NoOwner
      /\ \A i \in Slots \ Gone : word'[i] = word[i] /\ route'[i] = route[i]
      /\ \A p \in Pids : actor_slots[p] \in Gone => actor_slots'[p] = NoSlot
      /\ \A p \in Pids : actor_slots[p] \notin Gone =>
                              actor_slots'[p] = actor_slots[p]
  BY <1>2 DEF Remove
<1>4. Shape'
  <2>1. next_sequence' \in [Slots -> Nat]
    BY DEF Remove, FreshMailbox, OwnInv, Shape
  <2>2. /\ word' \in [Slots -> Word]
        /\ route' \in [Slots -> Schedulers \cup {NoOwner}]
        /\ actor_slots' \in [Pids -> Slots \cup {NoSlot}]
    BY <1>2 DEF Remove, OwnInv, Shape
  <2> QED
    BY <1>1, <2>1, <2>2 DEF OwnInv, Shape
<1>5. Indexed'
  BY <1>1, <1>3 DEF OwnInv, Indexed, Resolves, Shape
<1>6. LeasesNamed' /\ CallsOK'
  BY <1>1, QuietCalls DEF OwnInv, LeasesNamed
<1>7. ExclusiveMutator'
  <2>1. ASSUME NEW r \in Schedulers, lease'[r] # NoLease
        PROVE  LeaseValid(r)'
    <3>1. /\ lease'[r] = lease[r] /\ LeaseValid(r) /\ lease[r].pid \in Pids
          /\ lease[r].slot \in Slots \ Gone
      BY <1>1, <2>1, LeaseSlots DEF OwnInv, ExclusiveMutator, Shape, Token
    <3> QED
      BY <3>1, <1>1, <1>3 DEF LeaseValid, TokenMatches
  <2>2. ASSUME NEW j \in Slots, word'[j].owner # NoOwner
        PROVE  /\ word'[j].lifecycle = "Executing"
               /\ lease'[word'[j].owner] # NoLease
               /\ lease'[word'[j].owner].slot = j
    BY <1>1, <1>3, <2>2 DEF OwnInv, ExclusiveMutator
  <2> QED
    BY <2>1, <2>2 DEF ExclusiveMutator
<1> QED
  BY <1>4, <1>5, <1>6, <1>7 DEF OwnInv

\* reclaim, discard and shutdown, and which slots they empty.
LEMMA RemovalSteps ==
    ASSUME OwnInv,
           \/ \E pid \in Pids : Reclaim(pid) \/ Discard(pid)
           \/ Shutdown
    PROVE  /\ NoReaders
           /\ \E Gone \in SUBSET Slots :
                 /\ Remove(Gone)
                 /\ \A i \in Gone : word[i].lifecycle # "Executing"
<1>1. ASSUME NEW pid \in Pids, Reclaim(pid) \/ Discard(pid)
      PROVE  /\ NoReaders
             /\ {actor_slots[pid]} \in SUBSET Slots
             /\ Remove({actor_slots[pid]})
             /\ word[actor_slots[pid]].lifecycle # "Executing"
  BY <1>1
  DEF Reclaim, Discard, MayTransition, Transferable, Resolves, OwnInv, Shape
<1>2. ASSUME Shutdown
      PROVE  /\ NoReaders /\ Remove({i \in Slots : Occupied(i)})
             /\ \A i \in {j \in Slots : Occupied(j)} :
                   word[i].lifecycle # "Executing"
  BY <1>2 DEF Shutdown
<1> QED
  BY <1>1, <1>2

\* Every step keeps the invariant.
LEMMA NextOwn ==
    ASSUME OwnInv, [Next]_vars
    PROVE  OwnInv'
<1>1. CASE UNCHANGED vars
  BY <1>1
  DEF vars, OwnInv, Shape, Indexed, CallsOK, CallOK, LeasesNamed,
      ExclusiveMutator, LeaseValid, TokenMatches, Resolves, Occupied, pc, at
<1>2. CASE StartCall
  BY <1>2, PublishOwn, AcquireOwn, DrainOwn, ReleaseOwn, RequeueOwn
  DEF StartCall
<1>3. ASSUME NEW t \in Threads, Continue(t)
      PROVE  OwnInv'
  BY <1>3, EnqueueOwn, PublishOwn, AcquireOwn, DrainOwn, ReleaseOwn, RequeueOwn
  DEF Continue
<1>4. CASE Control
  <2>1. CASE \E pid \in Pids, s \in Schedulers : Register(pid, s)
    BY <2>1, RegisterOwn
  <2>2. CASE \E s, d \in Schedulers, pid \in Pids : BeginMigration(s, pid, d)
    BY <2>2, BeginMigrationOwn
  <2>3. CASE \E s \in Schedulers : CompleteMigration(s)
    BY <2>3, CompleteMigrationOwn
  <2>4. CASE (\E pid \in Pids : Reclaim(pid) \/ Discard(pid)) \/ Shutdown
    BY <2>4, RemovalSteps, RemoveOwn
  <2> QED
    BY <1>4, <2>1, <2>2, <2>3, <2>4 DEF Control
<1> QED
  BY <1>1, <1>2, <1>3, <1>4 DEF Next

\* The steps of a call leave the index alone.
LEMMA CallsKeepIndex ==
    ASSUME StartCall \/ \E t \in Threads : Continue(t)
    PROVE  UNCHANGED actor_slots
<1>1. CASE StartCall
  BY <1>1
  DEF StartCall, PublishStart, AcquireStart, DrainStart, ReleaseStart,
      RequeueStart, directoryVars
<1>2. ASSUME NEW t \in Threads, Continue(t)
      PROVE  UNCHANGED actor_slots
  <2>1. CASE EnqueueStep(t)
    BY <2>1 DEF EnqueueStep, EnqueueLoad, EnqueueCas, directoryVars
  <2>2. CASE ProducerStep(t)
    BY <2>2
    DEF ProducerStep, PublishAdmit, PublishSequence, PublishPush, PublishSwap,
        directoryVars
  <2>3. CASE AcquireStep(t) \/ DrainStep(t)
    BY <2>3
    DEF AcquireStep, AcquireCas, Activate, DrainStep, DrainPop, DrainDecrement,
        DrainEmpty, DrainAcknowledge, directoryVars
  <2>4. CASE ReleaseStep(t) \/ RequeueStep(t)
    BY <2>4
    DEF ReleaseStep, ParkCas, ParkCheck, ParkNotify, ParkCommit, ReleaseLoad,
        ReleaseCas, ReleaseNotified, RequeueStep, RequeueLoad, RequeueCas,
        directoryVars
  <2> QED
    BY <1>2, <2>1, <2>2, <2>3, <2>4 DEF Continue
<1> QED
  BY <1>1, <1>2

-----------------------------------------------------------------------------
(* Theorems *)

\* The ownership invariant holds of every reachable state.
THEOREM OwnershipInvariance == Spec => []OwnInv
  BY InitOwn, NextOwn, PTL DEF Spec

\* MC-C02, for any number of threads, slots and process identities: the
\* compare-exchange of acquire_mutator grants an actor to one scheduler at a
\* time, and no publication, requeue, migration, reclamation or reuse of its
\* slot makes a lease stale before release_mutator gives it back.
THEOREM LeasesExclusive == Spec => []ExclusiveMutator
<1>1. OwnInv => ExclusiveMutator
  BY DEF OwnInv
<1> QED
  BY <1>1, OwnershipInvariance, PTL

\* release_mutator never ends in StaleMutator for a lease that was valid when
\* the release began: nobody changes an owned word between its load and its
\* compare-exchange.
THEOREM ReleasesSucceed == Spec => []ReleaseNeverStale
<1>1. OwnInv => ReleaseNeverStale
  BY DEF OwnInv, CallsOK, CallOK, ReleaseNeverStale, Threads
<1> QED
  BY <1>1, OwnershipInvariance, PTL

\* MC-C06: reclaim, discard and shutdown take a cell out of the directory only
\* when no call is inside it and no lease names it.
THEOREM ReclamationQuiet == Spec => ReclaimQuiet
<1> DEFINE Quiet ==
       \A pid \in Pids :
          Resolves(pid) /\ actor_slots'[pid] # actor_slots[pid] =>
             /\ NoReaders
             /\ \A s \in Schedulers :
                   lease[s] # NoLease => lease[s].slot # actor_slots[pid]
<1>1. ASSUME OwnInv, [Next]_vars
      PROVE  [Quiet]_vars
  <2>1. CASE UNCHANGED vars
    BY <2>1
  <2>2. CASE StartCall \/ \E t \in Threads : Continue(t)
    BY <2>2, CallsKeepIndex
  <2>3. CASE \E pid \in Pids, s \in Schedulers : Register(pid, s)
    BY <2>3 DEF Register, OwnInv, Shape
  <2>4. CASE \/ \E s, d \in Schedulers, pid \in Pids : BeginMigration(s, pid, d)
             \/ \E s \in Schedulers : CompleteMigration(s)
    BY <2>4 DEF BeginMigration, CompleteMigration, directoryVars
  <2>5. CASE (\E pid \in Pids : Reclaim(pid) \/ Discard(pid)) \/ Shutdown
    <3>1. NoReaders
      BY <2>5, <1>1, RemovalSteps
    <3>2. PICK Gone \in SUBSET Slots :
             /\ Remove(Gone)
             /\ \A i \in Gone : word[i].lifecycle # "Executing"
      BY <2>5, <1>1, RemovalSteps
    <3>3. \A i \in Gone, s \in Schedulers :
             lease[s] # NoLease => lease[s].slot # i
      BY <1>1, <3>2, NoLeaseAt
    <3>4. \A p \in Pids : actor_slots'[p] # actor_slots[p] => actor_slots[p] \in Gone
      BY <3>2 DEF Remove
    <3> QED
      BY <3>1, <3>3, <3>4
  <2> QED
    BY <1>1, <2>1, <2>2, <2>3, <2>4, <2>5 DEF Next, Control
<1> QED
  BY <1>1, OwnershipInvariance, PTL DEF Spec, ReclaimQuiet

-----------------------------------------------------------------------------
(* What a mailbox holds *)

Mailed ==
    /\ queue \in [Slots -> Seq(Fragment)]
    /\ delivered \in [Slots -> Seq(Fragment)]
    /\ sent \in [Producers -> 0 .. MaxPublish]
    /\ \A p \in Producers : pc(p) # "idle" => sent[p] \in 1 .. MaxPublish

MailInv == OwnInv /\ Mailed

-----------------------------------------------------------------------------
(* Mailboxes hold fragments *)

\* The program counter of a producer that changed none but its own call.
LEMMA OtherCalls ==
    ASSUME OwnInv, NEW t \in Threads, NEW p \in Producers, p # t, NEW c,
           call' = [call EXCEPT ![t] = c]
    PROVE  pc(p)' = pc(p)
BY DEF OwnInv, Shape, pc, Threads

\* A step that leaves the mail alone and starts no publication.
LEMMA MailedStays ==
    ASSUME MailInv, UNCHANGED <<queue, delivered, sent>>,
           \A p \in Producers : pc(p)' # "idle" => pc(p) # "idle"
    PROVE  Mailed'
BY DEF MailInv, Mailed

\* Whoever goes on with a call was inside it.
LEMMA CallGoesOn ==
    ASSUME OwnInv, NEW t \in Threads, pc(t) # "idle", NEW c,
           call' = [call EXCEPT ![t] = c]
    PROVE  \A p \in Producers : pc(p)' # "idle" => pc(p) # "idle"
BY OtherCalls

\* A scheduler's step is no producer's.
LEMMA SchedulerCall ==
    ASSUME OwnInv, NEW s \in Schedulers, NEW c, call' = [call EXCEPT ![s] = c]
    PROVE  \A p \in Producers : pc(p)' = pc(p)
BY OtherCalls, ThreadAssumption DEF Threads

\* A publication pushes a fragment, numbered by its producer.
LEMMA PublishMailed ==
    ASSUME MailInv, NEW p \in Producers, PublishStart(p) \/ ProducerStep(p)
    PROVE  Mailed'
<1>0. p \in Threads /\ OwnInv /\ Mailed
  BY DEF Threads, MailInv
<1>1. CASE PublishStart(p)
  <2>1. /\ sent' = [sent EXCEPT ![p] = @ + 1] /\ sent[p] < MaxPublish
        /\ UNCHANGED <<queue, delivered>>
    BY <1>1 DEF PublishStart, mailboxVars
  <2>2. PICK i : call' = [call EXCEPT ![p] = i]
    BY <1>1 DEF PublishStart, Begin
  <2>3. sent[p] \in 0 .. MaxPublish /\ sent[p] + 1 \in 1 .. MaxPublish
    BY <1>0, <2>1, BoundAssumption DEF Mailed
  <2>4. sent' \in [Producers -> 0 .. MaxPublish] /\ sent'[p] \in 1 .. MaxPublish
    BY <1>0, <2>1, <2>3, BoundAssumption DEF Mailed
  <2>5. ASSUME NEW q \in Producers, pc(q)' # "idle"
        PROVE  sent'[q] \in 1 .. MaxPublish
    <3>1. CASE q = p
      BY <3>1, <2>4
    <3>2. CASE q # p
      BY <3>2, <1>0, <2>1, <2>2, <2>5, OtherCalls DEF Mailed
    <3> QED BY <3>1, <3>2
  <2> QED BY <1>0, <2>1, <2>4, <2>5 DEF Mailed
<1>2. CASE PublishPush(p)
  <2>1. /\ pc(p) = "push" /\ UNCHANGED <<delivered, sent>>
        /\ \E c : call' = [call EXCEPT ![p] = c]
    BY <1>2 DEF PublishPush, countVars, Goto, Return
  <2>2. \A q \in Producers : pc(q)' # "idle" => pc(q) # "idle"
    BY <1>0, <2>1, CallGoesOn
  <2>3. queue' \in [Slots -> Seq(Fragment)]
    <3> DEFINE f == [from |-> p, n |-> sent[p], seq |-> call[p].seq]
    <3>1. at(p) \in Slots /\ call[p].seq \in Nat
      BY <1>0, <2>1 DEF OwnInv, CallsOK, CallOK, Shape, Call
    <3>2. f \in Fragment
      BY <1>0, <2>1, <3>1 DEF Fragment, Mailed
    <3>3. \/ queue' = queue
          \/ queue' = [queue EXCEPT ![at(p)] = Append(@, f)]
      BY <1>2 DEF PublishPush
    <3> HIDE DEF f
    <3>4. Append(queue[at(p)], f) \in Seq(Fragment)
      BY <1>0, <3>1, <3>2 DEF Mailed
    <3>5. queue \in [Slots -> Seq(Fragment)]
      BY <1>0 DEF Mailed
    <3> QED BY <3>1, <3>3, <3>4, <3>5
  <2> QED BY <1>0, <2>1, <2>2, <2>3 DEF Mailed
<1>3. CASE PublishAdmit(p) \/ PublishSequence(p) \/ PublishSwap(p)
  <2>1. /\ pc(p) # "idle" /\ UNCHANGED <<queue, delivered, sent>>
        /\ \E c : call' = [call EXCEPT ![p] = c]
    BY <1>3 DEF PublishAdmit, PublishSequence, PublishSwap, countVars, Goto, Return
  <2> QED BY <1>0, <2>1, CallGoesOn, MailedStays
<1> QED BY <1>1, <1>2, <1>3 DEF ProducerStep

\* A drain moves the oldest fragment from the queue to what was delivered.
LEMMA DrainPopMailed ==
    ASSUME MailInv, NEW s \in Schedulers, DrainPop(s)
    PROVE  Mailed'
<1>0. s \in Threads /\ OwnInv /\ Mailed /\ UNCHANGED sent
  BY DEF Threads, MailInv, DrainPop, countVars
<1>1. at(s) \in Slots
  BY <1>0 DEF OwnInv, CallsOK, CallOK, DrainPop
<1>2. \E c : call' = [call EXCEPT ![s] = c]
  BY DEF DrainPop, Goto
<1>3. \A p \in Producers : pc(p)' = pc(p)
  BY <1>0, <1>2, SchedulerCall
<1>4. queue' \in [Slots -> Seq(Fragment)] /\ delivered' \in [Slots -> Seq(Fragment)]
  <2>1. CASE queue[at(s)] = <<>>
    BY <1>0, <2>1 DEF DrainPop, Mailed
  <2>2. CASE queue[at(s)] # <<>>
    <3>1. Head(queue[at(s)]) \in Fragment /\ Tail(queue[at(s)]) \in Seq(Fragment)
      BY <1>0, <1>1, <2>2 DEF Mailed
    <3>2. Append(delivered[at(s)], Head(queue[at(s)])) \in Seq(Fragment)
      BY <1>0, <1>1, <3>1 DEF Mailed
    <3> QED BY <1>0, <1>1, <2>2, <3>1, <3>2 DEF DrainPop, Mailed
  <2> QED BY <2>1, <2>2
<1> QED BY <1>0, <1>3, <1>4 DEF Mailed

\* Steps of a scheduler that neither drain nor change a word.
SilentStep(s) ==
    \/ AcquireStart(s) \/ Activate(s)
    \/ DrainStart(s) \/ DrainDecrement(s) \/ DrainEmpty(s) \/ DrainAcknowledge(s)
    \/ ReleaseStart(s) \/ ParkCas(s) \/ ParkCheck(s) \/ ParkNotify(s) \/ ParkCommit(s)
    \/ ReleaseLoad(s) \/ ReleaseNotified(s)
    \/ RequeueStart(s) \/ RequeueLoad(s)

\* They leave the index, the words and the mail as they are.
LEMMA SilentFrame ==
    ASSUME NEW s \in Schedulers, SilentStep(s)
    PROVE  /\ UNCHANGED <<actor_slots, word, queue, delivered, sent>>
           /\ \E c : call' = [call EXCEPT ![s] = c]
<1>1. CASE AcquireStart(s) \/ Activate(s)
  BY <1>1 DEF AcquireStart, Activate, directoryVars, mailboxVars, countVars, Return
<1>2. CASE DrainStart(s) \/ DrainDecrement(s) \/ DrainEmpty(s) \/ DrainAcknowledge(s)
  BY <1>2 DEF DrainStart, DrainDecrement, DrainEmpty, DrainAcknowledge,
              directoryVars, mailboxVars, countVars, Begin, Goto, Return
<1>3. CASE ReleaseStart(s) \/ ReleaseLoad(s) \/ ReleaseNotified(s)
  BY <1>3 DEF ReleaseStart, ReleaseLoad, ReleaseNotified,
              directoryVars, mailboxVars, countVars, Goto, Return
<1>4. CASE ParkCas(s) \/ ParkCheck(s) \/ ParkNotify(s) \/ ParkCommit(s)
  BY <1>4 DEF ParkCas, ParkCheck, ParkNotify, ParkCommit, ParkRefused,
              directoryVars, mailboxVars, countVars, Goto
<1>5. CASE RequeueStart(s) \/ RequeueLoad(s)
  BY <1>5 DEF RequeueStart, RequeueLoad, directoryVars, mailboxVars, countVars,
              Begin, Return
<1> QED BY <1>1, <1>2, <1>3, <1>4, <1>5 DEF SilentStep

\* The compare-exchanges of schedulers leave the mail alone.
LEMMA WordFrame ==
    ASSUME NEW s \in Schedulers, AcquireCas(s) \/ ReleaseCas(s) \/ RequeueCas(s)
    PROVE  /\ UNCHANGED <<actor_slots, queue, delivered, sent>>
           /\ \E c : call' = [call EXCEPT ![s] = c]
BY DEF AcquireCas, ReleaseCas, RequeueCas, directoryVars, mailboxVars, countVars,
       Goto, Return

\* So does the wake of a parked actor, whoever is about it.
LEMMA EnqueueFrame ==
    ASSUME NEW t \in Threads, EnqueueStep(t)
    PROVE  /\ UNCHANGED <<actor_slots, queue, delivered, sent>>
           /\ pc(t) # "idle"
           /\ \E c : call' = [call EXCEPT ![t] = c]
BY DEF EnqueueStep, EnqueueLoad, EnqueueCas, directoryVars, mailboxVars, countVars, Return

\* The operations under the write lock empty mailboxes and fill none.
LEMMA ControlMailed ==
    ASSUME MailInv, Control
    PROVE  Mailed'
<1>0. OwnInv /\ Mailed
  BY DEF MailInv
<1>1. ASSUME NEW G, FreshMailbox(G), UNCHANGED <<call, sent>>
      PROVE  Mailed'
  <2>1. <<>> \in Seq(Fragment)
    OBVIOUS
  <2>2. queue' \in [Slots -> Seq(Fragment)] /\ delivered' \in [Slots -> Seq(Fragment)]
    BY <1>0, <1>1, <2>1 DEF FreshMailbox, Mailed
  <2> QED BY <1>0, <1>1, <2>2 DEF Mailed, pc
<1>2. CASE \E pid \in Pids, s \in Schedulers : Register(pid, s)
  BY <1>1, <1>2 DEF Register, countVars
<1>3. CASE \/ \E s, d \in Schedulers, pid \in Pids : BeginMigration(s, pid, d)
           \/ \E s \in Schedulers : CompleteMigration(s)
  BY <1>0, <1>3 DEF BeginMigration, CompleteMigration, mailboxVars, countVars, Mailed, pc
<1>4. CASE (\E pid \in Pids : Reclaim(pid) \/ Discard(pid)) \/ Shutdown
  BY <1>1, <1>4 DEF Reclaim, Discard, Shutdown, Remove, countVars
<1> QED BY <1>2, <1>3, <1>4 DEF Control

\* Every step keeps fragments in the mailboxes.
LEMMA NextMailed ==
    ASSUME MailInv, [Next]_vars
    PROVE  Mailed'
<1>0. OwnInv /\ Mailed
  BY DEF MailInv
<1>1. CASE UNCHANGED vars
  BY <1>0, <1>1 DEF vars, Mailed, pc
<1>2. ASSUME NEW s \in Schedulers,
             SilentStep(s) \/ AcquireCas(s) \/ ReleaseCas(s) \/ RequeueCas(s)
      PROVE  Mailed'
  BY <1>0, <1>2, SilentFrame, WordFrame, SchedulerCall, MailedStays
<1>3. ASSUME NEW t \in Threads, EnqueueStep(t)
      PROVE  Mailed'
  BY <1>0, <1>3, EnqueueFrame, CallGoesOn, MailedStays
<1>4. CASE StartCall
  BY <1>2, <1>4, PublishMailed DEF StartCall, SilentStep
<1>5. ASSUME NEW t \in Threads, Continue(t)
      PROVE  Mailed'
  BY <1>2, <1>3, <1>5, PublishMailed, DrainPopMailed
  DEF Continue, SilentStep, AcquireStep, DrainStep, ReleaseStep, RequeueStep
<1> QED BY <1>1, <1>4, <1>5, ControlMailed DEF Next

\* Mailboxes hold fragments in every reachable state.
THEOREM MailInvariance == Spec => []MailInv
<1>1. Init => MailInv
  <2> SUFFICES ASSUME Init PROVE Mailed
    BY InitOwn DEF MailInv
  <2>1. <<>> \in Seq(Fragment) /\ 0 \in 0 .. MaxPublish
    BY BoundAssumption
  <2>2. \A p \in Producers : pc(p) = "idle"
    BY DEF Init, pc, Idle, Threads
  <2> QED BY <2>1, <2>2 DEF Init, Mailed
<1>2. MailInv /\ [Next]_vars => MailInv'
  BY NextMailed, NextOwn DEF MailInv
<1> QED BY <1>1, <1>2, PTL DEF Spec

-----------------------------------------------------------------------------
(* Where a call stands after a step *)

\* Nobody else's call changes.
OthersKept(t) == \A u \in Threads : u # t => call'[u] = call[u]

\* A bare change of the program counter stays at its slot.
LEMMA GotoCall ==
    ASSUME OwnInv, NEW t \in Threads, NEW label, Goto(t, label)
    PROVE  pc(t)' = label /\ at(t)' = at(t) /\ OthersKept(t)
<1>1. call \in [Threads -> Call] /\ call[t] \in Call
  BY DEF OwnInv, Shape
<1>2. call'[t] = [call[t] EXCEPT !.pc = label]
  BY <1>1 DEF Goto
<1>3. call'[t].pc = label /\ call'[t].slot = call[t].slot
  BY <1>1, <1>2 DEF Call
<1>4. OthersKept(t)
  BY <1>1 DEF Goto, OthersKept
<1> QED BY <1>3, <1>4 DEF pc, at

\* A call that returns is nowhere.
LEMMA ReturnCall ==
    ASSUME OwnInv, NEW t \in Threads, Return(t)
    PROVE  pc(t)' = "idle" /\ at(t)' = NoSlot /\ OthersKept(t)
<1>1. call \in [Threads -> Call] /\ call'[t] = Idle
  BY DEF OwnInv, Shape, Return
<1>2. Idle.pc = "idle" /\ Idle.slot = NoSlot
  BY DEF Idle
<1>3. OthersKept(t)
  BY <1>1 DEF Return, OthersKept
<1> QED BY <1>1, <1>2, <1>3 DEF pc, at

\* A call that begins is where it says.
LEMMA BeginCall ==
    ASSUME OwnInv, NEW t \in Threads, NEW label, NEW slot, Begin(t, label, slot)
    PROVE  pc(t)' = label /\ at(t)' = slot /\ OthersKept(t)
<1>1. /\ call \in [Threads -> Call]
      /\ call'[t] = [Idle EXCEPT !.pc = label, !.slot = slot]
  BY DEF OwnInv, Shape, Begin
<1>2. call'[t].pc = label /\ call'[t].slot = slot
  BY <1>1 DEF Idle
<1>3. OthersKept(t)
  BY <1>1 DEF Begin, OthersKept
<1> QED BY <1>2, <1>3 DEF pc, at

\* A call that loads a word goes on at its slot, with that word.
LEMMA LoadCall ==
    ASSUME OwnInv, NEW t \in Threads, NEW label, NEW w,
           call' = [call EXCEPT ![t].pc = label, ![t].before = w]
    PROVE  /\ pc(t)' = label /\ at(t)' = at(t) /\ OthersKept(t)
           /\ call'[t].before = w
<1>1. call \in [Threads -> Call] /\ call[t] \in Call
  BY DEF OwnInv, Shape
<1>2. call'[t] = [call[t] EXCEPT !.pc = label, !.before = w]
  BY <1>1
<1>3. /\ call'[t].pc = label /\ call'[t].slot = call[t].slot
      /\ call'[t].before = w
  BY <1>1, <1>2 DEF Call
<1>4. OthersKept(t)
  BY <1>1 DEF OthersKept
<1> QED BY <1>3, <1>4 DEF pc, at

\* A publication that reserves its sequence goes on at its slot.
LEMMA SequenceCall ==
    ASSUME OwnInv, NEW p \in Producers, PublishSequence(p)
    PROVE  pc(p)' = "push" /\ at(p)' = at(p) /\ OthersKept(p)
<1>0. p \in Threads
  BY DEF Threads
<1> DEFINE n == next_sequence[at(p)] + 1
<1>1. call \in [Threads -> Call] /\ call[p] \in Call
  BY <1>0 DEF OwnInv, Shape
<1>2. call' = [call EXCEPT ![p].pc = "push", ![p].seq = n]
  BY DEF PublishSequence
<1> HIDE DEF n
<1>3. call'[p] = [call[p] EXCEPT !.pc = "push", !.seq = n]
  BY <1>0, <1>1, <1>2
<1>4. call'[p].pc = "push" /\ call'[p].slot = call[p].slot
  BY <1>1, <1>3 DEF Call
<1>5. OthersKept(p)
  BY <1>0, <1>1, <1>2 DEF OthersKept
<1> QED BY <1>4, <1>5 DEF pc, at

-----------------------------------------------------------------------------
(* Admission *)

\* Where a call holds a place without a fragment in the queue.
Flying == {"sequence", "push", "drain_dec"}

\* The inductive part of AdmissionExact.
Admission ==
    /\ admitted \in [Slots -> Nat]
    /\ \A i \in Slots :
          /\ IsFiniteSet(InFlight(i))
          /\ admitted[i] = Len(queue[i]) + Cardinality(InFlight(i))
          /\ admitted[i] <= Capacity

BoxInv == MailInv /\ Admission

\* A step that moves nothing in or out of flight.
LEMMA FlightKept ==
    ASSUME NEW t \in Threads, OthersKept(t), NEW i \in Slots,
           (at(t) = i /\ pc(t) \in Flying) <=> (at(t)' = i /\ pc(t)' \in Flying)
    PROVE  InFlight(i)' = InFlight(i)
BY DEF OthersKept, InFlight, Flying, pc, at

\* A step by which a call takes off at its slot.
LEMMA FlightGained ==
    ASSUME NEW t \in Threads, OthersKept(t), NEW i \in Slots,
           ~(at(t) = i /\ pc(t) \in Flying), at(t)' = i /\ pc(t)' \in Flying
    PROVE  InFlight(i)' = InFlight(i) \cup {t} /\ t \notin InFlight(i)
BY DEF OthersKept, InFlight, Flying, pc, at

\* A step by which a call lands.
LEMMA FlightLost ==
    ASSUME NEW t \in Threads, OthersKept(t), NEW i \in Slots,
           at(t) = i /\ pc(t) \in Flying, ~(at(t)' = i /\ pc(t)' \in Flying)
    PROVE  InFlight(i)' = InFlight(i) \ {t} /\ t \in InFlight(i)
BY DEF OthersKept, InFlight, Flying, pc, at

\* Steps that have nothing to do with admission.
LEMMA AdmissionKept ==
    ASSUME Admission, NEW t \in Threads, OthersKept(t),
           \A i \in Slots : (at(t) = i /\ pc(t) \in Flying)
                            <=> (at(t)' = i /\ pc(t)' \in Flying),
           UNCHANGED <<queue, admitted>>
    PROVE  Admission'
<1>1. ASSUME NEW i \in Slots PROVE InFlight(i)' = InFlight(i)
  BY FlightKept
<1> QED BY <1>1 DEF Admission

\* A step at one slot: the others keep their counts.
LEMMA AdmissionAt ==
    ASSUME Admission, NEW t \in Threads, OthersKept(t), NEW j \in Slots,
           at(t) = j, at(t)' \in {j, NoSlot},
           admitted' \in [Slots -> Nat],
           \A i \in Slots : i # j => /\ admitted'[i] = admitted[i]
                                     /\ queue'[i] = queue[i],
           /\ IsFiniteSet(InFlight(j)')
           /\ admitted'[j] = Len(queue'[j]) + Cardinality(InFlight(j)')
           /\ admitted'[j] <= Capacity
    PROVE  Admission'
<1>1. ASSUME NEW i \in Slots, i # j PROVE InFlight(i)' = InFlight(i)
  <2>1. at(t) # i /\ at(t)' # i
    BY <1>1, SlotAssumption
  <2> QED BY <2>1, FlightKept
<1>2. ASSUME NEW i \in Slots
      PROVE  /\ IsFiniteSet(InFlight(i)')
             /\ admitted'[i] = Len(queue'[i]) + Cardinality(InFlight(i)')
             /\ admitted'[i] <= Capacity
  <2>1. CASE i = j
    BY <2>1
  <2>2. CASE i # j
    BY <2>2, <1>1 DEF Admission
  <2> QED BY <2>1, <2>2
<1> QED BY <1>2 DEF Admission

\* A place is reserved, a fragment pushed, a place given back: each changes two
\* of counter, queue and flights so that the sum stays.
LEMMA PublishAdmission ==
    ASSUME BoxInv, NEW p \in Producers, PublishStart(p) \/ ProducerStep(p)
    PROVE  Admission'
<1>0. p \in Threads /\ OwnInv /\ Mailed /\ Admission
  BY DEF Threads, BoxInv, MailInv
<1>1. CASE PublishStart(p)
  <2>1. PICK slot : Begin(p, "admit", slot)
    BY <1>1 DEF PublishStart
  <2>2. pc(p)' = "admit" /\ OthersKept(p)
    BY <1>0, <2>1, BeginCall
  <2>3. pc(p) = "idle" /\ UNCHANGED <<queue, admitted>>
    BY <1>1 DEF PublishStart, mailboxVars
  <2> QED BY <1>0, <2>2, <2>3, AdmissionKept DEF Flying
<1>2. CASE PublishAdmit(p)
  <2>1. pc(p) = "admit" /\ at(p) \in Slots /\ UNCHANGED queue
    BY <1>0, <1>2 DEF PublishAdmit, OwnInv, CallsOK, CallOK
  <2>j. PICK j \in Slots : j = at(p)
    BY <2>1
  <2>2. CASE admitted[j] < Capacity
    <3>1. /\ admitted' = [admitted EXCEPT ![j] = @ + 1]
          /\ Goto(p, "sequence")
      BY <2>j, <1>2, <2>2 DEF PublishAdmit
    <3>2. pc(p)' = "sequence" /\ at(p)' = j /\ OthersKept(p)
      BY <2>j, <1>0, <3>1, GotoCall
    <3>3. InFlight(j)' = InFlight(j) \cup {p} /\ p \notin InFlight(j)
      BY <2>j, <1>0, <2>1, <3>2, FlightGained DEF Flying
    <3>4. IsFiniteSet(InFlight(j)) /\ Cardinality(InFlight(j)) \in Nat
      BY <2>j, <1>0, <2>1, FS_CardinalityType DEF Admission
    <3>5. /\ IsFiniteSet(InFlight(j)')
          /\ Cardinality(InFlight(j)') = Cardinality(InFlight(j)) + 1
      BY <2>j, <3>3, <3>4, FS_AddElement
    <3>6. /\ admitted \in [Slots -> Nat] /\ admitted[j] \in Nat
          /\ admitted[j] = Len(queue[j]) + Cardinality(InFlight(j))
          /\ Len(queue[j]) \in Nat
      BY <2>j, <1>0, <2>1 DEF Admission, Mailed
    <3>7. /\ admitted' \in [Slots -> Nat] /\ admitted'[j] = admitted[j] + 1
          /\ \A i \in Slots : i # j => admitted'[i] = admitted[i]
      BY <2>j, <2>1, <3>1, <3>6
    <3>8. /\ admitted'[j] = Len(queue'[j]) + Cardinality(InFlight(j)')
          /\ admitted'[j] <= Capacity
      BY <2>j, <2>1, <2>2, <3>4, <3>5, <3>6, <3>7, CapacityAssumption
    <3> QED BY <2>j, <1>0, <2>1, <3>2, <3>5, <3>7, <3>8, AdmissionAt
  <2>3. CASE ~(admitted[j] < Capacity)
    <3>1. Return(p) /\ UNCHANGED <<queue, admitted>>
      BY <2>j, <1>2, <2>1, <2>3 DEF PublishAdmit
    <3>2. pc(p)' = "idle" /\ OthersKept(p)
      BY <2>j, <1>0, <3>1, ReturnCall
    <3> QED BY <2>j, <1>0, <2>1, <3>1, <3>2, AdmissionKept DEF Flying
  <2> QED BY <2>j, <2>2, <2>3
<1>3. CASE PublishSequence(p)
  <2>1. pc(p) = "sequence" /\ UNCHANGED <<queue, admitted>>
    BY <1>3 DEF PublishSequence
  <2>2. pc(p)' = "push" /\ at(p)' = at(p) /\ OthersKept(p)
    BY <1>0, <1>3, SequenceCall
  <2> QED BY <1>0, <2>1, <2>2, AdmissionKept DEF Flying
<1>4. CASE PublishPush(p)
  <2>1. pc(p) = "push" /\ at(p) \in Slots
    BY <1>0, <1>4 DEF PublishPush, OwnInv, CallsOK, CallOK
  <2>j. PICK j \in Slots : j = at(p)
    BY <2>1
  <2> DEFINE f == [from |-> p, n |-> sent[p], seq |-> call[p].seq]
  <2>2. /\ admitted \in [Slots -> Nat] /\ admitted[j] \in Nat
        /\ admitted[j] = Len(queue[j]) + Cardinality(InFlight(j))
        /\ admitted[j] <= Capacity
        /\ queue \in [Slots -> Seq(Fragment)] /\ Len(queue[j]) \in Nat
        /\ IsFiniteSet(InFlight(j))
    BY <2>j, <1>0, <2>1 DEF Admission, Mailed
  <2>3. /\ OthersKept(p) /\ pc(p)' \notin Flying /\ at(p)' \in {j, NoSlot}
    BY <2>j, <1>0, <1>4, GotoCall, ReturnCall DEF PublishPush, Flying
  <2>4. InFlight(j)' = InFlight(j) \ {p} /\ p \in InFlight(j)
    BY <2>j, <1>0, <2>1, <2>3, FlightLost DEF Flying
  <2>5. /\ IsFiniteSet(InFlight(j)')
        /\ Cardinality(InFlight(j)') = Cardinality(InFlight(j)) - 1
        /\ Cardinality(InFlight(j)) \in Nat
    BY <2>j, <2>2, <2>4, FS_RemoveElement, FS_CardinalityType
  <2>6. Cardinality(InFlight(j)) # 0
    BY <2>j, <2>2, <2>4, FS_EmptySet
  <2>7. CASE Len(queue[j]) < Capacity
    <3>1. /\ queue' = [queue EXCEPT ![j] = Append(@, f)]
          /\ UNCHANGED admitted
      BY <2>j, <1>4, <2>7 DEF PublishPush
    <3> HIDE DEF f
    <3>2. /\ queue'[j] = Append(queue[j], f)
          /\ \A i \in Slots : i # j => queue'[i] = queue[i]
      BY <2>j, <2>1, <2>2, <3>1
    <3>3. Len(queue'[j]) = Len(queue[j]) + 1
      BY <2>j, <2>1, <2>2, <3>2
    <3>4. /\ admitted' \in [Slots -> Nat]
          /\ \A i \in Slots : i # j => /\ admitted'[i] = admitted[i]
                                       /\ queue'[i] = queue[i]
          /\ admitted'[j] = Len(queue'[j]) + Cardinality(InFlight(j)')
          /\ admitted'[j] <= Capacity
      BY <2>j, <2>2, <2>5, <3>1, <3>2, <3>3
    <3> QED BY <2>j, <1>0, <2>1, <2>3, <2>5, <3>4, AdmissionAt
  <2>8. CASE ~(Len(queue[j]) < Capacity)
    <3>1. /\ admitted' = [admitted EXCEPT ![j] = @ - 1]
          /\ UNCHANGED queue
      BY <2>j, <1>4, <2>8 DEF PublishPush
    <3>2. admitted[j] - 1 \in Nat
      BY <2>j, <2>2, <2>5, <2>6
    <3>3. /\ admitted' \in [Slots -> Nat] /\ admitted'[j] = admitted[j] - 1
          /\ \A i \in Slots : i # j => /\ admitted'[i] = admitted[i]
                                       /\ queue'[i] = queue[i]
      BY <2>j, <2>1, <2>2, <3>1, <3>2
    <3>4. /\ admitted'[j] = Len(queue'[j]) + Cardinality(InFlight(j)')
          /\ admitted'[j] <= Capacity
      BY <2>j, <2>2, <2>5, <3>1, <3>3, CapacityAssumption
    <3> QED BY <2>j, <1>0, <2>1, <2>3, <2>5, <3>3, <3>4, AdmissionAt
  <2> QED BY <2>j, <2>7, <2>8
<1>5. CASE PublishSwap(p)
  <2>1. pc(p) = "swap" /\ UNCHANGED <<queue, admitted>>
    BY <1>5 DEF PublishSwap
  <2>2. OthersKept(p) /\ pc(p)' \notin Flying
    BY <1>0, <1>5, GotoCall, ReturnCall DEF PublishSwap, Flying
  <2> QED BY <1>0, <2>1, <2>2, AdmissionKept DEF Flying
<1> QED BY <1>1, <1>2, <1>3, <1>4, <1>5 DEF ProducerStep

\* A drain takes a fragment out and gives its place back afterwards.
LEMMA DrainAdmission ==
    ASSUME BoxInv, NEW s \in Schedulers, DrainPop(s) \/ DrainDecrement(s)
    PROVE  Admission'
<1>0. s \in Threads /\ OwnInv /\ Mailed /\ Admission
  BY DEF Threads, BoxInv, MailInv
<1>1. at(s) \in Slots
  BY <1>0 DEF DrainPop, DrainDecrement, OwnInv, CallsOK, CallOK
<1>j. PICK j \in Slots : j = at(s)
  BY <1>1
<1>2. /\ admitted \in [Slots -> Nat] /\ admitted[j] \in Nat
      /\ admitted[j] = Len(queue[j]) + Cardinality(InFlight(j))
      /\ admitted[j] <= Capacity
      /\ queue \in [Slots -> Seq(Fragment)] /\ Len(queue[j]) \in Nat
      /\ IsFiniteSet(InFlight(j)) /\ Cardinality(InFlight(j)) \in Nat
  BY <1>j, <1>0, <1>1, FS_CardinalityType DEF Admission, Mailed
<1>f. IsFiniteSet(InFlight(j)) /\ Cardinality(InFlight(j)) \in Nat
  BY <1>2
<1>3. CASE DrainPop(s) /\ queue[j] # <<>>
  <2>1. /\ pc(s) = "drain_pop" /\ Goto(s, "drain_dec")
        /\ queue' = [queue EXCEPT ![j] = Tail(@)] /\ UNCHANGED admitted
    BY <1>j, <1>3 DEF DrainPop
  <2>2. pc(s)' = "drain_dec" /\ at(s)' = j /\ OthersKept(s)
    BY <1>j, <1>0, <2>1, GotoCall
  <2>3. InFlight(j)' = InFlight(j) \cup {s} /\ s \notin InFlight(j)
    BY <1>j, <1>0, <1>1, <2>1, <2>2, FlightGained DEF Flying
  <2>4. /\ IsFiniteSet(InFlight(j)')
        /\ Cardinality(InFlight(j)') = Cardinality(InFlight(j)) + 1
    BY <1>f, <2>3, FS_AddElement
  <2>5. queue[j] \in Seq(Fragment)
    BY <1>j, <1>1, <1>2
  <2>6. Len(Tail(queue[j])) = Len(queue[j]) - 1
    BY <1>j, <1>3, <2>5
  <2>7. /\ queue'[j] = Tail(queue[j])
        /\ \A i \in Slots : i # j => queue'[i] = queue[i]
    BY <1>j, <1>1, <1>2, <2>1
  <2>8. /\ admitted' \in [Slots -> Nat]
        /\ \A i \in Slots : i # j => /\ admitted'[i] = admitted[i]
                                     /\ queue'[i] = queue[i]
        /\ admitted'[j] = Len(queue'[j]) + Cardinality(InFlight(j)')
        /\ admitted'[j] <= Capacity
    <3>1. /\ admitted' = admitted /\ queue'[j] = Tail(queue[j])
          /\ Len(queue'[j]) = Len(queue[j]) - 1
      BY <2>1, <2>6, <2>7
    <3>2. admitted[j] = (Len(queue[j]) - 1) + (Cardinality(InFlight(j)) + 1)
      BY <1>2
    <3> QED BY <1>2, <2>4, <2>7, <3>1, <3>2
  <2> QED BY <1>j, <1>0, <1>1, <2>2, <2>4, <2>8, AdmissionAt
<1>4. CASE DrainPop(s) /\ queue[j] = <<>>
  <2>1. /\ pc(s) = "drain_pop" /\ Goto(s, "drain_empty")
        /\ UNCHANGED <<queue, admitted>>
    BY <1>j, <1>4 DEF DrainPop
  <2>2. pc(s)' = "drain_empty" /\ OthersKept(s)
    BY <1>j, <1>0, <2>1, GotoCall
  <2> QED BY <1>j, <1>0, <2>1, <2>2, AdmissionKept DEF Flying
<1>5. CASE DrainDecrement(s)
  <2>1. /\ pc(s) = "drain_dec" /\ Goto(s, "drain_pop")
        /\ admitted' = [admitted EXCEPT ![j] = @ - 1] /\ UNCHANGED queue
    BY <1>j, <1>5 DEF DrainDecrement
  <2>2. pc(s)' = "drain_pop" /\ at(s)' = j /\ OthersKept(s)
    BY <1>j, <1>0, <2>1, GotoCall
  <2>3. InFlight(j)' = InFlight(j) \ {s} /\ s \in InFlight(j)
    BY <1>j, <1>0, <1>1, <2>1, <2>2, FlightLost DEF Flying
  <2>4. /\ IsFiniteSet(InFlight(j)')
        /\ Cardinality(InFlight(j)') = Cardinality(InFlight(j)) - 1
    BY <1>f, <2>3, FS_RemoveElement
  <2>5. Cardinality(InFlight(j)) # 0
    BY <1>j, <1>2, <2>3, FS_EmptySet
  <2>6. admitted[j] - 1 \in Nat
    BY <1>j, <1>2, <2>5
  <2>7. /\ admitted' \in [Slots -> Nat] /\ admitted'[j] = admitted[j] - 1
        /\ \A i \in Slots : i # j => /\ admitted'[i] = admitted[i]
                                     /\ queue'[i] = queue[i]
    BY <1>j, <1>1, <1>2, <2>1, <2>6
  <2>8. /\ admitted'[j] = Len(queue'[j]) + Cardinality(InFlight(j)')
        /\ admitted'[j] <= Capacity
    BY <1>j, <1>2, <2>1, <2>4, <2>7, CapacityAssumption
  <2> QED BY <1>j, <1>0, <1>1, <2>2, <2>4, <2>7, <2>8, AdmissionAt
<1> QED BY <1>j, <1>3, <1>4, <1>5

\* A call whose record is replaced, or gets another program counter.
LEMMA ReplacedCall ==
    ASSUME OwnInv, NEW t \in Threads, NEW c, call' = [call EXCEPT ![t] = c]
    PROVE  OthersKept(t) /\ call'[t] = c
BY DEF OwnInv, Shape, OthersKept

\* A refused park goes back to the release as Yielding.
LEMMA RefusedCall ==
    ASSUME OwnInv, NEW s \in Schedulers, ParkRefused(s)
    PROVE  /\ pc(s)' = "rel_load" /\ at(s)' = at(s) /\ OthersKept(s)
           /\ call'[s].next = "Yielding"
<1>0. s \in Threads
  BY DEF Threads
<1>1. call \in [Threads -> Call] /\ call[s] \in Call
  BY <1>0 DEF OwnInv, Shape
<1>2. call'[s] = [call[s] EXCEPT !.pc = "rel_load", !.next = "Yielding"]
  BY <1>0, <1>1 DEF ParkRefused
<1>3. /\ call'[s].pc = "rel_load" /\ call'[s].slot = call[s].slot
      /\ call'[s].next = "Yielding"
  BY <1>1, <1>2 DEF Call
<1>4. OthersKept(s)
  BY <1>0, <1>1 DEF ParkRefused, OthersKept
<1> QED BY <1>3, <1>4 DEF pc, at

\* Steps of schedulers that admit, push and pop nothing stay on the ground.
LEMMA GroundStep ==
    ASSUME OwnInv, NEW s \in Schedulers,
           \/ AcquireStart(s) \/ AcquireCas(s) \/ Activate(s)
           \/ DrainStart(s) \/ DrainEmpty(s) \/ DrainAcknowledge(s)
           \/ ReleaseStart(s) \/ ReleaseStep(s)
           \/ RequeueStart(s) \/ RequeueStep(s)
    PROVE  /\ pc(s) \notin Flying /\ pc(s)' \notin Flying
           /\ UNCHANGED admitted
<1>0. s \in Threads
  BY DEF Threads
<1>1. CASE AcquireStart(s)
  <2>1. PICK pid \in Pids : call' = [call EXCEPT ![s] =
                 [Idle EXCEPT !.pc = "acq_cas", !.slot = actor_slots[pid],
                              !.before = word[actor_slots[pid]]]]
    BY <1>1 DEF AcquireStart
  <2>2. call'[s].pc = "acq_cas"
    BY <1>0, <2>1 DEF OwnInv, Shape, Idle
  <2> QED BY <1>1, <2>2 DEF AcquireStart, mailboxVars, Flying, pc
<1>2. CASE AcquireCas(s) \/ Activate(s)
  BY <1>0, <1>2, GotoCall, ReturnCall
  DEF AcquireCas, Activate, mailboxVars, Flying
<1>3. CASE DrainStart(s)
  BY <1>0, <1>3, BeginCall DEF DrainStart, mailboxVars, Flying
<1>4. CASE DrainEmpty(s) \/ DrainAcknowledge(s)
  BY <1>0, <1>4, GotoCall, ReturnCall
  DEF DrainEmpty, DrainAcknowledge, mailboxVars, Flying
<1>5. CASE ReleaseStart(s)
  <2>1. PICK b \in Releasable :
          call' = [call EXCEPT ![s] =
             [Idle EXCEPT !.pc = IF b = "Parked" THEN "park_cas" ELSE "rel_load",
                          !.slot = lease[s].slot, !.next = b]]
    BY <1>5 DEF ReleaseStart
  <2>2. call'[s].pc \in {"park_cas", "rel_load"}
    BY <1>0, <2>1 DEF OwnInv, Shape, Idle
  <2> QED BY <1>5, <2>2 DEF ReleaseStart, mailboxVars, Flying, pc
<1>6. CASE ParkCas(s) \/ ParkCheck(s) \/ ParkNotify(s) \/ ParkCommit(s)
  BY <1>0, <1>6, GotoCall, RefusedCall
  DEF ParkCas, ParkCheck, ParkNotify, ParkCommit, mailboxVars, Flying
<1>7. CASE ReleaseLoad(s)
  BY <1>0, <1>7, LoadCall DEF ReleaseLoad, mailboxVars, Flying
<1>8. CASE ReleaseCas(s) \/ ReleaseNotified(s)
  BY <1>0, <1>8, GotoCall, ReturnCall
  DEF ReleaseCas, ReleaseNotified, mailboxVars, Flying
<1>9. CASE RequeueStart(s)
  BY <1>0, <1>9, BeginCall DEF RequeueStart, mailboxVars, Flying
<1>10. CASE RequeueStep(s)
  BY <1>0, <1>10, LoadCall, ReturnCall
  DEF RequeueStep, RequeueLoad, RequeueCas, mailboxVars, Flying
<1> QED BY <1>1, <1>2, <1>3, <1>4, <1>5, <1>6, <1>7, <1>8, <1>9, <1>10 DEF ReleaseStep

\* The operations under the write lock find nobody in flight, and empty counter
\* and queue together.
LEMMA ControlAdmission ==
    ASSUME BoxInv, Control
    PROVE  Admission'
<1>0. OwnInv /\ Mailed /\ Admission
  BY DEF BoxInv, MailInv
<1>1. NoReaders /\ UNCHANGED call
  BY DEF Control, Register, Reclaim, Discard, Remove, BeginMigration,
         CompleteMigration, Shutdown
<1>2. ASSUME NEW i \in Slots
      PROVE  /\ IsFiniteSet(InFlight(i)')
             /\ Cardinality(InFlight(i)') = 0 /\ Cardinality(InFlight(i)) = 0
  <2>1. InFlight(i)' = {} /\ InFlight(i) = {}
    BY <1>1 DEF NoReaders, InFlight, pc, at
  <2>2. Cardinality({}) = 0 /\ IsFiniteSet({})
    BY FS_EmptySet
  <2> QED BY <2>1, <2>2, Zenon
<1>3. ASSUME NEW G, FreshMailbox(G)
      PROVE  Admission'
  <2>2. ASSUME NEW i \in Slots
        PROVE  /\ admitted'[i] \in Nat
               /\ admitted'[i] = Len(queue'[i])
               /\ admitted'[i] <= Capacity
    <3>1. CASE i \in G
      BY <3>1, <1>3, CapacityAssumption DEF FreshMailbox
    <3>2. CASE i \notin G
      <4>1. admitted'[i] = admitted[i] /\ queue'[i] = queue[i]
        BY <3>2, <1>3 DEF FreshMailbox
      <4>2. /\ admitted[i] = Len(queue[i]) + Cardinality(InFlight(i))
            /\ admitted[i] \in Nat /\ admitted[i] <= Capacity
            /\ queue[i] \in Seq(Fragment)
        BY <1>0 DEF Admission, Mailed
      <4>3. Len(queue[i]) \in Nat /\ Cardinality(InFlight(i)) = 0
        BY <4>2, <1>2
      <4> QED BY <4>1, <4>2, <4>3
    <3> QED BY <3>1, <3>2
  <2>3. admitted' \in [Slots -> Nat]
    BY <1>3, <2>2 DEF FreshMailbox
  <2>4. ASSUME NEW i \in Slots
        PROVE  /\ IsFiniteSet(InFlight(i)')
               /\ admitted'[i] = Len(queue'[i]) + Cardinality(InFlight(i)')
               /\ admitted'[i] <= Capacity
    BY <1>2, <2>2
  <2> QED BY <2>3, <2>4 DEF Admission
<1>4. CASE \E pid \in Pids, s \in Schedulers : Register(pid, s)
  BY <1>3, <1>4 DEF Register
<1>5. CASE \/ \E s, d \in Schedulers, pid \in Pids : BeginMigration(s, pid, d)
           \/ \E s \in Schedulers : CompleteMigration(s)
  <2>1. UNCHANGED <<queue, admitted, call>>
    BY <1>5 DEF BeginMigration, CompleteMigration, mailboxVars
  <2> QED BY <1>0, <2>1 DEF Admission, InFlight, pc, at
<1>6. CASE (\E pid \in Pids : Reclaim(pid) \/ Discard(pid)) \/ Shutdown
  BY <1>3, <1>6 DEF Reclaim, Discard, Shutdown, Remove
<1> QED BY <1>4, <1>5, <1>6 DEF Control

\* Every step keeps counter, queue and flights in balance.
LEMMA NextAdmission ==
    ASSUME BoxInv, [Next]_vars
    PROVE  Admission'
<1>0. OwnInv /\ Mailed /\ Admission
  BY DEF BoxInv, MailInv
<1>1. CASE UNCHANGED vars
  BY <1>0, <1>1 DEF vars, Admission, InFlight, pc, at
<1>2. ASSUME NEW s \in Schedulers,
             \/ AcquireStart(s) \/ AcquireCas(s) \/ Activate(s)
             \/ DrainStart(s) \/ DrainEmpty(s) \/ DrainAcknowledge(s)
             \/ ReleaseStart(s) \/ ReleaseStep(s)
             \/ RequeueStart(s) \/ RequeueStep(s)
      PROVE  Admission'
  <2>1. /\ UNCHANGED queue
        /\ \E c : call' = [call EXCEPT ![s] = c]
    BY <1>2, SilentFrame, WordFrame DEF SilentStep, ReleaseStep, RequeueStep
  <2>2. pc(s) \notin Flying /\ pc(s)' \notin Flying /\ UNCHANGED admitted
    BY <1>0, <1>2, GroundStep
  <2>3. s \in Threads /\ OthersKept(s)
    BY <1>0, <2>1, ReplacedCall DEF Threads
  <2> QED BY <1>0, <2>1, <2>2, <2>3, AdmissionKept
<1>3. ASSUME NEW t \in Threads, EnqueueStep(t)
      PROVE  Admission'
  <2>1. /\ pc(t) \notin Flying /\ pc(t)' \notin Flying /\ OthersKept(t)
        /\ UNCHANGED <<queue, admitted>>
    BY <1>0, <1>3, LoadCall, ReturnCall
    DEF EnqueueStep, EnqueueLoad, EnqueueCas, mailboxVars, Flying
  <2> QED BY <1>0, <2>1, AdmissionKept
<1>4. CASE StartCall
  BY <1>2, <1>4, PublishAdmission DEF StartCall
<1>5. ASSUME NEW t \in Threads, Continue(t)
      PROVE  Admission'
  BY <1>2, <1>3, <1>5, PublishAdmission, DrainAdmission
  DEF Continue, AcquireStep, DrainStep
<1> QED BY <1>1, <1>4, <1>5, ControlAdmission DEF Next

\* Admission is exact in every reachable state.
THEOREM AdmissionInvariance == Spec => []BoxInv
<1>1. Init => Admission
  <2> SUFFICES ASSUME Init PROVE Admission
    OBVIOUS
  <2>1. ASSUME NEW i \in Slots
        PROVE  IsFiniteSet(InFlight(i)) /\ Cardinality(InFlight(i)) = 0
    <3>1. InFlight(i) = {}
      BY DEF Init, InFlight, pc, Idle
    <3>2. Cardinality({}) = 0 /\ IsFiniteSet({})
      BY FS_EmptySet
    <3> QED BY <3>1, <3>2, Zenon
  <2> QED BY <2>1, CapacityAssumption DEF Init, Admission
<1>2. MailInv /\ Admission /\ [Next]_vars => Admission'
  BY NextAdmission DEF BoxInv
<1> QED BY <1>1, <1>2, MailInvariance, PTL DEF Spec, BoxInv

\* mailbox.publish and mailbox.drain, for any capacity and any number of
\* threads: the admission counter is the length of the queue plus the places in
\* flight, so backpressure never drifts, and the bounded queue never refuses a
\* fragment that was admitted.
THEOREM AdmissionIsExact == Spec => []AdmissionExact
<1>1. ASSUME BoxInv PROVE AdmissionExact
  <2>0. Mailed /\ Admission
    BY <1>1 DEF BoxInv, MailInv
  <2>1. ASSUME NEW i \in Slots, NEW p \in Producers, pc(p) = "push" /\ at(p) = i
        PROVE  Len(queue[i]) < Capacity
    <3>1. p \in InFlight(i)
      BY <2>1 DEF InFlight, Threads
    <3>2. IsFiniteSet(InFlight(i))
      BY <2>0 DEF Admission
    <3>3. Cardinality(InFlight(i)) \in Nat /\ Cardinality(InFlight(i)) # 0
      BY <3>1, <3>2, FS_EmptySet, FS_CardinalityType
    <3>4. /\ admitted[i] = Len(queue[i]) + Cardinality(InFlight(i))
          /\ admitted[i] <= Capacity /\ Len(queue[i]) \in Nat
      BY <2>0 DEF Admission, Mailed
    <3> QED BY <3>3, <3>4, CapacityAssumption
  <2> QED BY <2>0, <2>1 DEF Admission, AdmissionExact
<1> QED BY <1>1, AdmissionInvariance, PTL

-----------------------------------------------------------------------------
(* The order of one producer's fragments *)

\* What a slot's incarnation was ever sent: drained first, then still queued.
Stream(i) == delivered[i] \o queue[i]

\* Where a publication has its number and has not pushed its fragment.
Pending == {"admit", "sequence", "push"}

\* A stream is in order and holds nothing that is not published yet.
InOrder(stream) ==
    /\ \A j, k \in 1 .. Len(stream) :
          j < k /\ stream[j].from = stream[k].from => stream[j].n < stream[k].n
    /\ \A j \in 1 .. Len(stream) :
          LET p == stream[j].from
          IN  /\ stream[j].n <= sent[p]
              /\ pc(p) \in Pending => stream[j].n < sent[p]

StreamsInOrder == \A i \in Slots : InOrder(Stream(i))

\* Taking a fragment out of the queue and handing it over changes no stream.
LEMMA PopStream ==
    ASSUME NEW S, NEW d \in Seq(S), NEW q \in Seq(S), q # <<>>
    PROVE  Append(d, Head(q)) \o Tail(q) = d \o q
<1> DEFINE l == Append(d, Head(q)) \o Tail(q)
           r == d \o q
<1>0. /\ Head(q) \in S /\ Tail(q) \in Seq(S) /\ Append(d, Head(q)) \in Seq(S)
      /\ Len(Tail(q)) = Len(q) - 1 /\ Len(q) \in Nat /\ Len(d) \in Nat
      /\ Len(q) >= 1 /\ Len(Append(d, Head(q))) = Len(d) + 1
  OBVIOUS
<1>1. l \in Seq(S) /\ r \in Seq(S) /\ Len(l) = Len(r)
  BY <1>0
<1>2. ASSUME NEW k \in 1 .. Len(r)
      PROVE  l[k] = r[k]
  <2>1. CASE k <= Len(d)
    BY <1>0, <2>1
  <2>2. CASE k = Len(d) + 1
    BY <1>0, <2>2
  <2>3. CASE k > Len(d) + 1
    <3>1. /\ k - Len(d) \in 2 .. Len(q) /\ k - (Len(d) + 1) \in 1 .. Len(q) - 1
          /\ (k - (Len(d) + 1)) + 1 = k - Len(d)
      BY <1>0, <2>3
    <3>2. Tail(q)[k - (Len(d) + 1)] = q[k - Len(d)]
      BY <1>0, <3>1
    <3>3. l[k] = Tail(q)[k - (Len(d) + 1)]
      BY <1>0, <2>3, <3>1
    <3>4. r[k] = q[k - Len(d)]
      BY <1>0, <2>3, <3>1
    <3> QED BY <3>2, <3>3, <3>4
  <2> QED BY <1>0, <2>1, <2>2, <2>3
<1> HIDE DEF l, r
<1>3. l = r
  BY <1>1, <1>2, SeqEqual
<1> QED BY <1>3 DEF l, r

\* Queueing a fragment puts it at the end of the stream.
LEMMA PushStream ==
    ASSUME NEW d \in Seq(Fragment), NEW q \in Seq(Fragment), NEW f \in Fragment
    PROVE  d \o Append(q, f) = Append(d \o q, f)
<1>1. /\ Len(d) \in Nat /\ Len(q) \in Nat /\ Append(q, f) \in Seq(Fragment)
      /\ d \o q \in Seq(Fragment) /\ Len(d \o q) = Len(d) + Len(q)
      /\ Len(Append(q, f)) = Len(q) + 1
  OBVIOUS
<1> QED BY <1>1

\* Every fragment of a stream has a producer and a number.
LEMMA StreamFragment ==
    ASSUME NEW stream \in Seq(Fragment), NEW j \in 1 .. Len(stream)
    PROVE  stream[j].from \in Producers /\ stream[j].n \in Nat
<1>1. stream[j] \in Fragment
  BY ElementOfSeq
<1>2. 1 .. MaxPublish \subseteq Nat
  BY BoundAssumption
<1> QED BY <1>1, <1>2 DEF Fragment

\* A step that sends, moves and drops nothing keeps the order.
LEMMA OrderKept ==
    ASSUME StreamsInOrder, UNCHANGED <<queue, delivered, sent>>,
           \A p \in Producers : pc(p)' \in Pending => pc(p) \in Pending,
           Mailed
    PROVE  StreamsInOrder'
<1> SUFFICES ASSUME NEW i \in Slots PROVE InOrder(Stream(i))'
  BY DEF StreamsInOrder
<1>1. Stream(i)' = Stream(i) /\ InOrder(Stream(i)) /\ Stream(i) \in Seq(Fragment)
  BY DEF StreamsInOrder, Stream, Mailed
<1>2. \A j \in 1 .. Len(Stream(i)) : Stream(i)[j].from \in Producers
  BY <1>1, StreamFragment
<1> QED BY <1>1, <1>2 DEF InOrder

\* A publication is numbered above everything its producer sent before, and
\* goes to the end of its stream.
LEMMA PublishOrder ==
    ASSUME MailInv, StreamsInOrder, NEW p \in Producers,
           PublishStart(p) \/ ProducerStep(p)
    PROVE  StreamsInOrder'
<1>0. p \in Threads /\ OwnInv /\ Mailed
  BY DEF Threads, MailInv
<1>s. \A i \in Slots : Stream(i) \in Seq(Fragment) /\ InOrder(Stream(i))
  BY <1>0 DEF Mailed, Stream, StreamsInOrder
<1>1. CASE PublishStart(p)
  <2>1. /\ sent' = [sent EXCEPT ![p] = @ + 1] /\ pc(p) = "idle"
        /\ UNCHANGED <<queue, delivered>>
    BY <1>1 DEF PublishStart, mailboxVars
  <2>2. \A q \in Producers : q # p => pc(q)' = pc(q)
    BY <1>0, <1>1, OtherCalls DEF PublishStart, Begin
  <2>3. /\ sent'[p] = sent[p] + 1 /\ sent[p] \in Nat
        /\ \A q \in Producers : q # p => sent'[q] = sent[q]
    BY <1>0, <2>1, BoundAssumption DEF Mailed
  <2> SUFFICES ASSUME NEW i \in Slots PROVE InOrder(Stream(i))'
    BY DEF StreamsInOrder
  <2>4. PICK st \in Seq(Fragment) : st = Stream(i)
    BY <1>s
  <2>5. Stream(i)' = st /\ InOrder(st)
    BY <1>s, <2>1, <2>4 DEF Stream
  <2>6. ASSUME NEW j \in 1 .. Len(st)
        PROVE  /\ st[j].n <= sent'[st[j].from]
               /\ pc(st[j].from)' \in Pending => st[j].n < sent'[st[j].from]
    <3> DEFINE f == st[j]
    <3>1. f.from \in Producers /\ f.n \in Nat
      BY StreamFragment
    <3>2. f.n <= sent[f.from] /\ (pc(f.from) \in Pending => f.n < sent[f.from])
      BY <2>5 DEF InOrder
    <3> HIDE DEF f
    <3>3. CASE f.from = p
      <4>1. f.n <= sent[p]
        BY <3>2, <3>3
      <4>2. f.n < sent'[p]
        BY <4>1, <3>1, <2>3
      <4> QED BY <4>2, <3>1, <2>3, <3>3 DEF f
    <3>4. CASE f.from # p
      BY <3>1, <3>2, <3>4, <2>2, <2>3 DEF f
    <3> QED BY <3>3, <3>4
  <2>7. \A j, k \in 1 .. Len(st) :
           j < k /\ st[j].from = st[k].from => st[j].n < st[k].n
    BY <2>5 DEF InOrder
  <2> QED BY <2>5, <2>6, <2>7 DEF InOrder
<1>2. CASE PublishPush(p) /\ UNCHANGED queue
  <2>1. /\ pc(p) = "push" /\ UNCHANGED <<queue, delivered, sent>>
        /\ \E c : call' = [call EXCEPT ![p] = c]
    BY <1>2 DEF PublishPush, countVars, Goto, Return
  <2>2. \A q \in Producers : q # p => pc(q)' = pc(q)
    BY <1>0, <2>1, OtherCalls
  <2>3. pc(p) \in Pending
    BY <2>1 DEF Pending
  <2> QED BY <1>0, <2>1, <2>2, <2>3, OrderKept
<1>3. CASE PublishPush(p) /\ queue' # queue
  <2>f. PICK f : f = [from |-> p, n |-> sent[p], seq |-> call[p].seq]
    OBVIOUS
  <2>1. /\ pc(p) = "push" /\ UNCHANGED <<delivered, sent>>
        /\ queue' = [queue EXCEPT ![at(p)] = Append(@, f)]
        /\ Goto(p, "swap")
    BY <1>3, <2>f DEF PublishPush, countVars
  <2>2. at(p) \in Slots /\ call[p].seq \in Nat /\ sent[p] \in 1 .. MaxPublish
    BY <1>0, <2>1 DEF OwnInv, CallsOK, CallOK, Shape, Call, Mailed
  <2>3. f \in Fragment /\ f.from = p /\ f.n = sent[p] /\ f.n \in Nat
    BY <2>f, <2>2, BoundAssumption DEF Fragment
  <2>4. /\ pc(p)' = "swap"
        /\ \A q \in Producers : q # p => pc(q)' = pc(q)
    BY <1>0, <2>1, GotoCall DEF OthersKept, Threads, pc
  <2>5. \A q \in Producers : pc(q)' \in Pending => pc(q) \in Pending
    BY <2>4 DEF Pending
  <2>6. pc(p) \in Pending /\ pc(p)' \notin Pending
    BY <2>1, <2>4 DEF Pending
  <2> SUFFICES ASSUME NEW i \in Slots PROVE InOrder(Stream(i))'
    BY DEF StreamsInOrder
  <2>7. CASE i # at(p)
    <3>1. Stream(i)' = Stream(i)
      BY <1>0, <2>1, <2>2, <2>7 DEF Stream, Mailed
    <3>2. \A j \in 1 .. Len(Stream(i)) : Stream(i)[j].from \in Producers
      BY <1>s, StreamFragment
    <3> QED BY <1>s, <2>1, <2>5, <3>1, <3>2 DEF InOrder
  <2>8. CASE i = at(p)
    <3>st. PICK st : st = Stream(i)
      OBVIOUS
    <3>1. Stream(i)' = Append(st, f)
      <4>0. queue \in [Slots -> Seq(Fragment)]
        BY <1>0 DEF Mailed
      <4>1. queue'[i] = Append(queue[i], f) /\ delivered' = delivered
        BY <2>1, <2>8, <4>0
      <4>2. queue[i] \in Seq(Fragment) /\ delivered[i] \in Seq(Fragment)
        BY <1>0 DEF Mailed
      <4>3. delivered[i] \o Append(queue[i], f) = Append(delivered[i] \o queue[i], f)
        <5>1. f \in Fragment
          BY <2>3
        <5> QED BY <4>2, <5>1, PushStream
      <4> QED BY <3>st, <4>1, <4>3 DEF Stream
    <3>2. /\ st \in Seq(Fragment) /\ InOrder(st) /\ Len(st) \in Nat
          /\ \A j \in 1 .. Len(st) : st[j].from \in Producers /\ st[j].n \in Nat
      BY <1>s, <3>st, StreamFragment
    <3>3. /\ \A j, k \in 1 .. Len(st) :
               j < k /\ st[j].from = st[k].from => st[j].n < st[k].n
          /\ \A j \in 1 .. Len(st) :
               /\ st[j].n <= sent[st[j].from]
               /\ pc(st[j].from) \in Pending => st[j].n < sent[st[j].from]
      BY <3>2 DEF InOrder
    <3>4. /\ Len(Append(st, f)) = Len(st) + 1
          /\ Append(st, f)[Len(st) + 1] = f
          /\ \A j \in 1 .. Len(st) : Append(st, f)[j] = st[j]
      BY <2>3, <3>2
    <3> DEFINE new == Append(st, f)
    <3>5. ASSUME NEW j \in 1 .. Len(new), NEW k \in 1 .. Len(new),
                 j < k, new[j].from = new[k].from
          PROVE  new[j].n < new[k].n
      <4>1. j \in 1 .. Len(st) /\ new[j] = st[j]
        BY <3>2, <3>4, <3>5
      <4>2. CASE k = Len(st) + 1
        <5>1. new[k] = f /\ st[j].from = p
          BY <2>3, <3>4, <3>5, <4>1, <4>2
        <5>2. st[j].n < sent[p]
          BY <2>6, <3>3, <4>1, <5>1
        <5> QED BY <2>3, <4>1, <5>1, <5>2
      <4>3. CASE k # Len(st) + 1
        <5>1. k \in 1 .. Len(st) /\ new[k] = st[k]
          BY <3>2, <3>4, <4>3
        <5> QED BY <3>3, <3>5, <4>1, <5>1
      <4> QED BY <4>2, <4>3
    <3>6. ASSUME NEW j \in 1 .. Len(new)
          PROVE  /\ new[j].n <= sent'[new[j].from]
                 /\ pc(new[j].from)' \in Pending => new[j].n < sent'[new[j].from]
      <4>1. CASE j = Len(st) + 1
        <5>1. new[j] = f
          BY <3>4, <4>1
        <5>2. f.n <= sent'[f.from] /\ f.from = p
          BY <2>1, <2>3
        <5> QED BY <2>6, <5>1, <5>2
      <4>2. CASE j # Len(st) + 1
        <5>1. j \in 1 .. Len(st) /\ new[j] = st[j]
          BY <3>2, <3>4, <4>2
        <5> QED BY <2>1, <2>5, <3>2, <3>3, <5>1
      <4> QED BY <4>1, <4>2
    <3> HIDE DEF new
    <3>7. Stream(i)' = new
      BY <3>1 DEF new
    <3> QED BY <3>5, <3>6, <3>7 DEF InOrder
  <2> QED BY <2>7, <2>8
<1>4. CASE PublishAdmit(p) \/ PublishSequence(p) \/ PublishSwap(p)
  <2>1. /\ UNCHANGED <<queue, delivered, sent>>
        /\ \E c : call' = [call EXCEPT ![p] = c]
    BY <1>4 DEF PublishAdmit, PublishSequence, PublishSwap, countVars, Goto, Return
  <2>2. \A q \in Producers : q # p => pc(q)' = pc(q)
    BY <1>0, <2>1, OtherCalls
  <2>3. pc(p)' \in Pending => pc(p) \in Pending
    <3>1. CASE PublishAdmit(p)
      BY <3>1 DEF PublishAdmit, Pending
    <3>2. CASE PublishSequence(p)
      BY <3>2 DEF PublishSequence, Pending
    <3>3. CASE PublishSwap(p)
      BY <3>3, <1>0, GotoCall, ReturnCall DEF PublishSwap, Pending
    <3> QED BY <1>4, <3>1, <3>2, <3>3
  <2> QED BY <1>0, <2>1, <2>2, <2>3, OrderKept
<1> QED BY <1>1, <1>2, <1>3, <1>4 DEF ProducerStep

\* A drain hands over the oldest fragment of the queue.
LEMMA DrainOrder ==
    ASSUME MailInv, StreamsInOrder, NEW s \in Schedulers, DrainPop(s)
    PROVE  StreamsInOrder'
<1>0. s \in Threads /\ OwnInv /\ Mailed /\ UNCHANGED sent
  BY DEF Threads, MailInv, DrainPop, countVars
<1>1. at(s) \in Slots
  BY <1>0 DEF OwnInv, CallsOK, CallOK, DrainPop
<1>2. \E c : call' = [call EXCEPT ![s] = c]
  BY DEF DrainPop, Goto
<1>3. \A p \in Producers : pc(p)' = pc(p)
  BY <1>0, <1>2, SchedulerCall
<1>4. ASSUME NEW i \in Slots
      PROVE  Stream(i)' = Stream(i)
  <2>0. /\ queue \in [Slots -> Seq(Fragment)] /\ delivered \in [Slots -> Seq(Fragment)]
    BY <1>0 DEF Mailed
  <2>1. CASE queue[at(s)] = <<>>
    BY <2>1 DEF DrainPop, Stream
  <2>2. CASE queue[at(s)] # <<>> /\ i # at(s)
    BY <1>1, <2>0, <2>2 DEF DrainPop, Stream
  <2>3. CASE queue[at(s)] # <<>> /\ i = at(s)
    <3>1. /\ queue'[i] = Tail(queue[i])
          /\ delivered'[i] = Append(delivered[i], Head(queue[i]))
      BY <1>1, <2>0, <2>3 DEF DrainPop
    <3>2. Append(delivered[i], Head(queue[i])) \o Tail(queue[i])
             = delivered[i] \o queue[i]
      BY <2>0, <2>3, PopStream
    <3> QED BY <3>1, <3>2 DEF Stream
  <2> QED BY <2>1, <2>2, <2>3
<1>5. \A i \in Slots : InOrder(Stream(i)) /\ Stream(i) \in Seq(Fragment)
  BY <1>0 DEF StreamsInOrder, Mailed, Stream
<1> SUFFICES ASSUME NEW i \in Slots PROVE InOrder(Stream(i))'
  BY DEF StreamsInOrder
<1>6. \A j \in 1 .. Len(Stream(i)) : Stream(i)[j].from \in Producers
  BY <1>5, StreamFragment
<1> QED BY <1>0, <1>3, <1>4, <1>5, <1>6 DEF InOrder

\* The operations under the write lock start a slot's stream anew or leave it.
LEMMA ControlOrder ==
    ASSUME MailInv, StreamsInOrder, Control
    PROVE  StreamsInOrder'
<1>0. Mailed
  BY DEF MailInv
<1>1. UNCHANGED <<call, sent>>
  BY DEF Control, Register, Reclaim, Discard, Remove, BeginMigration,
         CompleteMigration, Shutdown, countVars
<1>2. ASSUME NEW G, FreshMailbox(G)
      PROVE  StreamsInOrder'
  <2> SUFFICES ASSUME NEW i \in Slots PROVE InOrder(Stream(i))'
    BY DEF StreamsInOrder
  <2>1. CASE i \in G
    <3>1. Stream(i)' = <<>>
      BY <1>2, <2>1 DEF FreshMailbox, Stream
    <3> QED BY <3>1 DEF InOrder
  <2>2. CASE i \notin G
    <3>1. Stream(i)' = Stream(i) /\ InOrder(Stream(i))
      BY <1>2, <2>2 DEF FreshMailbox, Stream, StreamsInOrder
    <3> QED BY <1>1, <3>1 DEF InOrder, pc
  <2> QED BY <2>1, <2>2
<1>3. CASE \E pid \in Pids, s \in Schedulers : Register(pid, s)
  BY <1>2, <1>3 DEF Register
<1>4. CASE \/ \E s, d \in Schedulers, pid \in Pids : BeginMigration(s, pid, d)
           \/ \E s \in Schedulers : CompleteMigration(s)
  <2>1. UNCHANGED <<queue, delivered>>
    BY <1>4 DEF BeginMigration, CompleteMigration, mailboxVars
  <2> QED BY <1>0, <1>1, <2>1, OrderKept DEF pc
<1>5. CASE (\E pid \in Pids : Reclaim(pid) \/ Discard(pid)) \/ Shutdown
  BY <1>2, <1>5 DEF Reclaim, Discard, Shutdown, Remove
<1> QED BY <1>3, <1>4, <1>5 DEF Control

\* Every step keeps the streams in order.
LEMMA NextOrder ==
    ASSUME MailInv, StreamsInOrder, [Next]_vars
    PROVE  StreamsInOrder'
<1>0. OwnInv /\ Mailed
  BY DEF MailInv
<1>1. CASE UNCHANGED vars
  BY <1>0, <1>1, OrderKept DEF vars, pc
<1>2. ASSUME NEW s \in Schedulers,
             SilentStep(s) \/ AcquireCas(s) \/ ReleaseCas(s) \/ RequeueCas(s)
      PROVE  StreamsInOrder'
  BY <1>0, <1>2, SilentFrame, WordFrame, SchedulerCall, OrderKept
<1>3. ASSUME NEW t \in Threads, EnqueueStep(t)
      PROVE  StreamsInOrder'
  <2>1. UNCHANGED <<queue, delivered, sent>>
    BY <1>3, EnqueueFrame
  <2>2. pc(t)' \notin Pending /\ OthersKept(t)
    BY <1>0, <1>3, LoadCall, ReturnCall
    DEF EnqueueStep, EnqueueLoad, EnqueueCas, Pending
  <2>3. \A p \in Producers : pc(p)' \in Pending => pc(p) \in Pending
    BY <2>2 DEF OthersKept, pc, Threads
  <2> QED BY <1>0, <2>1, <2>3, OrderKept
<1>4. CASE StartCall
  BY <1>2, <1>4, PublishOrder DEF StartCall, SilentStep
<1>5. ASSUME NEW t \in Threads, Continue(t)
      PROVE  StreamsInOrder'
  BY <1>2, <1>3, <1>5, PublishOrder, DrainOrder
  DEF Continue, SilentStep, AcquireStep, DrainStep, ReleaseStep, RequeueStep
<1> QED BY <1>1, <1>4, <1>5, ControlOrder DEF Next

\* MC-C10, for any number of producers and publications: what one producer
\* published into an incarnation's mailbox is drained in publication order and
\* at most once, whatever the other producers and the drains interleave.
THEOREM ProducersOrdered == Spec => []ProducerOrder
<1>1. Init => StreamsInOrder
  BY DEF Init, StreamsInOrder, InOrder, Stream
<1>2. MailInv /\ StreamsInOrder /\ [Next]_vars => StreamsInOrder'
  BY NextOrder
<1>3. StreamsInOrder => ProducerOrder
  BY DEF StreamsInOrder, InOrder, Stream, ProducerOrder
<1> QED BY <1>1, <1>2, <1>3, MailInvariance, PTL DEF Spec

-----------------------------------------------------------------------------
(* The mailboxes implement ActorMail *)

\* The message of a fragment is a message.
LEMMA MessageType ==
    ASSUME NEW f \in Fragment
    PROVE  MessageOf(f) \in Message
BY DEF MessageOf, Message, Fragment

\* Stripping keeps the length, and the order of what is pushed and popped.
LEMMA StrippedLength ==
    ASSUME NEW q \in Seq(Fragment)
    PROVE  /\ Stripped(q) \in Seq(Message)
           /\ Len(Stripped(q)) = Len(q)
           /\ \A k \in 1 .. Len(q) : Stripped(q)[k] = MessageOf(q[k])
<1> DEFINE F(k) == MessageOf(q[k])
<1>1. Len(q) \in Nat /\ \A k \in 1 .. Len(q) : F(k) \in Message
  BY MessageType
<1>2. Stripped(q) = [k \in 1 .. Len(q) |-> F(k)]
  BY DEF Stripped
<1> HIDE DEF F
<1>3. Stripped(q) \in Seq(Message) /\ Len(Stripped(q)) = Len(q)
  BY <1>1, <1>2
<1> QED BY <1>2, <1>3 DEF F

\* An empty mailbox stays empty.
LEMMA StrippedEmpty == Stripped(<<>>) = <<>>
BY DEF Stripped

\* A push appends the message of the fragment.
LEMMA StrippedAppend ==
    ASSUME NEW q \in Seq(Fragment), NEW f \in Fragment
    PROVE  Stripped(Append(q, f)) = Append(Stripped(q), MessageOf(f))
<1> DEFINE a == Append(q, f)
<1>1. /\ a \in Seq(Fragment) /\ Len(a) = Len(q) + 1 /\ Len(q) \in Nat
      /\ a[Len(q) + 1] = f
      /\ \A k \in 1 .. Len(q) : a[k] = q[k]
  OBVIOUS
<1> HIDE DEF a
<1> DEFINE b == Append(Stripped(q), MessageOf(f))
<1>2. /\ b \in Seq(Message) /\ Len(b) = Len(q) + 1
      /\ b[Len(q) + 1] = MessageOf(f)
      /\ \A k \in 1 .. Len(q) : b[k] = MessageOf(q[k])
  BY StrippedLength, MessageType, <1>1
<1> HIDE DEF b
<1>3. /\ Stripped(a) \in Seq(Message) /\ Len(Stripped(a)) = Len(q) + 1
      /\ \A k \in 1 .. Len(q) + 1 : Stripped(a)[k] = MessageOf(a[k])
  BY <1>1, StrippedLength
<1>4. \A k \in 1 .. Len(q) + 1 : Stripped(a)[k] = b[k]
  BY <1>1, <1>2, <1>3
<1>5. Stripped(a) = b
  BY <1>1, <1>2, <1>3, <1>4
<1> QED BY <1>5 DEF a, b

\* A pop takes the message of the oldest fragment.
LEMMA StrippedTail ==
    ASSUME NEW q \in Seq(Fragment), q # <<>>
    PROVE  /\ Stripped(q) # <<>>
           /\ Stripped(Tail(q)) = Tail(Stripped(q))
           /\ Head(Stripped(q)) = MessageOf(Head(q))
           /\ Head(q) \in Fragment /\ Tail(q) \in Seq(Fragment)
<1> DEFINE r == Tail(q)
<1>1. /\ r \in Seq(Fragment) /\ Len(q) \in Nat /\ Len(q) >= 1 /\ Len(r) = Len(q) - 1
      /\ Head(q) = q[1] /\ q[1] \in Fragment
      /\ \A k \in 1 .. Len(q) - 1 : r[k] = q[k + 1]
  OBVIOUS
<1> HIDE DEF r
<1> DEFINE s == Stripped(q)
<1>2. /\ s \in Seq(Message) /\ Len(s) = Len(q)
      /\ \A k \in 1 .. Len(q) : s[k] = MessageOf(q[k])
  BY StrippedLength
<1> HIDE DEF s
<1>3. s # <<>> /\ Head(s) = s[1] /\ s[1] = MessageOf(q[1])
  BY <1>1, <1>2
<1>4. /\ Stripped(r) \in Seq(Message) /\ Len(Stripped(r)) = Len(q) - 1
      /\ \A k \in 1 .. Len(q) - 1 : Stripped(r)[k] = MessageOf(r[k])
  BY <1>1, StrippedLength
<1>5. /\ Tail(s) \in Seq(Message) /\ Len(Tail(s)) = Len(q) - 1
      /\ \A k \in 1 .. Len(q) - 1 : Tail(s)[k] = s[k + 1]
  BY <1>1, <1>2, <1>3
<1> DEFINE u == Tail(s)
           v == Stripped(r)
<1> HIDE DEF u, v
<1>6. ASSUME NEW k \in 1 .. Len(q) - 1
      PROVE  v[k] = u[k]
  <2>1. k \in 1 .. Len(q) /\ k + 1 \in 1 .. Len(q)
    BY <1>1
  <2>2. v[k] = MessageOf(r[k]) /\ r[k] = q[k + 1]
    BY <1>1, <1>4 DEF v
  <2>3. u[k] = s[k + 1] /\ s[k + 1] = MessageOf(q[k + 1])
    BY <1>2, <1>5, <2>1 DEF u
  <2> QED BY <2>2, <2>3
<1>7. v = u
  <2>1. u \in Seq(Message) /\ v \in Seq(Message) /\ Len(u) = Len(v) /\ Len(v) = Len(q) - 1
    BY <1>4, <1>5 DEF u, v
  <2> QED BY <1>6, <2>1, SeqEqual
<1> QED BY <1>1, <1>3, <1>7 DEF r, s, u, v

-----------------------------------------------------------------------------
(* Steps and what they are to ActorMail *)

\* A step that touches neither index nor words nor mail is not seen.
LEMMA Invisible ==
    ASSUME UNCHANGED <<actor_slots, word, queue, delivered>>
    PROVE  UNCHANGED Mail!vars
BY DEF Mail!vars, actorState, actorRunner, actorMail, actorReceived, Occupied

\* A word that changes is seen as the state and the runner of its actor.
LEMMA WordSeen ==
    ASSUME OwnInv, NEW i \in Slots, Occupied(i), NEW w,
           word' = [word EXCEPT ![i] = w],
           UNCHANGED <<actor_slots, queue, delivered>>
    PROVE  /\ actorState[i] = StateOf(word[i].lifecycle)
           /\ actorRunner[i] = word[i].owner
           /\ actorState' = [actorState EXCEPT ![i] = StateOf(w.lifecycle)]
           /\ actorRunner' = [actorRunner EXCEPT ![i] = w.owner]
           /\ UNCHANGED <<actorMail, actorReceived>>
<1>1. /\ \A j \in Slots : word'[j] = IF j = i THEN w ELSE word[j]
      /\ \A j \in Slots : Occupied(j)' = Occupied(j)
  BY DEF OwnInv, Shape, Occupied
<1>2. actorState' = [actorState EXCEPT ![i] = StateOf(w.lifecycle)]
  <2>1. actorState' = [j \in Slots |-> IF Occupied(j)' THEN StateOf(word'[j].lifecycle) ELSE "absent"]
    BY DEF actorState
  <2>2. actorState = [j \in Slots |-> IF Occupied(j) THEN StateOf(word[j].lifecycle) ELSE "absent"]
    BY DEF actorState
  <2> QED BY <1>1, <2>1, <2>2
<1>3. actorRunner' = [actorRunner EXCEPT ![i] = w.owner]
  <2>1. actorRunner' = [j \in Slots |-> word'[j].owner]
    BY DEF actorRunner
  <2>2. actorRunner = [j \in Slots |-> word[j].owner]
    BY DEF actorRunner
  <2> QED BY <1>1, <2>1, <2>2
<1>4. UNCHANGED <<actorMail, actorReceived>>
  BY DEF actorMail, actorReceived
<1>5. actorState[i] = StateOf(word[i].lifecycle) /\ actorRunner[i] = word[i].owner
  BY DEF actorState, actorRunner
<1> QED BY <1>2, <1>3, <1>4, <1>5

\* A word nobody owns that is replaced by another keeps the runner.
LEMMA UnownedSeen ==
    ASSUME OwnInv, NEW i \in Slots, Occupied(i), NEW l \in Lifecycles,
           word[i].owner = NoOwner, NEW v \in Word,
           word' = [word EXCEPT ![i] = Unowned(v, l)],
           UNCHANGED <<actor_slots, queue, delivered>>
    PROVE  /\ actorState[i] = StateOf(word[i].lifecycle)
           /\ actorState' = [actorState EXCEPT ![i] = StateOf(l)]
           /\ UNCHANGED <<actorRunner, actorMail, actorReceived>>
<1>1. Unowned(v, l).lifecycle = l /\ Unowned(v, l).owner = NoOwner
  BY WordType
<1> DEFINE w == Unowned(v, l)
<1> HIDE DEF w
<1>2. /\ actorState[i] = StateOf(word[i].lifecycle)
      /\ actorRunner[i] = word[i].owner
      /\ actorState' = [actorState EXCEPT ![i] = StateOf(w.lifecycle)]
      /\ actorRunner' = [actorRunner EXCEPT ![i] = w.owner]
      /\ UNCHANGED <<actorMail, actorReceived>>
  BY WordSeen DEF w
<1>3. actorRunner' = actorRunner
  BY <1>1, <1>2 DEF actorRunner, w
<1> QED BY <1>1, <1>2, <1>3 DEF w

\* A push is a Send; a refused one is not seen.
LEMMA PushSends ==
    ASSUME MailInv, NEW p \in Producers, PublishPush(p)
    PROVE  [Mail!Next]_(Mail!vars)
<1>0. p \in Threads /\ OwnInv /\ Mailed /\ UNCHANGED <<actor_slots, word, delivered>>
  BY DEF MailInv, Threads, PublishPush, directoryVars
<1> DEFINE i == at(p)
           f == [from |-> p, n |-> sent[p], seq |-> call[p].seq]
<1>1. /\ i \in Slots /\ Occupied(i) /\ call[p].seq \in Nat
      /\ sent[p] \in 1 .. MaxPublish /\ queue[i] \in Seq(Fragment)
  BY <1>0 DEF OwnInv, CallsOK, CallOK, Shape, Call, Mailed, PublishPush
<1>2. f \in Fragment
  BY <1>1 DEF Fragment
<1>3. CASE Len(queue[i]) < Capacity
  <2>1. queue' = [queue EXCEPT ![i] = Append(queue[i], f)]
    BY <1>3 DEF PublishPush
  <2> HIDE DEF i, f
  <2>2. actorMail' = [actorMail EXCEPT ![i] = Append(actorMail[i], MessageOf(f))]
    <3>1. Stripped(Append(queue[i], f)) = Append(Stripped(queue[i]), MessageOf(f))
      BY <1>1, <1>2, StrippedAppend
    <3>2. \A j \in Slots : queue'[j] = IF j = i THEN Append(queue[i], f) ELSE queue[j]
      BY <1>0, <2>1 DEF Mailed
    <3> QED BY <1>1, <3>1, <3>2 DEF actorMail
  <2>3. UNCHANGED <<actorState, actorRunner, actorReceived>>
    BY <1>0 DEF actorState, actorRunner, actorReceived, Occupied
  <2>4. Len(actorMail[i]) < Capacity
    BY <1>1, <1>3, StrippedLength DEF actorMail, i
  <2>5. actorState[i] # "absent"
    BY <1>1 DEF actorState, StateOf
  <2>6. Mail!Send(i)
    BY <1>2, <2>2, <2>3, <2>4, <2>5, MessageType DEF Mail!Send
  <2> QED BY <1>1, <2>6 DEF Mail!Next
<1>4. CASE ~(Len(queue[i]) < Capacity)
  BY <1>0, <1>4, Invisible DEF PublishPush
<1> QED BY <1>3, <1>4

\* A pop is a Receive of the actor the scheduler runs.
LEMMA PopReceives ==
    ASSUME MailInv, NEW s \in Schedulers, DrainPop(s)
    PROVE  [Mail!Next]_(Mail!vars)
<1>0. s \in Threads /\ OwnInv /\ Mailed /\ UNCHANGED <<actor_slots, word>>
  BY DEF MailInv, Threads, DrainPop, directoryVars
<1> DEFINE i == at(s)
           q == queue[i]
           d == delivered[i]
<1>1. /\ i \in Slots /\ Occupied(i) /\ lease[s] # NoLease /\ lease[s].slot = i
      /\ q \in Seq(Fragment) /\ d \in Seq(Fragment)
  BY <1>0 DEF OwnInv, CallsOK, CallOK, LeaseLabels, Mailed, DrainPop
<1>2. word[i].lifecycle = "Executing"
  BY <1>0, <1>1, LeaseSlots
<1>3. CASE q # <<>>
  <2>1. /\ queue' = [queue EXCEPT ![i] = Tail(q)]
        /\ delivered' = [delivered EXCEPT ![i] = Append(d, Head(q))]
    BY <1>3 DEF DrainPop
  <2>2. /\ Stripped(q) # <<>> /\ Stripped(Tail(q)) = Tail(Stripped(q))
        /\ Head(Stripped(q)) = MessageOf(Head(q)) /\ Head(q) \in Fragment
    BY <1>1, <1>3, StrippedTail
  <2>3. Stripped(Append(d, Head(q))) = Append(Stripped(d), MessageOf(Head(q)))
    BY <1>1, <2>2, StrippedAppend
  <2>4. /\ \A j \in Slots : queue'[j] = IF j = i THEN Tail(q) ELSE queue[j]
        /\ \A j \in Slots : delivered'[j] = IF j = i THEN Append(d, Head(q)) ELSE delivered[j]
    BY <1>0, <2>1 DEF Mailed
  <2>5. actorMail[i] = Stripped(q) /\ actorReceived[i] = Stripped(d)
    BY <1>1 DEF actorMail, actorReceived
  <2> HIDE DEF i, q, d
  <2>6. actorMail' = [actorMail EXCEPT ![i] = Tail(actorMail[i])]
    BY <1>1, <2>2, <2>4, <2>5 DEF actorMail
  <2>7. actorReceived' = [actorReceived EXCEPT
                             ![i] = Append(actorReceived[i], Head(actorMail[i]))]
    <3>1. actorReceived'[i] = Append(actorReceived[i], Head(actorMail[i]))
      BY <1>1, <2>2, <2>3, <2>4, <2>5, Zenon DEF actorReceived
    <3>2. \A j \in Slots : j # i => actorReceived'[j] = actorReceived[j]
      BY <2>4, Zenon DEF actorReceived
    <3>3. /\ actorReceived = [j \in Slots |-> actorReceived[j]]
          /\ actorReceived' = [j \in Slots |-> actorReceived'[j]]
      BY Zenon DEF actorReceived
    <3> QED BY <3>1, <3>2, <3>3
  <2>8. UNCHANGED <<actorState, actorRunner>> /\ actorState[i] = "running"
    BY <1>0, <1>1, <1>2 DEF actorState, actorRunner, Occupied, StateOf
  <2>9. Mail!Receive(i)
    BY <2>2, <2>5, <2>6, <2>7, <2>8 DEF Mail!Receive
  <2> QED BY <1>1, <2>9 DEF Mail!Next
<1>4. CASE q = <<>>
  BY <1>0, <1>4, Invisible DEF DrainPop
<1> QED BY <1>3, <1>4

\* A queued actor was asleep and wakes, or was ready and nothing is seen.
LEMMA QueuedWakes ==
    ASSUME OwnInv, NEW i \in Slots, Occupied(i),
           MayTransition(word[i], {"Yielding", "Parked"}),
           word' = [word EXCEPT ![i] = Unowned(word[i], "Queued")],
           UNCHANGED <<actor_slots, queue, delivered>>
    PROVE  [Mail!Next]_(Mail!vars)
<1>1. word[i] \in Word /\ "Queued" \in Lifecycles /\ word[i].owner = NoOwner
  BY DEF OwnInv, Shape, Lifecycles, MayTransition
<1>2. /\ actorState[i] = StateOf(word[i].lifecycle)
      /\ actorState' = [actorState EXCEPT ![i] = StateOf("Queued")]
      /\ UNCHANGED <<actorRunner, actorMail, actorReceived>>
  BY <1>1, UnownedSeen
<1>3. StateOf("Queued") = "ready"
  BY DEF StateOf
<1>4. CASE word[i].lifecycle = "Parked"
  <2>1. actorState[i] = "asleep"
    BY <1>2, <1>4 DEF StateOf
  <2>2. Mail!Wake(i)
    BY <1>2, <1>3, <2>1 DEF Mail!Wake, Mail!Becomes
  <2> QED BY <2>2 DEF Mail!Next
<1>5. CASE word[i].lifecycle = "Yielding"
  <2>1. actorState[i] = "ready"
    BY <1>2, <1>5 DEF StateOf
  <2>2. actorState' = actorState
    BY <1>2, <1>3, <2>1 DEF actorState
  <2> QED BY <1>2, <2>2 DEF Mail!vars
<1> QED BY <1>4, <1>5 DEF MayTransition

\* The compare-exchange of enqueue_notified_parked or mark_queued.
LEMMA QueueCasSeen ==
    ASSUME OwnInv, NEW t \in Threads, pc(t) \in {"enq_cas", "requeue_cas"},
           CompareExchange(t, Unowned(call[t].before, "Queued")),
           UNCHANGED <<actor_slots, queue, delivered>>
    PROVE  [Mail!Next]_(Mail!vars)
<1>1. /\ at(t) \in Slots /\ Occupied(at(t))
      /\ MayTransition(call[t].before, {"Yielding", "Parked"})
  BY DEF OwnInv, CallsOK, CallOK
<1>2. CASE word[at(t)] = call[t].before
  BY <1>1, <1>2, QueuedWakes DEF CompareExchange
<1>3. CASE word[at(t)] # call[t].before
  BY <1>3, Invisible DEF CompareExchange
<1> QED BY <1>2, <1>3

\* A lease that is granted is the actor's run.
LEMMA AcquireRuns ==
    ASSUME OwnInv, NEW s \in Schedulers, AcquireCas(s)
    PROVE  [Mail!Next]_(Mail!vars)
<1>0. s \in Threads /\ UNCHANGED <<actor_slots, queue, delivered>>
  BY DEF Threads, AcquireCas, directoryVars, mailboxVars
<1> DEFINE i == at(s)
           w == Owned(call[s].before, s)
<1>1. i \in Slots /\ Occupied(i) /\ MayAcquire(call[s].before) /\ call[s].before \in Word
  BY <1>0 DEF OwnInv, CallsOK, CallOK, AcquireCas, Shape, Call
<1>2. w.owner = s /\ w.lifecycle = "Executing"
  BY <1>1, WordType
<1>3. CASE word[i] = call[s].before
  <2>1. word' = [word EXCEPT ![i] = w]
    BY <1>3 DEF AcquireCas, CompareExchange
  <2> HIDE DEF i, w
  <2>2. /\ actorState[i] = StateOf(word[i].lifecycle)
        /\ actorRunner[i] = word[i].owner
        /\ actorState' = [actorState EXCEPT ![i] = StateOf(w.lifecycle)]
        /\ actorRunner' = [actorRunner EXCEPT ![i] = w.owner]
        /\ UNCHANGED <<actorMail, actorReceived>>
    BY <1>0, <1>1, <2>1, WordSeen
  <2>3. /\ actorState[i] = "ready" /\ actorRunner[i] = NoOwner
        /\ StateOf(w.lifecycle) = "running"
    BY <1>1, <1>2, <1>3, <2>2 DEF MayAcquire, StateOf
  <2>4. Mail!Run(i, s)
    BY <1>2, <2>2, <2>3 DEF Mail!Run, Mail!Becomes
  <2> QED BY <1>1, <2>4 DEF Mail!Next
<1>4. CASE word[i] # call[s].before
  BY <1>0, <1>4, Invisible DEF AcquireCas, CompareExchange
<1> QED BY <1>3, <1>4

\* A release is the end of the actor's run.
LEMMA ReleaseStops ==
    ASSUME OwnInv, NEW s \in Schedulers, ReleaseCas(s)
    PROVE  [Mail!Next]_(Mail!vars)
<1>0. s \in Threads /\ UNCHANGED <<actor_slots, queue, delivered>>
  BY DEF Threads, ReleaseCas, directoryVars, mailboxVars
<1> DEFINE i == at(s)
           w == Unowned(call[s].before, call[s].next)
<1>1. /\ i \in Slots /\ Occupied(i) /\ lease[s] # NoLease /\ lease[s].slot = i
      /\ call[s].before = word[i] /\ call[s].before \in Word /\ call[s].next \in Releasable
  BY <1>0 DEF OwnInv, CallsOK, CallOK, LeaseLabels, ReleaseCas, Shape, Call, at
<1>2. word[i].lifecycle = "Executing"
  BY <1>1, LeaseSlots
<1>3. w.owner = NoOwner /\ w.lifecycle = call[s].next
  BY <1>1, WordType DEF Releasable, Lifecycles
<1>4. word' = [word EXCEPT ![i] = w]
  BY <1>1 DEF ReleaseCas, CompareExchange
<1> HIDE DEF i, w
<1>5. /\ actorState[i] = StateOf(word[i].lifecycle)
      /\ actorRunner[i] = word[i].owner
      /\ actorState' = [actorState EXCEPT ![i] = StateOf(w.lifecycle)]
      /\ actorRunner' = [actorRunner EXCEPT ![i] = w.owner]
      /\ UNCHANGED <<actorMail, actorReceived>>
  BY <1>0, <1>1, <1>4, WordSeen
<1>6. actorState[i] = "running" /\ StateOf(w.lifecycle) \in {"ready", "asleep", "ended"}
  BY <1>1, <1>2, <1>3, <1>5 DEF StateOf, Releasable
<1>7. Mail!Stop(i)
  BY <1>3, <1>5, <1>6 DEF Mail!Stop, Mail!Becomes
<1> QED BY <1>1, <1>7 DEF Mail!Next

\* A migration that begins makes the actor leave.
LEMMA MigrationLeaves ==
    ASSUME OwnInv, NEW s \in Schedulers, NEW d \in Schedulers, NEW pid \in Pids,
           BeginMigration(s, pid, d)
    PROVE  [Mail!Next]_(Mail!vars)
<1> DEFINE i == actor_slots[pid]
<1>1. /\ i \in Slots /\ Occupied(i) /\ word[i] \in Word
      /\ MayTransition(word[i], Transferable) /\ "Migrating" \in Lifecycles
      /\ word' = [word EXCEPT ![i] = Unowned(word[i], "Migrating")]
      /\ UNCHANGED <<actor_slots, queue, delivered>>
  BY DEF BeginMigration, OwnInv, Shape, Resolves, Occupied, directoryVars, mailboxVars,
         Lifecycles
<1> HIDE DEF i
<1>2. /\ actorState[i] = StateOf(word[i].lifecycle)
      /\ actorState' = [actorState EXCEPT ![i] = StateOf("Migrating")]
      /\ UNCHANGED <<actorRunner, actorMail, actorReceived>>
  BY <1>1, UnownedSeen DEF MayTransition
<1>3. actorState[i] \in {"ready", "asleep"} /\ StateOf("Migrating") = "moving"
  BY <1>1, <1>2 DEF StateOf, MayTransition, Transferable
<1>4. Mail!Leave(i)
  BY <1>2, <1>3 DEF Mail!Leave, Mail!Becomes
<1> QED BY <1>1, <1>4 DEF Mail!Next

\* A migration that completes makes it arrive; a stale ticket is not seen.
LEMMA MigrationArrives ==
    ASSUME OwnInv, NEW s \in Schedulers, CompleteMigration(s)
    PROVE  [Mail!Next]_(Mail!vars)
<1> DEFINE k == ticket[s]
           i == k.slot
           l == RestoredLifecycle(k)
<1>0. UNCHANGED <<actor_slots, queue, delivered>>
  BY DEF CompleteMigration, mailboxVars
<1>1. CASE TicketValid(k)
  <2>1. k \in Ticket
    BY DEF CompleteMigration, OwnInv, Shape
  <2>2. i \in Slots /\ k.pid \in Pids
    BY <2>1 DEF Ticket
  <2>3. /\ Occupied(i) /\ word[i] \in Word
        /\ MayTransition(word[i], {"Migrating"})
    BY <1>1, <2>2 DEF TicketValid, Occupied, OwnInv, Shape
  <2>4. l \in {"Parked", "Queued"} /\ l \in Lifecycles
    BY DEF RestoredLifecycle, Lifecycles
  <2>5. word' = [word EXCEPT ![i] = Unowned(word[i], l)]
    BY <1>1 DEF CompleteMigration
  <2> HIDE DEF k, i, l
  <2>6. /\ actorState[i] = StateOf(word[i].lifecycle)
        /\ actorState' = [actorState EXCEPT ![i] = StateOf(l)]
        /\ UNCHANGED <<actorRunner, actorMail, actorReceived>>
    BY <1>0, <2>2, <2>3, <2>4, <2>5, UnownedSeen DEF MayTransition
  <2>7. actorState[i] = "moving" /\ StateOf(l) \in {"ready", "asleep"}
    BY <2>3, <2>4, <2>6 DEF StateOf, MayTransition
  <2>8. Mail!Arrive(i)
    BY <2>6, <2>7 DEF Mail!Arrive, Mail!Becomes
  <2> QED BY <2>2, <2>8 DEF Mail!Next
<1>2. CASE ~TicketValid(k)
  BY <1>0, <1>2, Invisible DEF CompleteMigration
<1> QED BY <1>1, <1>2

\* What FreshMailbox leaves is an empty mailbox.
LEMMA FreshSeen ==
    ASSUME NEW G \in SUBSET Slots, FreshMailbox(G)
    PROVE  /\ actorMail' = [j \in Slots |-> IF j \in G THEN <<>> ELSE actorMail[j]]
           /\ actorReceived' = [j \in Slots |-> IF j \in G THEN <<>> ELSE actorReceived[j]]
<1>1. /\ queue' = [j \in Slots |-> IF j \in G THEN <<>> ELSE queue[j]]
      /\ delivered' = [j \in Slots |-> IF j \in G THEN <<>> ELSE delivered[j]]
  BY Zenon DEF FreshMailbox
<1>2. ASSUME NEW q, NEW r, NEW j \in Slots,
             r = [k \in Slots |-> IF k \in G THEN <<>> ELSE q[k]]
      PROVE  Stripped(r[j]) = IF j \in G THEN <<>> ELSE Stripped(q[j])
  <2>1. r[j] = IF j \in G THEN <<>> ELSE q[j]
    BY <1>2
  <2>2. CASE j \in G
    BY <2>1, <2>2, StrippedEmpty
  <2>3. CASE j \notin G
    BY <2>1, <2>3
  <2> QED BY <2>2, <2>3
<1>3. actorMail' = [j \in Slots |-> IF j \in G THEN <<>> ELSE actorMail[j]]
  <2>1. actorMail' = [j \in Slots |-> Stripped(queue'[j])]
    BY DEF actorMail
  <2>2. \A j \in Slots : Stripped(queue'[j]) = IF j \in G THEN <<>> ELSE Stripped(queue[j])
    BY <1>1, <1>2
  <2>3. \A j \in Slots : actorMail[j] = Stripped(queue[j])
    BY DEF actorMail
  <2> QED BY <2>1, <2>2, <2>3, Zenon
<1>4. actorReceived' = [j \in Slots |-> IF j \in G THEN <<>> ELSE actorReceived[j]]
  <2>1. actorReceived' = [j \in Slots |-> Stripped(delivered'[j])]
    BY DEF actorReceived
  <2>2. \A j \in Slots : Stripped(delivered'[j]) = IF j \in G THEN <<>> ELSE Stripped(delivered[j])
    BY <1>1, <1>2
  <2>3. \A j \in Slots : actorReceived[j] = Stripped(delivered[j])
    BY DEF actorReceived
  <2> QED BY <2>1, <2>2, <2>3, Zenon
<1> QED BY <1>3, <1>4

\* A registration lets an actor appear in a slot that had none.
LEMMA RegisterAppears ==
    ASSUME OwnInv, NEW pid \in Pids, NEW s \in Schedulers, Register(pid, s)
    PROVE  [Mail!Next]_(Mail!vars)
<1>1. PICK i \in Slots :
         /\ MayAllocate(i)
         /\ actor_slots' = [actor_slots EXCEPT ![pid] = i]
         /\ word' = [word EXCEPT ![i] =
                        Unowned(NewWord(NextGeneration(generation[i])), "Queued")]
         /\ FreshMailbox({i})
  BY DEF Register
<1> DEFINE w == Unowned(NewWord(NextGeneration(generation[i])), "Queued")
<1>2. w.lifecycle = "Queued" /\ w.owner = NoOwner
  BY DEF Unowned, PackState
<1>3. ~Occupied(i) /\ ~Resolves(pid) /\ actor_slots \in [Pids -> Slots \cup {NoSlot}]
  BY <1>1 DEF MayAllocate, Register, OwnInv, Shape
<1>4. word[i].owner = NoOwner /\ word \in [Slots -> Word]
  BY <1>3, NoLeaseAt DEF OwnInv, Shape
<1>5. \A j \in Slots : word'[j] = IF j = i THEN w ELSE word[j]
  BY <1>1, <1>4
<1> HIDE DEF w
<1>6. Occupied(i)' /\ \A j \in Slots : j # i => (Occupied(j)' <=> Occupied(j))
  BY <1>1, <1>3, SlotAssumption DEF Occupied, Resolves
<1>7. actorState' = [actorState EXCEPT ![i] = "ready"]
  <2>1. actorState' = [j \in Slots |->
           IF Occupied(j)' THEN StateOf(word'[j].lifecycle) ELSE "absent"]
    BY DEF actorState
  <2>2. actorState = [j \in Slots |->
           IF Occupied(j) THEN StateOf(word[j].lifecycle) ELSE "absent"]
    BY DEF actorState
  <2>3. StateOf(w.lifecycle) = "ready"
    BY <1>2 DEF StateOf
  <2> QED BY <1>5, <1>6, <2>1, <2>2, <2>3
<1>8. UNCHANGED actorRunner
  <2>1. \A j \in Slots : word'[j].owner = word[j].owner
    BY <1>2, <1>4, <1>5
  <2> QED BY <2>1 DEF actorRunner
<1>9. actorState[i] = "absent"
  BY <1>3 DEF actorState
<1>10. /\ actorMail' = [actorMail EXCEPT ![i] = <<>>]
       /\ actorReceived' = [actorReceived EXCEPT ![i] = <<>>]
  <2>1. /\ actorMail' = [j \in Slots |-> IF j \in {i} THEN <<>> ELSE actorMail[j]]
        /\ actorReceived' = [j \in Slots |-> IF j \in {i} THEN <<>> ELSE actorReceived[j]]
    BY <1>1, FreshSeen
  <2>2. /\ actorMail = [j \in Slots |-> actorMail[j]]
        /\ actorReceived = [j \in Slots |-> actorReceived[j]]
    BY DEF actorMail, actorReceived
  <2> QED BY <2>1, <2>2
<1>11. Mail!Appear(i)
  BY <1>7, <1>8, <1>9, <1>10 DEF Mail!Appear, Mail!Becomes
<1> QED BY <1>11 DEF Mail!Next

\* Actors that are removed are occupied, idle and vanish with their mail.
LEMMA RemoveVanishes ==
    ASSUME OwnInv, NEW Gone \in SUBSET Slots, Gone # {}, Remove(Gone),
           \A i \in Gone : Occupied(i) /\ word[i].lifecycle # "Executing"
    PROVE  [Mail!Next]_(Mail!vars)
<1>1. /\ \A i \in Slots : word'[i] = IF i \in Gone THEN Unowned(word[i], "Reclaimed") ELSE word[i]
      /\ \A p \in Pids : actor_slots'[p] = IF actor_slots[p] \in Gone THEN NoSlot ELSE actor_slots[p]
      /\ FreshMailbox(Gone)
  BY DEF Remove
<1>2. \A i \in Gone : word[i].owner = NoOwner /\ Unowned(word[i], "Reclaimed").owner = NoOwner
  BY NoLeaseAt DEF Unowned, PackState
<1>3. /\ \A i \in Gone : ~Occupied(i)'
      /\ \A i \in Slots \ Gone : Occupied(i)' <=> Occupied(i)
  BY <1>1, SlotAssumption DEF Occupied
<1>4. actorState' = [i \in Slots |-> IF i \in Gone THEN "absent" ELSE actorState[i]]
  <2>1. actorState' = [j \in Slots |->
           IF Occupied(j)' THEN StateOf(word'[j].lifecycle) ELSE "absent"]
    BY DEF actorState
  <2>2. \A j \in Slots : actorState[j] =
           IF Occupied(j) THEN StateOf(word[j].lifecycle) ELSE "absent"
    BY DEF actorState
  <2> QED BY <1>1, <1>3, <2>1, <2>2
<1>5. UNCHANGED actorRunner
  <2>1. \A j \in Slots : word'[j].owner = word[j].owner
    BY <1>1, <1>2
  <2> QED BY <2>1 DEF actorRunner
<1>6. \A i \in Gone : actorState[i] \notin {"absent", "running"}
  BY DEF actorState, StateOf
<1>7. Mail!Vanish(Gone)
  BY <1>1, <1>4, <1>5, <1>6, FreshSeen DEF Mail!Vanish
<1> QED BY <1>7 DEF Mail!Next

\* reclaim, discard and shutdown.
LEMMA RemovalVanishes ==
    ASSUME OwnInv, (\E pid \in Pids : Reclaim(pid) \/ Discard(pid)) \/ Shutdown
    PROVE  [Mail!Next]_(Mail!vars)
<1>1. ASSUME NEW pid \in Pids, Reclaim(pid) \/ Discard(pid)
      PROVE  [Mail!Next]_(Mail!vars)
  <2>1. /\ actor_slots[pid] \in Slots /\ Occupied(actor_slots[pid])
        /\ Remove({actor_slots[pid]})
        /\ word[actor_slots[pid]].lifecycle # "Executing"
    BY <1>1
    DEF Reclaim, Discard, MayTransition, Transferable, Resolves, OwnInv, Shape, Occupied
  <2> QED BY <2>1, RemoveVanishes
<1>2. CASE Shutdown
  <2>1. /\ Remove({i \in Slots : Occupied(i)}) /\ {i \in Slots : Occupied(i)} # {}
        /\ \A i \in {j \in Slots : Occupied(j)} : word[i].lifecycle # "Executing"
    BY <1>2 DEF Shutdown
  <2> QED BY <2>1, RemoveVanishes
<1> QED BY <1>1, <1>2

\* Every step of the control plane is a step of ActorMail or not seen.
LEMMA NextMail ==
    ASSUME MailInv, [Next]_vars
    PROVE  [Mail!Next]_(Mail!vars)
<1>0. OwnInv
  BY DEF MailInv
<1>1. CASE UNCHANGED vars
  BY <1>1, Invisible DEF vars
<1>2. ASSUME NEW s \in Schedulers, SilentStep(s)
      PROVE  [Mail!Next]_(Mail!vars)
  BY <1>2, SilentFrame, Invisible
<1>3. ASSUME NEW p \in Producers, PublishStart(p) \/ ProducerStep(p)
      PROVE  [Mail!Next]_(Mail!vars)
  <2>1. CASE PublishPush(p)
    BY <2>1, PushSends
  <2>2. CASE PublishStart(p) \/ PublishAdmit(p) \/ PublishSequence(p) \/ PublishSwap(p)
    BY <2>2, Invisible
    DEF PublishStart, PublishAdmit, PublishSequence, PublishSwap, directoryVars, mailboxVars
  <2> QED BY <1>3, <2>1, <2>2 DEF ProducerStep
<1>4. ASSUME NEW t \in Threads, EnqueueStep(t)
      PROVE  [Mail!Next]_(Mail!vars)
  <2>1. CASE EnqueueLoad(t)
    BY <2>1, Invisible DEF EnqueueLoad, directoryVars, mailboxVars
  <2>2. CASE EnqueueCas(t)
    BY <1>0, <2>2, QueueCasSeen DEF EnqueueCas, directoryVars, mailboxVars
  <2> QED BY <1>4, <2>1, <2>2 DEF EnqueueStep
<1>5. ASSUME NEW s \in Schedulers, RequeueCas(s)
      PROVE  [Mail!Next]_(Mail!vars)
  BY <1>0, <1>5, QueueCasSeen DEF RequeueCas, directoryVars, mailboxVars, Threads
<1>6. CASE StartCall
  BY <1>2, <1>3, <1>6 DEF StartCall, SilentStep
<1>7. ASSUME NEW t \in Threads, Continue(t)
      PROVE  [Mail!Next]_(Mail!vars)
  BY <1>0, <1>2, <1>3, <1>4, <1>5, <1>7, PopReceives, AcquireRuns, ReleaseStops
  DEF Continue, SilentStep, AcquireStep, DrainStep, ReleaseStep, RequeueStep
<1>8. CASE Control
  BY <1>0, <1>8, RegisterAppears, MigrationLeaves, MigrationArrives, RemovalVanishes
  DEF Control
<1> QED BY <1>1, <1>6, <1>7, <1>8 DEF Next

\* An empty directory is a world without actors.
LEMMA InitMail ==
    ASSUME Init
    PROVE  Mail!Init
<1>1. \A i \in Slots : ~Occupied(i)
  BY SlotAssumption DEF Init, Occupied
<1>2. actorState = [i \in Slots |-> "absent"]
  BY <1>1 DEF actorState
<1>3. actorRunner = [i \in Slots |-> NoOwner]
  BY DEF Init, actorRunner, NoWord, PackState
<1>4. actorMail = [i \in Slots |-> <<>>] /\ actorReceived = [i \in Slots |-> <<>>]
  BY StrippedEmpty DEF Init, actorMail, actorReceived
<1> QED BY <1>2, <1>3, <1>4 DEF Mail!Init

\* For any number of threads, slots and process identities and any capacity,
\* the lock-free control plane implements actors with bounded mailboxes: one
\* scheduler runs an actor, only the running actor receives, oldest first and
\* once, and nobody is moved or removed while it runs.
THEOREM Refinement == Spec => ImplementsMail
<1>1. Init => Mail!Init
  BY InitMail
<1>2. MailInv /\ [Next]_vars => [Mail!Next]_(Mail!vars)
  BY NextMail
<1> QED BY <1>1, <1>2, MailInvariance, PTL DEF Spec, ImplementsMail, Mail!Safe

-----------------------------------------------------------------------------
(* Tickets *)

\* A ticket that carries the generation its slot has now.
Current(k) == k.actorGen = generation[k.slot]

\* Generations count registrations, and a ticket that carries the current one
\* was issued for the present incarnation.
TicketsDated ==
    /\ registered <= MaxRegistrations
    /\ \A i \in Slots : generation[i] <= registered
    /\ \A s \in Schedulers :
          ticket[s] # NoTicket =>
             /\ ticket[s].actorGen <= generation[ticket[s].slot]
             /\ Current(ticket[s]) => ticket[s].born = born[ticket[s].slot]

\* Lifecycles that only the holder of a ticket, or a registration, leaves.
Withheld == {"Migrating", "Reclaimed"}

\* At most one ticket is current for a slot, and only from the moment its actor
\* began to migrate.
TicketsSingle ==
    \A s \in Schedulers :
       ticket[s] # NoTicket /\ Current(ticket[s]) =>
          /\ word[ticket[s].slot].lifecycle \in Withheld
          /\ \A r \in Schedulers :
                /\ ticket[r] # NoTicket /\ ticket[r].slot = ticket[s].slot
                /\ Current(ticket[r])
                => r = s

TicketInv == OwnInv /\ TicketsDated /\ TicketsSingle

\* A ticket names a slot and two generations.
LEMMA TicketFields ==
    ASSUME OwnInv, NEW s \in Schedulers, ticket[s] # NoTicket
    PROVE  /\ ticket[s] \in Ticket /\ ticket[s].slot \in Slots
           /\ ticket[s].actorGen \in Nat /\ ticket[s].pid \in Pids
           /\ ticket[s].destination \in Schedulers
<1>1. ticket[s] \in Ticket
  BY DEF OwnInv, Shape
<1>2. Generations \subseteq Nat
  BY MaskAssumption DEF Generations
<1> QED BY <1>1, <1>2 DEF Ticket

\* A compare-exchange changes at most the word of its slot.
LEMMA CasWord ==
    ASSUME OwnInv, NEW t \in Threads, pc(t) # "idle", NEW w, CompareExchange(t, w)
    PROVE  /\ at(t) \in Slots
           /\ \A i \in Slots :
                 word'[i] = IF i = at(t) /\ word[i] = call[t].before
                            THEN w ELSE word[i]
<1>1. at(t) \in Slots /\ word \in [Slots -> Word]
  BY DEF OwnInv, Shape, CallsOK, CallOK
<1>2. CASE word[at(t)] = call[t].before
  BY <1>1, <1>2 DEF CompareExchange
<1>3. CASE word[at(t)] # call[t].before
  BY <1>1, <1>3 DEF CompareExchange
<1> QED BY <1>2, <1>3

\* The four compare-exchanges, and the lifecycles they lead from and to.
LEMMA CasLifecycle ==
    ASSUME OwnInv, NEW t \in Threads,
           \/ EnqueueCas(t)
           \/ t \in Schedulers /\ (AcquireCas(t) \/ ReleaseCas(t) \/ RequeueCas(t))
    PROVE  /\ at(t) \in Slots
           /\ \A i \in Slots :
                 \/ word'[i] = word[i] /\ (i = at(t) => word[i] # call[t].before)
                 \/ word'[i] = word[i] /\ i # at(t)
                 \/ /\ i = at(t) /\ word[i] = call[t].before
                    /\ word[i].lifecycle \notin Withheld
                    /\ word'[i].lifecycle \notin Withheld
                    /\ word'[i].lifecycle = "Parked" =>
                          /\ t \in Schedulers /\ pc(t) = "rel_cas"
                          /\ call[t].next = "Parked" /\ ReleaseCas(t)
<1>0. /\ word \in [Slots -> Word] /\ call[t] \in Call /\ call[t].before \in Word
      /\ call[t].next \in Releasable
  BY DEF OwnInv, Shape, Call
<1>1. CASE EnqueueCas(t) \/ (t \in Schedulers /\ RequeueCas(t))
  <2> DEFINE w == Unowned(call[t].before, "Queued")
  <2>1. /\ CompareExchange(t, w) /\ pc(t) \in {"enq_cas", "requeue_cas"}
    BY <1>1 DEF EnqueueCas, RequeueCas
  <2>2. w.lifecycle = "Queued"
    BY <1>0, WordType DEF Lifecycles
  <2> HIDE DEF w
  <2>3. call[t].before.lifecycle \in {"Yielding", "Parked"}
    BY <2>1 DEF OwnInv, CallsOK, CallOK, MayTransition
  <2>4. /\ at(t) \in Slots
        /\ \A i \in Slots :
              word'[i] = IF i = at(t) /\ word[i] = call[t].before
                         THEN w ELSE word[i]
    BY <2>1, CasWord
  <2> QED BY <2>2, <2>3, <2>4 DEF Withheld
<1>2. CASE t \in Schedulers /\ AcquireCas(t)
  <2> DEFINE w == Owned(call[t].before, t)
  <2>1. CompareExchange(t, w) /\ pc(t) = "acq_cas"
    BY <1>2 DEF AcquireCas
  <2>2. w.lifecycle = "Executing"
    BY <1>0, <1>2, WordType
  <2> HIDE DEF w
  <2>3. call[t].before.lifecycle = "Queued"
    BY <1>2, <2>1 DEF OwnInv, CallsOK, CallOK, MayAcquire
  <2>4. /\ at(t) \in Slots
        /\ \A i \in Slots :
              word'[i] = IF i = at(t) /\ word[i] = call[t].before
                         THEN w ELSE word[i]
    BY <2>1, CasWord
  <2> QED BY <2>2, <2>3, <2>4 DEF Withheld
<1>3. CASE t \in Schedulers /\ ReleaseCas(t)
  <2> DEFINE w == Unowned(call[t].before, call[t].next)
  <2>1. CompareExchange(t, w) /\ pc(t) = "rel_cas"
    BY <1>3 DEF ReleaseCas
  <2>2. w.lifecycle = call[t].next /\ call[t].next \notin Withheld
    BY <1>0, WordType DEF Lifecycles, Releasable, Withheld
  <2> HIDE DEF w
  <2>3. lease[t] # NoLease /\ lease[t].slot = at(t)
    BY <1>3, <2>1 DEF OwnInv, CallsOK, CallOK, LeaseLabels
  <2>4. word[at(t)].lifecycle = "Executing"
    BY <1>3, <2>3, LeaseSlots
  <2>5. /\ at(t) \in Slots
        /\ \A i \in Slots :
              word'[i] = IF i = at(t) /\ word[i] = call[t].before
                         THEN w ELSE word[i]
    BY <2>1, CasWord
  <2> QED BY <1>3, <2>1, <2>2, <2>4, <2>5 DEF Withheld
<1> QED BY <1>1, <1>2, <1>3

\* The steps of a call leave tickets and generations alone.
LEMMA CallsKeepTickets ==
    ASSUME StartCall \/ \E t \in Threads : Continue(t)
    PROVE  UNCHANGED <<generation, born, registered, ticket>>
<1>1. CASE StartCall
  BY <1>1
  DEF StartCall, PublishStart, AcquireStart, DrainStart, ReleaseStart,
      RequeueStart, directoryVars, heldVars
<1>2. ASSUME NEW t \in Threads, Continue(t)
      PROVE  UNCHANGED <<generation, born, registered, ticket>>
  <2>1. CASE EnqueueStep(t)
    BY <2>1 DEF EnqueueStep, EnqueueLoad, EnqueueCas, directoryVars, heldVars
  <2>2. CASE ProducerStep(t)
    BY <2>2
    DEF ProducerStep, PublishAdmit, PublishSequence, PublishPush, PublishSwap,
        directoryVars, heldVars
  <2>3. CASE AcquireStep(t) \/ DrainStep(t)
    BY <2>3
    DEF AcquireStep, AcquireCas, Activate, DrainStep, DrainPop, DrainDecrement,
        DrainEmpty, DrainAcknowledge, directoryVars, heldVars
  <2>4. CASE ReleaseStep(t) \/ RequeueStep(t)
    BY <2>4
    DEF ReleaseStep, ParkCas, ParkCheck, ParkNotify, ParkCommit, ReleaseLoad,
        ReleaseCas, ReleaseNotified, RequeueStep, RequeueLoad, RequeueCas,
        directoryVars, heldVars
  <2> QED BY <1>2, <2>1, <2>2, <2>3, <2>4 DEF Continue
<1> QED BY <1>1, <1>2

\* Only a compare-exchange changes a word inside a call.
LEMMA CallsKeepWords ==
    ASSUME OwnInv, StartCall \/ \E t \in Threads : Continue(t)
    PROVE  \A i \in Slots : word[i].lifecycle \in Withheld => word'[i] = word[i]
<1>1. CASE StartCall
  BY <1>1
  DEF StartCall, PublishStart, AcquireStart, DrainStart, ReleaseStart, RequeueStart
<1>2. ASSUME NEW t \in Threads, Continue(t)
      PROVE  \A i \in Slots : word[i].lifecycle \in Withheld => word'[i] = word[i]
  <2>1. CASE \/ EnqueueCas(t)
             \/ t \in Schedulers /\ (AcquireCas(t) \/ ReleaseCas(t) \/ RequeueCas(t))
    BY <2>1, CasLifecycle
  <2>2. CASE EnqueueLoad(t)
    BY <2>2 DEF EnqueueLoad
  <2>3. CASE t \in Producers /\ ProducerStep(t)
    BY <2>3 DEF ProducerStep, PublishAdmit, PublishSequence, PublishPush, PublishSwap
  <2>4. CASE t \in Schedulers /\ (Activate(t) \/ DrainStep(t))
    BY <2>4 DEF Activate, DrainStep, DrainPop, DrainDecrement, DrainEmpty,
                DrainAcknowledge
  <2>5. CASE t \in Schedulers /\ SilentStep(t)
    BY <2>5, SilentFrame
  <2> QED BY <1>2, <2>1, <2>2, <2>3, <2>4, <2>5
          DEF Continue, EnqueueStep, AcquireStep, ReleaseStep, RequeueStep, SilentStep
<1> QED BY <1>1, <1>2

\* Below the mask the next generation is one more.
LEMMA NextGenerationBelow ==
    ASSUME NEW g \in Nat, g < GenerationMask
    PROVE  NextGeneration(g) = g + 1
<1>1. g + 1 \in Nat /\ GenerationMask + 1 \in Nat /\ g + 1 < GenerationMask + 1
  BY MaskAssumption
<1>2. (g + 1) % (GenerationMask + 1) = g + 1
  BY <1>1, MaskAssumption
<1> QED BY <1>1, <1>2 DEF NextGeneration

\* A registration makes every ticket of the slot's earlier occupants outdated.
LEMMA RegisterTickets ==
    ASSUME MaxRegistrations <= GenerationMask, TicketInv,
           NEW pid \in Pids, NEW s \in Schedulers, Register(pid, s)
    PROVE  /\ TicketsDated' /\ TicketsSingle'
           /\ \E i \in Slots :
                 /\ \A r \in Schedulers : ticket[r] # NoTicket /\ ticket[r].slot = i
                                            => ~Current(ticket[r])'
                 /\ \A j \in Slots : j # i => /\ generation'[j] = generation[j]
                                              /\ word'[j] = word[j]
                 /\ word'[i].lifecycle = "Queued" /\ FreshMailbox({i})
<1>0. /\ OwnInv /\ TicketsDated /\ TicketsSingle
      /\ generation \in [Slots -> Generations] /\ word \in [Slots -> Word]
      /\ registered \in Nat /\ born \in [Slots -> Nat]
      /\ Generations \subseteq Nat
  BY MaskAssumption DEF TicketInv, OwnInv, Shape, Generations
<1>1. PICK i \in Slots :
         /\ generation' = [generation EXCEPT ![i] = NextGeneration(@)]
         /\ word' = [word EXCEPT ![i] =
                        Unowned(NewWord(NextGeneration(generation[i])), "Queued")]
         /\ born' = [born EXCEPT ![i] = registered + 1]
         /\ FreshMailbox({i})
  BY DEF Register
<1>2. /\ UNCHANGED ticket /\ registered' = registered + 1
      /\ registered < MaxRegistrations
  BY DEF Register, heldVars
<1>3. generation[i] \in Nat /\ generation[i] <= registered
  BY <1>0 DEF TicketsDated
<1>4. generation[i] < GenerationMask
  BY <1>0, <1>2, <1>3, BoundAssumption, MaskAssumption
<1>5. generation'[i] = generation[i] + 1
  BY <1>0, <1>1, <1>3, <1>4, NextGenerationBelow
<1>6. \A j \in Slots : j # i => /\ generation'[j] = generation[j]
                                /\ word'[j] = word[j] /\ born'[j] = born[j]
  BY <1>0, <1>1
<1>7. word'[i].lifecycle = "Queued"
  BY <1>0, <1>1 DEF Unowned, PackState
<1>8. ASSUME NEW r \in Schedulers, ticket[r] # NoTicket
      PROVE  /\ ticket[r].slot \in Slots /\ ticket[r].actorGen \in Nat
             /\ ticket[r].actorGen <= generation[ticket[r].slot]
             /\ Current(ticket[r]) => ticket[r].born = born[ticket[r].slot]
  BY <1>0, <1>8, TicketFields DEF TicketsDated
<1>9. ASSUME NEW r \in Schedulers, ticket[r] # NoTicket, ticket[r].slot = i
      PROVE  /\ ~Current(ticket[r])'
             /\ ticket[r].actorGen <= generation'[ticket[r].slot]
  BY <1>2, <1>3, <1>5, <1>8, <1>9 DEF Current
<1>10. ASSUME NEW r \in Schedulers, ticket[r] # NoTicket, ticket[r].slot # i
       PROVE  /\ Current(ticket[r])' <=> Current(ticket[r])
              /\ generation'[ticket[r].slot] = generation[ticket[r].slot]
              /\ born'[ticket[r].slot] = born[ticket[r].slot]
              /\ word'[ticket[r].slot] = word[ticket[r].slot]
  BY <1>2, <1>6, <1>8, <1>10 DEF Current
<1>11. TicketsDated'
  <2>1. registered' <= MaxRegistrations
    BY <1>0, <1>2, BoundAssumption
  <2>2. ASSUME NEW j \in Slots PROVE generation'[j] <= registered'
    <3>1. generation[j] \in Nat /\ generation[j] <= registered
      BY <1>0 DEF TicketsDated
    <3> QED BY <3>1, <1>0, <1>2, <1>5, <1>6
  <2>3. ASSUME NEW r \in Schedulers, ticket'[r] # NoTicket
        PROVE  /\ ticket'[r].actorGen <= generation'[ticket'[r].slot]
               /\ Current(ticket[r])' => ticket'[r].born = born'[ticket'[r].slot]
    BY <1>2, <1>8, <1>9, <1>10, <2>3
  <2> QED BY <2>1, <2>2, <2>3 DEF TicketsDated
<1>12. TicketsSingle'
  <2> SUFFICES ASSUME NEW r \in Schedulers, ticket'[r] # NoTicket, Current(ticket[r])'
               PROVE  /\ word'[ticket'[r].slot].lifecycle \in Withheld
                      /\ \A q \in Schedulers :
                            /\ ticket'[q] # NoTicket
                            /\ ticket'[q].slot = ticket'[r].slot
                            /\ Current(ticket[q])'
                            => q = r
    BY DEF TicketsSingle
  <2>1. ticket[r] # NoTicket /\ ticket[r].slot # i /\ Current(ticket[r])
    BY <1>2, <1>9, <1>10
  <2> QED BY <1>0, <1>2, <1>10, <2>1 DEF TicketsSingle
<1> QED BY <1>1, <1>2, <1>6, <1>7, <1>9, <1>11, <1>12

\* A migration starts with the only current ticket of its slot.
LEMMA BeginMigrationTickets ==
    ASSUME TicketInv, NEW s \in Schedulers, NEW d \in Schedulers,
           NEW pid \in Pids, BeginMigration(s, pid, d)
    PROVE  TicketsDated' /\ TicketsSingle'
<1>0. /\ OwnInv /\ TicketsDated /\ TicketsSingle
      /\ word \in [Slots -> Word] /\ ticket \in [Schedulers -> Ticket \cup {NoTicket}]
      /\ generation \in [Slots -> Generations] /\ Generations \subseteq Nat
  BY MaskAssumption DEF TicketInv, OwnInv, Shape, Generations
<1>1. PICK i \in Slots : i = actor_slots[pid]
  BY <1>0 DEF BeginMigration, Resolves, OwnInv, Shape
<1>2. PICK k : k = [pid |-> pid, slot |-> i, actorGen |-> generation[i],
                    ownerGen |-> word[i].ownerGen, source |-> route[i],
                    destination |-> d, lifecycle |-> word[i].lifecycle,
                    born |-> born[i]]
  OBVIOUS
<1>3. /\ MayTransition(word[i], Transferable)
      /\ word' = [word EXCEPT ![i] = Unowned(@, "Migrating")]
      /\ ticket' = [ticket EXCEPT ![s] = k]
      /\ UNCHANGED <<generation, born, registered>>
  BY <1>1, <1>2 DEF BeginMigration, directoryVars
<1>4. /\ k.slot = i /\ k.actorGen = generation[i] /\ k.born = born[i]
  BY <1>2
<1>5. /\ ticket'[s] = k /\ \A r \in Schedulers : r # s => ticket'[r] = ticket[r]
      /\ word'[i].lifecycle = "Migrating"
      /\ \A j \in Slots : j # i => word'[j] = word[j]
  BY <1>0, <1>3 DEF Unowned, PackState
<1>6. ASSUME NEW r \in Schedulers, ticket[r] # NoTicket, Current(ticket[r])
      PROVE  ticket[r].slot # i
  BY <1>0, <1>3, <1>6 DEF TicketsSingle, MayTransition, Transferable, Withheld
<1>7. ASSUME NEW r \in Schedulers, r # s
      PROVE  ticket'[r] = ticket[r] /\ (Current(ticket[r])' <=> Current(ticket[r]))
  BY <1>3, <1>5, <1>7 DEF Current
<1>8. generation[i] \in Nat
  BY <1>0
<1>9. TicketsDated'
  <2>1. ASSUME NEW r \in Schedulers, ticket'[r] # NoTicket
        PROVE  /\ ticket'[r].actorGen <= generation'[ticket'[r].slot]
               /\ Current(ticket[r])' => ticket'[r].born = born'[ticket'[r].slot]
    <3>1. CASE r = s
      BY <3>1, <1>3, <1>4, <1>5, <1>8
    <3>2. CASE r # s
      BY <3>2, <2>1, <1>0, <1>3, <1>7 DEF TicketsDated
    <3> QED BY <3>1, <3>2
  <2> QED BY <2>1, <1>0, <1>3 DEF TicketsDated
<1>10. TicketsSingle'
  <2> SUFFICES ASSUME NEW r \in Schedulers, ticket'[r] # NoTicket, Current(ticket[r])'
               PROVE  /\ word'[ticket'[r].slot].lifecycle \in Withheld
                      /\ \A q \in Schedulers :
                            /\ ticket'[q] # NoTicket
                            /\ ticket'[q].slot = ticket'[r].slot
                            /\ Current(ticket[q])'
                            => q = r
    BY DEF TicketsSingle
  <2>1. CASE r = s
    BY <2>1, <1>4, <1>5, <1>6, <1>7 DEF Withheld
  <2>2. CASE r # s
    <3>1. /\ ticket'[r] = ticket[r] /\ Current(ticket[r]) /\ ticket[r] # NoTicket
          /\ ticket[r].slot # i
      BY <2>2, <1>6, <1>7
    <3>2. ticket[r].slot \in Slots
      BY <1>0, <3>1, TicketFields
    <3> QED BY <3>1, <3>2, <1>0, <1>4, <1>5, <1>7 DEF TicketsSingle
  <2> QED BY <2>1, <2>2
<1> QED BY <1>9, <1>10

\* A migration that completes takes its slot's only current ticket with it.
LEMMA CompleteMigrationTickets ==
    ASSUME TicketInv, NEW s \in Schedulers, CompleteMigration(s)
    PROVE  TicketsDated' /\ TicketsSingle'
<1>0. /\ OwnInv /\ TicketsDated /\ TicketsSingle
      /\ word \in [Slots -> Word] /\ ticket \in [Schedulers -> Ticket \cup {NoTicket}]
  BY DEF TicketInv, OwnInv, Shape
<1>1. /\ UNCHANGED <<generation, born, registered>>
      /\ ticket' = [ticket EXCEPT ![s] = NoTicket] /\ ticket[s] # NoTicket
  BY DEF CompleteMigration
<1>2. /\ ticket'[s] = NoTicket
      /\ \A r \in Schedulers : r # s => ticket'[r] = ticket[r]
  BY <1>0, <1>1
<1>3. ASSUME NEW r \in Schedulers, ticket'[r] # NoTicket
      PROVE  /\ r # s /\ ticket'[r] = ticket[r] /\ ticket[r].slot \in Slots
             /\ Current(ticket[r])' <=> Current(ticket[r])
  BY <1>0, <1>1, <1>2, <1>3, TicketFields DEF Current
<1>4. TicketsDated'
  BY <1>0, <1>1, <1>3 DEF TicketsDated
<1>5. \A j \in Slots : word'[j] # word[j] =>
         TicketValid(ticket[s]) /\ j = ticket[s].slot
  <2>1. CASE TicketValid(ticket[s])
    BY <2>1, <1>0 DEF CompleteMigration
  <2>2. CASE ~TicketValid(ticket[s])
    BY <2>2 DEF CompleteMigration
  <2> QED BY <2>1, <2>2
<1>6. TicketsSingle'
  <2> SUFFICES ASSUME NEW r \in Schedulers, ticket'[r] # NoTicket, Current(ticket[r])'
               PROVE  /\ word'[ticket'[r].slot].lifecycle \in Withheld
                      /\ \A q \in Schedulers :
                            /\ ticket'[q] # NoTicket
                            /\ ticket'[q].slot = ticket'[r].slot
                            /\ Current(ticket[q])'
                            => q = r
    BY DEF TicketsSingle
  <2>1. r # s /\ ticket'[r] = ticket[r] /\ Current(ticket[r]) /\ ticket[r].slot \in Slots
    BY <1>3
  <2>2. word'[ticket[r].slot] = word[ticket[r].slot]
    <3> SUFFICES ASSUME TicketValid(ticket[s]), ticket[r].slot = ticket[s].slot
                 PROVE  FALSE
      BY <1>5, <2>1
    <3>1. Current(ticket[s]) /\ ticket[s] # NoTicket
      BY <1>1 DEF TicketValid, Current
    <3> QED BY <1>0, <1>2, <2>1, <3>1 DEF TicketsSingle
  <2> QED BY <1>0, <1>3, <2>1, <2>2 DEF TicketsSingle
<1> QED BY <1>4, <1>6

\* Every step keeps the tickets dated and single.
LEMMA NextTickets ==
    ASSUME MaxRegistrations <= GenerationMask, TicketInv, [Next]_vars
    PROVE  TicketsDated' /\ TicketsSingle'
<1>0. /\ OwnInv /\ TicketsDated /\ TicketsSingle
  BY DEF TicketInv
<1>1. ASSUME UNCHANGED <<generation, born, registered, ticket>>,
             \A i \in Slots : word[i].lifecycle \in Withheld =>
                                 word'[i].lifecycle \in Withheld
      PROVE  TicketsDated' /\ TicketsSingle'
  <2>1. TicketsDated'
    BY <1>0, <1>1 DEF TicketsDated, Current
  <2>2. TicketsSingle'
    <3> SUFFICES ASSUME NEW r \in Schedulers, ticket[r] # NoTicket, Current(ticket[r])
                 PROVE  word'[ticket[r].slot].lifecycle \in Withheld
      BY <1>0, <1>1 DEF TicketsSingle, Current
    <3>1. ticket[r].slot \in Slots
      BY <1>0, TicketFields
    <3> QED BY <1>0, <1>1, <3>1 DEF TicketsSingle
  <2> QED BY <2>1, <2>2
<1>2. CASE UNCHANGED vars
  BY <1>1, <1>2 DEF vars
<1>3. CASE StartCall \/ \E t \in Threads : Continue(t)
  BY <1>0, <1>1, <1>3, CallsKeepTickets, CallsKeepWords
<1>4. CASE \E pid \in Pids, s \in Schedulers : Register(pid, s)
  BY <1>4, RegisterTickets
<1>5. CASE \E s, d \in Schedulers, pid \in Pids : BeginMigration(s, pid, d)
  BY <1>5, BeginMigrationTickets
<1>6. CASE \E s \in Schedulers : CompleteMigration(s)
  BY <1>6, CompleteMigrationTickets
<1>7. CASE (\E pid \in Pids : Reclaim(pid) \/ Discard(pid)) \/ Shutdown
  <2>1. PICK Gone \in SUBSET Slots : Remove(Gone)
    BY <1>0, <1>7, RemovalSteps
  <2>2. /\ UNCHANGED <<generation, born, registered, ticket>>
        /\ word' = [i \in Slots |-> IF i \in Gone THEN Unowned(word[i], "Reclaimed")
                                                   ELSE word[i]]
    BY <2>1 DEF Remove, heldVars
  <2>3. \A i \in Slots : Unowned(word[i], "Reclaimed").lifecycle = "Reclaimed"
    BY DEF Unowned, PackState
  <2>4. \A i \in Slots : word[i].lifecycle \in Withheld =>
                             word'[i].lifecycle \in Withheld
    BY <2>2, <2>3 DEF Withheld
  <2> QED BY <1>1, <2>2, <2>4
<1> QED BY <1>2, <1>3, <1>4, <1>5, <1>6, <1>7 DEF Next, Control

\* Tickets are dated and single in every reachable state.
THEOREM TicketInvariance ==
    ASSUME MaxRegistrations <= GenerationMask
    PROVE  Spec => []TicketInv
<1>1. Init => TicketsDated /\ TicketsSingle
  BY BoundAssumption DEF Init, TicketsDated, TicketsSingle
<1>2. TicketInv /\ [Next]_vars => TicketsDated' /\ TicketsSingle'
  BY NextTickets
<1> QED BY <1>1, <1>2, OwnershipInvariance, PTL DEF Spec, TicketInv

\* MC-C02: validate_migration_ticket accepts a ticket only for the actor it was
\* issued for, however often the slot was reclaimed and reused in between, as
\* long as the slot's generation has not come round.
THEOREM TicketsNameOccupant ==
    ASSUME MaxRegistrations <= GenerationMask
    PROVE  Spec => []TicketNamesOccupant
<1>1. TicketInv => TicketNamesOccupant
  BY DEF TicketInv, TicketsDated, TicketNamesOccupant, TicketValid, Current
<1> QED BY <1>1, TicketInvariance, PTL

-----------------------------------------------------------------------------
(* Wakes *)

\* The wake states of an actor that is parked or about to be.
Resting == {"PARKED", "NOTIFIED"}

\* The mailbox was seen empty by the scheduler that is about to park its actor.
SeenEmpty(i) ==
    /\ wake_state[i] = "PARKING"
    /\ \E s \in Schedulers : pc(s) = "park_commit" /\ at(s) = i

\* Whoever pushed since then has yet to swap the wake state.
MailAnnounced(i) ==
    (wake_state[i] = "PARKED" \/ SeenEmpty(i)) /\ queue[i] # <<>> =>
       \E p \in Producers : at(p) = i /\ pc(p) = "swap"

\* A release into Parked, a parked actor and the migration of a parked actor all
\* find the wake state set.
ReleaseSettled(i) ==
    \A s \in Schedulers :
       /\ at(s) = i /\ pc(s) \in {"rel_load", "rel_cas"}
       /\ call[s].next = "Parked"
       => wake_state[i] \in Resting

RestSettled(i) == word[i].lifecycle = "Parked" => wake_state[i] \in Resting

TicketSettled(i) ==
    \A s \in Schedulers :
       /\ ticket[s] # NoTicket /\ ticket[s].slot = i /\ Current(ticket[s])
       /\ word[i].lifecycle = "Migrating" /\ ticket[s].lifecycle = "Parked"
       => wake_state[i] \in Resting

\* A call that is going to queue the actor of slot i.
Waking(t, i) ==
    /\ at(t) = i
    /\ \/ pc(t) \in {"enq_load", "rel_notified"}
       \/ pc(t) = "enq_cas" /\ call[t].before = word[i]

\* A notification of a parked actor is in somebody's hands.
NotifiedIsWoken(i) ==
    word[i].lifecycle = "Parked" /\ wake_state[i] = "NOTIFIED" =>
       \E t \in Threads : Waking(t, i)

SlotWake(i) == /\ MailAnnounced(i)  /\ ReleaseSettled(i) /\ RestSettled(i)
               /\ TicketSettled(i) /\ NotifiedIsWoken(i)

WakeShape == wake_state \in [Slots -> WakeStates]

SlotsWake == \A i \in Slots : SlotWake(i)

WakeInv == MailInv /\ TicketInv /\ WakeShape /\ SlotsWake

\* The invariant is strong enough: a parked actor with mail has a producer that
\* is yet to swap, or a call that is going to queue it.
LEMMA WakeEnough == WakeInv => NoLostWakeup
<1> SUFFICES ASSUME WakeInv, NEW i \in Slots,
                    word[i].lifecycle = "Parked", queue[i] # <<>>
             PROVE  \E t \in Threads :
                       /\ at(t) = i
                       /\ pc(t) \in {"swap", "enq_load", "enq_cas", "rel_notified"}
  BY DEF NoLostWakeup
<1>1. SlotWake(i) /\ wake_state[i] \in Resting
  BY DEF WakeInv, SlotsWake, SlotWake, RestSettled
<1>2. CASE wake_state[i] = "PARKED"
  BY <1>1, <1>2 DEF SlotWake, MailAnnounced, Threads
<1>3. CASE wake_state[i] = "NOTIFIED"
  BY <1>1, <1>3 DEF SlotWake, NotifiedIsWoken, Waking
<1> QED BY <1>1, <1>2, <1>3 DEF Resting

\* A step of one call that changes neither the word nor the wake state of slot
\* i, and puts nothing into its queue.
LEMMA SlotKept ==
    ASSUME NEW i \in Slots, SlotWake(i), NEW t \in Threads, OthersKept(t),
           UNCHANGED <<generation, ticket>>,
           wake_state'[i] = wake_state[i], word'[i] = word[i],
           queue'[i] # <<>> => queue[i] # <<>>,
           at(t) = i /\ pc(t) = "swap" => at(t)' = i /\ pc(t)' = "swap",
           /\ Waking(t, i) /\ wake_state[i] = "NOTIFIED"
           /\ word[i].lifecycle = "Parked"
           => Waking(t, i)',
           at(t)' = i /\ pc(t)' = "park_commit" =>
              queue'[i] = <<>> \/ (at(t) = i /\ pc(t) = "park_commit"),
           /\ at(t)' = i /\ pc(t)' \in {"rel_load", "rel_cas"}
           /\ call'[t].next = "Parked"
           => wake_state[i] \in Resting
    PROVE  SlotWake(i)'
<1>0. \A u \in Threads : u # t => pc(u)' = pc(u) /\ at(u)' = at(u) /\ call'[u] = call[u]
  BY DEF OthersKept, pc, at
<1>1. MailAnnounced(i)'
  <2> SUFFICES ASSUME wake_state'[i] = "PARKED" \/ SeenEmpty(i)', queue'[i] # <<>>
               PROVE  \E p \in Producers : at(p)' = i /\ pc(p)' = "swap"
    BY DEF MailAnnounced
  <2>1. wake_state[i] = "PARKED" \/ SeenEmpty(i)
    BY <1>0 DEF SeenEmpty, Threads
  <2>2. PICK p \in Producers : at(p) = i /\ pc(p) = "swap"
    BY <2>1 DEF SlotWake, MailAnnounced
  <2> QED BY <1>0, <2>2 DEF Threads
<1>2. ReleaseSettled(i)'
  BY <1>0 DEF SlotWake, ReleaseSettled, Threads
<1>3. RestSettled(i)' /\ TicketSettled(i)'
  BY DEF SlotWake, RestSettled, TicketSettled, Current
<1>4. NotifiedIsWoken(i)'
  <2> SUFFICES ASSUME word[i].lifecycle = "Parked", wake_state[i] = "NOTIFIED"
               PROVE  \E u \in Threads : Waking(u, i)'
    BY DEF NotifiedIsWoken
  <2>1. PICK u \in Threads : Waking(u, i)
    BY DEF SlotWake, NotifiedIsWoken
  <2>2. u # t => Waking(u, i)'
    BY <1>0, <2>1 DEF Waking
  <2> QED BY <2>1, <2>2
<1> QED BY <1>1, <1>2, <1>3, <1>4 DEF SlotWake

\* Two calls that work under a lease are not at one slot.
LEMMA LeaseAlone ==
    ASSUME OwnInv, NEW s \in Schedulers, pc(s) \in LeaseLabels
    PROVE  /\ at(s) \in Slots /\ word[at(s)].lifecycle = "Executing"
           /\ \A r \in Schedulers :
                 pc(r) \in LeaseLabels /\ at(r) = at(s) => r = s
<1>1. \A r \in Schedulers :
         pc(r) \in LeaseLabels => lease[r] # NoLease /\ lease[r].slot = at(r)
  BY DEF OwnInv, CallsOK, CallOK, Threads, LeaseLabels
<1> QED BY <1>1, LeaseSlots

\* A step under a lease that changes the wake state of its slot.
LEMMA LeaseWake ==
    ASSUME OwnInv, NEW s \in Schedulers, pc(s) \in LeaseLabels, OthersKept(s),
           NEW i \in Slots, i = at(s), SlotWake(i),
           UNCHANGED <<generation, ticket, word, queue>>,
           wake_state'[i] = "PARKED" =>
              wake_state[i] = "PARKING" /\ pc(s) = "park_commit",
           pc(s)' # "park_commit",
           pc(s)' \in {"rel_load", "rel_cas"} /\ call'[s].next = "Parked" =>
              wake_state'[i] \in Resting
    PROVE  SlotWake(i)'
<1>0. \A u \in Threads : u # s => pc(u)' = pc(u) /\ at(u)' = at(u) /\ call'[u] = call[u]
  BY DEF OthersKept, pc, at
<1>1. /\ word[i].lifecycle = "Executing"
      /\ \A r \in Schedulers : pc(r) \in LeaseLabels /\ at(r) = i => r = s
  BY LeaseAlone
<1>2. ~SeenEmpty(i)'
  <2> SUFFICES ASSUME NEW r \in Schedulers, pc(r)' = "park_commit", at(r)' = i
               PROVE  FALSE
    BY DEF SeenEmpty
  <2>1. r # s /\ pc(r) = "park_commit" /\ at(r) = i
    BY <1>0 DEF Threads
  <2> QED BY <1>1, <2>1 DEF LeaseLabels
<1>3. MailAnnounced(i)'
  <2> SUFFICES ASSUME wake_state'[i] = "PARKED", queue[i] # <<>>
               PROVE  \E p \in Producers : at(p)' = i /\ pc(p)' = "swap"
    BY <1>2 DEF MailAnnounced
  <2>1. SeenEmpty(i)
    BY DEF SeenEmpty
  <2>2. PICK p \in Producers : at(p) = i /\ pc(p) = "swap"
    BY <2>1 DEF SlotWake, MailAnnounced
  <2>3. p # s /\ p \in Threads
    BY ThreadAssumption DEF Threads
  <2> QED BY <1>0, <2>2, <2>3
<1>4. ReleaseSettled(i)'
  <2> SUFFICES ASSUME NEW r \in Schedulers, at(r)' = i,
                      pc(r)' \in {"rel_load", "rel_cas"}, call'[r].next = "Parked"
               PROVE  wake_state'[i] \in Resting
    BY DEF ReleaseSettled
  <2>1. r # s => pc(r) \in LeaseLabels /\ at(r) = i
    BY <1>0 DEF Threads, LeaseLabels
  <2> QED BY <1>1, <2>1
<1> QED BY <1>1, <1>3, <1>4
        DEF SlotWake, RestSettled, TicketSettled, NotifiedIsWoken

\* A compare-exchange that replaces the word of its slot.
LEMMA WordWake ==
    ASSUME NEW i \in Slots, SlotWake(i), NEW t \in Threads, OthersKept(t),
           UNCHANGED <<generation, ticket, queue, wake_state>>,
           pc(t) # "swap",
           pc(t)' \notin {"park_commit", "rel_load", "rel_cas"},
           word'[i].lifecycle # "Migrating",
           word'[i].lifecycle = "Parked" =>
              wake_state[i] \in Resting /\ Waking(t, i)'
    PROVE  SlotWake(i)'
<1>0. \A u \in Threads : u # t => pc(u)' = pc(u) /\ at(u)' = at(u) /\ call'[u] = call[u]
  BY DEF OthersKept, pc, at
<1>1. MailAnnounced(i)'
  <2> SUFFICES ASSUME wake_state[i] = "PARKED" \/ SeenEmpty(i)', queue[i] # <<>>
               PROVE  \E p \in Producers : at(p)' = i /\ pc(p)' = "swap"
    BY DEF MailAnnounced
  <2>1. wake_state[i] = "PARKED" \/ SeenEmpty(i)
    BY <1>0 DEF SeenEmpty, Threads
  <2>2. PICK p \in Producers : at(p) = i /\ pc(p) = "swap"
    BY <2>1 DEF SlotWake, MailAnnounced
  <2> QED BY <1>0, <2>2 DEF Threads
<1>2. ReleaseSettled(i)'
  BY <1>0 DEF SlotWake, ReleaseSettled, Threads
<1> QED BY <1>1, <1>2
        DEF SlotWake, RestSettled, TicketSettled, NotifiedIsWoken

\* Steps of calls that are neither waking, nor parking, nor releasing.
LEMMA IdleWake ==
    ASSUME SlotsWake, NEW t \in Threads, OthersKept(t),
           UNCHANGED <<generation, ticket, wake_state, word>>,
           \A i \in Slots : queue'[i] # <<>> => queue[i] # <<>>,
           pc(t) \notin {"swap", "enq_load", "rel_notified", "enq_cas"},
           pc(t)' \notin {"park_commit", "rel_load", "rel_cas"}
    PROVE  SlotsWake'
<1> SUFFICES ASSUME NEW i \in Slots PROVE SlotWake(i)'
  BY DEF SlotsWake
<1>1. SlotWake(i) /\ ~Waking(t, i)
  BY DEF SlotsWake, Waking
<1> QED BY <1>1, SlotKept

\* publish: a push leaves its producer with the wake state to swap, and the
\* producer that swaps PARKED out goes on to queue the actor.
LEMMA PublishWake ==
    ASSUME WakeInv, NEW p \in Producers, PublishStart(p) \/ ProducerStep(p)
    PROVE  SlotsWake' /\ WakeShape'
<1>0. p \in Threads /\ OwnInv /\ SlotsWake /\ WakeShape /\ Mailed
  BY DEF Threads, WakeInv, MailInv
<1>1. UNCHANGED <<generation, ticket>>
  BY DEF PublishStart, ProducerStep, PublishAdmit, PublishSequence, PublishPush,
         PublishSwap, directoryVars, heldVars
<1>2. CASE PublishStart(p)
  <2>1. PICK slot : Begin(p, "admit", slot)
    BY <1>2 DEF PublishStart
  <2>2. pc(p)' = "admit" /\ OthersKept(p)
    BY <1>0, <2>1, BeginCall
  <2>3. pc(p) = "idle" /\ UNCHANGED <<queue, wake_state, word>>
    BY <1>2 DEF PublishStart, mailboxVars
  <2> QED BY <1>0, <1>1, <2>2, <2>3, IdleWake DEF WakeShape
<1>3. CASE PublishAdmit(p)
  <2>1. pc(p) = "admit" /\ UNCHANGED <<queue, wake_state, word>>
    BY <1>3 DEF PublishAdmit
  <2>2. pc(p)' \in {"sequence", "idle"} /\ OthersKept(p)
    BY <1>0, <1>3, GotoCall, ReturnCall DEF PublishAdmit
  <2> QED BY <1>0, <1>1, <2>1, <2>2, IdleWake DEF WakeShape
<1>4. CASE PublishSequence(p)
  <2>1. pc(p) = "sequence" /\ UNCHANGED <<queue, wake_state, word>>
    BY <1>4 DEF PublishSequence
  <2>2. pc(p)' = "push" /\ OthersKept(p)
    BY <1>0, <1>4, SequenceCall
  <2> QED BY <1>0, <1>1, <2>1, <2>2, IdleWake DEF WakeShape
<1>5. CASE PublishPush(p) /\ UNCHANGED queue
  <2>1. pc(p) = "push" /\ UNCHANGED <<queue, wake_state, word>>
    BY <1>5 DEF PublishPush
  <2>2. pc(p)' \in {"swap", "idle"} /\ OthersKept(p)
    BY <1>0, <1>5, GotoCall, ReturnCall DEF PublishPush
  <2> QED BY <1>0, <1>1, <2>1, <2>2, IdleWake DEF WakeShape
<1>6. CASE PublishPush(p) /\ queue' # queue
  <2>1. /\ pc(p) = "push" /\ Goto(p, "swap") /\ UNCHANGED <<wake_state, word>>
        /\ \E f : queue' = [queue EXCEPT ![at(p)] = f]
    BY <1>6 DEF PublishPush
  <2>2. /\ pc(p)' = "swap" /\ at(p)' = at(p) /\ OthersKept(p)
    BY <1>0, <2>1, GotoCall
  <2>3. \A i \in Slots : i # at(p) => queue'[i] = queue[i]
    BY <1>0, <2>1 DEF Mailed
  <2>4. ASSUME NEW i \in Slots PROVE SlotWake(i)'
    <3>0. SlotWake(i) /\ ~Waking(p, i)
      BY <1>0, <2>1 DEF SlotsWake, Waking
    <3>1. CASE i # at(p)
      BY <1>0, <1>1, <2>1, <2>2, <2>3, <3>0, <3>1, SlotKept
    <3>2. CASE i = at(p)
      <4>1. MailAnnounced(i)'
        BY <2>2, <3>2 DEF MailAnnounced
      <4>2. \A s \in Schedulers : call'[s] = call[s]
        BY <2>2, ThreadAssumption DEF OthersKept, Threads
      <4>3. ReleaseSettled(i)' /\ RestSettled(i)' /\ TicketSettled(i)'
        BY <1>1, <2>1, <3>0, <4>2
        DEF SlotWake, ReleaseSettled, RestSettled, TicketSettled, Current, pc, at
      <4>4. NotifiedIsWoken(i)'
        <5> SUFFICES ASSUME word[i].lifecycle = "Parked", wake_state[i] = "NOTIFIED"
                     PROVE  \E u \in Threads : Waking(u, i)'
          BY <2>1 DEF NotifiedIsWoken
        <5>1. PICK u \in Threads : Waking(u, i)
          BY <3>0 DEF SlotWake, NotifiedIsWoken
        <5>2. u # p
          BY <3>0, <5>1
        <5> QED BY <2>1, <2>2, <5>1, <5>2 DEF Waking, OthersKept, pc, at
      <4> QED BY <4>1, <4>3, <4>4 DEF SlotWake
    <3> QED BY <3>1, <3>2
  <2> QED BY <1>0, <2>1, <2>4 DEF SlotsWake, WakeShape
<1>7. CASE PublishSwap(p)
  <2>1. /\ pc(p) = "swap" /\ UNCHANGED <<queue, word>>
        /\ wake_state' = [wake_state EXCEPT ![at(p)] = "NOTIFIED"]
    BY <1>7 DEF PublishSwap
  <2>2. /\ OthersKept(p) /\ pc(p)' \in {"enq_load", "idle"}
        /\ wake_state[at(p)] = "PARKED" => pc(p)' = "enq_load" /\ at(p)' = at(p)
    BY <1>0, <1>7, GotoCall, ReturnCall DEF PublishSwap, WakeOf
  <2>3. /\ at(p) \in Slots
        /\ wake_state'[at(p)] = "NOTIFIED"
        /\ \A i \in Slots : i # at(p) => wake_state'[i] = wake_state[i]
        /\ WakeShape'
    BY <1>0, <2>1 DEF OwnInv, CallsOK, CallOK, WakeShape, WakeStates
  <2>4. ASSUME NEW i \in Slots PROVE SlotWake(i)'
    <3>0. SlotWake(i) /\ ~Waking(p, i)
      BY <1>0, <2>1 DEF SlotsWake, Waking
    <3>1. CASE i # at(p)
      BY <1>0, <1>1, <2>1, <2>2, <2>3, <3>0, <3>1, SlotKept
    <3>2. CASE i = at(p)
      <4>0. wake_state'[i] = "NOTIFIED"
        BY <2>3, <3>2
      <4>1. MailAnnounced(i)'
        BY <4>0 DEF MailAnnounced, SeenEmpty
      <4>2. ReleaseSettled(i)' /\ RestSettled(i)' /\ TicketSettled(i)'
        BY <4>0 DEF ReleaseSettled, RestSettled, TicketSettled, Resting
      <4>3. NotifiedIsWoken(i)'
        <5> SUFFICES ASSUME word[i].lifecycle = "Parked"
                     PROVE  \E u \in Threads : Waking(u, i)'
          BY <2>1 DEF NotifiedIsWoken
        <5>1. wake_state[i] \in {"PARKED", "NOTIFIED"}
          BY <3>0 DEF SlotWake, RestSettled, Resting
        <5>2. CASE wake_state[i] = "PARKED"
          BY <1>0, <2>2, <3>2, <5>2 DEF Waking
        <5>3. CASE wake_state[i] = "NOTIFIED"
          <6>1. PICK u \in Threads : Waking(u, i)
            BY <3>0, <5>3 DEF SlotWake, NotifiedIsWoken
          <6>2. u # p
            BY <3>0, <6>1
          <6> QED BY <2>1, <2>2, <6>1, <6>2 DEF Waking, OthersKept, pc, at
        <5> QED BY <5>1, <5>2, <5>3
      <4> QED BY <4>1, <4>2, <4>3 DEF SlotWake
    <3> QED BY <3>1, <3>2
  <2> QED BY <2>3, <2>4 DEF SlotsWake
<1> QED BY <1>2, <1>3, <1>4, <1>5, <1>6, <1>7 DEF ProducerStep

\* enqueue_notified_parked: the load of a parked word leads to its exchange.
LEMMA EnqueueLoadWake ==
    ASSUME WakeInv, NEW t \in Threads, EnqueueLoad(t)
    PROVE  SlotsWake' /\ WakeShape'
<1>0. OwnInv /\ SlotsWake /\ WakeShape
  BY DEF WakeInv, MailInv
<1>1. /\ pc(t) = "enq_load"
      /\ UNCHANGED <<generation, ticket, queue, wake_state, word>>
  BY DEF EnqueueLoad, directoryVars, heldVars, mailboxVars
<1>2. pc(t)' \in {"enq_cas", "idle"} /\ OthersKept(t)
  BY <1>0, LoadCall, ReturnCall DEF EnqueueLoad
<1>3. ASSUME NEW i \in Slots PROVE SlotWake(i)'
  <2>1. SlotWake(i)
    BY <1>0 DEF SlotsWake
  <2>2. ASSUME Waking(t, i), word[i].lifecycle = "Parked"
        PROVE  Waking(t, i)'
    <3>1. at(t) = i
      BY <2>2 DEF Waking
    <3>2. MayTransition(word[i], {"Parked"})
      BY <1>0, <2>2 DEF OwnInv, ExclusiveMutator, MayTransition
    <3>3. call' = [call EXCEPT ![t].pc = "enq_cas", ![t].before = word[i]]
      BY <3>1, <3>2 DEF EnqueueLoad
    <3>4. pc(t)' = "enq_cas" /\ at(t)' = i /\ call'[t].before = word[i]
      BY <1>0, <3>1, <3>3, LoadCall
    <3> QED BY <1>1, <3>4 DEF Waking
  <2> QED BY <1>1, <1>2, <2>1, <2>2, SlotKept
<1> QED BY <1>0, <1>1, <1>3 DEF SlotsWake, WakeShape

\* The compare-exchanges: only a release parks an actor, with its wake state set
\* and the notification still to be looked at.
LEMMA CasWake ==
    ASSUME WakeInv, NEW t \in Threads,
           \/ EnqueueCas(t)
           \/ t \in Schedulers /\ (AcquireCas(t) \/ ReleaseCas(t) \/ RequeueCas(t))
    PROVE  SlotsWake' /\ WakeShape'
<1>0. OwnInv /\ SlotsWake /\ WakeShape
  BY DEF WakeInv, MailInv
<1>1. /\ pc(t) \in {"enq_cas", "acq_cas", "rel_cas", "requeue_cas"}
      /\ UNCHANGED <<generation, ticket, queue, wake_state>>
  BY DEF EnqueueCas, AcquireCas, ReleaseCas, RequeueCas, directoryVars, heldVars,
         mailboxVars
<1>2. pc(t)' \in {"idle", "activate", "rel_notified"} /\ OthersKept(t)
  BY <1>0, GotoCall, ReturnCall DEF EnqueueCas, AcquireCas, ReleaseCas, RequeueCas
<1>3. ASSUME NEW i \in Slots PROVE SlotWake(i)'
  <2>0. SlotWake(i)
    BY <1>0 DEF SlotsWake
  <2>1. CASE word'[i] = word[i] /\ (i = at(t) => word[i] # call[t].before)
    <3>1. ~Waking(t, i)
      BY <1>1, <2>1 DEF Waking
    <3> QED BY <1>1, <1>2, <2>0, <2>1, <3>1, SlotKept
  <2>2. CASE word'[i] = word[i] /\ i # at(t)
    <3>1. ~Waking(t, i)
      BY <2>2 DEF Waking
    <3> QED BY <1>1, <1>2, <2>0, <2>2, <3>1, SlotKept
  <2>3. CASE /\ i = at(t) /\ word[i] = call[t].before
             /\ word'[i].lifecycle \notin Withheld
             /\ word'[i].lifecycle = "Parked" =>
                   /\ t \in Schedulers /\ pc(t) = "rel_cas"
                   /\ call[t].next = "Parked" /\ ReleaseCas(t)
    <3>1. ASSUME word'[i].lifecycle = "Parked"
          PROVE  wake_state[i] \in Resting /\ Waking(t, i)'
      <4>1. Goto(t, "rel_notified")
        BY <2>3, <3>1 DEF ReleaseCas
      <4>2. pc(t)' = "rel_notified" /\ at(t)' = i
        BY <1>0, <2>3, <4>1, GotoCall
      <4>3. wake_state[i] \in Resting
        BY <2>0, <2>3, <3>1 DEF SlotWake, ReleaseSettled
      <4> QED BY <4>2, <4>3 DEF Waking
    <3> QED BY <1>1, <1>2, <2>0, <2>3, <3>1, WordWake DEF Withheld
  <2> QED BY <1>0, <2>1, <2>2, <2>3, CasLifecycle
<1> QED BY <1>0, <1>1, <1>3 DEF SlotsWake, WakeShape

\* Calls of schedulers that begin or go on without touching a wake state.
LEMMA QuietWake ==
    ASSUME WakeInv, NEW s \in Schedulers,
           \/ AcquireStart(s) \/ DrainStart(s) \/ RequeueStart(s) \/ RequeueLoad(s)
           \/ DrainPop(s) \/ DrainDecrement(s) \/ DrainEmpty(s)
    PROVE  SlotsWake' /\ WakeShape'
<1>0. s \in Threads /\ OwnInv /\ SlotsWake /\ WakeShape /\ Mailed
  BY DEF Threads, WakeInv, MailInv
<1>1. UNCHANGED <<generation, ticket, wake_state, word>>
  BY DEF AcquireStart, DrainStart, RequeueStart, RequeueLoad, DrainPop,
         DrainDecrement, DrainEmpty, directoryVars, heldVars, mailboxVars
<1>2. \A i \in Slots : queue'[i] # <<>> => queue[i] # <<>>
  <2>1. CASE DrainPop(s)
    <3>1. at(s) \in Slots
      BY <1>0, <2>1 DEF DrainPop, OwnInv, CallsOK, CallOK
    <3> QED BY <1>0, <2>1, <3>1 DEF DrainPop, Mailed
  <2>2. CASE UNCHANGED queue
    BY <2>2
  <2> QED BY <2>1, <2>2
          DEF AcquireStart, DrainStart, RequeueStart, RequeueLoad, DrainDecrement,
              DrainEmpty, mailboxVars
<1>3. /\ pc(s) \notin {"swap", "enq_load", "rel_notified", "enq_cas"}
      /\ OthersKept(s) /\ pc(s)' \notin {"park_commit", "rel_load", "rel_cas"}
  <2>1. CASE AcquireStart(s)
    <3>1. PICK pid \in Pids : call' = [call EXCEPT ![s] =
                   [Idle EXCEPT !.pc = "acq_cas", !.slot = actor_slots[pid],
                                !.before = word[actor_slots[pid]]]]
      BY <2>1 DEF AcquireStart
    <3>2. call'[s].pc = "acq_cas"
      BY <1>0, <3>1 DEF OwnInv, Shape, Idle
    <3>3. OthersKept(s)
      BY <1>0, <3>1 DEF OwnInv, Shape, OthersKept
    <3> QED BY <2>1, <3>2, <3>3 DEF AcquireStart, pc
  <2>2. CASE DrainStart(s) \/ RequeueStart(s)
    BY <1>0, <2>2, BeginCall DEF DrainStart, RequeueStart
  <2>3. CASE RequeueLoad(s)
    BY <1>0, <2>3, LoadCall, ReturnCall DEF RequeueLoad
  <2>4. CASE DrainPop(s) \/ DrainDecrement(s) \/ DrainEmpty(s)
    BY <1>0, <2>4, GotoCall, ReturnCall DEF DrainPop, DrainDecrement, DrainEmpty
  <2> QED BY <2>1, <2>2, <2>3, <2>4
<1> QED BY <1>0, <1>1, <1>2, <1>3, IdleWake DEF WakeShape

\* release: what the releaser relies on while it changes no wake state.
LEMMA ReleaseWake ==
    ASSUME WakeInv, NEW s \in Schedulers,
           ReleaseStart(s) \/ ParkCheck(s) \/ ReleaseLoad(s) \/ ReleaseNotified(s)
    PROVE  SlotsWake' /\ WakeShape'
<1>0. s \in Threads /\ OwnInv /\ SlotsWake /\ WakeShape
  BY DEF Threads, WakeInv, MailInv
<1>1. UNCHANGED <<generation, ticket, wake_state, word, queue>>
  BY DEF ReleaseStart, ParkCheck, ReleaseLoad, ReleaseNotified, directoryVars,
         heldVars, mailboxVars
<1>2. ASSUME NEW i \in Slots PROVE SlotWake(i)'
  <2>0. SlotWake(i)
    BY <1>0 DEF SlotsWake
  <2>1. CASE ReleaseStart(s)
    <3>1. PICK b \in Releasable :
            call' = [call EXCEPT ![s] =
               [Idle EXCEPT !.pc = IF b = "Parked" THEN "park_cas" ELSE "rel_load",
                            !.slot = lease[s].slot, !.next = b]]
      BY <2>1 DEF ReleaseStart
    <3>2. /\ call'[s].pc \in {"park_cas", "rel_load"} /\ call'[s].next = b
          /\ call'[s].pc = "rel_load" => b # "Parked"
      BY <1>0, <3>1 DEF OwnInv, Shape, Idle
    <3>3. OthersKept(s)
      BY <1>0, <3>1 DEF OwnInv, Shape, OthersKept
    <3>4. pc(s) = "idle" /\ ~Waking(s, i)
      BY <2>1 DEF ReleaseStart, Waking
    <3> QED BY <1>0, <1>1, <2>0, <3>2, <3>3, <3>4, SlotKept DEF pc
  <2>2. CASE ParkCheck(s)
    <3>1. pc(s) = "park_check" /\ ~Waking(s, i)
      BY <2>2 DEF ParkCheck, Waking
    <3>2. /\ OthersKept(s) /\ at(s)' = at(s)
          /\ pc(s)' = IF queue[at(s)] # <<>> THEN "park_notify" ELSE "park_commit"
      BY <1>0, <2>2, GotoCall DEF ParkCheck
    <3> QED BY <1>0, <1>1, <2>0, <3>1, <3>2, SlotKept
  <2>3. CASE ReleaseLoad(s)
    <3>1. pc(s) = "rel_load" /\ ~Waking(s, i)
      BY <2>3 DEF ReleaseLoad, Waking
    <3>2. pc(s)' = "rel_cas" /\ OthersKept(s) /\ at(s)' = at(s)
      BY <1>0, <2>3, LoadCall DEF ReleaseLoad
    <3>3. call'[s].next = call[s].next
      BY <1>0, <2>3 DEF ReleaseLoad, OwnInv, Shape, Call
    <3>4. at(s)' = i /\ call'[s].next = "Parked" => wake_state[i] \in Resting
      BY <2>0, <3>1, <3>2, <3>3 DEF SlotWake, ReleaseSettled
    <3> QED BY <1>0, <1>1, <2>0, <3>1, <3>2, <3>4, SlotKept
  <2>4. CASE ReleaseNotified(s)
    <3>1. pc(s) = "rel_notified"
      BY <2>4 DEF ReleaseNotified
    <3>2. OthersKept(s) /\ pc(s)' \in {"enq_load", "idle"}
      BY <1>0, <2>4, GotoCall, ReturnCall DEF ReleaseNotified
    <3>3. ASSUME Waking(s, i), wake_state[i] = "NOTIFIED"
          PROVE  Waking(s, i)'
      <4>1. at(s) = i /\ Goto(s, "enq_load")
        BY <2>4, <3>3 DEF ReleaseNotified, Waking
      <4>2. at(s)' = i /\ pc(s)' = "enq_load"
        BY <1>0, <4>1, GotoCall
      <4> QED BY <4>2 DEF Waking
    <3> QED BY <1>0, <1>1, <2>0, <3>1, <3>2, <3>3, SlotKept
  <2> QED BY <2>1, <2>2, <2>3, <2>4
<1> QED BY <1>0, <1>1, <1>2 DEF SlotsWake, WakeShape

\* The steps under a lease that set the wake state.
LEMMA LeaseStepWake ==
    ASSUME WakeInv, NEW s \in Schedulers,
           \/ Activate(s) \/ DrainAcknowledge(s)
           \/ ParkCas(s) \/ ParkNotify(s) \/ ParkCommit(s)
    PROVE  SlotsWake' /\ WakeShape'
<1>0. s \in Threads /\ OwnInv /\ SlotsWake /\ WakeShape
  BY DEF Threads, WakeInv, MailInv
<1>1. /\ UNCHANGED <<generation, ticket, word, queue>>
      /\ pc(s) \in {"activate", "drain_ack", "park_cas", "park_notify", "park_commit"}
  BY DEF Activate, DrainAcknowledge, ParkCas, ParkNotify, ParkCommit,
         directoryVars, heldVars
<1>2. pc(s) \in LeaseLabels /\ at(s) \in Slots
  BY <1>0, <1>1, LeaseAlone DEF LeaseLabels
<1>3. /\ WakeShape'
      /\ \A i \in Slots : i # at(s) => wake_state'[i] = wake_state[i]
      /\ wake_state'[at(s)] = "PARKED" =>
            \/ wake_state[at(s)] = "PARKING" /\ pc(s) = "park_commit"
            \/ UNCHANGED wake_state
  BY <1>0, <1>2
  DEF WakeShape, WakeStates, Activate, DrainAcknowledge, ParkCas, ParkNotify,
      ParkCommit
<1>4. /\ OthersKept(s) /\ at(s)' \in {at(s), NoSlot}
      /\ pc(s)' \in {"idle", "park_check", "rel_load"}
      /\ pc(s)' = "rel_load" /\ call'[s].next = "Parked" =>
            wake_state'[at(s)] \in Resting
  <2>1. CASE Activate(s) \/ DrainAcknowledge(s)
    BY <1>0, <2>1, ReturnCall DEF Activate, DrainAcknowledge
  <2>2. CASE ParkCas(s) \/ ParkNotify(s)
    BY <1>0, <2>2, GotoCall, RefusedCall DEF ParkCas, ParkNotify
  <2>3. CASE ParkCommit(s) /\ wake_state[at(s)] # "PARKING"
    BY <1>0, <2>3, RefusedCall DEF ParkCommit
  <2>4. CASE ParkCommit(s) /\ wake_state[at(s)] = "PARKING"
    <3>1. /\ Goto(s, "rel_load")
          /\ wake_state' = [wake_state EXCEPT ![at(s)] = "PARKED"]
      BY <2>4 DEF ParkCommit
    <3>2. wake_state'[at(s)] = "PARKED"
      BY <1>0, <1>2, <3>1 DEF WakeShape
    <3> QED BY <1>0, <3>1, <3>2, GotoCall DEF Resting
  <2> QED BY <2>1, <2>2, <2>3, <2>4
<1>5. ASSUME NEW i \in Slots PROVE SlotWake(i)'
  <2>0. SlotWake(i) /\ ~Waking(s, i)
    BY <1>0, <1>1 DEF SlotsWake, Waking
  <2>1. CASE i # at(s)
    <3>1. at(s)' # i
      BY <1>4, <2>1, SlotAssumption
    <3> QED BY <1>0, <1>1, <1>3, <1>4, <2>0, <2>1, <3>1, SlotKept
  <2>2. CASE i = at(s) /\ wake_state' # wake_state
    BY <1>0, <1>1, <1>2, <1>3, <1>4, <2>0, <2>2, LeaseWake
  <2>3. CASE i = at(s) /\ wake_state' = wake_state
    BY <1>0, <1>1, <1>4, <2>0, <2>3, SlotKept
  <2> QED BY <2>1, <2>2, <2>3
<1> QED BY <1>3, <1>5 DEF SlotsWake

\* What is left of the invariant while nobody is inside a call.
QuietSlot(i) ==
    /\ wake_state[i] = "PARKED" => queue[i] = <<>>
    /\ RestSettled(i) /\ TicketSettled(i)
    /\ ~(word[i].lifecycle = "Parked" /\ wake_state[i] = "NOTIFIED")

\* Without readers, a slot's invariant is exactly its quiet part.
LEMMA QuietSlots ==
    ASSUME NoReaders, NEW i \in Slots
    PROVE  SlotWake(i) <=> QuietSlot(i)
<1>1. /\ \A p \in Producers : pc(p) = "idle"
      /\ \A s \in Schedulers : pc(s) = "idle"
      /\ \A t \in Threads : pc(t) = "idle"
  BY DEF NoReaders, Threads
<1>2. ~SeenEmpty(i) /\ ReleaseSettled(i) /\ \A t \in Threads : ~Waking(t, i)
  BY <1>1 DEF SeenEmpty, ReleaseSettled, Waking
<1>3. MailAnnounced(i) <=> (wake_state[i] = "PARKED" => queue[i] = <<>>)
  BY <1>1, <1>2 DEF MailAnnounced
<1>4. NotifiedIsWoken(i) <=> ~(word[i].lifecycle = "Parked" /\ wake_state[i] = "NOTIFIED")
  BY <1>2 DEF NotifiedIsWoken
<1> QED BY <1>2, <1>3, <1>4 DEF SlotWake, QuietSlot

\* The operations under the write lock: a parked actor migrates with its wake
\* state, and comes back parked only if nobody published meanwhile.
LEMMA ControlWake ==
    ASSUME MaxRegistrations <= GenerationMask, WakeInv, Control
    PROVE  SlotsWake' /\ WakeShape'
<1>0. /\ OwnInv /\ SlotsWake /\ WakeShape /\ TicketInv /\ TicketsSingle
      /\ word \in [Slots -> Word] /\ ticket \in [Schedulers -> Ticket \cup {NoTicket}]
  BY DEF WakeInv, TicketInv, OwnInv, Shape
<1>1. NoReaders /\ UNCHANGED call
  BY DEF Control, Register, Reclaim, Discard, Remove, BeginMigration,
         CompleteMigration, Shutdown
<1>2. NoReaders'
  BY <1>1 DEF NoReaders, pc
<1>3. \A i \in Slots : QuietSlot(i)
  BY <1>0, <1>1, QuietSlots DEF SlotsWake
<1>4. ASSUME \A i \in Slots : QuietSlot(i)'
      PROVE  SlotsWake'
  <2> SUFFICES ASSUME NEW i \in Slots PROVE SlotWake(i)'
    BY DEF SlotsWake
  <2>1. /\ \A p \in Producers : pc(p)' = "idle"
        /\ \A s \in Schedulers : pc(s)' = "idle"
    BY <1>2 DEF NoReaders, Threads
  <2>2. ~SeenEmpty(i)' /\ ReleaseSettled(i)'
    BY <2>1 DEF SeenEmpty, ReleaseSettled
  <2>3. MailAnnounced(i)' /\ NotifiedIsWoken(i)'
    BY <1>4, <2>2 DEF QuietSlot, MailAnnounced, NotifiedIsWoken
  <2> QED BY <1>4, <2>2, <2>3 DEF SlotWake, QuietSlot
<1>5. ASSUME NEW pid \in Pids, NEW s \in Schedulers, Register(pid, s)
      PROVE  SlotsWake' /\ WakeShape'
  <2>1. PICK i \in Slots :
           /\ \A r \in Schedulers : ticket[r] # NoTicket /\ ticket[r].slot = i
                                      => ~Current(ticket[r])'
           /\ \A j \in Slots : j # i => /\ generation'[j] = generation[j]
                                        /\ word'[j] = word[j]
           /\ word'[i].lifecycle = "Queued" /\ FreshMailbox({i})
    BY <1>0, <1>5, RegisterTickets
  <2>2. UNCHANGED ticket
    BY <1>5 DEF Register, heldVars
  <2>3. /\ wake_state'[i] = "ACTIVE" /\ queue'[i] = <<>>
        /\ \A j \in Slots : j # i => /\ wake_state'[j] = wake_state[j]
                                     /\ queue'[j] = queue[j]
        /\ WakeShape'
    BY <1>0, <2>1 DEF FreshMailbox, WakeShape, WakeStates
  <2>4. QuietSlot(i)'
    BY <2>1, <2>3 DEF QuietSlot, RestSettled, TicketSettled
  <2>5. ASSUME NEW j \in Slots, j # i PROVE QuietSlot(j)'
    <3>1. /\ wake_state'[j] = wake_state[j] /\ queue'[j] = queue[j]
          /\ word'[j] = word[j] /\ generation'[j] = generation[j]
      BY <2>1, <2>3, <2>5
    <3>2. TicketSettled(j)'
      BY <1>3, <2>2, <3>1 DEF QuietSlot, TicketSettled, Current
    <3> QED BY <1>3, <3>1, <3>2 DEF QuietSlot, RestSettled
  <2> QED BY <1>4, <2>3, <2>4, <2>5
<1>6. ASSUME NEW s \in Schedulers, NEW d \in Schedulers, NEW pid \in Pids,
             BeginMigration(s, pid, d)
      PROVE  SlotsWake' /\ WakeShape'
  <2>1. PICK i \in Slots : i = actor_slots[pid]
    BY <1>0, <1>6 DEF BeginMigration, Resolves, OwnInv, Shape
  <2>2. PICK k : k = [pid |-> pid, slot |-> i, actorGen |-> generation[i],
                      ownerGen |-> word[i].ownerGen, source |-> route[i],
                      destination |-> d, lifecycle |-> word[i].lifecycle,
                      born |-> born[i]]
    OBVIOUS
  <2>3. /\ MayTransition(word[i], Transferable)
        /\ word' = [word EXCEPT ![i] = Unowned(@, "Migrating")]
        /\ ticket' = [ticket EXCEPT ![s] = k]
        /\ UNCHANGED <<generation, wake_state, queue>>
    BY <1>6, <2>1, <2>2 DEF BeginMigration, directoryVars, mailboxVars
  <2>4. /\ k.slot = i /\ k.lifecycle = word[i].lifecycle
        /\ ticket'[s] = k /\ \A r \in Schedulers : r # s => ticket'[r] = ticket[r]
        /\ word'[i].lifecycle = "Migrating"
        /\ \A j \in Slots : j # i => word'[j] = word[j]
    BY <1>0, <2>2, <2>3 DEF Unowned, PackState
  <2>5. TicketSettled(i)'
    <3> SUFFICES ASSUME NEW r \in Schedulers, ticket'[r] # NoTicket,
                        ticket'[r].slot = i, Current(ticket[r])',
                        ticket'[r].lifecycle = "Parked"
                 PROVE  wake_state[i] \in Resting
      BY <2>3 DEF TicketSettled
    <3>1. CASE r = s
      BY <3>1, <1>3, <2>4 DEF QuietSlot, RestSettled
    <3>2. CASE r # s
      <4>1. ticket[r] # NoTicket /\ ticket[r].slot = i /\ Current(ticket[r])
        BY <3>2, <2>3, <2>4 DEF Current
      <4> QED BY <4>1, <1>0, <2>3
              DEF TicketsSingle, MayTransition, Transferable, Withheld
    <3> QED BY <3>1, <3>2
  <2>6. QuietSlot(i)'
    BY <1>3, <2>3, <2>4, <2>5 DEF QuietSlot, RestSettled
  <2>7. ASSUME NEW j \in Slots, j # i PROVE QuietSlot(j)'
    <3>1. TicketSettled(j)'
      <4> SUFFICES ASSUME NEW r \in Schedulers, ticket'[r] # NoTicket,
                          ticket'[r].slot = j, Current(ticket[r])',
                          word'[j].lifecycle = "Migrating",
                          ticket'[r].lifecycle = "Parked"
                   PROVE  wake_state[j] \in Resting
        BY <2>3 DEF TicketSettled
      <4>1. r # s /\ ticket'[r] = ticket[r] /\ Current(ticket[r])
        BY <2>3, <2>4, <2>7 DEF Current
      <4> QED BY <4>1, <1>3, <2>4, <2>7 DEF QuietSlot, TicketSettled
    <3> QED BY <3>1, <1>3, <2>3, <2>4, <2>7 DEF QuietSlot, RestSettled
  <2> QED BY <1>0, <1>4, <2>3, <2>6, <2>7 DEF WakeShape
<1>7. ASSUME NEW s \in Schedulers, CompleteMigration(s)
      PROVE  SlotsWake' /\ WakeShape'
  <2>1. /\ UNCHANGED <<generation, wake_state, queue>>
        /\ ticket' = [ticket EXCEPT ![s] = NoTicket] /\ ticket[s] # NoTicket
    BY <1>7 DEF CompleteMigration, mailboxVars
  <2>2. ASSUME NEW r \in Schedulers, ticket'[r] # NoTicket
        PROVE  ticket'[r] = ticket[r] /\ (Current(ticket[r])' <=> Current(ticket[r]))
    BY <1>0, <2>1, <2>2 DEF Current
  <2>3. ASSUME NEW j \in Slots, word'[j] = word[j] PROVE QuietSlot(j)'
    <3>1. TicketSettled(j)'
      BY <1>3, <2>1, <2>2, <2>3 DEF QuietSlot, TicketSettled
    <3> QED BY <3>1, <1>3, <2>1, <2>3 DEF QuietSlot, RestSettled
  <2>4. CASE ~TicketValid(ticket[s])
    BY <1>0, <1>4, <1>7, <2>1, <2>3, <2>4 DEF CompleteMigration, WakeShape
  <2>5. CASE TicketValid(ticket[s])
    <3>1. PICK i \in Slots : i = ticket[s].slot
      BY <1>0, <2>1, TicketFields
    <3>2. word' = [word EXCEPT ![i] = Unowned(@, RestoredLifecycle(ticket[s]))]
      BY <1>7, <2>5, <3>1 DEF CompleteMigration
    <3>3. /\ word'[i].lifecycle = RestoredLifecycle(ticket[s])
          /\ \A j \in Slots : j # i => word'[j] = word[j]
      BY <1>0, <3>2 DEF Unowned, PackState
    <3>4. Current(ticket[s]) /\ word[i].lifecycle = "Migrating"
      BY <2>5, <3>1 DEF TicketValid, Current, MayTransition
    <3>5. RestoredLifecycle(ticket[s]) = "Parked" =>
             wake_state[i] # "NOTIFIED" /\ wake_state[i] \in Resting
      BY <1>3, <2>1, <3>1, <3>4 DEF RestoredLifecycle, QuietSlot, TicketSettled
    <3>6. RestoredLifecycle(ticket[s]) # "Migrating"
      BY DEF RestoredLifecycle
    <3>7. QuietSlot(i)'
      <4>1. /\ wake_state'[i] = "PARKED" => queue'[i] = <<>>
        BY <1>3, <2>1 DEF QuietSlot
      <4>2. RestSettled(i)' /\ TicketSettled(i)'
        BY <2>1, <3>3, <3>5, <3>6 DEF RestSettled, TicketSettled
      <4>3. ~(word'[i].lifecycle = "Parked" /\ wake_state'[i] = "NOTIFIED")
        BY <2>1, <3>3, <3>5
      <4> QED BY <4>1, <4>2, <4>3 DEF QuietSlot
    <3> QED BY <1>0, <1>4, <2>1, <2>3, <3>3, <3>7 DEF WakeShape
  <2> QED BY <2>4, <2>5
<1>8. CASE (\E pid \in Pids : Reclaim(pid) \/ Discard(pid)) \/ Shutdown
  <2>1. PICK Gone \in SUBSET Slots : Remove(Gone)
    BY <1>0, <1>8, RemovalSteps
  <2>2. /\ UNCHANGED <<generation, ticket>> /\ FreshMailbox(Gone)
        /\ word' = [i \in Slots |-> IF i \in Gone THEN Unowned(word[i], "Reclaimed")
                                                   ELSE word[i]]
    BY <2>1 DEF Remove, heldVars
  <2>3. WakeShape'
    BY <1>0, <2>2 DEF FreshMailbox, WakeShape, WakeStates
  <2>4. ASSUME NEW i \in Slots PROVE QuietSlot(i)'
    <3>1. CASE i \in Gone
      <4>1. /\ word'[i].lifecycle = "Reclaimed" /\ wake_state'[i] = "ACTIVE"
        BY <2>2, <3>1 DEF FreshMailbox, Unowned, PackState
      <4> QED BY <4>1 DEF QuietSlot, RestSettled, TicketSettled
    <3>2. CASE i \notin Gone
      <4>1. /\ word'[i] = word[i] /\ wake_state'[i] = wake_state[i]
            /\ queue'[i] = queue[i]
        BY <2>2, <3>2 DEF FreshMailbox
      <4> QED BY <1>3, <2>2, <4>1 DEF QuietSlot, RestSettled, TicketSettled, Current
    <3> QED BY <3>1, <3>2
  <2> QED BY <1>4, <2>3, <2>4
<1> QED BY <1>5, <1>6, <1>7, <1>8 DEF Control

\* Every step keeps the wake invariant.
LEMMA NextWake ==
    ASSUME MaxRegistrations <= GenerationMask, WakeInv, [Next]_vars
    PROVE  SlotsWake' /\ WakeShape'
<1>1. CASE UNCHANGED vars
  <2>1. \A i \in Slots : SlotWake(i)' <=> SlotWake(i)
    BY <1>1
    DEF vars, SlotWake, MailAnnounced, SeenEmpty, ReleaseSettled, RestSettled,
        TicketSettled, NotifiedIsWoken, Waking, Current, pc, at
  <2> QED BY <1>1, <2>1 DEF vars, WakeInv, SlotsWake, WakeShape
<1>2. CASE StartCall
  BY <1>2, PublishWake, QuietWake, ReleaseWake DEF StartCall
<1>3. ASSUME NEW t \in Threads, Continue(t)
      PROVE  SlotsWake' /\ WakeShape'
  BY <1>3, PublishWake, QuietWake, ReleaseWake, LeaseStepWake, CasWake, EnqueueLoadWake
  DEF Continue, EnqueueStep, AcquireStep, DrainStep, ReleaseStep, RequeueStep
<1> QED BY <1>1, <1>2, <1>3, ControlWake DEF Next

\* The wake invariant holds of every reachable state.
THEOREM WakeInvariance ==
    ASSUME MaxRegistrations <= GenerationMask
    PROVE  Spec => []WakeInv
<1>1. Init => SlotsWake /\ WakeShape
  <2> SUFFICES ASSUME Init PROVE SlotsWake /\ WakeShape
    OBVIOUS
  <2>1. WakeShape
    BY DEF Init, WakeShape, WakeStates
  <2>2. NoReaders
    BY DEF Init, NoReaders, pc, Idle
  <2>3. ASSUME NEW i \in Slots PROVE QuietSlot(i)
    BY DEF Init, QuietSlot, RestSettled, TicketSettled, NoWord, PackState
  <2> QED BY <2>1, <2>2, <2>3, QuietSlots DEF SlotsWake
<1>2. WakeInv /\ [Next]_vars => SlotsWake' /\ WakeShape'
  BY NextWake
<1> QED BY <1>1, <1>2, MailInvariance, TicketInvariance, PTL DEF Spec, WakeInv

\* MC-C05, for any number of threads, slots and messages: prepare_park, publish
\* and enqueue_notified_parked never leave an actor parked with mail in its
\* mailbox and nobody about to wake it, migrations of parked actors included.
THEOREM WakeupsNotLost ==
    ASSUME MaxRegistrations <= GenerationMask
    PROVE  Spec => []NoLostWakeup
  BY WakeEnough, WakeInvariance, PTL

=============================================================================
