----------------------- MODULE FixedSchedulerControl -----------------------
(***************************************************************************)
(* The shard-global control plane shared by every fixed scheduler thread   *)
(* (fixed_scheduler_control.rs) over the actor directory                   *)
(* (actor_directory.rs) and its actor-local mailboxes                      *)
(* (actor_directory/mailbox.rs).                                           *)
(*                                                                         *)
(* Registration, migration and reclamation run under the write half of the *)
(* directory's RwLock and are single actions.  Publication, acquisition,   *)
(* draining, release and requeueing run under the read half, so any number *)
(* of them interleave: each is a sequence of actions, one per atomic       *)
(* access to the state word, the mailbox queue, its admission counter or   *)
(* its wake state, with a program counter per thread.  A thread holds the  *)
(* read lock exactly while its program counter is not "idle".              *)
(*                                                                         *)
(* A rejected call changes nothing and is not an action, except where the  *)
(* rejection is only discovered after a first step.                        *)
(*                                                                         *)
(* Memory is taken to be sequentially consistent.  That is an assumption   *)
(* on the build: a release exchanges the state word and then loads the     *)
(* wake word, a publication swaps the wake word and then loads the state   *)
(* word, and release/acquire alone would let both loads be stale.          *)
(***************************************************************************)
EXTENDS ActorDirectory

CONSTANTS
    Producers,          \* threads that publish into actor mailboxes
    Slots,              \* directory slots; one per registered actor at a time
    Capacity,           \* ACTOR_MAILBOX_CAPACITY: 1024 in the code
    NoSlot, NoLease, NoTicket,   \* the None of an index, lease or ticket
    MaxPublish,         \* bound: publications attempted by one producer
    MaxRegistrations,   \* bound: calls of register
    MaxAcquisitions     \* bound: leases granted over one behaviour

ASSUME CapacityAssumption == Capacity \in Nat /\ Capacity >= 1
ASSUME ThreadAssumption   == Producers \cap Schedulers = {}
ASSUME BoundAssumption    == /\ MaxPublish \in Nat
                             /\ MaxRegistrations \in Nat
                             /\ MaxAcquisitions \in Nat

Threads == Producers \cup Schedulers

ASSUME SlotAssumption == NoSlot \notin Slots

VARIABLES
    actor_slots,   \* directory.actor_slots: the slot of each registered pid
    generation,    \* VmActorSlot.generation
    word,          \* VmActorCell.state, the packed atomic
    route,         \* VmActorCell.value, the scheduler the actor belongs to
    queue,         \* mailbox.queue, fragments in push order
    admitted,      \* mailbox.admitted
    next_sequence, \* mailbox.next_sequence
    wake_state,    \* mailbox.wake_state
    call,          \* the control call each thread is executing
    lease,         \* execution lease held by each scheduler
    ticket,        \* migration ticket held by each scheduler
    sent,          \* publications begun by each producer
    registered,    \* calls of register so far; names incarnations
    acquired,      \* leases granted so far
    born,          \* incarnation occupying each slot
    delivered      \* fragments drained from each slot's incarnation

directoryVars == <<actor_slots, generation, route, registered, born>>
mailboxVars   == <<queue, admitted, next_sequence, wake_state>>
heldVars      == <<lease, ticket>>
countVars     == <<sent, acquired>>
vars == <<actor_slots, generation, word, route, queue, admitted, next_sequence,
          wake_state, call, lease, ticket, sent, registered, acquired, born,
          delivered>>

-----------------------------------------------------------------------------
(* State shapes *)

Fragment == [from : Producers, n : 1 .. MaxPublish, seq : Nat]

\* VmActorMutatorToken of an acquired lease.
Token == [pid : Pids, slot : Slots, actorGen : Generations,
          ownerGen : Generations, owner : Schedulers]

\* VmFixedActorMigrationTicket; `born` is the incarnation it was issued for.
Ticket == [pid : Pids, slot : Slots, actorGen : Generations,
           ownerGen : Generations, source : Schedulers,
           destination : Schedulers, lifecycle : Lifecycles, born : Nat]

Labels == {"idle", "admit", "sequence", "push", "swap",
           "enq_load", "enq_cas", "acq_cas", "activate",
           "drain_pop", "drain_dec", "drain_empty", "drain_ack",
           "park_cas", "park_check", "park_notify", "park_commit",
           "rel_load", "rel_cas", "rel_notified",
           "requeue_load", "requeue_cas"}

ASSUME HeldAssumption == NoLease \notin Token /\ NoTicket \notin Ticket

NoWord == PackState("Reclaimed", 0, 0, NoOwner)

\* A call in progress: its next atomic access, the slot it resolved, the word
\* it loaded, the boundary a release asked for, the sequence it reserved.
Call == [pc : Labels, slot : Slots \cup {NoSlot}, before : Word,
         next : Releasable, seq : Nat]

Idle == [pc |-> "idle", slot |-> NoSlot, before |-> NoWord,
         next |-> "Yielding", seq |-> 0]

Init ==
    /\ actor_slots = [p \in Pids |-> NoSlot]
    /\ generation = [i \in Slots |-> 0]
    /\ word = [i \in Slots |-> NoWord]
    /\ route = [i \in Slots |-> NoOwner]
    /\ queue = [i \in Slots |-> <<>>]
    /\ admitted = [i \in Slots |-> 0]
    /\ next_sequence = [i \in Slots |-> 0]
    /\ wake_state = [i \in Slots |-> "ACTIVE"]
    /\ call = [t \in Threads |-> Idle]
    /\ lease = [s \in Schedulers |-> NoLease]
    /\ ticket = [s \in Schedulers |-> NoTicket]
    /\ sent = [p \in Producers |-> 0]
    /\ registered = 0
    /\ acquired = 0
    /\ born = [i \in Slots |-> 0]
    /\ delivered = [i \in Slots |-> <<>>]

-----------------------------------------------------------------------------
(* The RwLock and the steps of a call *)

pc(t) == call[t].pc
at(t) == call[t].slot

Begin(t, label, slot) ==
    call' = [call EXCEPT ![t] = [Idle EXCEPT !.pc = label, !.slot = slot]]

Goto(t, label) == call' = [call EXCEPT ![t].pc = label]

Return(t) == call' = [call EXCEPT ![t] = Idle]

\* write_directory: the writer waits until no reader is inside the lock.
NoReaders == \A t \in Threads : pc(t) = "idle"

\* cell(pid): the slot the index resolves, for pids that have one.
Resolves(pid) == actor_slots[pid] # NoSlot

\* Every word the atomic holds is compared whole: compare_exchange.
CompareExchange(t, after) ==
    word' = IF word[at(t)] = call[t].before
            THEN [word EXCEPT ![at(t)] = after]
            ELSE word

-----------------------------------------------------------------------------
(* publish_identified, publish_fragment and mailbox.publish *)

\* The read lock is taken, the route validated and the lifecycle loaded.
PublishStart(p) ==
    /\ pc(p) = "idle"
    /\ sent[p] < MaxPublish
    /\ \E pid \in Pids :
          /\ Resolves(pid)
          /\ word[actor_slots[pid]].lifecycle \notin Terminal
          /\ Begin(p, "admit", actor_slots[pid])
    /\ sent' = [sent EXCEPT ![p] = @ + 1]
    /\ UNCHANGED <<directoryVars, word, mailboxVars, heldVars, acquired,
                   delivered>>

\* Admission reserves one place, or the call ends in MailboxFull.
PublishAdmit(p) ==
    /\ pc(p) = "admit"
    /\ IF admitted[at(p)] < Capacity
       THEN /\ admitted' = [admitted EXCEPT ![at(p)] = @ + 1]
            /\ Goto(p, "sequence")
       ELSE /\ Return(p)
            /\ UNCHANGED admitted
    /\ UNCHANGED <<directoryVars, word, queue, next_sequence, wake_state,
                   heldVars, countVars, delivered>>

PublishSequence(p) ==
    /\ pc(p) = "sequence"
    /\ next_sequence' = [next_sequence EXCEPT ![at(p)] = @ + 1]
    /\ call' = [call EXCEPT ![p].pc = "push",
                            ![p].seq = next_sequence[at(p)] + 1]
    /\ UNCHANGED <<directoryVars, word, queue, admitted, wake_state, heldVars,
                   countVars, delivered>>

\* Mutant: the fragment goes in at the consumer's end of the queue.
PublishPushFront(p) ==
    /\ pc(p) = "push"
    /\ queue' = [queue EXCEPT ![at(p)] =
                   <<[from |-> p, n |-> sent[p], seq |-> call[p].seq]>> \o @]
    /\ Goto(p, "swap")
    /\ UNCHANGED <<directoryVars, word, admitted, next_sequence, wake_state,
                   heldVars, countVars, delivered>>

\* The bounded queue refuses the push when it is full; the reservation is
\* then returned and the call ends in MailboxFull.
PublishPush(p) ==
    /\ pc(p) = "push"
    /\ IF Len(queue[at(p)]) < Capacity
       THEN /\ queue' = [queue EXCEPT ![at(p)] = Append(@,
                            [from |-> p, n |-> sent[p], seq |-> call[p].seq])]
            /\ Goto(p, "swap")
            /\ UNCHANGED admitted
       ELSE /\ admitted' = [admitted EXCEPT ![at(p)] = @ - 1]
            /\ Return(p)
            /\ UNCHANGED queue
    /\ UNCHANGED <<directoryVars, word, next_sequence, wake_state, heldVars,
                   countVars, delivered>>

\* Only the producer that swaps PARKED out goes on to enqueue the actor.
PublishSwap(p) ==
    /\ pc(p) = "swap"
    /\ wake_state' = [wake_state EXCEPT ![at(p)] = "NOTIFIED"]
    /\ IF WakeOf(wake_state[at(p)]) = "Enqueue"
       THEN Goto(p, "enq_load")
       ELSE Return(p)
    /\ UNCHANGED <<directoryVars, word, queue, admitted, next_sequence,
                   heldVars, countVars, delivered>>

-----------------------------------------------------------------------------
(* enqueue_notified_parked, called by producers and by releasing schedulers *)

\* Mutant: the actor is queued whatever lifecycle and owner it has.
EnqueueLoadUnchecked(t) ==
    /\ pc(t) = "enq_load"
    /\ call' = [call EXCEPT ![t].pc = "enq_cas", ![t].before = word[at(t)]]
    /\ UNCHANGED <<directoryVars, word, mailboxVars, heldVars, countVars,
                   delivered>>

EnqueueLoad(t) ==
    /\ pc(t) = "enq_load"
    /\ IF MayTransition(word[at(t)], {"Parked"})
       THEN call' = [call EXCEPT ![t].pc = "enq_cas", ![t].before = word[at(t)]]
       ELSE Return(t)
    /\ UNCHANGED <<directoryVars, word, mailboxVars, heldVars, countVars,
                   delivered>>

EnqueueCas(t) ==
    /\ pc(t) = "enq_cas"
    /\ CompareExchange(t, Unowned(call[t].before, "Queued"))
    /\ Return(t)
    /\ UNCHANGED <<directoryVars, mailboxVars, heldVars, countVars, delivered>>

-----------------------------------------------------------------------------
(* acquire: acquire_mutator, then activate_mailbox *)

AcquireStart(s) ==
    /\ pc(s) = "idle"
    /\ lease[s] = NoLease
    /\ acquired < MaxAcquisitions
    /\ \E pid \in Pids :
          /\ Resolves(pid)
          /\ route[actor_slots[pid]] = s
          /\ MayAcquire(word[actor_slots[pid]])
          /\ call' = [call EXCEPT ![s] =
                 [Idle EXCEPT !.pc = "acq_cas", !.slot = actor_slots[pid],
                              !.before = word[actor_slots[pid]]]]
    /\ UNCHANGED <<directoryVars, word, mailboxVars, heldVars, countVars,
                   delivered>>

AcquireCas(s) ==
    /\ pc(s) = "acq_cas"
    /\ CompareExchange(s, Owned(call[s].before, s))
    /\ IF word[at(s)] = call[s].before
       THEN /\ \E pid \in Pids :
                 /\ actor_slots[pid] = at(s)
                 /\ lease' = [lease EXCEPT ![s] =
                      [pid |-> pid, slot |-> at(s), owner |-> s,
                       actorGen |-> call[s].before.actorGen,
                       ownerGen |-> NextGeneration(call[s].before.ownerGen)]]
            /\ acquired' = acquired + 1
            /\ Goto(s, "activate")
       ELSE /\ Return(s)
            /\ UNCHANGED <<lease, acquired>>
    /\ UNCHANGED <<directoryVars, mailboxVars, ticket, sent, delivered>>

Activate(s) ==
    /\ pc(s) = "activate"
    /\ wake_state' = [wake_state EXCEPT ![at(s)] = "ACTIVE"]
    /\ Return(s)
    /\ UNCHANGED <<directoryVars, word, queue, admitted, next_sequence,
                   heldVars, countVars, delivered>>

-----------------------------------------------------------------------------
(* drain_identified: drain_payloads and mailbox.drain *)

\* cell_for_handle and validate_token accept the lease.
LeaseValid(s) ==
    /\ lease[s] # NoLease
    /\ actor_slots[lease[s].pid] = lease[s].slot
    /\ generation[lease[s].slot] = lease[s].actorGen
    /\ route[lease[s].slot] = s
    /\ TokenMatches(word[lease[s].slot], lease[s])

DrainStart(s) ==
    /\ pc(s) = "idle"
    /\ LeaseValid(s)
    /\ Begin(s, "drain_pop", lease[s].slot)
    /\ UNCHANGED <<directoryVars, word, mailboxVars, heldVars, countVars,
                   delivered>>

\* Mutant: the popped fragment is dropped before it is handed over.
DrainPopDropped(s) ==
    /\ pc(s) = "drain_pop"
    /\ IF queue[at(s)] # <<>>
       THEN /\ queue' = [queue EXCEPT ![at(s)] = Tail(@)]
            /\ Goto(s, "drain_dec")
       ELSE /\ Goto(s, "drain_empty")
            /\ UNCHANGED queue
    /\ UNCHANGED <<directoryVars, word, admitted, next_sequence, wake_state,
                   heldVars, countVars, delivered>>

DrainPop(s) ==
    /\ pc(s) = "drain_pop"
    /\ IF queue[at(s)] # <<>>
       THEN /\ queue' = [queue EXCEPT ![at(s)] = Tail(@)]
            /\ delivered' = [delivered EXCEPT ![at(s)] =
                               Append(@, Head(queue[at(s)]))]
            /\ Goto(s, "drain_dec")
       ELSE /\ Goto(s, "drain_empty")
            /\ UNCHANGED <<queue, delivered>>
    /\ UNCHANGED <<directoryVars, word, admitted, next_sequence, wake_state,
                   heldVars, countVars>>

\* Mutant: the drained fragment's place is never given back.
DrainDecrementForgotten(s) ==
    /\ pc(s) = "drain_dec"
    /\ Goto(s, "drain_pop")
    /\ UNCHANGED <<directoryVars, word, mailboxVars, heldVars, countVars,
                   delivered>>

DrainDecrement(s) ==
    /\ pc(s) = "drain_dec"
    /\ admitted' = [admitted EXCEPT ![at(s)] = @ - 1]
    /\ Goto(s, "drain_pop")
    /\ UNCHANGED <<directoryVars, word, queue, next_sequence, wake_state,
                   heldVars, countVars, delivered>>

\* The queue is looked at again before the notification is acknowledged.
DrainEmpty(s) ==
    /\ pc(s) = "drain_empty"
    /\ IF queue[at(s)] = <<>> THEN Goto(s, "drain_ack") ELSE Return(s)
    /\ UNCHANGED <<directoryVars, word, mailboxVars, heldVars, countVars,
                   delivered>>

DrainAcknowledge(s) ==
    /\ pc(s) = "drain_ack"
    /\ wake_state' = IF wake_state[at(s)] = "NOTIFIED"
                     THEN [wake_state EXCEPT ![at(s)] = "ACTIVE"]
                     ELSE wake_state
    /\ Return(s)
    /\ UNCHANGED <<directoryVars, word, queue, admitted, next_sequence,
                   heldVars, countVars, delivered>>

-----------------------------------------------------------------------------
(* release: release_mutator and mailbox.prepare_park *)

ReleaseStart(s) ==
    /\ pc(s) = "idle"
    /\ LeaseValid(s)
    /\ \E boundary \in Releasable :
          call' = [call EXCEPT ![s] =
             [Idle EXCEPT !.pc = IF boundary = "Parked" THEN "park_cas"
                                                        ELSE "rel_load",
                          !.slot = lease[s].slot, !.next = boundary]]
    /\ UNCHANGED <<directoryVars, word, mailboxVars, heldVars, countVars,
                   delivered>>

\* A park attempt that is refused falls back to Yielding.
ParkRefused(s) ==
    call' = [call EXCEPT ![s].pc = "rel_load", ![s].next = "Yielding"]

ParkCas(s) ==
    /\ pc(s) = "park_cas"
    /\ IF wake_state[at(s)] = "ACTIVE"
       THEN /\ wake_state' = [wake_state EXCEPT ![at(s)] = "PARKING"]
            /\ Goto(s, "park_check")
       ELSE /\ ParkRefused(s)
            /\ UNCHANGED wake_state
    /\ UNCHANGED <<directoryVars, word, queue, admitted, next_sequence,
                   heldVars, countVars, delivered>>

ParkCheck(s) ==
    /\ pc(s) = "park_check"
    /\ Goto(s, IF queue[at(s)] # <<>> THEN "park_notify" ELSE "park_commit")
    /\ UNCHANGED <<directoryVars, word, mailboxVars, heldVars, countVars,
                   delivered>>

ParkNotify(s) ==
    /\ pc(s) = "park_notify"
    /\ wake_state' = [wake_state EXCEPT ![at(s)] = "NOTIFIED"]
    /\ ParkRefused(s)
    /\ UNCHANGED <<directoryVars, word, queue, admitted, next_sequence,
                   heldVars, countVars, delivered>>

ParkCommit(s) ==
    /\ pc(s) = "park_commit"
    /\ IF wake_state[at(s)] = "PARKING"
       THEN /\ wake_state' = [wake_state EXCEPT ![at(s)] = "PARKED"]
            /\ Goto(s, "rel_load")
       ELSE /\ ParkRefused(s)
            /\ UNCHANGED wake_state
    /\ UNCHANGED <<directoryVars, word, queue, admitted, next_sequence,
                   heldVars, countVars, delivered>>

ReleaseLoad(s) ==
    /\ pc(s) = "rel_load"
    /\ call' = [call EXCEPT ![s].pc = "rel_cas", ![s].before = word[at(s)]]
    /\ UNCHANGED <<directoryVars, word, mailboxVars, heldVars, countVars,
                   delivered>>

\* The lease is consumed whether or not the compare-exchange succeeds; an
\* unsuccessful one ends the call in StaleMutator.
ReleaseCas(s) ==
    /\ pc(s) = "rel_cas"
    /\ CompareExchange(s, Unowned(call[s].before, call[s].next))
    /\ IF word[at(s)] = call[s].before /\ call[s].next = "Parked"
       THEN Goto(s, "rel_notified")
       ELSE Return(s)
    /\ lease' = [lease EXCEPT ![s] = NoLease]
    /\ UNCHANGED <<directoryVars, mailboxVars, ticket, countVars, delivered>>

\* is_notified: a publication that raced the park makes the releaser enqueue.
ReleaseNotified(s) ==
    /\ pc(s) = "rel_notified"
    /\ IF wake_state[at(s)] = "NOTIFIED" THEN Goto(s, "enq_load") ELSE Return(s)
    /\ UNCHANGED <<directoryVars, word, mailboxVars, heldVars, countVars,
                   delivered>>

-----------------------------------------------------------------------------
(* requeue_yielded: mark_queued and transition_unowned *)

RequeueStart(s) ==
    /\ pc(s) = "idle"
    /\ \E pid \in Pids :
          /\ Resolves(pid)
          /\ route[actor_slots[pid]] = s
          /\ word[actor_slots[pid]].lifecycle # "Queued"
          /\ Begin(s, "requeue_load", actor_slots[pid])
    /\ UNCHANGED <<directoryVars, word, mailboxVars, heldVars, countVars,
                   delivered>>

RequeueLoad(s) ==
    /\ pc(s) = "requeue_load"
    /\ IF MayTransition(word[at(s)], {"Yielding", "Parked"})
       THEN call' = [call EXCEPT ![s].pc = "requeue_cas",
                                 ![s].before = word[at(s)]]
       ELSE Return(s)
    /\ UNCHANGED <<directoryVars, word, mailboxVars, heldVars, countVars,
                   delivered>>

RequeueCas(s) ==
    /\ pc(s) = "requeue_cas"
    /\ CompareExchange(s, Unowned(call[s].before, "Queued"))
    /\ Return(s)
    /\ UNCHANGED <<directoryVars, mailboxVars, heldVars, countVars, delivered>>

-----------------------------------------------------------------------------
(* register: insert, then mark_queued *)

Occupied(i) == \E pid \in Pids : actor_slots[pid] = i

\* free_slots.pop(), or a new slot when no freed one is left.  Which freed
\* slot is on top of the stack is left open.
MayAllocate(i) ==
    /\ ~Occupied(i)
    /\ generation[i] = 0 => \A j \in Slots : generation[j] # 0 => Occupied(j)

\* The mailbox of a new cell, and what is left of a dropped one.
FreshMailbox(Touched) ==
    /\ queue' = [i \in Slots |-> IF i \in Touched THEN <<>> ELSE queue[i]]
    /\ admitted' = [i \in Slots |-> IF i \in Touched THEN 0 ELSE admitted[i]]
    /\ next_sequence' = [i \in Slots |->
                            IF i \in Touched THEN 0 ELSE next_sequence[i]]
    /\ wake_state' = [i \in Slots |->
                         IF i \in Touched THEN "ACTIVE" ELSE wake_state[i]]
    /\ delivered' = [i \in Slots |->
                        IF i \in Touched THEN <<>> ELSE delivered[i]]

Register(pid, s) ==
    /\ NoReaders
    /\ registered < MaxRegistrations
    /\ ~Resolves(pid)
    /\ \E i \in Slots :
          /\ MayAllocate(i)
          /\ generation' = [generation EXCEPT ![i] = NextGeneration(@)]
          /\ actor_slots' = [actor_slots EXCEPT ![pid] = i]
          /\ route' = [route EXCEPT ![i] = s]
          /\ word' = [word EXCEPT ![i] =
                         Unowned(NewWord(NextGeneration(generation[i])), "Queued")]
          /\ born' = [born EXCEPT ![i] = registered + 1]
          /\ FreshMailbox({i})
    /\ registered' = registered + 1
    /\ UNCHANGED <<call, heldVars, countVars>>

-----------------------------------------------------------------------------
(* begin_migration and complete_migration *)

\* Mutant: a migration starts whoever owns the actor.
BeginMigrationOwned(s, pid, destination) ==
    LET i == actor_slots[pid] IN
    /\ NoReaders
    /\ ticket[s] = NoTicket
    /\ Resolves(pid)
    /\ destination # route[i]
    /\ word' = [word EXCEPT ![i] = Unowned(@, "Migrating")]
    /\ ticket' = [ticket EXCEPT ![s] =
          [pid |-> pid, slot |-> i, actorGen |-> generation[i],
           ownerGen |-> word[i].ownerGen, source |-> route[i],
           destination |-> destination, lifecycle |-> word[i].lifecycle,
           born |-> born[i]]]
    /\ UNCHANGED <<directoryVars, mailboxVars, call, lease, countVars,
                   delivered>>

BeginMigration(s, pid, destination) ==
    LET i == actor_slots[pid] IN
    /\ NoReaders
    /\ ticket[s] = NoTicket
    /\ Resolves(pid)
    /\ destination # route[i]
    /\ MayTransition(word[i], Transferable)
    /\ word' = [word EXCEPT ![i] = Unowned(@, "Migrating")]
    /\ ticket' = [ticket EXCEPT ![s] =
          [pid |-> pid, slot |-> i, actorGen |-> generation[i],
           ownerGen |-> word[i].ownerGen, source |-> route[i],
           destination |-> destination, lifecycle |-> word[i].lifecycle,
           born |-> born[i]]]
    /\ UNCHANGED <<directoryVars, mailboxVars, call, lease, countVars,
                   delivered>>

\* Mutant: the actor generation of the ticket is not compared.
TicketValidAnyGeneration(k) ==
    /\ actor_slots[k.pid] = k.slot
    /\ route[k.slot] = k.source
    /\ MayTransition(word[k.slot], {"Migrating"})
    /\ word[k.slot].ownerGen = k.ownerGen

\* validate_migration_ticket
TicketValid(k) ==
    /\ actor_slots[k.pid] = k.slot
    /\ route[k.slot] = k.source
    /\ MayTransition(word[k.slot], {"Migrating"})
    /\ generation[k.slot] = k.actorGen
    /\ word[k.slot].ownerGen = k.ownerGen

\* Mutant: a parked actor is parked again without a look at its mailbox.
RestoredLifecycleBlind(k) == IF k.lifecycle = "Parked" THEN "Parked" ELSE "Queued"

\* finish_migration_as: a runnable actor is queued again; a parked one stays
\* parked unless a publication arrived meanwhile.
RestoredLifecycle(k) ==
    IF k.lifecycle = "Parked" /\ wake_state[k.slot] # "NOTIFIED"
    THEN "Parked"
    ELSE "Queued"

\* The ticket is consumed whether it is accepted or rejected as stale.
CompleteMigration(s) ==
    LET k == ticket[s] IN
    /\ NoReaders
    /\ k # NoTicket
    /\ IF TicketValid(k)
       THEN /\ word' = [word EXCEPT ![k.slot] = Unowned(@, RestoredLifecycle(k))]
            /\ route' = [route EXCEPT ![k.slot] = k.destination]
       ELSE UNCHANGED <<word, route>>
    /\ ticket' = [ticket EXCEPT ![s] = NoTicket]
    /\ UNCHANGED <<actor_slots, generation, registered, born, mailboxVars, call,
                   lease, countVars, delivered>>

-----------------------------------------------------------------------------
(* reclaim, discard and shutdown *)

\* mark_retired and reclaim: the cell is taken out of its slot and dropped
\* with whatever its mailbox still holds; the slot is free again.
Remove(Gone) ==
    /\ actor_slots' = [p \in Pids |->
                          IF actor_slots[p] \in Gone THEN NoSlot
                                                      ELSE actor_slots[p]]
    /\ word' = [i \in Slots |-> IF i \in Gone THEN Unowned(word[i], "Reclaimed")
                                              ELSE word[i]]
    /\ route' = [i \in Slots |-> IF i \in Gone THEN NoOwner ELSE route[i]]
    /\ FreshMailbox(Gone)
    /\ UNCHANGED <<generation, registered, born, call, heldVars, countVars>>

Reclaim(pid) ==
    /\ NoReaders
    /\ Resolves(pid)
    /\ MayTransition(word[actor_slots[pid]], {"Exiting"})
    /\ Remove({actor_slots[pid]})

Discard(pid) ==
    /\ NoReaders
    /\ Resolves(pid)
    /\ MayTransition(word[actor_slots[pid]],
                     Transferable \cup {"Migrating", "Exiting"})
    /\ Remove({actor_slots[pid]})

\* Mutant: shutdown without its preflight pass.
ShutdownUnchecked ==
    /\ NoReaders
    /\ \E i \in Slots : Occupied(i)
    /\ Remove({i \in Slots : Occupied(i)})

\* The preflight refuses to start while any actor executes; the pass then
\* removes every actor.
Shutdown ==
    LET live == {i \in Slots : Occupied(i)} IN
    /\ NoReaders
    /\ live # {}
    /\ \A i \in live : word[i].lifecycle # "Executing"
    /\ Remove(live)

-----------------------------------------------------------------------------
ProducerStep(p) ==
    \/ PublishAdmit(p) \/ PublishSequence(p) \/ PublishPush(p)
    \/ PublishSwap(p)

AcquireStep(s) == AcquireCas(s) \/ Activate(s)

DrainStep(s) == DrainPop(s) \/ DrainDecrement(s) \/ DrainEmpty(s)
                \/ DrainAcknowledge(s)

ReleaseStep(s) ==
    \/ ParkCas(s) \/ ParkCheck(s) \/ ParkNotify(s) \/ ParkCommit(s)
    \/ ReleaseLoad(s) \/ ReleaseCas(s) \/ ReleaseNotified(s)

RequeueStep(s) == RequeueLoad(s) \/ RequeueCas(s)

EnqueueStep(t) == EnqueueLoad(t) \/ EnqueueCas(t)

\* A thread goes on with the call it is inside.
Continue(t) ==
    \/ EnqueueStep(t)
    \/ t \in Producers /\ ProducerStep(t)
    \/ t \in Schedulers /\ (AcquireStep(t) \/ DrainStep(t) \/ ReleaseStep(t)
                             \/ RequeueStep(t))

StartCall ==
    \/ \E p \in Producers : PublishStart(p)
    \/ \E s \in Schedulers : AcquireStart(s) \/ DrainStart(s)
                              \/ ReleaseStart(s) \/ RequeueStart(s)

Control ==
    \/ \E pid \in Pids, s \in Schedulers : Register(pid, s)
    \/ \E pid \in Pids : Reclaim(pid) \/ Discard(pid)
    \/ \E s, d \in Schedulers, pid \in Pids : BeginMigration(s, pid, d)
    \/ \E s \in Schedulers : CompleteMigration(s)
    \/ Shutdown

Next == StartCall \/ (\E t \in Threads : Continue(t)) \/ Control

Spec == Init /\ [][Next]_vars

\* The operating system keeps running a thread that is inside a call: no call
\* blocks once it holds the read lock.
FairSpec == Spec /\ \A t \in Threads : WF_vars(Continue(t))

-----------------------------------------------------------------------------
(* Properties *)

TypeOK ==
    /\ actor_slots \in [Pids -> Slots \cup {NoSlot}]
    /\ generation \in [Slots -> Generations]
    /\ word \in [Slots -> Word]
    /\ route \in [Slots -> Schedulers \cup {NoOwner}]
    /\ queue \in [Slots -> Seq(Fragment)]
    /\ admitted \in [Slots -> Nat]
    /\ next_sequence \in [Slots -> Nat]
    /\ wake_state \in [Slots -> WakeStates]
    /\ call \in [Threads -> Call]
    /\ lease \in [Schedulers -> Token \cup {NoLease}]
    /\ ticket \in [Schedulers -> Ticket \cup {NoTicket}]
    /\ sent \in [Producers -> 0 .. MaxPublish]
    /\ registered \in Nat
    /\ acquired \in Nat
    /\ born \in [Slots -> Nat]
    /\ delivered \in [Slots -> Seq(Fragment)]

\* MC-C02: acquisition is exclusive, and nothing that runs beside a lease
\* (a publication, a requeue, a migration, a reclamation, the reuse of the
\* slot) makes it stale before its holder releases it.  An owned word names
\* the one scheduler that holds a lease for it.
ExclusiveMutator ==
    /\ \A s \in Schedulers : lease[s] # NoLease => LeaseValid(s)
    /\ \A i \in Slots : word[i].owner # NoOwner =>
          /\ word[i].lifecycle = "Executing"
          /\ lease[word[i].owner] # NoLease
          /\ lease[word[i].owner].slot = i

\* MC-C05: an actor never rests in Parked with mail in its mailbox.  As long
\* as it is there, some thread inside a call is still going to look: a
\* producer that has pushed and not yet swapped the wake state or queued the
\* actor, or the releaser that has yet to see the notification.
NoLostWakeup ==
    \A i \in Slots :
       word[i].lifecycle = "Parked" /\ queue[i] # <<>> =>
          \E t \in Threads :
             /\ at(t) = i
             /\ pc(t) \in {"swap", "enq_load", "enq_cas", "rel_notified"}

\* The compare-exchange of a release never fails: a scheduler that executed
\* an actor can always give it back, so no word stays owned for ever.
ReleaseNeverStale ==
    \A s \in Schedulers : pc(s) = "rel_cas" => word[at(s)] = call[s].before

\* Calls that hold a place in the mailbox without a fragment in the queue:
\* admitted and not yet pushed, or popped and not yet subtracted.
InFlight(i) ==
    {t \in Threads : at(t) = i /\ pc(t) \in {"sequence", "push", "drain_dec"}}

\* Backpressure is exact: the admission counter is the queue's length plus
\* the places in flight, so it never drifts, the queue never outgrows its
\* bound, and a push that was admitted is never refused.
AdmissionExact ==
    \A i \in Slots :
       /\ admitted[i] = Len(queue[i]) + Cardinality(InFlight(i))
       /\ admitted[i] <= Capacity
       /\ \A p \in Producers :
             pc(p) = "push" /\ at(p) = i => Len(queue[i]) < Capacity

\* MC-C10: what one producer published is drained in its publication order,
\* each fragment at most once, whatever the other producers do.
ProducerOrder ==
    \A i \in Slots :
       LET stream == delivered[i] \o queue[i] IN
       \A j, k \in 1 .. Len(stream) :
          j < k /\ stream[j].from = stream[k].from => stream[j].n < stream[k].n

\* MC-C02: a migration ticket that still validates was issued for the actor
\* that occupies the slot now, never for an earlier occupant of the slot.
TicketNamesOccupant ==
    \A s \in Schedulers :
       ticket[s] # NoTicket /\ TicketValid(ticket[s]) =>
          ticket[s].born = born[ticket[s].slot]

\* MC-C06: a cell is dropped only when no call is inside the directory and no
\* lease names it, and the actor's slot index never dangles.
ReclaimQuiet ==
    [][\A pid \in Pids :
         Resolves(pid) /\ actor_slots'[pid] # actor_slots[pid] =>
            /\ NoReaders
            /\ \A s \in Schedulers :
                  lease[s] # NoLease => lease[s].slot # actor_slots[pid]]_vars

=============================================================================
