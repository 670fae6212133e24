# Verification of the Terlan VM

Terlan is a language with a compiler (`terlc`) and a virtual machine written in
Rust.  Ahead-of-time compiled images run inside *execution shards*; each shard
is owned by one fixed scheduler thread, and the schedulers share one control
plane that knows where every actor lives, who may run it and what mail it has.
This directory models the concurrent and recoverable core of that machine in
TLA+, checks it with TLC and proves part of it with TLAPS.

## Inventory

Paths are relative to `src/crates/terlan/src/`.

| Part | State it keeps | Operations | Interacts with | Hard behaviour |
|---|---|---|---|---|
| Actor directory (`runtime/vm/actor_directory.rs`, `actor_directory/state.rs`) | slots with generations, one packed atomic word per actor (lifecycle, actor and owner generation, owner) | insert, acquire, release, requeue, migrate, retire, reclaim | control plane; mailbox of the cell | lock-free transitions; stale tokens; reuse of slots |
| Actor mailbox (`actor_directory/mailbox.rs`) | bounded queue, admission counter, sequence, wake state | publish, drain, prepare_park, activate | producers on any thread, one consumer | lost wakeups, drift of the counter, order |
| Fixed scheduler control (`fixed_scheduler_control.rs`) | the directory behind a `RwLock`, leases, migration tickets | register, publish, acquire, drain, release, requeue, migrate, reclaim, discard, shutdown | every scheduler thread | readers interleave; tickets outlive the lock |
| Epoch fence (`execution_shard_epoch.rs`) | ledger of operation identities | advance, begin, commit, retire | shard supervisor | replay after a crash, duplicates |
| Shard supervisor (`execution_shard_supervisor.rs`, `restart_backoff.rs`) | phase, epoch, fence, owner-local slot, signals, restart budget | negotiate, admit, ready, drain, replace, crash, restart, stop | shard owner | crash and restart, late completions, limits |
| Execution shard (`pure_native/execution_shard.rs` and sub-modules) | actors of one image, waits, timers, transfers, operation sequence | call, resume, capability, timer, service, detach, import, replace, crash, recover | supervisor, timer table, callers that keep waits | results applied after their generation is gone; unloading under live work |
| Shard owner threads (`commands/serve/handler_cache/shard_owner*`) | command channel, run queues, timer and capability queues, routes | owner loop, steal, import, cancel | control plane, shard, workers | several steps that fail and roll back; reservations |
| Handler cache (`commands/serve/handler_cache.rs`, `invocation.rs`) | generations, reservations per shard | route, begin, rebalance | shard owners | stale routes after a steal |
| Work stealing (`runtime/vm/work_stealing.rs`) | aging and backoff per scheduler | decide, record result | shard owners | starvation |
| Local actor runtime (`actor*.rs`, `process*.rs`, `scheduler.rs`, `timer.rs`) | process table, run queues, links, monitors, timers | spawn, send, receive, exit, cancel | shard | order of exit effects |
| Failure layer and resident actors (`runtime/vm/failure.rs`, `actor_exit.rs`, `pure_native/execution.rs`) | links, monitors, mail, leases, parked suspensions | spawn, send, receive, link, monitor, cancel, exit, capability, call | shard, capability workers | activations nested on each other's stacks; exits that run through links |
| Source supervision (`supervision.rs`, `supervision/backoff.rs`, `supervision/source.rs`) | children, processes, restart and shutdown timers, restart window | start, stop, exit, restart, drive, fire | shard, timer table | groups restarted halfway; timers that outlive what they were set for |
| Persistent children (`persistent_actor_store/store.rs`, `supervision/source/persistence.rs`) | one file of snapshots and events per binding | checkpoint, append_event, restore | the disk | process death and power failure between two steps |
| Capability workers (`capability_worker*`, `native_worker/protocol/execution.rs`) | parked callers, correlations, credits, queues, late resources | submit, poll, cancel, dispose, shut down | scheduler owner, sandboxed process | replies that race cancellations; a worker lost with work in every queue |
| Code server, distribution, node discovery, protocols | module versions, sessions, connections | - | - | not modelled |
| Compiler, command line, language server, storage, build cache, process owner | - | - | - | sequential, I/O or tooling; not modelled |

What makes the modelled parts correct: at most one scheduler mutates an actor
and no lease goes stale under it; a published message is never lost, reordered
or stuck behind a parked actor; an effect admitted at most once happens at most
once whatever crashes; a completion reaches only the continuation that waited
for it; an image is never unloaded under work that was accepted; a request that
waits is owed exactly one answer wherever its actor was moved to; an exit takes
down what is linked and nothing else; a stopped child stays down; what a child
has stored survives a power failure once the directory of its file was
synchronised.

## Modules

**`ActorDirectory`** is the data: lifecycles, the packed word as a record,
generations that wrap past zero, and the mailbox wake states, with the pure
operators the directory's methods are built from.

**`FixedSchedulerControl`** is the state machine over that data.  Methods under
the write lock (`register`, migration, reclamation, shutdown) are single
actions guarded by `NoReaders`.  Methods under the read lock are split into one
action per atomic access, with a program counter per thread in `call`: a
publication is admit, sequence, push, swap and possibly the enqueue of the
parked actor; a release is the three steps of `prepare_park`, the load and the
compare-exchange of the word, and the second look at the wake state.  A thread
holds the read lock exactly while its program counter is not `"idle"`.  Memory
is sequentially consistent, which is an assumption on the build and not a fact of
the source: see *Memory order*.
`born` and `delivered` are history variables.

**`ExecutionShardEpoch`** and **`ExecutionShardSupervisor`** are the fence and
the supervisor.  The supervisor is used through exclusive references, so every
method is one action; its rejections change nothing and are not actions.  The
environment crashes the shard at any moment, presents any operation at any time
and completes it at any later one.  `effects` counts how often each identity was
admitted to execute and in which epoch last; `done` collects the committed ones.
Identities in `InternalIds` are generated by the owner once each
(`allocate_sequence`); all others may be presented again by callers.

**`ExecutionShard`** extends the supervisor with the shard's own tables and
replaces its next-state relation: a method of the shard takes all supervisor
steps it makes together (`BeginCall` is begin, generated code, commit and
progress).  Where an actor stands is its last boundary (`actors[a].at`);
`"Orphan"` marks an actor that is alive while its caller was told of an error.
Waits are kept by callers (workers and the owner's timer queue) across crashes
and replacements.  Process identities start over with a generation, as
`VmActorRuntime::default()` does, and `serial` tells incarnations apart.
Test-only entry points of the code that complete its lifecycle
(`restart_when_due`, `recover_components`, `force_terminate`) are modelled like
the others; production code never leaves `RestartBackoff` by itself.

**`HandlerShards`** is one generation of the HTTP server's handlers: owner
threads with their inboxes and queues, requests that enter, wait, resume, cancel
and are dropped, and the steal that a waiting request drives.  One command, one
slice, one due timer or one completed capability of an owner is one action; a
request's thread takes a step between two accesses to what it shares.  A steal
is a route change, a detach, a reservation move, an import, and the two
rollbacks, each a step that may fail.  `Faults` says which shard's thread may
panic or be shut down, which shard's publications telemetry may fail to record
and which cannot spawn the helper thread of a drop.  Two histories serve the
properties: `booked` is the shard charged for a request, which moves with a steal
and is cleared when the charge is given back there, and `undrained` are the
actors whose drop lost its Drain.  The directory is reduced to lifecycle and
scheduler: `FixedSchedulerControl` has the words beneath.

**`RunnableQueues`** over **`ServiceCycle`** is the owner's queue per scheduling
class with its 3:2:1 cycle, while entries are pushed, served and stolen at any
time.

**`ResidentActors`** over **`ActorFailures`** is the inside of one call: a root
actor and spawned actors that run nested on one stack, in the activation of
whoever spawned, sent to or answered them.  `ActorFailures` has links, monitors
and the depth-first exit as operators on one record.  The exit is the list of
processes still to visit and a function from steps to what is left (`Cascade`),
read after as many steps as there are ends of links; the peers of an actor are
visited in ascending order by their ranks.  Generated code is external: a
slice may complete, trap or suspend on any transition of the actor's role.
Nothing outside the tests traps exits, so links kill or do nothing.

**`SourceSupervision`** is the supervision of the children a program declares,
on one shard's thread.  An operation ends in a drive, whose phases are `mode`:
all exits, all terminations, one start, and again.  Restarts wait as timers.
Queues that the code filters are sequences picked by rank from the positions
that stay (`Picked`), which says the same as a recursive filter and can be
reasoned about.

**`PersistentChildStore`** is the file of a supervised child: an operation opens
and replays it, changes its copy, and the commit is write, synchronise, rename,
synchronise the directory, with a fault possible at each.  A repeated append and
a restore are answered from the file as it is read.  `syncsDirectory` is false
where the code skips the directory: a path of one component, or a platform other
than Unix.  `durable` is what a power failure leaves unless the rename has
reached the disk by itself (`Reached`).  `told` is what commits that synchronised
the directory have stored; `answered` are the events that any answer since the
last power failure spoke of, those of repeated appends and restores included.

**`CapabilityWorker`** is one worker slot from the owner's pump and client over
the transport threads to the reader, coordinator and executor in the sandboxed
process, with its credit, cancellations, late replies, disposals and shutdown.
The end of the coordinator (`ended`), of its reader (`reading`) and of the process
(`exited`) are three events: `run` joins the reader, which is blocked on the
standard input until a frame or its end arrives.  A reply above the payload limit
is lost after its credit was released (`unsent` remembers it) and closes the
worker; a call above it ends the writer thread with the process alive.  A
production pool has one slot, which is never filled again.

**`ActorMail`** says what the control plane promises with none of its words,
generations, tickets and wake states: actors that run on one scheduler at a
time, sleep, move and end, with bounded mailboxes that only the running actor
takes from.  **`MailRefinement`** maps `FixedSchedulerControl` to it: an actor's
state is its word's lifecycle while the directory holds its cell.

`*Proofs` modules hold the theorems.  `MC*` modules give TLC its sets and
symmetries.  Definitions whose comment begins with *Mutant* are deliberate
errors: each property is shown to fail when one of them takes the place of the
definition it follows.

### Memory order

The park and wake handshake orders accesses to two words of one actor.  A release
exchanges the state word (success ordering `Release`, `actor_directory.rs:598`)
and then loads the wake word (`Acquire`, `actor_directory/mailbox.rs:134`); a
publication swaps the wake word (`AcqRel`, `mailbox.rs:81`) and then loads the
state word (`Acquire`, `actor_directory.rs:849`).  That is store buffering: the
language's memory model allows both loads to miss the other thread's write, and
the actor would then stay parked with mail.  The model excludes it.  On x86-64
the exchange and the swap are locked instructions and full barriers, so the build
does too; on AArch64 it depends on the instructions chosen, because a release
store is kept before a later `LDAR` but not before a later `LDAPR`, and an
`Acquire` load may be compiled to either.  `NoLostWakeup`, `ImplementsMailSpec`
and their proofs rest on this assumption.  The other properties of the control
plane follow from the order of accesses to a single word, from tokens and from
the lock.

## Runs

| Run | Instance | Shows |
|---|---|---|
| `control_wake` | 2 producers x 2 publications, 1 scheduler, 3 leases, capacity 2, fair threads | `AdmissionExact`, `ProducerOrder` and `ReleaseNeverStale` at every interleaving; implements `ActorMail` with its wakes (`ImplementsMailSpec`) |
| `control_migrate` | 2 schedulers, 2 slots, 2 pids, 1 producer, 2 registrations, 2 leases | `ExclusiveMutator`, `NoLostWakeup`, `TicketNamesOccupant` and `ReclaimQuiet` across migration and slot reuse; every step is one of `ActorMail` (`ImplementsMail`) |
| `shard_epochs` | 2 identities (1 owner-local), 3 replay policies, 3 generations, budget 2 | `TypeOK`, `AtMostOnceEffect`, `CommittedFinal`, `CommitInEpoch`, `ExpectsHold`, `RestartBounded` |
| `shard_owner` | 2 actors, 7 operations, 2 generations, 1 restart | `ContinuationExact`, `AcceptedWorkKept`, `TransferPinsGeneration`, `TimersOwned`, `FreshAdmission` |
| `shard_capability_overlap` | 2 actors, 4 operations | violated: see *Findings* |
| `shard_timer_tie` | 2 actors, 1 delay | violated: see *Findings* |
| `handler_steal` | 2 owners, 2 requests of 3 and 1 slices, inbox 2, queues 1; one owner may panic and fail to spawn a helper, the other be shut down and fail to record a publication | `OwedOnce`, `ServedWhereRouted`, `ReservationsExact`, `DrainOnItsWay`; `BeginReturns` |
| `queue_cycle` | 4 entries of the three classes | `ClassServed` |
| `resident_calls` | a root and 2 spawned actors with a role each, 1 message, 1 monitor, traps | `LeaseExact`, `DownExact`, `CascadeExact`, `DeadIsSilent` |
| `source_exits` | 2 permanent children, rest-for-one, backoff of one, shutdown timeout of the other, intensity 2 in 2 ticks | `OneLiveProcess`, `IntensityBounded`, `StoppedStaysDown`; `StopCompletes` |
| `store_faults` | 2 children in one file, 2 schemas, 2 payloads, 2 sequences, 3 records, every fault, with and without a directory | `NeverTorn`, `ToldIsKept`, `OneEventPerSequence` |
| `capability_calls` | 3 calls, credit 2, request limit 3, a crash, a resource per result | `LateHandlesHeld`, `AnsweredOnce`; `CallsSettle` |

Bounds.  Two producers are enough to have one push while another has swapped
the wake state; capacity 1 and 2 make `MailboxFull` happen; three leases let an
actor be parked, woken and parked again.  In `control_migrate` a slot is freed
and taken again by another actor while a ticket is held.  `MaxEpoch = 4` gives
three generations, so an operation may be prepared in one, replayed in the next
and completed late in the third; a maximal delay of twice the initial one makes
the cap bite.  In `shard_owner` seven operations suffice for two actors to wait,
one of them to be overtaken, and a wait to survive a recovery.  In
`handler_steal` the actor of three slices is stolen, refused, sent back and
stolen again while queues of one entry are full.  In `resident_calls` each actor
has the transitions of a role (one links and is cancelled, one monitors, one
calls a capability), so that a kill reaches an actor below the killer on the
stack.  In `source_exits` a third restart in the window meets a limit of two;
deadlines set before the last tick may still be reached.  In `store_faults` two
generations and two sequence numbers let a checkpoint follow an event and a
failed append be tried again with the same or other contents, and the limit of
three records is reached.  In `capability_calls` the
third call finds the request limit, and one place in the pipe makes every queue
fill.  The code's own limits (`2^20` generations, 1024 messages, `u64`
sequences, 64 MiB of file) are constants; the proofs hold for every value of
them.  Deadlock is checked where a behaviour never has to stop
(`source_exits`, `store_faults`); elsewhere a model stops when its bounds are
spent, a shard that is stopped or quarantined really stops, and a finished call
has no step left.

Fairness.  In the control plane: weak fairness of `Continue(t)` only, a thread
inside a call keeps running.  No call blocks while it holds the read lock, so
the operating system's scheduler is all that is needed; no scheduler is assumed
to pick an actor up.  In `HandlerShards`: owner threads and the threads of
requests inside an operation keep running, a waiting request goes on with the
steal it drives, and a timer or worker event that is due again and again is
delivered.  In `SourceSupervision`: a drive that began goes on, the owner keeps
driving, and the clock ticks whenever it may again and again, an assumption on
the program: the VM clock moves when some actor waits.  In `CapabilityWorker`:
transport and worker threads run, adapter calls return, the owner polls only
while it retains a caller, and a shutdown that began runs to its end.  Nothing
makes the owner send a frame, so `CallsSettle` excepts a worker that is silent
(`Silent`): its coordinator has ended and its reader waits for input.

## Findings

*Overtaken capability completion* (`shard_capability_overlap`).
`commit_epoch_operation` commits the record and then publishes the operation's
identity as progress.  Identities are allocated when the wait begins, progress
must grow, and operations of two actors complete in any order: the overtaken one
is committed, its progress refused with `NonMonotonicSignal`, its record never
retired, and its caller is given an error while the actor, already advanced by
generated code, stays alive and keeps the generation from becoming quiescent.

*Two timers at one tick* (`shard_timer_tie`).  A tick fires every timer that is
due, but `complete_delivered_native_timer` accepts only an event of its own
tick.  A second wait with the same deadline finds its timer already gone, ends
in an error and leaves its continuation parked for ever.

Observations made while modelling, which no run of this project states:

- handler owners: a failed call releases its reservation at the shard it entered
  by, also after a steal (`invocation.rs:397`; a failed resumption at the shard
  it resumed from, `invocation.rs:255`).  That shard is then charged for
  one request too few, or, when it is charged for none, underflows: a debug build
  panics with "actor route reservation underflow" (`handler_cache.rs:364-367`,
  `571-572`), a release build wraps.  The thief stays charged for good;
  `ReservationsExact` accounts for exactly these;
- handler owners: a drop loses its Drain when telemetry does not record the
  publication (`shard_owner.rs:478-484`) or the helper thread cannot be spawned
  (`489-493`), and no failure is latched: the actor stays awake in the directory
  and parked at its owner, although the comment at `shard_owner.rs:487` says that
  the helper preserves cleanup; `DrainOnItsWay` excepts exactly these;
- handler owners: resources opened before a steal
  stay recorded at the old owner (`migration.rs:90`); at shutdown `cancel_all`
  acquires actors that may be parked, which `acquire` refuses
  (`capability_dispatch.rs:401`); an actor refused by the destination of a steal
  and then by its source is gone (`handler_cache.rs:477`); the reply sender of a
  cancellation survives a panic of the owner in the shared mailbox
  (`shard_owner.rs:906`);
- source supervision: a group restart that meets a sibling in backoff is refused
  after the group was marked, a dead process may be reaped before its timer
  fires, and a queued start may find its process gone;
- persistent children: a repeated append (`store.rs:322-326`, answered like a new
  one by `persistence.rs:130-132`) or a restore after a failed directory
  synchronisation is answered from a file that is not durable yet; with a path of
  one component (`store.rs:506-511`) or on a platform other than Unix the
  directory is never synchronised, and a power failure may undo a commit the
  child was told of.  `ToldIsKept` therefore promises durability only to commits
  that synchronised the directory.  Children of
  two shards on one file overwrite each other's temporary file; a checkpoint
  taken below an event's sequence leaves a file the loader refuses;
- capability workers: a worker that closes by its request limit, an oversized
  reply or another error ends its coordinator, but its process waits for the
  reader, which is blocked on the standard input (`execution.rs:197-222`): it
  neither replies nor exits, and a parked caller waits until another frame is
  sent or the pool is shut down (`Silent`);
- capability workers: a reply above the payload limit is lost after its request
  left the active set (`execution.rs:650-663`); its caller waits for the end of
  the worker, and its resources are held until then;
- capability workers: a cancelled request leaves the client's credit before the
  worker lets go of it (`parked.rs:166`); a disposal that waits for credit is
  scheduled only by a late reply or another disposal's; a cancellation that the
  full queue refuses drops the resources of the reply;
- resident actors: a sender that traps in the slice after its send does not
  drive the recipient (`execution.rs:484`); a loop back to the same continuation
  is taken for a block (`execution.rs:789`); an actor killed through a link
  keeps heap and helper resources; the answer for an exited actor ends the call
  that polled it; a failed answer for a spawned actor ends the call and leaves
  its root alive;
- execution shard: the record of an applied timer tick is never retired.

## Proofs

Eight modules hold the theorems.  Each is listed with the inductive invariant it
needs and why.

`ExecutionShardProofs` begins with the supervisor and proves, for every set of
operations and kinds, every restart policy and every bound, that `Spec` implies

- `TypeCorrect`, `ExpectsNeverPanic`, `SlotCurrent`: the invariants `TypeOK`,
  `ExpectsHold` and `InternalSlotCurrent`;
- `AtMostOnce`: the invariant `AtMostOnceEffect`;
- `CommittedIsFinal`, `ReexecutionsAdvance`, `CommitsInEpoch`: the action
  properties `CommittedFinal`, `ReexecutionAdvances` and `CommitInEpoch`;
- `RestartsAreBounded`: the invariant `RestartBounded`.

None of the effect properties is inductive: whether an operation may execute is
decided by its record, so the record has to be tied to the history.  `IInv` adds
that an identity without executions is uncommitted (`Untouched`), that an
identity a caller may repeat is recorded or untouched (`Remembered`), that a
record agrees with the executions behind it and lies at or below the fence's
epoch (`LedgerFaithful`), and that the operation in the owner-local slot is in no
record (`SlotFaithful`).  Assumed are only the named assumptions of the
constants, of which the one that carries weight is that owner-local identities
are generated once (`Fresh`, from `allocate_sequence`).

`RestartsAreBounded` is about the delay schedule, a recursive function that
doubles and is capped.  `DoubledIsCapped` shows that it is the closed schedule
`Capped`, the lesser of the cap and the initial delay times a power of two: if it
were not there would be a least count at which they differ, and the rule for one
doubling (`CappedDoubles`) rules it out.  That the powers double is not built
into any prover; the module takes a power of two as the number of subsets of a
set and counts them (`SubsetsDouble`, `PowerDoubles`).  `BackoffInv` adds to
`RestartBounded` that a shard in backoff was counted at least once.

For the owner of a shard the module proves that `ShardSpec` implies, for any
number of actors, operations, timer delays and generations, with crashes,
recovery and replacement at any time,

- `FreshOperationsAdmitted`, `ContinuationsExact`, `TimersAreOwned` and
  `TransfersPinGeneration`: the invariants `FreshAdmission`,
  `ContinuationExact`, `TimersOwned` and `TransferPinsGeneration`;
- `AcceptedWorkIsKept`: the action property `AcceptedWorkKept`;
- `ShardTypeCorrect`: the invariant `ShardTypeOK`.

`ShardInv` ties the tables together.  A wait was issued under a spent identity
and not after the present generation (`WaitsIssued`); the actor that a wait of
this generation names is the incarnation that issued it, still parked there
(`WaitsParked`), and no actor has two such waits (`WaitsSingle`), because a call
begins only when the actor has none.  A completion that passes the epoch check
therefore finds its own continuation, although identities start over.  While
calls are accepted a timer belongs to a timer wait of this generation with the
same deadline (`TimersParked`), and no timer is behind the clock (`TimersAhead`).
The last part is what `TimerMissed` needs: the tick that misses its own timer
comes after another tick has fired it, so that the stranded actor leaves no timer
behind.  `ImageCurrent` says that the fence is in the epoch of the generation.
`ShardInv` was checked with TLC on the `shard_owner` instance before it was
proved.  The proofs assume that the first image was admitted below the largest
epoch (`AdmittedAssumption`), which is the guard of every admission.

`MailboxProofs` begins with ownership and proves, for any number of producers,
schedulers, slots and process identities and every interleaving of their atomic
accesses, that the control plane's specification implies

- `LeasesExclusive`: the invariant `ExclusiveMutator`;
- `ReleasesSucceed`: the invariant `ReleaseNeverStale`;
- `ReclamationQuiet`: the action property `ReclaimQuiet`.

`ExclusiveMutator` alone is not inductive, because what a compare-exchange may
do depends on what its thread loaded several steps before.  `OwnInv` adds what a
thread inside a call may rely on at each program counter (`CallOK`): its slot
stays occupied for as long as it holds the read lock, a word loaded by an
enqueue, a requeue or an acquisition had no owner, a draining or releasing
scheduler holds the lease of that very slot, and the word a release loaded is
still there.  It also adds that the cell behind the index carries the generation
of its slot and has a route (`Indexed`), from which a new lease is valid, and
that a lease names its holder (`LeasesNamed`).  The argument is then short: a
successful compare-exchange of an unowned word cannot concern a slot with a
lease (`WordStep`), only the holder of a lease reaches the release of its slot
(`ReleaseCasOwn`), and whatever takes the write lock finds every call idle and
touches only slots that no lease names (`NoLeaseAt`).  `OwnInv` was checked with
TLC on the `control_migrate` and `control_wake` instances before it was proved.
The assumptions are the named ones of the constants; no bound matters, and
generations may wrap.

`RunnableQueuesProofs` proves `TypeOK`, `PassedByPositions` and `ClassServed`
for every capacity, set of actors and assignment of classes.  `ClassServed` is
not inductive: a class may be passed over while the cursor comes near its
position.  `PassedByPositions` is the strengthening: a class with work was
passed over no more often than the cursor has moved since its last position.

About mail it proves, for any number of threads and slots and any capacity,

- `AdmissionIsExact`: the invariant `AdmissionExact`;
- `ProducersOrdered`: the invariant `ProducerOrder`.

Both start from `MailInv`: `OwnInv`, the types of the mailbox variables, and
that an empty slot has no mail (`Mailed`).  For admission `BoxInv` adds that the
counter is the queue's length plus the number of calls between their two updates
(`Admission`); the proof follows that number through each step with the
cardinality theorems for adding and removing one element, and a push that was
admitted is itself one of those calls, which gives it room.  For the order the
strengthening is that the stream of a slot, what was delivered followed by what
is queued, is sorted per producer *and* bounded by what the producer still holds
in its call (`StreamsInOrder`): a pop moves one fragment across the boundary and
leaves the stream as it is, a push appends a number that no fragment of that
producer has reached.

The module also proves `Refinement`, that the specification implies `ImplementsMail`:
every step of the control plane is a step of `ActorMail` or leaves it unchanged.
That uses `MailInv` and adds that no push exceeds the bound.

From the hypothesis `MaxRegistrations <= GenerationMask` the same module proves

- `TicketsNameOccupant`: the invariant `TicketNamesOccupant`;
- `WakeupsNotLost`: the invariant `NoLostWakeup`.

The hypothesis says that a slot's generation does not come round while a ticket
is outstanding: a ticket names its slot by generation alone, and generations
have 20 bits in the code, so that after 2^20 reuses of one slot an old ticket
would validate again.  `TicketInv` adds that a ticket's generation is not ahead of its
slot's and equals it only for the occupant it was issued for (`TicketsDated`),
and that a slot has at most one current ticket, whose actor is still migrating or
already reclaimed (`TicketsSingle`).  `NoLostWakeup` speaks of
the parked word alone; `WakeInv` follows the wake state through the calls.  It
says that once a mailbox was seen empty on the way to PARKED, whoever pushed
since has yet to swap the wake state (`MailAnnounced`), that a release into
Parked, a parked actor and the migration of a parked actor find the wake state
PARKED or NOTIFIED (`ReleaseSettled`, `RestSettled`, `TicketSettled`), and that a
notification of a parked actor is in the hands of a call that is going to queue
it (`NotifiedIsWoken`).  The tickets are needed there because completing a
migration puts the actor back into Parked without looking at the wake state.  Both inductive invariants
were checked with TLC on two instances before they were proved.

`PersistentChildStoreProofs` proves, for any number of children, schemas and
payloads, any number of operations and every set of faults,

- `StoreNeverTorn`: the invariant `NeverTorn`;
- `ToldStaysKept`: the invariant `ToldIsKept`;
- `SequencesAreSingle`: the invariant `OneEventPerSequence`.

`StoreInv` says that the file, what the disk keeps of it and every draft under
way is a sound content (`Sound`) that holds what synchronised commits have stored
(`Covers`), that the file and the drafts hold every event an answer spoke of
(`Recalls`), that at most one child is replacing the file, and how far it has come
(`Progress`): once the temporary file is synced it equals the draft, and once it
is renamed the file does.  That `rename` finds a synced temporary file is what
excludes a torn file.  A commit enters `told` only after its directory was
synced, which is what makes it durable; an answer enters `answered` from the
running machine's file, which only a power failure can set back.  The latest sequence number of a child is a
maximum over its events; that it bounds them is proved from the well-foundedness
of the naturals (`BoundedMax`).  The
proofs assume that the marker of a torn content is not itself a content
(`TornAssumption`).

`CapabilityWorkerProofs` proves, for any credit, pool slot, number of calls, set
of resources and life of the worker, with and without crashes,

- `LateHandlesStayHeld`: the invariant `LateHandlesHeld`;
- `CallersAnsweredOnce`: the action property `AnsweredOnce`.

`LateHandlesHeld` speaks of two threads and a process that share only queues, so
`CleanupInv` says where a request can be.  Ids are used in order and the
coordinator admits only ids it has not passed (`Numbered`); a request is
admitted, executed or replied to, in one place, and holds its credit until the
reply is written (`OnePlace`); a disposal that may still be executed is the one
in flight under its id (`Carried`).  From that follow the two facts the property
hangs on: a handle's call was executed and will not be again (`Dated`), so that a
handle which was disposed of cannot come back, and the reply to a disposal
carries no handles while the reply to a call carries only its own (`Answers`), so
that polling a reply forgets no other call's resources.  `Remembered` says that a
published cancellation stays in the client's late-cleanup set until its reply is
polled, and `Waits` ties the pump's retained callers to the client's correlation
and to what the callers were told; `CallersAnsweredOnce` needs only the latter.
A reply that could not be sent is the
exception in `LateHandlesHeld`; that it leaves a worker that closes is an
invariant of its own (`UnsentCloses`).
`CleanupInv` was checked with TLC on two instances before it was proved.  The
queue bounds play no part, except that a refused disposal frame loses the worker.

`HandlerShardsProofs` proves, for any number of owner threads, requests and
slices, any capacity of inboxes and queues and every set of faults,

- `AnswersAreOwedOnce`: the invariant `OwedOnce`;
- `OwnersServeWhatTheyHold`: the invariant `ServedWhereRouted`;
- `DrainsAreOnTheirWay`: the invariant `DrainOnItsWay`, which excepts the drops
  that lose their Drain by a fault;
- `ReservationsAreExact`: the invariant `ReservationsExact`;
- `HandlersTypeCorrect`: the type invariant `TypeOK`.

All rest on one invariant, `ServeInv`, because the first three need each other.  `OwedOnce` counts the things that owe a request its answer, and a
count says nothing of where they are; `AnswerOwed` says instead that a request
that waits has such a thing and that any two of them are the same (`Has` names
them by kind and place).  Where it is has to agree with the directory: a queue
entry, a timer or a capability wait lies at the owner the directory names, in
the state in which that owner acquires the actor, and a Begin or an Import comes
before the route is registered (`RoutedAt`, `OwedAt`).  A publication belongs to
a phase of its own of the request (`PublishedAt`), a published actor has at most
one Drain on its way (`DrainsSent`), and the phase of the policy lock says which
Detach or Import is in which inbox (`PolicyAt`); a thief that finds its envelope
refused therefore rolls it back to an owner that does not have the actor.  A
command is in an inbox once and an owner that is gone has none (`InboxSingle`,
`InboxGone`), from which the lemmas `SentBySend`, `SentByTake` and `SentByDrop`
follow each send, receipt and loss.  The long part is one lemma per action and
outcome of an owner's turn; what such a step leaves alone is settled once, for
every other request (`Only`, `WordsKept`).  `ServeInv` was checked with TLC on
the `handler_steal` instance before it was proved.  `HandlersTypeCorrect` adds
that the counters stay within their width and the slices of an actor within
their bound (`Counted`).

`ReservationsAreExact` ties a counter of each shard, which wraps, to the requests
in that shard's books.  `Books` is its invariant.  `BookedAt` says which shard
is charged for a request: its home until it begins, then the shard where the
directory has its actor, but the source of a steal until the envelope is sent
(`Keeper`), and the shard its answer names once it has one.  `EnvelopeAt` says
that an envelope that was sent is in the inbox of its destination, or was lost
with it and its request failed.  `Balanced` is the equation of each shard, without
the modulus: counter and overdrafts together are the books, or one modulus more
(`Squares`).  `Named` adds that every reply and every request that will give a
charge back names a shard.  A step then reserves, releases, overdraws or moves
(`BalanceReserves`, `BalanceReleases`, `BalanceOverdraws`, `BalanceMoves`), and a
shard is overdrawn in one case alone, by a request that failed while another shard
was charged for it.  `Books` was checked with TLC on the `handler_steal` instance
before it was proved.

`SourceSupervisionProofs` proves, for any children and restart classes, the
three strategies, any delays, deadlines, intensity, numbers of processes and
clock,

- `OneProcess`: the invariant `OneLiveProcess`;
- `StoppedStays`: the action property `StoppedStaysDown`;
- `IntensityIsBounded`: the invariant `IntensityBounded`;
- `TypeCorrect`: the type invariant `TypeOK`.

`IInv` says that process identities are used one after another (`InUse`), that a
child's process was spawned and every live process is some child's (`Held`),
that a restart which waits, in the timer table or among the due events, names a
child that is not stopped and a process that ended (`IntentsSound`), and that
only children that were started are listed or stopped (`Orderly`).  A new process
therefore replaces one that is gone, wherever it is started from: a start, a due
restart, or a group restart whose later members fail.  A process ends in many
ways and one lemma (`EndingIInv`) covers them; a group restart is one lemma about
all its members at once (`Respawned`), because their identities are the ranks of
their places.  `StoppedStays` needs `IntentsSound`: a stop takes the waiting
restarts with it.  The restart window is a second invariant.  The supervisor
forgets restarts, and `IntensityBounded` speaks of all that ever happened, so
`WindowInv` says that what is remembered is the end of the history, that what was
forgotten has expired (`Remembered`), and that a restart lies a window apart from
the one `Limit` places before it (`Spread`).

`ResidentActorsProofs` proves, for any number of actors, any mailboxes and
monitor references, every set of operations each actor may ask for and with and
without faults,

- `LeasesAreExact`: the invariant `LeaseExact`;
- `DownIsExact`: the invariant `DownExact`;
- `CascadesAreExact`: the action property `CascadeExact`;
- `DeadAreSilent`: the action property `DeadIsSilent`;
- `TypeCorrect`: the type invariant `TypeOK`.

The first half is about one exit.  A stage of the cascade (`Stage`) knows who has
ended so far: the links that are left are those of nobody among them, and
everyone an ended actor was linked with has ended or is still to be visited.
Each step takes an actor from the list or turns links into visits, so that the
length of the list plus twice the number of links decreases (`Measure`,
`PeersOfLinks`): after one step and two for each link nothing is left to do, and
those who ended are the linked component and nobody else.  That is an induction
over the steps, made as above by the least number of steps at which the claim
would fail.  What exits leave of the runtime is then put in two relations that
compose: `Fades` (nothing is gained: no actor, mail, link, lease or suspension
appears, and every monitor stays exact) and `Cut` (who ended is the component of
those who failed).

`IInv` is `VmInv`, about the runtime, and `StackInv`, about the activations
nested on each other.  `VmInv`: leases and links are of actors that live;
monitors are exact, and their watchers and targets were born; a suspension is
parked with the shard or at a worker, never both, and a live actor whose
suspension is held has its lease (`HeldInv`); identities are consecutive, which
is why a child never takes the identity of an actor that is waiting below it on
the stack.  `StackInv`: the activations are of different actors, the root's at
the bottom; an actor with an activation is not parked, is at a worker only while
its activation waits there, and has its lease while the activation holds its
suspension (`FrameInv`).  That actors on the stack are not parked is what makes
it impossible to drive an actor that is already running below; and that a killed
actor's activation keeps its suspension but not its lease is what makes it
silent.  Each action is shown to be `Good`: it keeps `IInv`, ends actors in one of
the ways `CascadeExact` allows (`Harm`) and, under an actor that is gone, does
nothing in its name (`Silent`).  `IInv` was also checked with TLC on the
`resident_calls` instance.

Induction over data is made with the library's fact that the order of the
naturals is well founded (`NatLessThanWellFounded`, `WFMin`: a non-empty set of
numbers has a least one), because induction theorems that take an operator are
beyond the provers.  A recursive function has to be shown to exist before its
rule can be used (`DoubledRule`, `CascadeSteps`).

What stays with TLC:

- liveness (`ImplementsMailSpec`, `BeginReturns`, `StopCompletes`,
  `CallsSettle`): the prover does not handle fairness or `ENABLED`;
- that the hypotheses hold of the instances: `TicketNamesOccupant` and
  `NoLostWakeup` are theorems as long as generations do not come round
  (`MaxRegistrations <= GenerationMask`), which the runs respect.

Every invariant and every action property of the runs is otherwise a theorem.

## Not modelled

Values, heaps, formatting and wire encodings; telemetry, tracing and replay
evidence; socket waits; the compiler and tooling.  In the directory, the
control-mutator variants, lookup pins and the single-threaded use by the local
actor runtime are left out so far.  `PROJECT.json` lists every part.

## Plan

1. done: directory, control plane, fence, supervisor, shard owner, handler
   owners, resident actors, source supervision, persistent children, capability
   workers, and the abstract mailboxes the control plane implements.
2. done: every safety property the runs check as a theorem, and the control
   plane's refinement of the abstract mailboxes.
3. next: what is described under *Findings* as observations, once the code
   settles which behaviour it wants; intervals, receive timeouts and cancellation
   tokens of the timer table; loading and replacing handler generations.
