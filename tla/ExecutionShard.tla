--------------------------- MODULE ExecutionShard ---------------------------
(***************************************************************************)
(* The owner of one execution shard                                        *)
(* (src/crates/terlan/src/runtime/vm/pure_native/execution_shard.rs and    *)
(* its sub-modules): the actors of one admitted image, the capability and  *)
(* timer waits they are parked on, the operations admitted for them, and   *)
(* the replacement, crash and recovery of the image underneath them.       *)
(*                                                                         *)
(* The shard is used through exclusive references: a method is one action, *)
(* which takes all the supervisor steps of the method together.  What      *)
(* generated code does next, and whether it fails, is the environment's    *)
(* choice.  Callers keep waits after the generation that issued them is    *)
(* gone and present them later.                                            *)
(***************************************************************************)
EXTENDS ExecutionShardSupervisor, FiniteSets

CONSTANTS
    Actors,        \* process identities; a new generation starts over with them
    MaxOperation,  \* bound: operation sequences; u64::MAX in the code
    MaxSpawned,    \* bound: actors spawned or imported
    TimerDelays    \* delays generated code asks for

ASSUME SequenceAssumption ==
    /\ MaxOperation \in Nat
    /\ OperationIds = 1 .. MaxOperation
    /\ InternalIds = OperationIds
ASSUME KindAssumption ==
    Kinds = {"ActorRoute", "CapabilityCompletion", "ContinuationResume",
             "TimerDelivery"}
ASSUME DelayAssumption == TimerDelays \subseteq Nat \ {0} /\ MaxSpawned \in Nat
\* The first image was admitted, which takes an epoch below the largest.
ASSUME AdmittedAssumption == MaxEpoch > 1

VARIABLES
    next_operation_sequence,   \* identity source of operations and progress
    actors,       \* where each actor stands between two methods
    waits,        \* capability and timer waits retained by callers
    timers,       \* VmTimerTable: the one-shot timers of native waits
    last_clock_tick,           \* latest accepted clock observation
    transfers,    \* detached actor envelopes, with their generation
    spawned,      \* actors spawned so far; names incarnations
    applied       \* the last wait applied, and the actor it resumed

shardVars == <<next_operation_sequence, actors, waits, timers, last_clock_tick,
               transfers, spawned, applied>>
allVars == <<vars, shardVars>>

-----------------------------------------------------------------------------
(* Actors and waits *)

\* The boundaries at which generated code hands an actor back.
Boundaries == {"Complete", "Receive", "Yield", "Capability", "Timer"}

\* An orphan is alive in the shard while its caller was told of an error and
\* has nothing left to drive it with.
Actor == [at : Boundaries \cup {"Absent", "Orphan"}, serial : Nat]

Absent == [at |-> "Absent", serial |-> 0]

Live(a) == actors[a].at # "Absent"

\* PureNativeCapabilityWait and PureNativeTimerWait
Wait == [kind : {"Capability", "Timer"}, owner : Actors, serial : Nat,
         op : Operation, deadline : Nat]

Waiting(a) == \E w \in waits : w.owner = a /\ w.serial = actors[a].serial

Timer == [owner : Actors, deadline : Nat]

Envelope == [owner : Actors, epoch : Epochs]

NothingApplied == [wait |-> 0, actor |-> 0]

\* admit_supervisor: the first image is admitted and ready at once.
ShardInit ==
    /\ phase = "Ready"
    /\ epoch = 1
    /\ epoch_fence = NewFence(1)
    /\ internal_operation = NoOperation
    /\ next_epoch = 2
    /\ signals = [health |-> 1, work |-> 0]
    /\ restart_count = 0
    /\ restart_deadline_tick = NoDeadline
    /\ now = 0
    /\ effects = [id \in OperationIds |-> [count |-> 0, last |-> NoEpoch]]
    /\ done = {}
    /\ next_operation_sequence = 1
    /\ actors = [a \in Actors |-> Absent]
    /\ waits = {}
    /\ timers = {}
    /\ last_clock_tick = 0
    /\ transfers = {}
    /\ spawned = 0
    /\ applied = NothingApplied

-----------------------------------------------------------------------------
(* Operations and progress: new_epoch_operation, the internal and the      *)
(* ledger form of begin and commit.  Sequence n is the k-th allocated by   *)
(* the method.                                                             *)

Sequence(k) == next_operation_sequence + k - 1

Allocate(k) ==
    /\ Sequence(k) <= MaxOperation
    /\ next_operation_sequence' = next_operation_sequence + k

OperationOf(sequence, kind) ==
    [id |-> sequence, epoch |-> epoch, kind |-> kind, policy |-> "AtMostOnce"]

\* signal_progress: a sequence that does not advance is NonMonotonicSignal.
Advances(sequence) == sequence > signals.work

Progress(sequence) == signals' = [signals EXCEPT !.work = sequence]

\* commit_epoch_operation leaves the record committed when its progress is
\* refused, and retires it otherwise.
Settled(fence, op) ==
    LET committed == Committed(fence, op) IN
    IF Advances(op.id) THEN Retired(committed, op) ELSE committed

EpochUnchanged == UNCHANGED <<epoch, next_epoch, lifecycleVars,
                              internal_operation, now>>

\* The effect an admitted operation stands for ran, and ran to its commit.
Ran(ops) == effects' = [id \in OperationIds |->
    IF \E op \in ops : op.id = id
    THEN [count |-> effects[id].count + 1, last |-> epoch]
    ELSE effects[id]]

-----------------------------------------------------------------------------
(* finish_owner: the actor exits, and its timers with it *)

WithoutTimer(a) == {t \in timers : t.owner # a}

WithoutWaits(a) == {w \in waits : w.owner # a \/ w.serial # actors[a].serial}

\* Mutant: the timers of an exiting actor stay armed.
FinishOwnerArmed(a) ==
    /\ actors' = [actors EXCEPT ![a] = Absent]
    /\ UNCHANGED timers

FinishOwner(a) ==
    /\ actors' = [actors EXCEPT ![a] = Absent]
    /\ timers' = WithoutTimer(a)

\* finish_completed_call and cancel_call; the caller drops the wait.
FinishCall(a) ==
    /\ actors[a].at \in Boundaries
    /\ FinishOwner(a)
    /\ waits' = WithoutWaits(a)
    /\ UNCHANGED <<vars, next_operation_sequence, last_clock_tick, transfers,
                   spawned, applied>>

-----------------------------------------------------------------------------
(* begin_call and resume_call: one internal operation around generated code *)

\* The operation is committed and its progress published, or aborted.
InternalOperation(kind, succeeds) ==
    LET op == OperationOf(Sequence(1), kind) IN
    /\ phase \in ActivePhases
    /\ internal_operation = NoOperation
    /\ Allocate(1)
    /\ Ran({op})
    /\ IF succeeds THEN Progress(op.id) /\ done' = done \cup {op.id}
                   ELSE UNCHANGED <<signals, done>>
    /\ UNCHANGED epoch_fence
    /\ EpochUnchanged

BeginCall(a) ==
    /\ phase = "Ready"
    /\ ~Live(a)
    /\ \A e \in transfers : e.owner # a
    /\ spawned < MaxSpawned
    /\ spawned' = spawned + 1
    /\ \/ /\ InternalOperation("ActorRoute", TRUE)
          /\ \E boundary \in Boundaries :
                actors' = [actors EXCEPT ![a] =
                              [at |-> boundary, serial |-> spawned + 1]]
          /\ UNCHANGED timers
       \/ /\ InternalOperation("ActorRoute", FALSE)
          /\ FinishOwner(a)
    /\ UNCHANGED <<waits, last_clock_tick, transfers, applied>>

ResumeCall(a) ==
    /\ actors[a].at \in {"Receive", "Yield"}
    /\ \/ /\ InternalOperation("ContinuationResume", TRUE)
          /\ \E boundary \in Boundaries :
                actors' = [actors EXCEPT ![a].at = boundary]
          /\ UNCHANGED timers
       \/ /\ InternalOperation("ContinuationResume", FALSE)
          /\ FinishOwner(a)
    /\ UNCHANGED <<waits, last_clock_tick, transfers, spawned, applied>>

-----------------------------------------------------------------------------
(* Capability waits *)

\* begin_capability_call: the completion is prepared in the ledger.
BeginCapabilityCall(a) ==
    LET op == OperationOf(Sequence(1), "CapabilityCompletion") IN
    /\ phase \in ActivePhases
    /\ actors[a].at = "Capability"
    /\ ~Waiting(a)
    /\ Allocate(1)
    /\ Admission(epoch_fence, op) = "ExecuteFirst"
    /\ epoch_fence' = Begun(epoch_fence, op)
    /\ Ran({op})
    /\ waits' = waits \cup {[kind |-> "Capability", owner |-> a, op |-> op,
                             serial |-> actors[a].serial, deadline |-> 0]}
    /\ EpochUnchanged
    /\ UNCHANGED <<signals, done, actors, timers, last_clock_tick, transfers,
                   spawned, applied>>

\* resume_native_service_call right after the begin: the operation commits
\* before the granted service runs.
NativeServiceCall(a) ==
    LET op == OperationOf(Sequence(1), "CapabilityCompletion") IN
    /\ phase \in ActivePhases
    /\ actors[a].at = "Capability"
    /\ ~Waiting(a)
    /\ Allocate(1)
    /\ Admission(epoch_fence, op) = "ExecuteFirst"
    /\ epoch_fence' = Settled(Begun(epoch_fence, op), op)
    /\ Ran({op})
    /\ done' = done \cup {op.id}
    /\ Progress(op.id)
    /\ \/ /\ \E boundary \in Boundaries :
                actors' = [actors EXCEPT ![a].at = boundary]
          /\ UNCHANGED timers
       \/ FinishOwner(a)
    /\ EpochUnchanged
    /\ UNCHANGED <<waits, last_clock_tick, transfers, spawned, applied>>

\* Mutant: the generation of a wait is not compared.
MatchesAnyEpoch(w) == actors[w.owner].at = w.kind

\* validate, and the continuation check of the boundary: the identities of a
\* continuation start over in every generation, only the epoch tells a wait of
\* an earlier one apart.
Matches(w) == w.op.epoch = epoch /\ actors[w.owner].at = w.kind

Apply(w) == applied' = [wait |-> w.serial, actor |-> actors[w.owner].serial]

\* resume_capability_call with a usable reply: generated code goes on, then
\* the operation commits and its identity is published as progress.  When
\* either is refused the caller gets an error instead of the continuation.
CapabilityCompletes(w) ==
    LET commits == MayCommit(epoch_fence, w.op)
        succeeds == commits /\ Advances(w.op.id) IN
    /\ w.kind = "Capability"
    /\ phase \in ActivePhases
    /\ Matches(w)
    /\ waits' = waits \ {w}
    /\ epoch_fence' = IF commits THEN Settled(epoch_fence, w.op) ELSE epoch_fence
    /\ done' = IF commits THEN done \cup {w.op.id} ELSE done
    /\ IF succeeds THEN Progress(w.op.id) ELSE UNCHANGED signals
    /\ \E boundary \in Boundaries :
          actors' = [actors EXCEPT ![w.owner].at =
                        IF succeeds THEN boundary ELSE "Orphan"]
    /\ Apply(w)
    /\ EpochUnchanged
    /\ UNCHANGED <<effects, timers, last_clock_tick, transfers, spawned,
                   next_operation_sequence>>

\* The reply is an error, or generated code fails: the actor exits and the
\* operation stays prepared.
CapabilityFails(w) ==
    /\ w.kind = "Capability"
    /\ phase \in ActivePhases
    /\ Matches(w)
    /\ waits' = waits \ {w}
    /\ FinishOwner(w.owner)
    /\ Apply(w)
    /\ UNCHANGED <<vars, next_operation_sequence, last_clock_tick, transfers,
                   spawned>>

\* A wait that does not match, or comes when the shard is not active, is an
\* error and is gone.
WaitRejected(w) ==
    /\ phase \notin ActivePhases \/ w.op.epoch # epoch
    /\ waits' = waits \ {w}
    /\ UNCHANGED <<vars, next_operation_sequence, actors, timers,
                   last_clock_tick, transfers, spawned, applied>>

-----------------------------------------------------------------------------
(* Timer waits *)

\* begin_timer_call: a one-shot timer, and a tick that is admitted only when
\* it is applied.
BeginTimerCall(a, delay) ==
    LET deadline == now + delay IN
    /\ phase \in ActivePhases
    /\ actors[a].at = "Timer"
    /\ ~Waiting(a)
    /\ now >= last_clock_tick
    /\ Allocate(1)
    /\ timers' = timers \cup {[owner |-> a, deadline |-> deadline]}
    /\ waits' = waits \cup
          {[kind |-> "Timer", owner |-> a, serial |-> actors[a].serial,
            op |-> OperationOf(Sequence(1), "TimerDelivery"),
            deadline |-> deadline]}
    /\ UNCHANGED <<vars, actors, last_clock_tick, transfers, spawned, applied>>

\* advance_clock: an observation behind the clock fires nothing, any other
\* fires every timer that is due by it.
Due(tick) == IF tick < last_clock_tick THEN {}
             ELSE {t \in timers : t.deadline <= tick}

Delivered(w) == [owner |-> w.owner, deadline |-> w.deadline] \in Due(w.deadline)

\* apply_timer_tick: the tick is committed, and stays in the ledger.
TickApplied(w) == Committed(Begun(epoch_fence, w.op), w.op)

AdvanceClock(w) ==
    last_clock_tick' = IF w.deadline < last_clock_tick THEN last_clock_tick
                                                       ELSE w.deadline

MayFire(w) ==
    /\ w.kind = "Timer"
    /\ phase \in ActivePhases
    /\ w.deadline <= now
    /\ Matches(w)
    /\ Admission(epoch_fence, w.op) = "ExecuteFirst"

\* resume_timer_call: the tick delivers the timer of this very wait and
\* generated code goes on, or fails and leaves its operation prepared.
TimerResumes(w) ==
    LET op == OperationOf(Sequence(2), "ContinuationResume")
        begun == Begun(TickApplied(w), op) IN
    /\ MayFire(w)
    /\ Delivered(w)
    /\ Allocate(2)
    /\ Ran({w.op, op})
    /\ timers' = timers \ Due(w.deadline)
    /\ waits' = waits \ {w}
    /\ Apply(w)
    /\ \/ /\ epoch_fence' = Settled(begun, op)
          /\ done' = done \cup {w.op.id, op.id}
          /\ Progress(op.id)
          /\ \E boundary \in Boundaries :
                actors' = [actors EXCEPT ![w.owner].at = boundary]
       \/ /\ epoch_fence' = begun
          /\ done' = done \cup {w.op.id}
          /\ Progress(Sequence(1))
          /\ actors' = [actors EXCEPT ![w.owner] = Absent]
    /\ AdvanceClock(w)
    /\ EpochUnchanged
    /\ UNCHANGED <<transfers, spawned>>

\* The tick was applied and did not deliver this wait's timer: the caller
\* gets an error and the continuation stays parked.
TimerMissed(w) ==
    /\ MayFire(w)
    /\ ~Delivered(w)
    /\ Allocate(1)
    /\ Ran({w.op})
    /\ timers' = timers \ Due(w.deadline)
    /\ waits' = waits \ {w}
    /\ epoch_fence' = TickApplied(w)
    /\ done' = done \cup {w.op.id}
    /\ Progress(Sequence(1))
    /\ actors' = [actors EXCEPT ![w.owner].at = "Orphan"]
    /\ AdvanceClock(w)
    /\ EpochUnchanged
    /\ UNCHANGED <<transfers, spawned, applied>>

-----------------------------------------------------------------------------
(* Transfers *)

\* detach_actor_state: the envelope keeps a lease on its generation.
DetachActor(a) ==
    /\ phase = "Ready"
    /\ actors[a].at = "Yield"
    /\ actors' = [actors EXCEPT ![a] = Absent]
    /\ transfers' = transfers \cup {[owner |-> a, epoch |-> epoch]}
    /\ UNCHANGED <<vars, next_operation_sequence, waits, timers,
                   last_clock_tick, spawned, applied>>

\* import_actor_state at the source again, after the destination refused it.
ImportActor(e) ==
    /\ phase = "Ready"
    /\ e.epoch = epoch
    /\ ~Live(e.owner)
    /\ spawned < MaxSpawned
    /\ spawned' = spawned + 1
    /\ actors' = [actors EXCEPT ![e.owner] =
                     [at |-> "Yield", serial |-> spawned + 1]]
    /\ transfers' = transfers \ {e}
    /\ UNCHANGED <<vars, next_operation_sequence, waits, timers,
                   last_clock_tick, applied>>

\* Another shard imported the envelope, or it was dropped.
ReleaseTransfer(e) ==
    /\ transfers' = transfers \ {e}
    /\ UNCHANGED <<vars, next_operation_sequence, actors, waits, timers,
                   last_clock_tick, spawned, applied>>

-----------------------------------------------------------------------------
(* Shutdown, replacement, crash and recovery of the image *)

\* The tracker of the current generation counts the envelopes it issued.
OutstandingTransfers == {e \in transfers : e.epoch = epoch}

\* Mutant: only timers and envelopes are counted as references.
QuiescentFrameless == timers = {} /\ OutstandingTransfers = {}

\* generation_references: nothing is left that may run code of the image.
Quiescent ==
    /\ \A a \in Actors : ~Live(a)
    /\ timers = {}
    /\ OutstandingTransfers = {}

\* The tables of the next generation; callers keep the waits and envelopes
\* they hold.
ResetTables ==
    /\ actors' = [a \in Actors |-> Absent]
    /\ timers' = {}
    /\ last_clock_tick' = 0
    /\ UNCHANGED <<waits, transfers, spawned, applied>>

\* An image is admitted under the next epoch and acknowledged ready.
AdmitNext ==
    /\ next_epoch < MaxEpoch
    /\ epoch' = next_epoch
    /\ next_epoch' = next_epoch + 1
    /\ epoch_fence' = Advanced(epoch_fence, next_epoch)
    /\ internal_operation' = NoOperation
    /\ signals' = [health |-> 1, work |-> 0]
    /\ phase' = "Ready"
    /\ ResetTables
    /\ UNCHANGED <<restart_count, now, effects, done>>

\* The backend of the old image refuses to shut down: a crash at tick 0.
BackendFails == ReportCrashAt(0) /\ UNCHANGED shardVars

\* install_drained_components_with_image
InstallDrained ==
    \/ /\ AdmitNext
       /\ UNCHANGED <<restart_deadline_tick, next_operation_sequence>>
    \/ BackendFails

ShutdownShard ==
    /\ phase = "Ready"
    /\ Quiescent
    /\ \/ /\ phase' = "Stopped"
          /\ UNCHANGED <<generationVars, restart_count, restart_deadline_tick,
                         operationVars, now, shardVars>>
       \/ BackendFails

ReplaceImage ==
    /\ phase = "Ready"
    /\ Quiescent
    /\ InstallDrained

\* A shard that is not quiescent drains, or is quarantined at the deadline.
ReplaceImageBeforeDeadline(expired) ==
    /\ phase \in ActivePhases
    /\ \/ Quiescent /\ InstallDrained
       \/ /\ ~Quiescent
          /\ IF expired
             THEN phase' = "Quarantined" /\ restart_deadline_tick' = NoDeadline
             ELSE phase' = "Draining" /\ UNCHANGED restart_deadline_tick
          /\ UNCHANGED <<generationVars, restart_count, operationVars, now,
                         shardVars>>

ReportShardCrash == ReportCrash /\ UNCHANGED shardVars

\* Mutant: operation identities start over with the generation.
RecoverComponentsRestarted ==
    /\ phase = "RestartBackoff"
    /\ now >= restart_deadline_tick
    /\ OutstandingTransfers = {}
    /\ AdmitNext
    /\ restart_deadline_tick' = NoDeadline
    /\ next_operation_sequence' = 1

\* Mutant: envelopes in flight do not hold recovery back.
RecoverComponentsUnpinned ==
    /\ phase = "RestartBackoff"
    /\ now >= restart_deadline_tick
    /\ AdmitNext
    /\ restart_deadline_tick' = NoDeadline
    /\ UNCHANGED next_operation_sequence

\* recover_components: the ledger and the operation sequence go on, the
\* actors of the crashed generation are gone.
RecoverComponents ==
    /\ phase = "RestartBackoff"
    /\ now >= restart_deadline_tick
    /\ OutstandingTransfers = {}
    /\ AdmitNext
    /\ restart_deadline_tick' = NoDeadline
    /\ UNCHANGED next_operation_sequence

-----------------------------------------------------------------------------
ActorStep(a) ==
    \/ BeginCall(a) \/ ResumeCall(a) \/ FinishCall(a) \/ DetachActor(a)
    \/ BeginCapabilityCall(a) \/ NativeServiceCall(a)
    \/ \E delay \in TimerDelays : BeginTimerCall(a, delay)

WaitStep(w) ==
    \/ CapabilityCompletes(w) \/ CapabilityFails(w) \/ WaitRejected(w)
    \/ TimerResumes(w) \/ TimerMissed(w)

ImageStep ==
    \/ ShutdownShard \/ ReplaceImage \/ ReportShardCrash \/ RecoverComponents
    \/ \E expired \in BOOLEAN : ReplaceImageBeforeDeadline(expired)

ShardNext ==
    \/ \E a \in Actors : ActorStep(a)
    \/ \E w \in waits : WaitStep(w)
    \/ \E e \in transfers : ImportActor(e) \/ ReleaseTransfer(e)
    \/ ImageStep
    \/ Tick /\ UNCHANGED shardVars

ShardSpec == ShardInit /\ [][ShardNext]_allVars

-----------------------------------------------------------------------------
(* Properties *)

ShardTypeOK ==
    /\ TypeOK
    /\ next_operation_sequence \in 1 .. MaxOperation + 1
    /\ actors \in [Actors -> Actor]
    /\ waits \in SUBSET Wait
    /\ timers \in SUBSET Timer
    /\ last_clock_tick \in Nat
    /\ transfers \in SUBSET Envelope
    /\ spawned \in Nat
    /\ applied \in [wait : Nat, actor : Nat]

\* "fresh operation {} received {admission}" (epoch_operations.rs:52) never
\* happens, before or after a crash: the ledger that outlives a generation
\* holds no identity that is still to be allocated, and progress stays behind
\* the next sequence.
FreshAdmission ==
    /\ \A id \in OperationIds :
          id >= next_operation_sequence => epoch_fence.operations[id] = NoRecord
    /\ signals.work < next_operation_sequence

\* A completion that arrives late resumes only the continuation that waited
\* for it, although process and continuation identities start over in every
\* generation.
ContinuationExact == applied.wait = applied.actor

\* A timer never outlives the wait it belongs to: in an active shard the owner
\* of every timer in the table is parked on it, so a finished or stranded actor
\* cannot keep the generation from becoming quiescent by its timers.
TimersOwned ==
    phase \in ActivePhases =>
       \A t \in timers : actors[t.owner].at = "Timer" /\ Waiting(t.owner)

\* Unloading an image drops no accepted work: only a crash separates a wait
\* from the generation that issued it.
AcceptedWorkKept ==
    [][phase # "RestartBackoff" /\ epoch' # epoch =>
          \A w \in waits : w.op.epoch # epoch]_allVars

\* An actor between two shards keeps the generation it left loaded: its envelope
\* is never of another generation than the shard's, through replacements, crashes
\* and recoveries.  (To import it the shard also has to be Ready.)
TransferPinsGeneration == \A e \in transfers : e.epoch = epoch

\* "Commits one direct native execution step and advances observable
\* progress" (epoch_operations.rs:97): every commit moves the progress signal.
CommitAdvancesProgress ==
    [][done' # done => signals'.work > signals.work]_allVars

\* "A generated Timer parks and resumes only through its fixed scheduler
\* event" (invocation_test.rs:502): a continuation parked on a timer is
\* resumed when its own event is applied, never stranded.
TimerWaitResumes ==
    [][\A a \in Actors :
          actors[a].at = "Timer" => actors'[a].at # "Orphan"]_allVars
=============================================================================
