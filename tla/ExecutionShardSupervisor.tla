---------------------- MODULE ExecutionShardSupervisor ----------------------
(***************************************************************************)
(* The supervisor-owned lifecycle of one execution shard                   *)
(* (src/crates/terlan/src/runtime/vm/execution_shard_supervisor.rs) with   *)
(* its epoch fence.  The supervisor is a value with exclusive access, so   *)
(* every method is one action.  The shard process on the other side is the *)
(* environment: it crashes, is restarted, repeats a request, and completes *)
(* an operation after the epoch that admitted it is gone.  A call that the *)
(* code rejects leaves the supervisor unchanged and is not an action.      *)
(*                                                                         *)
(* The image is present exactly when the epoch is and is not a variable of *)
(* its own; crash reports and their bounded history are diagnostics and    *)
(* are left out.                                                           *)
(***************************************************************************)
EXTENDS ExecutionShardEpoch

CONSTANTS
    InternalIds,     \* identities generated afresh by the owner of the shard
    RestartBudget,   \* policy.restart_budget
    InitialDelay,    \* policy.restart_backoff.initial_delay_ms
    MaxDelay,        \* policy.restart_backoff.max_delay_ms
    MaxTick,         \* the largest tick; u64::MAX in the code
    MaxSequence,     \* bound: health and progress sequences
    NoOperation      \* internal_operation = None

ASSUME InternalAssumption  == InternalIds \subseteq OperationIds
ASSUME PolicyAssumption    == /\ RestartBudget \in Nat
                              /\ InitialDelay \in Nat
                              /\ MaxDelay \in Nat
ASSUME TickAssumption      == MaxTick \in Nat /\ MaxSequence \in Nat
ASSUME OperationAssumption == NoOperation \notin Operation

VARIABLES
    phase,                  \* VmShardPhase
    epoch,                  \* Option<VmShardEpoch>; 0 is None
    epoch_fence,            \* Option<VmShardEpochFence>
    internal_operation,     \* Option<VmShardEpochOperation>
    next_epoch,             \* identity reserved for the next admission
    signals,                \* VmShardSignalProgress
    restart_count,          \* restart budget units consumed
    restart_deadline_tick,  \* Option<u64>; MaxTick + 1 is None
    now,                    \* the caller's monotonic clock
    effects,                \* times each identity was admitted to execute
    done                    \* identities whose operation committed

lifecycleVars == <<phase, restart_count, restart_deadline_tick>>
generationVars == <<epoch, next_epoch, signals>>
operationVars == <<epoch_fence, internal_operation, effects, done>>
vars == <<phase, epoch, epoch_fence, internal_operation, next_epoch, signals,
          restart_count, restart_deadline_tick, now, effects, done>>

-----------------------------------------------------------------------------
Phases == {"Created", "Negotiating", "Admitting", "AwaitingReady", "Ready",
           "Draining", "Stopping", "Stopped", "RestartBackoff", "Quarantined"}

\* Phases that carry an admitted epoch: every method that calls require_epoch
\* has first required one of them.
EpochPhases == {"AwaitingReady", "Ready", "Draining", "Stopping"}

\* require_operation_phase and require_active_signal_phase
ActivePhases == {"Ready", "Draining"}

NoEpoch == 0
NoDeadline == MaxTick + 1
NoSignals == [health |-> 0, work |-> 0]

Lesser(a, b) == IF a <= b THEN a ELSE b

\* delay_for_restart_count: doubled once per restart after the first, capped.
Doubled[n \in Nat] ==
    IF n <= 1 THEN InitialDelay ELSE Lesser(2 * Doubled[n - 1], MaxDelay)

Delay(count) ==
    IF count = 0 \/ InitialDelay = 0 \/ MaxDelay = 0
    THEN 0
    ELSE Lesser(Doubled[count], MaxDelay)

Init ==
    /\ phase = "Created"
    /\ epoch = NoEpoch
    /\ epoch_fence = NoFence
    /\ internal_operation = NoOperation
    /\ next_epoch = 1
    /\ signals = NoSignals
    /\ restart_count = 0
    /\ restart_deadline_tick = NoDeadline
    /\ now = 0
    /\ effects = [id \in OperationIds |-> [count |-> 0, last |-> NoEpoch]]
    /\ done = {}

-----------------------------------------------------------------------------
(* Admission of an image *)

BeginNegotiation ==
    /\ phase = "Created"
    /\ phase' = "Negotiating"
    /\ UNCHANGED <<generationVars, restart_count, restart_deadline_tick,
                   operationVars, now>>

Negotiate ==
    /\ phase = "Negotiating"
    /\ phase' = "Admitting"
    /\ UNCHANGED <<generationVars, restart_count, restart_deadline_tick,
                   operationVars, now>>

\* Mutant: the reserved epoch is not consumed.
InstallNextImageStuck ==
    /\ next_epoch < MaxEpoch
    /\ epoch_fence # NoFence => MayAdvance(epoch_fence, next_epoch)
    /\ epoch' = next_epoch
    /\ epoch_fence' = IF epoch_fence = NoFence
                      THEN NewFence(next_epoch)
                      ELSE Advanced(epoch_fence, next_epoch)
    /\ internal_operation' = NoOperation
    /\ signals' = NoSignals
    /\ phase' = "AwaitingReady"
    /\ UNCHANGED <<next_epoch, restart_count, restart_deadline_tick, now,
                   effects, done>>

\* Mutant: the largest epoch is handed out and its successor reserved.
InstallNextImageUnbounded ==
    /\ epoch_fence # NoFence => MayAdvance(epoch_fence, next_epoch)
    /\ epoch' = next_epoch
    /\ next_epoch' = next_epoch + 1
    /\ epoch_fence' = IF epoch_fence = NoFence
                      THEN NewFence(next_epoch)
                      ELSE Advanced(epoch_fence, next_epoch)
    /\ internal_operation' = NoOperation
    /\ signals' = NoSignals
    /\ phase' = "AwaitingReady"
    /\ UNCHANGED <<restart_count, restart_deadline_tick, now, effects, done>>

\* install_next_image.  EpochExhausted and NonAdvancingEpoch are rejections.
InstallNextImage ==
    /\ next_epoch < MaxEpoch
    /\ epoch_fence # NoFence => MayAdvance(epoch_fence, next_epoch)
    /\ epoch' = next_epoch
    /\ next_epoch' = next_epoch + 1
    /\ epoch_fence' = IF epoch_fence = NoFence
                      THEN NewFence(next_epoch)
                      ELSE Advanced(epoch_fence, next_epoch)
    /\ internal_operation' = NoOperation
    /\ signals' = NoSignals
    /\ phase' = "AwaitingReady"
    /\ UNCHANGED <<restart_count, restart_deadline_tick, now, effects, done>>

AdmitImage == phase = "Admitting" /\ InstallNextImage

ReplaceDrainedImage == phase = "Draining" /\ InstallNextImage

\* A transition of the admitted generation that only changes the phase.
\* require_epoch rejects every epoch but the current one.
PhaseStep(from, to) ==
    /\ phase = from
    /\ phase' = to
    /\ UNCHANGED <<generationVars, restart_count, restart_deadline_tick,
                   operationVars, now>>

AcknowledgeReady == PhaseStep("AwaitingReady", "Ready")

BeginDrain == PhaseStep("Ready", "Draining")

RequestGracefulStop == PhaseStep("Draining", "Stopping")

AcknowledgeStopped == PhaseStep("Stopping", "Stopped")

SignalHealth(sequence) ==
    /\ phase \in ActivePhases
    /\ sequence > signals.health
    /\ signals' = [signals EXCEPT !.health = sequence]
    /\ UNCHANGED <<epoch, next_epoch, lifecycleVars, operationVars, now>>

SignalProgress(sequence) ==
    /\ phase \in ActivePhases
    /\ sequence > signals.work
    /\ signals' = [signals EXCEPT !.work = sequence]
    /\ UNCHANGED <<epoch, next_epoch, lifecycleVars, operationVars, now>>

-----------------------------------------------------------------------------
(* Operations *)

\* The runtime runs the effect of an admitted operation.
Execute(op) ==
    effects' = [effects EXCEPT ![op.id] =
                   [count |-> @.count + 1, last |-> op.epoch]]

\* An identity of InternalIds is allocated for one operation and never again.
Fresh(op) == op.id \in InternalIds => effects[op.id].count = 0

BeginEpochOperation(op) ==
    /\ phase \in ActivePhases
    /\ Fresh(op)
    /\ Executes(Admission(epoch_fence, op))
    /\ epoch_fence' = Begun(epoch_fence, op)
    /\ Execute(op)
    /\ UNCHANGED <<generationVars, lifecycleVars, internal_operation, done, now>>

CommitEpochOperation(op) ==
    /\ phase \in ActivePhases
    /\ MayCommit(epoch_fence, op)
    /\ epoch_fence' = Committed(epoch_fence, op)
    /\ done' = done \cup {op.id}
    /\ UNCHANGED <<generationVars, lifecycleVars, internal_operation, effects,
                   now>>

\* retire_internal_operation is only called for identities of the owner.
RetireInternalOperation(op) ==
    /\ op.id \in InternalIds
    /\ epoch_fence # NoFence
    /\ MayRetire(epoch_fence, op)
    /\ epoch_fence' = Retired(epoch_fence, op)
    /\ UNCHANGED <<generationVars, lifecycleVars, internal_operation, effects,
                   done, now>>

BeginInternalOperation(op) ==
    /\ phase \in ActivePhases
    /\ op.id \in InternalIds
    /\ op.epoch = epoch
    /\ Fresh(op)
    /\ internal_operation = NoOperation
    /\ internal_operation' = op
    /\ Execute(op)
    /\ UNCHANGED <<generationVars, lifecycleVars, epoch_fence, done, now>>

CommitInternalOperation(op) ==
    /\ phase \in ActivePhases
    /\ op.epoch = epoch
    /\ internal_operation = op
    /\ internal_operation' = NoOperation
    /\ done' = done \cup {op.id}
    /\ UNCHANGED <<generationVars, lifecycleVars, epoch_fence, effects, now>>

\* abort_internal_operation has no phase guard.
AbortInternalOperation(op) ==
    /\ internal_operation = op
    /\ internal_operation' = NoOperation
    /\ UNCHANGED <<generationVars, lifecycleVars, epoch_fence, effects, done,
                   now>>

-----------------------------------------------------------------------------
(* Failure, restart and termination *)

QuarantineDrainTimeout ==
    /\ phase = "Draining"
    /\ phase' = "Quarantined"
    /\ restart_deadline_tick' = NoDeadline
    /\ UNCHANGED <<generationVars, restart_count, operationVars, now>>

\* Mutant: the budget is compared after the restart was counted.
ReportCrashLate(tick) ==
    /\ phase \notin {"Stopped", "RestartBackoff", "Quarantined"}
    /\ restart_count' = restart_count + 1
    /\ IF restart_count > RestartBudget
       THEN /\ phase' = "Quarantined"
            /\ restart_deadline_tick' = NoDeadline
       ELSE /\ tick + Delay(restart_count + 1) \in 0 .. MaxTick
            /\ phase' = "RestartBackoff"
            /\ restart_deadline_tick' = tick + Delay(restart_count + 1)
    /\ UNCHANGED <<generationVars, operationVars, now>>

\* A crash observed at a tick.  Within the budget it waits for its deadline;
\* RestartDeadlineOverflow is a rejection that records nothing.
ReportCrashAt(tick) ==
    /\ phase \notin {"Stopped", "RestartBackoff", "Quarantined"}
    /\ restart_count' = restart_count + 1
    /\ IF restart_count >= RestartBudget
       THEN /\ phase' = "Quarantined"
            /\ restart_deadline_tick' = NoDeadline
       ELSE /\ tick + Delay(restart_count + 1) \in 0 .. MaxTick
            /\ phase' = "RestartBackoff"
            /\ restart_deadline_tick' = tick + Delay(restart_count + 1)
    /\ UNCHANGED <<generationVars, operationVars, now>>

ReportCrash == ReportCrashAt(now)

\* The ledger survives; everything else of the old generation is cleared.
RestartWhenDue ==
    /\ phase = "RestartBackoff"
    /\ now >= restart_deadline_tick
    /\ phase' = "Negotiating"
    /\ epoch' = NoEpoch
    /\ internal_operation' = NoOperation
    /\ signals' = NoSignals
    /\ restart_deadline_tick' = NoDeadline
    /\ UNCHANGED <<epoch_fence, next_epoch, restart_count, now, effects, done>>

ForceTerminate ==
    /\ phase \notin {"Stopped", "Quarantined"}
    /\ phase' = "Stopped"
    /\ restart_deadline_tick' = NoDeadline
    /\ UNCHANGED <<generationVars, restart_count, operationVars, now>>

Tick ==
    /\ now < MaxTick
    /\ now' = now + 1
    /\ UNCHANGED <<generationVars, lifecycleVars, operationVars>>

-----------------------------------------------------------------------------
Lifecycle ==
    \/ BeginNegotiation \/ Negotiate \/ AdmitImage \/ ReplaceDrainedImage
    \/ AcknowledgeReady \/ BeginDrain \/ RequestGracefulStop
    \/ AcknowledgeStopped \/ QuarantineDrainTimeout \/ ReportCrash
    \/ RestartWhenDue \/ ForceTerminate

OperationStep(op) ==
    \/ BeginEpochOperation(op) \/ CommitEpochOperation(op)
    \/ RetireInternalOperation(op) \/ BeginInternalOperation(op)
    \/ CommitInternalOperation(op) \/ AbortInternalOperation(op)

Signal(sequence) == SignalHealth(sequence) \/ SignalProgress(sequence)

Next ==
    \/ Lifecycle
    \/ \E op \in Operation : OperationStep(op)
    \/ \E sequence \in 1 .. MaxSequence : Signal(sequence)
    \/ Tick

Spec == Init /\ [][Next]_vars

-----------------------------------------------------------------------------
(* Properties *)

TypeOK ==
    /\ phase \in Phases
    /\ epoch \in Epochs \cup {NoEpoch}
    /\ epoch_fence \in Fence \cup {NoFence}
    /\ internal_operation \in Operation \cup {NoOperation}
    /\ next_epoch \in Epochs
    /\ signals \in [health : Nat, work : Nat]
    /\ restart_count \in Nat
    /\ restart_deadline_tick \in 0 .. NoDeadline
    /\ now \in 0 .. MaxTick
    /\ effects \in [OperationIds -> [count : Nat, last : 0 .. MaxEpoch]]
    /\ done \in SUBSET OperationIds

\* "An uncertain dispatch must never execute again automatically"
\* (execution_shard_epoch.rs:74).  Whatever crashes, restarts, replacements,
\* duplicates and reuses of its identity happen, the effect of an at-most-once
\* operation ran exactly once.
AtMostOnceEffect ==
    epoch_fence # NoFence =>
       \A id \in OperationIds :
          LET record == epoch_fence.operations[id] IN
          record # NoRecord /\ record.policy = "AtMostOnce" =>
             effects[id].count = 1

\* "The operation completed and must never execute again"
\* (execution_shard_epoch.rs:184): not in its epoch, not after a restart, not
\* after its record was retired.
CommittedFinal ==
    [][\A id \in done : effects'[id] = effects[id]]_vars

\* A duplicate never runs beside the attempt it duplicates: every execution
\* after the first belongs to a later epoch than the one before.
ReexecutionAdvances ==
    [][\A id \in OperationIds :
          effects'[id] # effects[id] => effects[id].last < effects'[id].last]_vars

\* A completion that arrives after its shard generation is gone commits
\* nothing: an operation commits only in the epoch that last executed it.
CommitInEpoch ==
    [][\A id \in done' \ done : effects[id].last = epoch]_vars

\* The expect() calls of the supervisor never panic and a replacement epoch is
\* never refused as non-advancing: a phase that bears an epoch has one, equal
\* to the fence's, and the reserved epoch is ahead of the fence.
ExpectsHold ==
    /\ phase \in EpochPhases => /\ epoch # NoEpoch
                                /\ epoch_fence # NoFence
                                /\ epoch_fence.epoch = epoch
    /\ phase = "RestartBackoff" => restart_deadline_tick # NoDeadline
    /\ epoch_fence # NoFence => epoch_fence.epoch < next_epoch

\* The owner-local slot never carries an operation over into a later
\* generation, where it would block every other one.
InternalSlotCurrent ==
    internal_operation # NoOperation => internal_operation.epoch = epoch

\* A shard that keeps crashing is quarantined once its budget is spent, and
\* each wait before that is at most the capped exponential delay.
RestartBounded ==
    /\ phase # "Quarantined" => restart_count <= RestartBudget
    /\ phase = "RestartBackoff" =>
          restart_deadline_tick <=
             now + Lesser(InitialDelay * 2 ^ (restart_count - 1), MaxDelay)
=============================================================================
