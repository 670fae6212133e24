------------------------ MODULE ExecutionShardEpoch ------------------------
(***************************************************************************)
(* The epoch fence of an execution shard                                   *)
(* (src/crates/terlan/src/runtime/vm/execution_shard_epoch.rs): a ledger   *)
(* of operation identities that outlives shard generations, and the        *)
(* decisions it takes when an operation is begun, committed or retired.    *)
(* Everything here is a pure operator on a fence, a record with the active *)
(* epoch and the ledger.                                                   *)
(***************************************************************************)
EXTENDS Naturals

CONSTANTS
    OperationIds,   \* VmShardOperationId: stable across retries and restarts
    Kinds,          \* VmShardOperationKind: the ingress or effect class
    NoRecord,       \* the ledger holds no record of an identity
    NoFence,        \* epoch_fence before the first admitted image
    MaxEpoch        \* the largest epoch; u64::MAX in the code

ASSUME EpochAssumption == MaxEpoch \in Nat /\ MaxEpoch >= 1

Epochs == 1 .. MaxEpoch

ReplayPolicies == {"Replayable", "Idempotent", "AtMostOnce"}

\* VmShardEpochOperation
Operation == [id : OperationIds, epoch : Epochs, kind : Kinds,
              policy : ReplayPolicies]

\* VmShardOperationRecord; a committed record keeps its last epoch here, which
\* the code forgets and never reads again.
Record == [kind : Kinds, policy : ReplayPolicies,
           state : {"Prepared", "Committed"}, epoch : Epochs]

Fence == [epoch : Epochs, operations : [OperationIds -> Record \cup {NoRecord}]]

ASSUME RecordAssumption == NoRecord \notin Record /\ NoFence \notin Fence

-----------------------------------------------------------------------------
NewFence(epoch) ==
    [epoch |-> epoch, operations |-> [id \in OperationIds |-> NoRecord]]

\* advance: the ledger is kept.
MayAdvance(fence, proposed) == proposed > fence.epoch

Advanced(fence, proposed) == [fence EXCEPT !.epoch = proposed]

\* The record an operation finds under its identity.
Existing(fence, op) == fence.operations[op.id]

Known(fence, op) == Existing(fence, op) # NoRecord

\* OperationIdentityConflict: the identity was reused with other semantics.
SameSemantics(record, op) == record.kind = op.kind /\ record.policy = op.policy

Prepared(op) == [kind |-> op.kind, policy |-> op.policy, state |-> "Prepared",
                 epoch |-> op.epoch]

-----------------------------------------------------------------------------
(* begin: the admission decision, and the fence it leaves behind *)

\* Mutant: an operation interrupted by a crash always runs again.
ReplayAdmissionAlways(policy) ==
    IF policy = "Idempotent" THEN "ExecuteIdempotentReplay" ELSE "ExecuteReplay"

\* What an attempt of an earlier epoch left behind decides by its policy.
ReplayAdmission(policy) ==
    CASE policy = "Replayable" -> "ExecuteReplay"
      [] policy = "Idempotent" -> "ExecuteIdempotentReplay"
      [] policy = "AtMostOnce" -> "IndeterminateSuppressed"

\* Mutant: a committed operation is treated like an interrupted one.
AdmissionForgetful(fence, op) ==
    LET record == Existing(fence, op) IN
    CASE op.epoch # fence.epoch -> "StaleEpoch"
      [] op.epoch = fence.epoch /\ record = NoRecord -> "ExecuteFirst"
      [] OTHER -> IF ~SameSemantics(record, op) THEN "OperationIdentityConflict"
                  ELSE IF record.state = "Prepared" /\ record.epoch = op.epoch
                       THEN "DuplicateSuppressed"
                       ELSE ReplayAdmission(op.policy)

Admission(fence, op) ==
    LET record == Existing(fence, op) IN
    CASE op.epoch # fence.epoch -> "StaleEpoch"
      [] op.epoch = fence.epoch /\ record = NoRecord -> "ExecuteFirst"
      [] OTHER -> IF ~SameSemantics(record, op) THEN "OperationIdentityConflict"
                  ELSE IF record.state = "Committed" \/ record.epoch = op.epoch
                       THEN "DuplicateSuppressed"
                       ELSE ReplayAdmission(op.policy)

Executes(admission) ==
    admission \in {"ExecuteFirst", "ExecuteReplay", "ExecuteIdempotentReplay"}

\* Only an admission that executes writes the ledger.
Begun(fence, op) ==
    IF Executes(Admission(fence, op))
    THEN [fence EXCEPT !.operations[op.id] = Prepared(op)]
    ELSE fence

-----------------------------------------------------------------------------
(* commit and retire_committed *)

\* Mutant: a completion of an earlier epoch commits a later attempt.
MayCommitStale(fence, op) ==
    /\ Known(fence, op)
    /\ SameSemantics(Existing(fence, op), op)
    /\ Existing(fence, op).state = "Prepared"

\* The commit that changes the ledger: a prepared record of the same epoch.
MayCommit(fence, op) ==
    /\ op.epoch = fence.epoch
    /\ Known(fence, op)
    /\ SameSemantics(Existing(fence, op), op)
    /\ Existing(fence, op).state = "Prepared"
    /\ Existing(fence, op).epoch = op.epoch

Committed(fence, op) == [fence EXCEPT !.operations[op.id].state = "Committed"]

MayRetire(fence, op) ==
    /\ Known(fence, op)
    /\ SameSemantics(Existing(fence, op), op)
    /\ Existing(fence, op).state = "Committed"

Retired(fence, op) == [fence EXCEPT !.operations[op.id] = NoRecord]
=============================================================================
