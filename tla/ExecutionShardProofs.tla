------------------------ MODULE ExecutionShardProofs ------------------------
(***************************************************************************)
(* The proofs about a shard, its supervisor first and then its owner.      *)
(*                                                                         *)
(* What the epoch fence guarantees, for every set of operations and every  *)
(* restart policy: the type invariant, the expect() calls of the           *)
(* supervisor, the at-most-once discipline of the ledger, and the bound on *)
(* restarts and on the wait before each.                                   *)
(*                                                                         *)
(* What the owner of a shard keeps, for any number of actors, operations,  *)
(* timer delays and generations, through crashes, recovery and replacement *)
(* of the image: fresh identities, exact continuations, timers that belong *)
(* to a wait, and no accepted work or envelope lost to an unload.          *)
(***************************************************************************)
EXTENDS ExecutionShard, FiniteSetTheorems, NaturalsInduction,
        WellFoundedInduction, TLAPS

(***************************************************************************)
(* The supervisor: theorems of Spec.                                       *)
(***************************************************************************)


(* The inductive invariant *)

\* An identity that never executed has no epoch and cannot have committed.
Untouched ==
    \A id \in OperationIds :
       effects[id].count = 0 => effects[id].last = NoEpoch /\ id \notin done

\* An identity a caller may present again is either recorded or untouched.
Remembered ==
    \A id \in OperationIds \ InternalIds :
       (epoch_fence = NoFence \/ epoch_fence.operations[id] = NoRecord) =>
          effects[id].count = 0

\* What a record says of the executions behind it.
RecordFaithful(id) ==
    LET record == epoch_fence.operations[id] IN
    record # NoRecord =>
       /\ effects[id].count # 0
       /\ record.epoch = effects[id].last
       /\ record.epoch <= epoch_fence.epoch
       /\ record.state = "Committed" <=> id \in done
       /\ record.policy = "AtMostOnce" => effects[id].count = 1

LedgerFaithful ==
    epoch_fence # NoFence => \A id \in OperationIds : RecordFaithful(id)

\* The operation in the owner-local slot executed once, in this epoch, and is
\* not in the ledger.
SlotFaithful ==
    internal_operation # NoOperation =>
       LET id == internal_operation.id IN
       /\ id \in InternalIds
       /\ effects[id].count # 0
       /\ effects[id].last = internal_operation.epoch
       /\ id \notin done
       /\ epoch_fence # NoFence
       /\ epoch_fence.operations[id] = NoRecord

LedgerInv == Untouched /\ Remembered /\ LedgerFaithful /\ SlotFaithful

IInv == TypeOK /\ ExpectsHold /\ InternalSlotCurrent /\ LedgerInv

-----------------------------------------------------------------------------
(* The pure operators of the fence *)

\* An operation is executed only in the fence's epoch, and only when its
\* identity is unknown or was left prepared by an earlier epoch under a policy
\* that allows it to run again (VmShardEpochFence::begin).
LEMMA AdmissionExecutes ==
    ASSUME NEW fence \in Fence, NEW op \in Operation,
           Executes(Admission(fence, op))
    PROVE  /\ op.epoch = fence.epoch
           /\ \/ fence.operations[op.id] = NoRecord
              \/ /\ fence.operations[op.id] # NoRecord
                 /\ fence.operations[op.id].state # "Committed"
                 /\ fence.operations[op.id].epoch # op.epoch
                 /\ op.policy # "AtMostOnce"
<1>1. op.policy \in ReplayPolicies
  BY DEF Operation
<1>2. ~Executes("StaleEpoch") /\ ~Executes("OperationIdentityConflict")
      /\ ~Executes("DuplicateSuppressed") /\ ~Executes("IndeterminateSuppressed")
  BY DEF Executes
<1>3. op.epoch = fence.epoch
  BY <1>2 DEF Admission
<1>4. CASE fence.operations[op.id] = NoRecord
  BY <1>3, <1>4
<1>5. CASE fence.operations[op.id] # NoRecord
  <2>1. Admission(fence, op) =
          IF ~SameSemantics(fence.operations[op.id], op)
          THEN "OperationIdentityConflict"
          ELSE IF \/ fence.operations[op.id].state = "Committed"
                  \/ fence.operations[op.id].epoch = op.epoch
               THEN "DuplicateSuppressed"
               ELSE ReplayAdmission(op.policy)
    BY <1>3, <1>5 DEF Admission, Existing
  <2>2. /\ fence.operations[op.id].state # "Committed"
        /\ fence.operations[op.id].epoch # op.epoch
        /\ Executes(ReplayAdmission(op.policy))
    BY <2>1, <1>2
  <2>3. op.policy # "AtMostOnce"
    BY <2>2, <1>2 DEF ReplayAdmission
  <2> QED
    BY <1>3, <1>5, <2>2, <2>3
<1> QED
  BY <1>4, <1>5

\* The fence an executed admission leaves is the old one with the operation
\* prepared under its identity.
LEMMA BegunFence ==
    ASSUME NEW fence \in Fence, NEW op \in Operation,
           Executes(Admission(fence, op))
    PROVE  /\ Begun(fence, op) \in Fence
           /\ Begun(fence, op).epoch = fence.epoch
           /\ Begun(fence, op).operations[op.id] = Prepared(op)
           /\ \A id \in OperationIds : id # op.id =>
                 Begun(fence, op).operations[id] = fence.operations[id]
<1>1. Prepared(op) \in Record
  BY DEF Prepared, Operation, Record
<1> QED
  BY <1>1 DEF Begun, Fence, Operation

\* A commit changes the state of one record and nothing else.
LEMMA CommittedFence ==
    ASSUME NEW fence \in Fence, NEW op \in Operation, MayCommit(fence, op)
    PROVE  /\ Committed(fence, op) \in Fence
           /\ Committed(fence, op).epoch = fence.epoch
           /\ Committed(fence, op).operations[op.id] =
                 [fence.operations[op.id] EXCEPT !.state = "Committed"]
           /\ \A id \in OperationIds : id # op.id =>
                 Committed(fence, op).operations[id] = fence.operations[id]
<1>1. op.id \in OperationIds
  BY DEF Operation
<1>2. fence.operations[op.id] \in Record
  BY <1>1 DEF Fence, MayCommit, Known, Existing
<1>3. [fence.operations[op.id] EXCEPT !.state = "Committed"] \in Record
  BY <1>2 DEF Record
<1> QED
  BY <1>1, <1>2, <1>3 DEF Committed, Fence

\* Retirement forgets one identity and nothing else.
LEMMA RetiredFence ==
    ASSUME NEW fence \in Fence, NEW op \in Operation
    PROVE  /\ Retired(fence, op) \in Fence
           /\ Retired(fence, op).epoch = fence.epoch
           /\ Retired(fence, op).operations[op.id] = NoRecord
           /\ \A id \in OperationIds : id # op.id =>
                 Retired(fence, op).operations[id] = fence.operations[id]
  BY DEF Retired, Fence, Operation

\* A new or advanced fence: the epoch moves and the ledger stays.
LEMMA InstalledFence ==
    ASSUME NEW e \in Epochs
    PROVE  /\ NewFence(e) \in Fence
           /\ NewFence(e).epoch = e
           /\ \A id \in OperationIds : NewFence(e).operations[id] = NoRecord
           /\ \A fence \in Fence :
                 /\ Advanced(fence, e) \in Fence
                 /\ Advanced(fence, e).epoch = e
                 /\ Advanced(fence, e).operations = fence.operations
  BY DEF NewFence, Advanced, Fence

-----------------------------------------------------------------------------
(* The invariant is inductive *)

\* A new supervisor satisfies the invariant.
LEMMA InitIInv == Init => IInv
<1> SUFFICES ASSUME Init PROVE IInv
  OBVIOUS
<1> USE EpochAssumption, PolicyAssumption, TickAssumption, RecordAssumption
<1>1. TypeOK
  BY DEF Init, TypeOK, Phases, Epochs, NoEpoch, NoSignals, NoDeadline
<1>2. ExpectsHold /\ InternalSlotCurrent
  BY DEF Init, ExpectsHold, InternalSlotCurrent, EpochPhases
<1>3. LedgerInv
  BY InternalAssumption
  DEF Init, LedgerInv, Untouched, Remembered, LedgerFaithful, SlotFaithful
<1> QED
  BY <1>1, <1>2, <1>3 DEF IInv

\* A step that leaves operations alone preserves what the ledger says.
LEMMA LedgerUnchanged ==
    LedgerInv /\ UNCHANGED operationVars => LedgerInv'
  BY DEF LedgerInv, Untouched, Remembered, LedgerFaithful, RecordFaithful,
         SlotFaithful, operationVars

\* A transition that only changes the phase.
LEMMA PhaseStepIInv ==
    ASSUME IInv, NEW from \in Phases, NEW to \in Phases, PhaseStep(from, to),
           to \in EpochPhases => from \in EpochPhases, to # "RestartBackoff"
    PROVE  IInv'
<1>1. TypeOK'
  BY DEF IInv, TypeOK, PhaseStep, generationVars, operationVars
<1>2. ExpectsHold' /\ InternalSlotCurrent'
  BY DEF IInv, ExpectsHold, InternalSlotCurrent, PhaseStep, generationVars,
         operationVars
<1>3. LedgerInv'
  BY LedgerUnchanged DEF IInv, PhaseStep
<1> QED
  BY <1>1, <1>2, <1>3 DEF IInv

\* Installing an image (install_next_image) preserves the invariant: the fence
\* moves to the reserved epoch and every record stays at or below it.
LEMMA InstallIInv ==
    ASSUME IInv, InstallNextImage
    PROVE  IInv'
<1> USE EpochAssumption, TickAssumption, RecordAssumption
<1>1. /\ next_epoch \in Epochs
      /\ next_epoch + 1 \in Epochs
      /\ next_epoch # NoEpoch
      /\ epoch_fence \in Fence \cup {NoFence}
  BY DEF IInv, TypeOK, InstallNextImage, Epochs, NoEpoch
<1>2. /\ epoch_fence' \in Fence
      /\ epoch_fence' # NoFence
      /\ epoch_fence'.epoch = next_epoch
  BY <1>1, InstalledFence DEF InstallNextImage
<1>3. TypeOK'
  BY <1>1, <1>2 DEF IInv, TypeOK, InstallNextImage, Phases, NoSignals
<1>4. ExpectsHold' /\ InternalSlotCurrent'
  BY <1>1, <1>2
  DEF IInv, TypeOK, Epochs, ExpectsHold, InternalSlotCurrent, InstallNextImage,
      EpochPhases
<1>5. LedgerInv'
  <2>1. CASE epoch_fence = NoFence
    <3>1. \A id \in OperationIds : epoch_fence'.operations[id] = NoRecord
      BY <1>1, <2>1, InstalledFence DEF InstallNextImage
    <3> QED
      BY <2>1, <3>1
      DEF IInv, InstallNextImage, LedgerInv, Untouched, Remembered,
          LedgerFaithful, RecordFaithful, SlotFaithful
  <2>2. CASE epoch_fence # NoFence
    <3>1. epoch_fence'.operations = epoch_fence.operations
      BY <1>1, <2>2, InstalledFence DEF InstallNextImage
    <3>2. epoch_fence.epoch < next_epoch
      BY <2>2 DEF IInv, ExpectsHold
    <3>3. \A id \in OperationIds : RecordFaithful(id)'
      <4> SUFFICES ASSUME NEW id \in OperationIds,
                          epoch_fence.operations[id] # NoRecord
                   PROVE  RecordFaithful(id)'
        BY <3>1 DEF RecordFaithful
      <4>1. RecordFaithful(id)
        BY <2>2 DEF IInv, LedgerInv, LedgerFaithful
      <4>2. epoch_fence.operations[id].epoch \in Nat /\ epoch_fence.epoch \in Nat
        BY <1>1, <2>2 DEF Fence, Record, Epochs
      <4> QED
        BY <1>1, <1>2, <3>1, <3>2, <4>1, <4>2
        DEF RecordFaithful, InstallNextImage, Epochs
    <3> QED
      BY <2>2, <1>2, <3>1, <3>3
      DEF IInv, InstallNextImage, LedgerInv, Untouched, Remembered,
          LedgerFaithful, SlotFaithful
  <2> QED
    BY <2>1, <2>2
<1> QED
  BY <1>3, <1>4, <1>5 DEF IInv

\* Every lifecycle transition of the supervisor, crashes and restarts included,
\* preserves the invariant.
LEMMA LifecycleIInv ==
    ASSUME IInv, Lifecycle
    PROVE  IInv'
<1> USE EpochAssumption, TickAssumption
<1>1. CASE BeginNegotiation \/ Negotiate
  <2>1. PhaseStep("Created", "Negotiating") \/ PhaseStep("Negotiating", "Admitting")
    BY <1>1 DEF BeginNegotiation, Negotiate, PhaseStep
  <2> QED
    BY <2>1, PhaseStepIInv DEF Phases, EpochPhases
<1>2. CASE AdmitImage \/ ReplaceDrainedImage
  BY <1>2, InstallIInv DEF AdmitImage, ReplaceDrainedImage
<1>3. CASE AcknowledgeReady \/ BeginDrain \/ RequestGracefulStop \/ AcknowledgeStopped
  BY <1>3, PhaseStepIInv
  DEF AcknowledgeReady, BeginDrain, RequestGracefulStop, AcknowledgeStopped,
      Phases, EpochPhases
<1>4. CASE QuarantineDrainTimeout \/ ForceTerminate
  <2>1. TypeOK'
    BY <1>4 DEF IInv, TypeOK, QuarantineDrainTimeout, ForceTerminate, Phases,
                NoDeadline, generationVars, operationVars
  <2>2. ExpectsHold' /\ InternalSlotCurrent'
    BY <1>4 DEF IInv, ExpectsHold, InternalSlotCurrent, QuarantineDrainTimeout,
                ForceTerminate, EpochPhases, generationVars, operationVars
  <2>3. LedgerInv'
    BY <1>4, LedgerUnchanged DEF IInv, QuarantineDrainTimeout, ForceTerminate
  <2> QED
    BY <2>1, <2>2, <2>3 DEF IInv
<1>5. CASE ReportCrash
  <2>1. TypeOK'
    BY <1>5 DEF IInv, TypeOK, ReportCrash, ReportCrashAt, Phases, NoDeadline,
                generationVars, operationVars
  <2>2. ExpectsHold' /\ InternalSlotCurrent'
    BY <1>5 DEF IInv, ExpectsHold, InternalSlotCurrent, ReportCrash,
                ReportCrashAt, EpochPhases, NoDeadline, generationVars,
                operationVars
  <2>3. LedgerInv'
    BY <1>5, LedgerUnchanged DEF IInv, ReportCrash, ReportCrashAt
  <2> QED
    BY <2>1, <2>2, <2>3 DEF IInv
<1>6. CASE RestartWhenDue
  <2>1. TypeOK'
    BY <1>6 DEF IInv, TypeOK, RestartWhenDue, Phases, NoDeadline, NoSignals
  <2>2. ExpectsHold' /\ InternalSlotCurrent'
    BY <1>6 DEF IInv, ExpectsHold, InternalSlotCurrent, RestartWhenDue,
                EpochPhases
  <2>3. LedgerInv'
    BY <1>6 DEF IInv, RestartWhenDue, LedgerInv, Untouched, Remembered,
                LedgerFaithful, RecordFaithful, SlotFaithful
  <2> QED
    BY <2>1, <2>2, <2>3 DEF IInv
<1> QED
  BY <1>1, <1>2, <1>3, <1>4, <1>5, <1>6 DEF Lifecycle

\* In the phases that admit operations the fence exists and is current.
LEMMA ActiveFence ==
    ASSUME IInv, phase \in ActivePhases
    PROVE  /\ epoch_fence \in Fence
           /\ epoch_fence # NoFence
           /\ epoch_fence.epoch = epoch
  BY RecordAssumption
  DEF IInv, TypeOK, ExpectsHold, ActivePhases, EpochPhases

\* The counters after the effect of an operation ran.
LEMMA ExecuteEffects ==
    ASSUME TypeOK, NEW op \in Operation, Execute(op)
    PROVE  /\ effects' \in [OperationIds -> [count : Nat, last : 0 .. MaxEpoch]]
           /\ effects'[op.id].count = effects[op.id].count + 1
           /\ effects'[op.id].last = op.epoch
           /\ \A id \in OperationIds : id # op.id => effects'[id] = effects[id]
  BY EpochAssumption DEF TypeOK, Execute, Operation, Epochs

\* begin_epoch_operation preserves the invariant when it admits an execution:
\* the identity is unknown and untouched, or was left prepared by an earlier
\* epoch under a policy other than at-most-once.
LEMMA BeginEpochIInv ==
    ASSUME IInv, NEW op \in Operation, BeginEpochOperation(op)
    PROVE  IInv'
<1>1. /\ epoch_fence \in Fence
      /\ epoch_fence # NoFence
      /\ epoch_fence.epoch = epoch
  BY ActiveFence DEF BeginEpochOperation
<1>2. Executes(Admission(epoch_fence, op)) /\ epoch_fence' = Begun(epoch_fence, op)
  BY DEF BeginEpochOperation
<1>3. /\ epoch_fence' \in Fence
      /\ epoch_fence'.epoch = epoch_fence.epoch
      /\ epoch_fence'.operations[op.id] = Prepared(op)
      /\ \A id \in OperationIds : id # op.id =>
            epoch_fence'.operations[id] = epoch_fence.operations[id]
  BY <1>1, <1>2, BegunFence
<1>4. epoch_fence' # NoFence
  BY <1>3, RecordAssumption
<1>5. /\ effects' \in [OperationIds -> [count : Nat, last : 0 .. MaxEpoch]]
      /\ effects'[op.id].count = effects[op.id].count + 1
      /\ effects'[op.id].last = op.epoch
      /\ \A id \in OperationIds : id # op.id => effects'[id] = effects[id]
  BY ExecuteEffects DEF IInv, BeginEpochOperation
<1>6. TypeOK'
  BY <1>3, <1>5
  DEF IInv, TypeOK, BeginEpochOperation, generationVars, lifecycleVars
<1>7. ExpectsHold' /\ InternalSlotCurrent'
  BY <1>1, <1>3, <1>4
  DEF IInv, ExpectsHold, InternalSlotCurrent, BeginEpochOperation,
      generationVars, lifecycleVars
<1>8. LedgerInv'
  <2>1. /\ op.id \in OperationIds
        /\ op.epoch \in Epochs
        /\ Prepared(op) # NoRecord
        /\ effects[op.id].count \in Nat
    BY RecordAssumption
    DEF Operation, Prepared, Record, IInv, TypeOK
  <2>2. done' = done /\ internal_operation' = internal_operation
    BY DEF BeginEpochOperation
  <2>3. op.epoch = epoch_fence.epoch
    BY <1>1, <1>2, AdmissionExecutes
  <2>4. op.id \notin done
    <3>1. CASE epoch_fence.operations[op.id] = NoRecord
      <4>1. effects[op.id].count = 0
        BY <3>1, <2>1 DEF IInv, LedgerInv, Remembered, BeginEpochOperation, Fresh
      <4> QED
        BY <4>1, <2>1 DEF IInv, LedgerInv, Untouched
    <3>2. CASE epoch_fence.operations[op.id] # NoRecord
      <4>1. epoch_fence.operations[op.id].state # "Committed"
        BY <3>2, <1>1, <1>2, AdmissionExecutes
      <4> QED
        BY <4>1, <3>2, <2>1, <1>1
        DEF IInv, LedgerInv, LedgerFaithful, RecordFaithful
    <3> QED
      BY <3>1, <3>2
  <2>5. op.policy = "AtMostOnce" => effects[op.id].count = 0
    <3> SUFFICES ASSUME op.policy = "AtMostOnce"
                 PROVE  effects[op.id].count = 0
      OBVIOUS
    <3>1. epoch_fence.operations[op.id] = NoRecord
      BY <1>1, <1>2, AdmissionExecutes
    <3> QED
      BY <3>1, <2>1 DEF IInv, LedgerInv, Remembered, BeginEpochOperation, Fresh
  <2>6. Untouched'
    BY <1>5, <2>1, <2>2 DEF IInv, LedgerInv, Untouched
  <2>7. Remembered'
    BY <1>1, <1>3, <1>4, <1>5, <2>1 DEF IInv, LedgerInv, Remembered
  <2>8. LedgerFaithful'
    <3> SUFFICES ASSUME NEW id \in OperationIds
                 PROVE  RecordFaithful(id)'
      BY DEF LedgerFaithful
    <3>1. CASE id = op.id
      BY <3>1, <1>3, <1>5, <2>1, <2>2, <2>3, <2>4, <2>5
      DEF RecordFaithful, Prepared, Epochs
    <3>2. CASE id # op.id
      <4>1. RecordFaithful(id)
        BY <1>1 DEF IInv, LedgerInv, LedgerFaithful
      <4> QED
        BY <3>2, <4>1, <1>3, <1>5, <2>2 DEF RecordFaithful
    <3> QED
      BY <3>1, <3>2
  <2>9. SlotFaithful'
    <3> SUFFICES ASSUME internal_operation # NoOperation
                 PROVE  SlotFaithful'
      BY <2>2 DEF SlotFaithful
    <3>1. internal_operation.id \in OperationIds
      BY DEF IInv, TypeOK, Operation
    <3>2. internal_operation.id # op.id
      BY DEF IInv, LedgerInv, SlotFaithful, BeginEpochOperation, Fresh
    <3> QED
      BY <3>1, <3>2, <1>3, <1>4, <1>5, <2>2 DEF IInv, LedgerInv, SlotFaithful
  <2> QED
    BY <2>6, <2>7, <2>8, <2>9 DEF LedgerInv
<1> QED
  BY <1>6, <1>7, <1>8 DEF IInv

\* commit_epoch_operation preserves the invariant: the record it commits is the
\* one the last execution of the identity prepared.
LEMMA CommitEpochIInv ==
    ASSUME IInv, NEW op \in Operation, CommitEpochOperation(op)
    PROVE  IInv'
<1>1. /\ epoch_fence \in Fence
      /\ epoch_fence # NoFence
      /\ epoch_fence.epoch = epoch
      /\ MayCommit(epoch_fence, op)
      /\ epoch_fence' = Committed(epoch_fence, op)
  BY ActiveFence DEF CommitEpochOperation
<1>2. /\ epoch_fence' \in Fence
      /\ epoch_fence'.epoch = epoch_fence.epoch
      /\ epoch_fence'.operations[op.id] =
            [epoch_fence.operations[op.id] EXCEPT !.state = "Committed"]
      /\ \A id \in OperationIds : id # op.id =>
            epoch_fence'.operations[id] = epoch_fence.operations[id]
  BY <1>1, CommittedFence
<1>3. epoch_fence' # NoFence
  BY <1>2, RecordAssumption
<1>4. /\ op.id \in OperationIds
      /\ epoch_fence.operations[op.id] \in Record
      /\ epoch_fence.operations[op.id] # NoRecord
  BY <1>1 DEF Operation, Fence, MayCommit, Known, Existing
<1>5. /\ epoch_fence'.operations[op.id] \in Record
      /\ epoch_fence'.operations[op.id] # NoRecord
      /\ epoch_fence'.operations[op.id].state = "Committed"
      /\ epoch_fence'.operations[op.id].epoch = epoch_fence.operations[op.id].epoch
      /\ epoch_fence'.operations[op.id].policy = epoch_fence.operations[op.id].policy
  BY <1>2, <1>4, RecordAssumption DEF Record
<1>6. TypeOK'
  BY <1>2, <1>4
  DEF IInv, TypeOK, CommitEpochOperation, generationVars, lifecycleVars
<1>7. ExpectsHold' /\ InternalSlotCurrent'
  BY <1>1, <1>2, <1>3
  DEF IInv, ExpectsHold, InternalSlotCurrent, CommitEpochOperation,
      generationVars, lifecycleVars
<1>8. LedgerInv'
  <2>1. /\ effects' = effects
        /\ done' = done \cup {op.id}
        /\ internal_operation' = internal_operation
    BY DEF CommitEpochOperation
  <2>2. RecordFaithful(op.id)
    BY <1>1, <1>4 DEF IInv, LedgerInv, LedgerFaithful
  <2>3. Untouched'
    BY <1>4, <2>1, <2>2 DEF IInv, LedgerInv, Untouched, RecordFaithful
  <2>4. Remembered'
    BY <1>1, <1>2, <1>3, <1>4, <1>5, <2>1 DEF IInv, LedgerInv, Remembered
  <2>5. LedgerFaithful'
    <3> SUFFICES ASSUME NEW id \in OperationIds
                 PROVE  RecordFaithful(id)'
      BY DEF LedgerFaithful
    <3>1. CASE id = op.id
      BY <3>1, <1>2, <1>4, <1>5, <2>1, <2>2 DEF RecordFaithful
    <3>2. CASE id # op.id
      <4>1. RecordFaithful(id)
        BY <1>1 DEF IInv, LedgerInv, LedgerFaithful
      <4> QED
        BY <3>2, <4>1, <1>2, <2>1 DEF RecordFaithful
    <3> QED
      BY <3>1, <3>2
  <2>6. SlotFaithful'
    <3> SUFFICES ASSUME internal_operation # NoOperation
                 PROVE  SlotFaithful'
      BY <2>1 DEF SlotFaithful
    <3>1. internal_operation.id \in OperationIds /\ internal_operation.id # op.id
      BY <1>4 DEF IInv, TypeOK, Operation, LedgerInv, SlotFaithful
    <3> QED
      BY <3>1, <1>2, <1>3, <2>1 DEF IInv, LedgerInv, SlotFaithful
  <2> QED
    BY <2>3, <2>4, <2>5, <2>6 DEF LedgerInv
<1> QED
  BY <1>6, <1>7, <1>8 DEF IInv

\* retire_internal_operation preserves the invariant: it forgets an identity the
\* owner never generates again.
LEMMA RetireIInv ==
    ASSUME IInv, NEW op \in Operation, RetireInternalOperation(op)
    PROVE  IInv'
<1>1. /\ op.id \in OperationIds
      /\ op.id \in InternalIds
      /\ epoch_fence \in Fence
      /\ epoch_fence # NoFence
      /\ epoch_fence' = Retired(epoch_fence, op)
  BY DEF RetireInternalOperation, Operation, IInv, TypeOK
<1>2. /\ epoch_fence' \in Fence
      /\ epoch_fence'.epoch = epoch_fence.epoch
      /\ epoch_fence'.operations[op.id] = NoRecord
      /\ \A id \in OperationIds : id # op.id =>
            epoch_fence'.operations[id] = epoch_fence.operations[id]
  BY <1>1, RetiredFence
<1>3. epoch_fence' # NoFence
  BY <1>2, RecordAssumption
<1>4. TypeOK'
  BY <1>2 DEF IInv, TypeOK, RetireInternalOperation, generationVars,
              lifecycleVars
<1>5. ExpectsHold' /\ InternalSlotCurrent'
  BY <1>1, <1>2, <1>3
  DEF IInv, ExpectsHold, InternalSlotCurrent, RetireInternalOperation,
      generationVars, lifecycleVars
<1>6. LedgerInv'
  <2>1. effects' = effects /\ done' = done /\ internal_operation' = internal_operation
    BY DEF RetireInternalOperation
  <2>2. Untouched'
    BY <2>1 DEF IInv, LedgerInv, Untouched
  <2>3. Remembered'
    BY <1>1, <1>2, <1>3, <2>1 DEF IInv, LedgerInv, Remembered
  <2>4. LedgerFaithful'
    <3> SUFFICES ASSUME NEW id \in OperationIds, id # op.id
                 PROVE  RecordFaithful(id)'
      BY <1>2 DEF LedgerFaithful, RecordFaithful
    <3>1. RecordFaithful(id)
      BY <1>1 DEF IInv, LedgerInv, LedgerFaithful
    <3> QED
      BY <3>1, <1>2, <2>1 DEF RecordFaithful
  <2>5. SlotFaithful'
    <3> SUFFICES ASSUME internal_operation # NoOperation
                 PROVE  SlotFaithful'
      BY <2>1 DEF SlotFaithful
    <3>1. internal_operation.id \in OperationIds
      BY DEF IInv, TypeOK, Operation
    <3> QED
      BY <3>1, <1>2, <1>3, <2>1 DEF IInv, LedgerInv, SlotFaithful
  <2> QED
    BY <2>2, <2>3, <2>4, <2>5 DEF LedgerInv
<1> QED
  BY <1>4, <1>5, <1>6 DEF IInv

\* begin_internal_operation preserves the invariant: the slot is empty and the
\* identity has never executed.
LEMMA BeginInternalIInv ==
    ASSUME IInv, NEW op \in Operation, BeginInternalOperation(op)
    PROVE  IInv'
<1>1. /\ epoch_fence \in Fence
      /\ epoch_fence # NoFence
      /\ epoch_fence.epoch = epoch
  BY ActiveFence DEF BeginInternalOperation
<1>2. /\ op.id \in OperationIds
      /\ op.id \in InternalIds
      /\ op.epoch = epoch
      /\ op # NoOperation
      /\ effects[op.id].count = 0
  BY OperationAssumption DEF BeginInternalOperation, Fresh, Operation
<1>3. /\ effects' \in [OperationIds -> [count : Nat, last : 0 .. MaxEpoch]]
      /\ effects'[op.id].count = effects[op.id].count + 1
      /\ effects'[op.id].last = op.epoch
      /\ \A id \in OperationIds : id # op.id => effects'[id] = effects[id]
  BY ExecuteEffects DEF IInv, BeginInternalOperation
<1>4. epoch_fence' = epoch_fence /\ done' = done /\ internal_operation' = op
  BY DEF BeginInternalOperation
<1>5. TypeOK'
  BY <1>3, <1>4
  DEF IInv, TypeOK, BeginInternalOperation, generationVars, lifecycleVars
<1>6. ExpectsHold' /\ InternalSlotCurrent'
  BY <1>2, <1>4
  DEF IInv, ExpectsHold, InternalSlotCurrent, BeginInternalOperation,
      generationVars, lifecycleVars
<1>7. LedgerInv'
  <2>1. epoch_fence.operations[op.id] = NoRecord /\ op.id \notin done
    BY <1>1, <1>2
    DEF IInv, LedgerInv, LedgerFaithful, RecordFaithful, Untouched
  <2>2. Untouched'
    BY <1>2, <1>3, <1>4 DEF IInv, LedgerInv, Untouched
  <2>3. Remembered'
    BY <1>2, <1>3, <1>4 DEF IInv, LedgerInv, Remembered
  <2>4. LedgerFaithful'
    <3> SUFFICES ASSUME NEW id \in OperationIds, id # op.id
                 PROVE  RecordFaithful(id)'
      BY <1>4, <2>1 DEF LedgerFaithful, RecordFaithful
    <3>1. RecordFaithful(id)
      BY <1>1 DEF IInv, LedgerInv, LedgerFaithful
    <3> QED
      BY <3>1, <1>3, <1>4 DEF RecordFaithful
  <2>5. SlotFaithful'
    BY <1>1, <1>2, <1>3, <1>4, <2>1 DEF SlotFaithful
  <2> QED
    BY <2>2, <2>3, <2>4, <2>5 DEF LedgerInv
<1> QED
  BY <1>5, <1>6, <1>7 DEF IInv

\* commit_internal_operation and abort_internal_operation preserve the
\* invariant: the identity of the slot is in no record.
LEMMA EndInternalIInv ==
    ASSUME IInv, NEW op \in Operation,
           CommitInternalOperation(op) \/ AbortInternalOperation(op)
    PROVE  IInv'
<1>1. /\ op.id \in OperationIds
      /\ internal_operation = op
      /\ op # NoOperation
      /\ internal_operation' = NoOperation
      /\ epoch_fence' = epoch_fence
      /\ effects' = effects
      /\ done' \in {done, done \cup {op.id}}
  BY OperationAssumption
  DEF CommitInternalOperation, AbortInternalOperation, Operation
<1>2. TypeOK'
  BY <1>1 DEF IInv, TypeOK, CommitInternalOperation, AbortInternalOperation,
              generationVars, lifecycleVars
<1>3. ExpectsHold' /\ InternalSlotCurrent'
  BY <1>1
  DEF IInv, ExpectsHold, InternalSlotCurrent, CommitInternalOperation,
      AbortInternalOperation, generationVars, lifecycleVars
<1>4. LedgerInv'
  <2>1. /\ op.id \in InternalIds
        /\ effects[op.id].count # 0
        /\ epoch_fence # NoFence
        /\ epoch_fence.operations[op.id] = NoRecord
    BY <1>1 DEF IInv, LedgerInv, SlotFaithful
  <2>2. Untouched' /\ Remembered' /\ SlotFaithful'
    BY <1>1, <2>1
    DEF IInv, LedgerInv, Untouched, Remembered, SlotFaithful
  <2>3. LedgerFaithful'
    <3> SUFFICES ASSUME NEW id \in OperationIds, id # op.id
                 PROVE  RecordFaithful(id)'
      BY <1>1, <2>1 DEF LedgerFaithful, RecordFaithful
    <3>1. RecordFaithful(id)
      BY <2>1 DEF IInv, LedgerInv, LedgerFaithful
    <3> QED
      BY <3>1, <1>1 DEF RecordFaithful
  <2> QED
    BY <2>2, <2>3 DEF LedgerInv
<1> QED
  BY <1>2, <1>3, <1>4 DEF IInv

\* Health and progress signals and the clock preserve the invariant.
LEMMA QuietIInv ==
    ASSUME IInv,
           Tick \/ \E sequence \in 1 .. MaxSequence : Signal(sequence)
    PROVE  IInv'
<1> USE TickAssumption
<1>1. TypeOK'
  BY DEF IInv, TypeOK, Tick, Signal, SignalHealth, SignalProgress,
         lifecycleVars, generationVars, operationVars
<1>2. ExpectsHold' /\ InternalSlotCurrent'
  BY DEF IInv, ExpectsHold, InternalSlotCurrent, Tick, Signal, SignalHealth,
         SignalProgress, lifecycleVars, generationVars, operationVars
<1>3. LedgerInv'
  BY LedgerUnchanged DEF IInv, Tick, Signal, SignalHealth, SignalProgress
<1> QED
  BY <1>1, <1>2, <1>3 DEF IInv

\* The invariant is preserved by every step of the supervisor.
LEMMA NextIInv == IInv /\ [Next]_vars => IInv'
<1> SUFFICES ASSUME IInv, [Next]_vars PROVE IInv'
  OBVIOUS
<1>1. CASE Lifecycle
  BY <1>1, LifecycleIInv
<1>2. ASSUME NEW op \in Operation, OperationStep(op) PROVE IInv'
  BY <1>2, BeginEpochIInv, CommitEpochIInv, RetireIInv, BeginInternalIInv,
     EndInternalIInv
  DEF OperationStep
<1>3. CASE Tick \/ \E sequence \in 1 .. MaxSequence : Signal(sequence)
  BY <1>3, QuietIInv
<1>4. CASE UNCHANGED vars
  <2>1. TypeOK' /\ ExpectsHold' /\ InternalSlotCurrent'
    BY <1>4 DEF IInv, TypeOK, ExpectsHold, InternalSlotCurrent, vars
  <2>2. LedgerInv'
    BY <1>4, LedgerUnchanged DEF IInv, vars, operationVars
  <2> QED
    BY <2>1, <2>2 DEF IInv
<1> QED
  BY <1>1, <1>2, <1>3, <1>4 DEF Next

-----------------------------------------------------------------------------
(* Theorems *)

\* The inductive invariant holds in every reachable state of the supervisor.
THEOREM Invariance == Spec => []IInv
  BY InitIInv, NextIInv, PTL DEF Spec

\* The supervisor's fields keep the shape the code gives them; in particular
\* the reserved epoch never runs past the largest one.
THEOREM TypeCorrect == Spec => []TypeOK
<1>1. IInv => TypeOK
  BY DEF IInv
<1> QED
  BY <1>1, Invariance, PTL

\* The expect() calls of execution_shard_supervisor.rs never panic and a
\* replacement epoch always advances the fence.
THEOREM ExpectsNeverPanic == Spec => []ExpectsHold
<1>1. IInv => ExpectsHold
  BY DEF IInv
<1> QED
  BY <1>1, Invariance, PTL

\* No operation of the owner-local slot outlives its shard generation.
THEOREM SlotCurrent == Spec => []InternalSlotCurrent
<1>1. IInv => InternalSlotCurrent
  BY DEF IInv
<1> QED
  BY <1>1, Invariance, PTL

\* An at-most-once operation in the ledger executed exactly once, whatever
\* crashes, restarts, image replacements and duplicate requests happened.
THEOREM AtMostOnce == Spec => []AtMostOnceEffect
<1>1. IInv => AtMostOnceEffect
  BY DEF IInv, LedgerInv, LedgerFaithful, RecordFaithful, AtMostOnceEffect
<1> QED
  BY <1>1, Invariance, PTL

\* Which steps execute an effect, and from which state: the identity has not
\* committed, and the epoch that executes it is later than the last one.
LEMMA ExecutionStep ==
    ASSUME IInv, Next, NEW id \in OperationIds, effects'[id] # effects[id]
    PROVE  id \notin done /\ effects[id].last < effects'[id].last
<1>1. PICK op \in Operation : BeginEpochOperation(op) \/ BeginInternalOperation(op)
  <2>1. ~UNCHANGED effects
    OBVIOUS
  <2> QED
    BY <2>1
    DEF Next, Lifecycle, BeginNegotiation, Negotiate, AdmitImage,
        ReplaceDrainedImage, InstallNextImage, AcknowledgeReady, BeginDrain,
        RequestGracefulStop, AcknowledgeStopped, PhaseStep,
        QuarantineDrainTimeout, ReportCrash, ReportCrashAt, RestartWhenDue,
        ForceTerminate, Tick, Signal, SignalHealth, SignalProgress,
        OperationStep, CommitEpochOperation, RetireInternalOperation,
        CommitInternalOperation, AbortInternalOperation, operationVars
<1>2. /\ op.id = id
      /\ effects'[id].last = op.epoch
      /\ op.epoch \in Epochs
  <2>1. Execute(op)
    BY <1>1 DEF BeginEpochOperation, BeginInternalOperation
  <2>2. /\ effects'[op.id].last = op.epoch
        /\ \A i \in OperationIds : i # op.id => effects'[i] = effects[i]
    BY <2>1, ExecuteEffects DEF IInv
  <2> QED
    BY <2>2 DEF Operation
<1>3. effects[id].count = 0 => /\ id \notin done
                               /\ effects[id].last < effects'[id].last
  BY <1>2 DEF IInv, LedgerInv, Untouched, Epochs, NoEpoch
<1>4. CASE BeginInternalOperation(op)
  BY <1>2, <1>3, <1>4 DEF BeginInternalOperation, Fresh
<1>5. CASE BeginEpochOperation(op)
  <2>1. /\ epoch_fence \in Fence
        /\ epoch_fence # NoFence
        /\ Executes(Admission(epoch_fence, op))
    BY <1>5, ActiveFence DEF BeginEpochOperation
  <2>2. CASE epoch_fence.operations[id] = NoRecord
    <3>1. effects[id].count = 0
      BY <1>2, <1>5, <2>2
      DEF IInv, LedgerInv, Remembered, BeginEpochOperation, Fresh
    <3> QED
      BY <3>1, <1>3
  <2>3. CASE epoch_fence.operations[id] # NoRecord
    <3>1. /\ op.epoch = epoch_fence.epoch
          /\ epoch_fence.operations[id].state # "Committed"
          /\ epoch_fence.operations[id].epoch # op.epoch
      BY <1>2, <2>1, <2>3, AdmissionExecutes
    <3>2. RecordFaithful(id)
      BY <2>1 DEF IInv, LedgerInv, LedgerFaithful
    <3>3. epoch_fence.operations[id].epoch \in Nat /\ epoch_fence.epoch \in Nat
      BY <2>1, <2>3 DEF Fence, Record, Epochs
    <3> QED
      BY <1>2, <2>3, <3>1, <3>2, <3>3 DEF RecordFaithful
  <2> QED
    BY <2>2, <2>3
<1> QED
  BY <1>1, <1>4, <1>5

\* A committed operation never executes again: not in its epoch, not after a
\* crash and restart, not after its record was retired.
THEOREM CommittedIsFinal == Spec => CommittedFinal
<1>1. IInv /\ [Next]_vars => [\A id \in done : effects'[id] = effects[id]]_vars
  BY ExecutionStep DEF IInv, TypeOK
<1> QED
  BY <1>1, Invariance, PTL DEF Spec, CommittedFinal

\* Every execution of an identity after its first belongs to a later epoch, so
\* no duplicate runs beside the attempt it duplicates.
THEOREM ReexecutionsAdvance == Spec => ReexecutionAdvances
<1>1. IInv /\ [Next]_vars =>
         [\A id \in OperationIds :
             effects'[id] # effects[id] => effects[id].last < effects'[id].last]_vars
  BY ExecutionStep
<1> QED
  BY <1>1, Invariance, PTL DEF Spec, ReexecutionAdvances

\* An operation commits only in the epoch that executed it last: a completion
\* that arrives after its shard generation is gone commits nothing.
THEOREM CommitsInEpoch == Spec => CommitInEpoch
<1>1. ASSUME IInv, Next, NEW id \in done' \ done
      PROVE  effects[id].last = epoch
  <2>1. PICK op \in Operation :
           CommitEpochOperation(op) \/ CommitInternalOperation(op)
    <3>1. ~UNCHANGED done
      BY <1>1
    <3> QED
      BY <1>1, <3>1
      DEF Next, Lifecycle, BeginNegotiation, Negotiate, AdmitImage,
          ReplaceDrainedImage, InstallNextImage, AcknowledgeReady, BeginDrain,
          RequestGracefulStop, AcknowledgeStopped, PhaseStep,
          QuarantineDrainTimeout, ReportCrash, ReportCrashAt, RestartWhenDue,
          ForceTerminate, Tick, Signal, SignalHealth, SignalProgress,
          OperationStep, BeginEpochOperation, RetireInternalOperation,
          BeginInternalOperation, AbortInternalOperation, operationVars
  <2>2. op.id = id /\ op.id \in OperationIds
    BY <1>1, <2>1 DEF CommitEpochOperation, CommitInternalOperation, Operation
  <2>3. CASE CommitEpochOperation(op)
    <3>1. /\ epoch_fence \in Fence
          /\ epoch_fence # NoFence
          /\ epoch_fence.epoch = epoch
          /\ MayCommit(epoch_fence, op)
      BY <1>1, <2>3, ActiveFence DEF CommitEpochOperation
    <3>2. RecordFaithful(id)
      BY <1>1, <2>2, <3>1 DEF IInv, LedgerInv, LedgerFaithful
    <3> QED
      BY <2>2, <3>1, <3>2 DEF RecordFaithful, MayCommit, Known, Existing
  <2>4. CASE CommitInternalOperation(op)
    BY <1>1, <2>2, <2>4, OperationAssumption
    DEF CommitInternalOperation, IInv, LedgerInv, SlotFaithful
  <2> QED
    BY <2>1, <2>3, <2>4
<1>2. IInv /\ [Next]_vars => [\A id \in done' \ done : effects[id].last = epoch]_vars
  BY <1>1
<1> QED
  BY <1>2, Invariance, PTL DEF Spec, CommitInEpoch

-----------------------------------------------------------------------------
(* The restart budget and its exponential schedule *)

\* A set of numbers that is not empty has a least element.
LEMMA LeastNumber ==
    ASSUME NEW T \in SUBSET Nat, T # {}
    PROVE  \E m \in T : \A k \in T : m <= k
<1>1. PICK m \in T : \A k \in T : ~(<<k, m>> \in OpToRel(<, Nat))
  BY NatLessThanWellFounded, WFMin
<1>2. \A k \in T : ~(k < m)
  BY <1>1 DEF OpToRel
<1> QED
  BY <1>2

\* A set with one element more has twice as many subsets: each of the old
\* ones, with and without the new element.
LEMMA SubsetsDouble ==
    ASSUME NEW A, IsFiniteSet(A), NEW x, x \notin A
    PROVE  Cardinality(SUBSET (A \cup {x})) = 2 * Cardinality(SUBSET A)
<1> DEFINE B == A \cup {x}
           P == SUBSET A
           Q == {X \in SUBSET B : x \in X}
           f == [X \in P |-> X \cup {x}]
<1>1. IsFiniteSet(P) /\ Cardinality(P) \in Nat
  BY FS_SUBSET, FS_CardinalityType
<1>2. f \in Bijection(P, Q)
  <2>1. \A X \in P : f[X] \in Q
    OBVIOUS
  <2>2. ASSUME NEW X \in P, NEW Y \in P, f[X] = f[Y] PROVE X = Y
    <3>1. x \notin X /\ x \notin Y
      OBVIOUS
    <3>2. X \cup {x} = Y \cup {x}
      BY <2>2
    <3> QED
      BY <3>1, <3>2
  <2>3. ASSUME NEW Z \in Q PROVE \E X \in P : f[X] = Z
    <3>1. Z \ {x} \in P
      OBVIOUS
    <3>2. (Z \ {x}) \cup {x} = Z
      OBVIOUS
    <3> QED
      BY <3>1, <3>2
  <2> QED
    BY <2>1, <2>2, <2>3 DEF Bijection, Injection, Surjection, IsInjective
<1>3. IsFiniteSet(Q) /\ Cardinality(Q) = Cardinality(P)
  BY <1>1, <1>2, FS_Bijection DEF ExistsBijection
<1>4. P \cap Q = {}
  OBVIOUS
<1>5. SUBSET B = P \cup Q
  <2>1. P \subseteq SUBSET B /\ Q \subseteq SUBSET B
    OBVIOUS
  <2>2. \A Z \in SUBSET B : x \notin Z => Z \in P
    OBVIOUS
  <2> QED
    BY <2>1, <2>2
<1>6. Cardinality(P \cup Q) = Cardinality(P) + Cardinality(Q) - Cardinality({})
  BY <1>1, <1>3, <1>4, FS_Union
<1>7. Cardinality({}) = 0
  BY FS_EmptySet
<1>8. Cardinality(SUBSET B) = 2 * Cardinality(P)
  <2> DEFINE c == Cardinality(P)
  <2>1. Cardinality(SUBSET B) = Cardinality(P \cup Q)
    BY <1>5
  <2>2. Cardinality(P \cup Q) = c + c - 0
    BY <1>3, <1>6, <1>7
  <2>3. c \in Nat
    BY <1>1
  <2> HIDE DEF B, P, Q, c
  <2>4. c + c - 0 = 2 * c
    BY <2>3
  <2> QED
    BY <2>1, <2>2, <2>4 DEF c
<1> QED
  BY <1>8

\* The powers of two double.
LEMMA PowerDoubles ==
    ASSUME NEW n \in Nat
    PROVE  2 ^ n \in Nat /\ 2 ^ (n + 1) = 2 * 2 ^ n
<1> DEFINE A == 1 .. n
<1>1. IsFiniteSet(A) /\ Cardinality(A) = n
  BY FS_Interval
<1>2. n + 1 \notin A
  OBVIOUS
<1> HIDE DEF A
<1>3. IsFiniteSet(A \cup {n + 1}) /\ Cardinality(A \cup {n + 1}) = n + 1
  BY <1>1, <1>2, FS_AddElement
<1>4. Cardinality(SUBSET (A \cup {n + 1})) = 2 * Cardinality(SUBSET A)
  BY <1>1, <1>2, SubsetsDouble
<1>5. Cardinality(SUBSET A) = 2 ^ n /\ Cardinality(SUBSET A) \in Nat
  BY <1>1, FS_SUBSET, FS_CardinalityType
<1>6. Cardinality(SUBSET (A \cup {n + 1})) = 2 ^ (n + 1)
  BY <1>3, FS_SUBSET
<1> QED
  BY <1>4, <1>5, <1>6

\* The exponential schedule, closed.
Capped(n) == IF n <= 1 THEN InitialDelay
             ELSE Lesser(InitialDelay * 2 ^ (n - 1), MaxDelay)

\* 2 ^ 0 = 1: the empty set has one subset.
LEMMA PowerZero == 2 ^ 0 = 1
<1>1. SUBSET {} = {{}}
  OBVIOUS
<1>2. Cardinality(SUBSET {}) = 2 ^ Cardinality({})
  BY FS_EmptySet, FS_SUBSET
<1>3. Cardinality({}) = 0 /\ Cardinality({{}}) = 1
  BY FS_EmptySet, FS_Singleton
<1> QED
  BY <1>1, <1>2, <1>3

\* The closed schedule obeys the rule of delay_for_restart_count.
LEMMA CappedDoubles ==
    ASSUME NEW n \in Nat, n > 1
    PROVE  Capped(n) = Lesser(2 * Capped(n - 1), MaxDelay) /\ Capped(n) \in Nat
<1>0. InitialDelay \in Nat /\ MaxDelay \in Nat
  BY PolicyAssumption
<1> DEFINE p == 2 ^ (n - 2)
           q == InitialDelay * p
<1>1. p \in Nat /\ 2 ^ (n - 1) = 2 * p
  <2>1. n - 2 \in Nat /\ (n - 2) + 1 = n - 1
    OBVIOUS
  <2> QED
    BY <2>1, PowerDoubles
<1>2. q \in Nat /\ InitialDelay * 2 ^ (n - 1) = 2 * q
  <2> HIDE DEF p
  <2>1. InitialDelay * (2 * p) = 2 * (InitialDelay * p)
    BY <1>0, <1>1
  <2> QED
    BY <1>0, <1>1, <2>1
<1>3. Capped(n) = Lesser(2 * q, MaxDelay)
  BY <1>2 DEF Capped
<1>4. CASE n = 2
  <2>1. p = 1
    BY <1>4, PowerZero
  <2>2. q = InitialDelay
    BY <2>1, <1>0
  <2> HIDE DEF p, q
  <2> QED
    BY <1>0, <1>2, <1>3, <1>4, <2>2 DEF Capped, Lesser
<1>5. CASE n > 2
  <2>1. (n - 1) - 1 = n - 2 /\ ~(n - 1 <= 1)
    BY <1>5
  <2>2. Capped(n - 1) = Lesser(q, MaxDelay)
    BY <2>1 DEF Capped
  <2> HIDE DEF p, q
  <2> QED
    BY <1>0, <1>2, <1>3, <2>2 DEF Lesser
<1> QED
  BY <1>4, <1>5

\* The recursive definition of the schedule defines a function.
LEMMA DoubledRule ==
    Doubled = [n \in Nat |-> IF n <= 1 THEN InitialDelay
                             ELSE Lesser(2 * Doubled[n - 1], MaxDelay)]
<1> DEFINE Rule(f) == f = [n \in Nat |-> IF n <= 1 THEN InitialDelay
                                         ELSE Lesser(2 * f[n - 1], MaxDelay)]
           c == [n \in Nat |-> Capped(n)]
<1>1. ASSUME NEW n \in Nat
      PROVE  c[n] = IF n <= 1 THEN InitialDelay ELSE Lesser(2 * c[n - 1], MaxDelay)
  <2>1. CASE n <= 1
    BY <2>1 DEF Capped
  <2>2. CASE n > 1
    <3>1. n - 1 \in Nat
      BY <2>2
    <3> QED
      BY <2>2, <3>1, CappedDoubles
  <2> QED
    BY <2>1, <2>2
<1>2. Rule(c)
  BY <1>1
<1>3. \E f : Rule(f)
  BY <1>2
<1>4. Rule(CHOOSE f : Rule(f))
  BY <1>3
<1> QED
  BY <1>4 DEF Doubled

\* The schedule is the closed one: by the least number at which they differ.
LEMMA DoubledIsCapped ==
    ASSUME NEW n \in Nat
    PROVE  Doubled[n] = Capped(n)
<1> DEFINE T == {m \in Nat : Doubled[m] # Capped(m)}
<1>1. SUFFICES ASSUME T # {} PROVE FALSE
  OBVIOUS
<1>2. PICK m \in T : \A k \in T : m <= k
  BY <1>1, LeastNumber
<1>3. m \in Nat /\ Doubled[m] # Capped(m)
  OBVIOUS
<1>4. Doubled[m] = IF m <= 1 THEN InitialDelay
                   ELSE Lesser(2 * Doubled[m - 1], MaxDelay)
  BY <1>3, DoubledRule
<1>5. CASE m <= 1
  BY <1>3, <1>4, <1>5 DEF Capped
<1>6. CASE m > 1
  <2>1. m - 1 \in Nat /\ m - 1 < m
    BY <1>3, <1>6
  <2>2. Doubled[m - 1] = Capped(m - 1)
    BY <1>2, <2>1
  <2> QED
    BY <1>3, <1>4, <1>6, <2>2, CappedDoubles
<1> QED
  BY <1>3, <1>5, <1>6

\* A wait is at most the capped exponential delay (delay_for_restart_count).
LEMMA DelayBound ==
    ASSUME NEW n \in Nat, n >= 1
    PROVE  /\ Delay(n) \in Nat
           /\ Lesser(InitialDelay * 2 ^ (n - 1), MaxDelay) \in Nat
           /\ Delay(n) <= Lesser(InitialDelay * 2 ^ (n - 1), MaxDelay)
<1>0. InitialDelay \in Nat /\ MaxDelay \in Nat
  BY PolicyAssumption
<1> DEFINE p == 2 ^ (n - 1)
           q == InitialDelay * p
<1>1. p \in Nat
  <2>1. n - 1 \in Nat
    OBVIOUS
  <2> QED
    BY <2>1, PowerDoubles
<1>2. q \in Nat
  <2> HIDE DEF p
  <2> QED
    BY <1>0, <1>1
<1>3. CASE n = 1
  <2>1. p = 1
    BY <1>3, PowerZero
  <2>2. q = InitialDelay
    BY <2>1, <1>0
  <2>3. Doubled[n] = InitialDelay
    BY <1>3, DoubledIsCapped DEF Capped
  <2> QED
    BY <1>0, <1>2, <2>2, <2>3 DEF Delay, Lesser
<1>4. CASE n > 1
  <2>1. Doubled[n] = Lesser(q, MaxDelay)
    BY <1>4, DoubledIsCapped DEF Capped
  <2> QED
    BY <1>0, <1>2, <2>1 DEF Delay, Lesser
<1> QED
  BY <1>3, <1>4

\* What a crash report leaves: the budget is counted, and a shard in backoff
\* has been counted at least once.
BackoffInv ==
    /\ RestartBounded
    /\ phase = "RestartBackoff" => restart_count >= 1

\* The bound is preserved by every step.
LEMMA NextBackoff ==
    ASSUME IInv, BackoffInv, [Next]_vars
    PROVE  BackoffInv'
<1>0. /\ RestartBudget \in Nat /\ restart_count \in Nat /\ now \in Nat
      /\ MaxTick \in Nat /\ restart_deadline_tick \in Nat
  BY PolicyAssumption, TickAssumption DEF IInv, TypeOK, NoDeadline
<1>1. CASE ReportCrash
  <2>1. restart_count' = restart_count + 1 /\ now' = now
    BY <1>1 DEF ReportCrash, ReportCrashAt
  <2>2. CASE restart_count >= RestartBudget
    BY <1>1, <2>2 DEF ReportCrash, ReportCrashAt, BackoffInv, RestartBounded
  <2>3. CASE ~(restart_count >= RestartBudget)
    <3>1. restart_deadline_tick' = now + Delay(restart_count + 1)
      BY <1>1, <2>3 DEF ReportCrash, ReportCrashAt
    <3>2. restart_count + 1 \in Nat /\ restart_count + 1 >= 1
          /\ restart_count + 1 <= RestartBudget
      BY <1>0, <2>3
    <3> DEFINE n == restart_count + 1
               b == Lesser(InitialDelay * 2 ^ (n - 1), MaxDelay)
    <3>3. Delay(n) \in Nat /\ b \in Nat /\ Delay(n) <= b
      BY <3>2, DelayBound
    <3>4. now + Delay(n) <= now + b
      <4> HIDE DEF n, b
      <4> QED
        BY <1>0, <3>3
    <3> QED
      BY <2>1, <3>1, <3>2, <3>4 DEF BackoffInv, RestartBounded
  <2> QED
    BY <2>2, <2>3
<1>2. CASE Tick
  <2>1. /\ now' = now + 1 /\ phase' = phase /\ restart_count' = restart_count
        /\ restart_deadline_tick' = restart_deadline_tick
    BY <1>2 DEF Tick, lifecycleVars
  <2>2. CASE phase = "RestartBackoff"
    <3> DEFINE b == Lesser(InitialDelay * 2 ^ (restart_count - 1), MaxDelay)
    <3>1. restart_count >= 1 /\ restart_deadline_tick <= now + b
      BY <2>2 DEF BackoffInv, RestartBounded
    <3>2. b \in Nat
      BY <1>0, <3>1, DelayBound
    <3>3. restart_deadline_tick <= (now + 1) + b
      <4> HIDE DEF b
      <4> QED
        BY <1>0, <3>1, <3>2
    <3> QED
      BY <2>1, <2>2, <3>1, <3>3 DEF BackoffInv, RestartBounded
  <2>3. CASE phase # "RestartBackoff"
    BY <2>1, <2>3 DEF BackoffInv, RestartBounded
  <2> QED
    BY <2>2, <2>3
<1>3. CASE BeginNegotiation \/ Negotiate \/ AdmitImage \/ ReplaceDrainedImage
           \/ AcknowledgeReady \/ BeginDrain \/ RequestGracefulStop
           \/ AcknowledgeStopped \/ QuarantineDrainTimeout \/ RestartWhenDue
           \/ ForceTerminate
  <2>1. restart_count' = restart_count /\ phase' # "RestartBackoff"
        /\ (phase' = "Quarantined" \/ phase # "Quarantined")
    BY <1>3 DEF BeginNegotiation, Negotiate, AdmitImage, ReplaceDrainedImage,
                InstallNextImage, AcknowledgeReady, BeginDrain,
                RequestGracefulStop, AcknowledgeStopped, PhaseStep,
                QuarantineDrainTimeout, RestartWhenDue, ForceTerminate
  <2> QED
    BY <2>1 DEF BackoffInv, RestartBounded
<1>4. CASE \/ \E op \in Operation : OperationStep(op)
           \/ \E sequence \in 1 .. MaxSequence : Signal(sequence)
           \/ UNCHANGED vars
  <2>1. UNCHANGED lifecycleVars /\ now' = now
    BY <1>4 DEF OperationStep, BeginEpochOperation, CommitEpochOperation,
                RetireInternalOperation, BeginInternalOperation,
                CommitInternalOperation, AbortInternalOperation, Signal,
                SignalHealth, SignalProgress, vars, lifecycleVars
  <2> QED
    BY <2>1 DEF BackoffInv, RestartBounded, lifecycleVars
<1> QED
  BY <1>1, <1>2, <1>3, <1>4 DEF Next, Lifecycle

\* A shard that keeps crashing is quarantined once its budget is spent, and
\* each wait before that is at most the capped exponential delay
\* (delay_for_restart_count, report_crash).
THEOREM RestartsAreBounded == Spec => []RestartBounded
<1>1. Init => BackoffInv
  BY PolicyAssumption DEF Init, BackoffInv, RestartBounded
<1>2. BackoffInv => RestartBounded
  BY DEF BackoffInv
<1> QED
  BY <1>1, <1>2, NextBackoff, Invariance, PTL DEF Spec

(***************************************************************************)
(* The owner: theorems of ShardSpec.                                       *)
(***************************************************************************)


(* The inductive invariant *)

\* From the first admission on there is a generation, and a fence in its epoch;
\* no method leaves an operation in the owner-local slot.
ImageCurrent ==
    /\ epoch \in Epochs
    /\ epoch < next_epoch
    /\ epoch_fence \in Fence
    /\ epoch_fence.epoch = epoch
    /\ internal_operation = NoOperation

\* A wait, held for however long, was issued with an identity that is spent
\* and by this generation or an earlier one.
WaitsIssued ==
    \A w \in waits : w.op.id < next_operation_sequence /\ w.op.epoch <= epoch

Current(w) == w.op.epoch = epoch

\* The actor a wait of this generation names is the one that issued it, and is
\* still parked at that boundary.
WaitsParked ==
    \A w \in waits : Current(w) =>
       actors[w.owner].at = w.kind /\ actors[w.owner].serial = w.serial

\* An actor has at most one wait of this generation.
WaitsSingle ==
    \A v, w \in waits : Current(v) /\ Current(w) /\ v.owner = w.owner => v = w

\* While calls are accepted, a timer belongs to a timer wait of this generation
\* and is due when the wait is.
TimersParked ==
    phase \in ActivePhases =>
       \A t \in timers : \E w \in waits :
          Current(w) /\ w.kind = "Timer" /\ w.owner = t.owner
          /\ w.deadline = t.deadline

\* The clock has fired everything that was due: no timer is behind it.
TimersAhead == \A t \in timers : last_clock_tick < t.deadline

Tables == WaitsIssued /\ WaitsParked /\ WaitsSingle /\ TimersParked /\ TimersAhead

ShardInv ==
    /\ ShardTypeOK
    /\ ImageCurrent
    /\ FreshAdmission
    /\ Tables
    /\ ContinuationExact
    /\ TransferPinsGeneration

-----------------------------------------------------------------------------
(* Operations and the ledger *)

\* What the assumptions on the constants say of identities and kinds.
LEMMA Constants ==
    /\ OperationIds = 1 .. MaxOperation
    /\ MaxOperation \in Nat
    /\ MaxEpoch \in Nat
    /\ {"ActorRoute", "CapabilityCompletion", "ContinuationResume",
        "TimerDelivery"} = Kinds
    /\ \A delay \in TimerDelays : delay \in Nat /\ delay > 0
    /\ MaxSpawned \in Nat
    /\ MaxTick \in Nat
    /\ \A r \in Record : r # NoRecord
BY SequenceAssumption, KindAssumption, DelayAssumption, EpochAssumption,
   TickAssumption, RecordAssumption

\* An operation made from an allocated sequence.
LEMMA OperationType ==
    ASSUME ShardInv, NEW n \in 1 .. MaxOperation, NEW kind \in Kinds
    PROVE  /\ OperationOf(n, kind) \in Operation
           /\ OperationOf(n, kind).id = n
           /\ OperationOf(n, kind).epoch = epoch
           /\ OperationOf(n, kind).kind = kind
BY Constants DEF OperationOf, Operation, ReplayPolicies, ShardInv, ImageCurrent

\* Sequences are allocated upwards.
LEMMA Allocated ==
    ASSUME ShardInv, NEW k \in {1, 2}, Allocate(k)
    PROVE  /\ next_operation_sequence \in 1 .. MaxOperation + 1
           /\ next_operation_sequence' = next_operation_sequence + k
           /\ next_operation_sequence' \in 1 .. MaxOperation + 1
           /\ Sequence(1) = next_operation_sequence
           /\ Sequence(1) \in 1 .. MaxOperation
           /\ k = 2 => Sequence(2) = next_operation_sequence + 1
                       /\ Sequence(2) \in 1 .. MaxOperation
BY Constants DEF Allocate, Sequence, ShardInv, ShardTypeOK

\* begin writes the record of its own operation, and a fresh identity is
\* admitted and prepared.
LEMMA BegunLedger ==
    ASSUME NEW fence \in Fence, NEW op \in Operation
    PROVE  /\ Begun(fence, op) \in Fence
           /\ Begun(fence, op).epoch = fence.epoch
           /\ \A id \in OperationIds : id # op.id =>
                 Begun(fence, op).operations[id] = fence.operations[id]
           /\ Admission(fence, op) = "ExecuteFirst" =>
                 Begun(fence, op).operations[op.id] \in Record
           /\ op.epoch = fence.epoch /\ fence.operations[op.id] = NoRecord =>
                 Admission(fence, op) = "ExecuteFirst"
<1>1. CASE Executes(Admission(fence, op))
  <2>1. Prepared(op) \in Record
    BY DEF Prepared, Record, Operation
  <2>2. Begun(fence, op).operations[op.id] \in Record
    BY <1>1, <2>1, BegunFence
  <2> QED BY <1>1, <2>2, BegunFence DEF Admission, Existing
<1>2. CASE ~Executes(Admission(fence, op))
  <2>1. Begun(fence, op) = fence
    BY <1>2 DEF Begun
  <2>2. Admission(fence, op) # "ExecuteFirst"
    BY <1>2 DEF Executes
  <2>3. op.epoch = fence.epoch /\ fence.operations[op.id] = NoRecord =>
           Admission(fence, op) = "ExecuteFirst"
    BY DEF Admission, Existing
  <2> QED BY <2>1, <2>2, <2>3
<1> QED BY <1>1, <1>2

\* commit of a recorded operation.
LEMMA CommittedLedger ==
    ASSUME NEW fence \in Fence, NEW op \in Operation,
           fence.operations[op.id] \in Record
    PROVE  /\ Committed(fence, op) \in Fence
           /\ Committed(fence, op).epoch = fence.epoch
           /\ \A id \in OperationIds : id # op.id =>
                 Committed(fence, op).operations[id] = fence.operations[id]
<1>1. op.id \in OperationIds
  BY DEF Operation
<1>2. [fence.operations[op.id] EXCEPT !.state = "Committed"] \in Record
  BY DEF Record
<1>3. Committed(fence, op) =
        [fence EXCEPT !.operations =
           [fence.operations EXCEPT ![op.id] =
              [fence.operations[op.id] EXCEPT !.state = "Committed"]]]
  BY DEF Committed
<1> QED BY <1>1, <1>2, <1>3 DEF Fence

\* commit_epoch_operation, with or without the retirement.
LEMMA SettledLedger ==
    ASSUME NEW fence \in Fence, NEW op \in Operation,
           fence.operations[op.id] \in Record
    PROVE  /\ Settled(fence, op) \in Fence
           /\ Settled(fence, op).epoch = fence.epoch
           /\ \A id \in OperationIds : id # op.id =>
                 Settled(fence, op).operations[id] = fence.operations[id]
<1>1. Settled(fence, op) \in {Committed(fence, op), Retired(Committed(fence, op), op)}
  BY DEF Settled
<1> QED BY <1>1, CommittedLedger, RetiredFence

\* The counters after the effects of some operations.
LEMMA RanType ==
    ASSUME ShardInv, NEW ops, Ran(ops)
    PROVE  effects' \in [OperationIds -> [count : Nat, last : 0 .. MaxEpoch]]
BY Constants DEF Ran, ShardInv, ShardTypeOK, TypeOK, ImageCurrent, Epochs

-----------------------------------------------------------------------------
(* Actors, waits and timers *)

\* Moving an actor to another boundary keeps it an actor.
LEMMA ActorType ==
    ASSUME ShardInv, NEW a \in Actors,
           NEW b \in Boundaries \cup {"Absent", "Orphan"}
    PROVE  /\ actors[a] \in Actor
           /\ [actors[a] EXCEPT !.at = b] \in Actor
           /\ [actors EXCEPT ![a].at = b] =
                 [actors EXCEPT ![a] = [actors[a] EXCEPT !.at = b]]
           /\ Absent \in Actor
BY DEF Absent, Actor, ShardInv, ShardTypeOK

\* An actor that is not parked, or holds no wait, is named by no wait of this
\* generation; while calls are accepted it owns no timer either.
LEMMA NothingHeld ==
    ASSUME ShardInv, NEW a \in Actors,
           actors[a].at \notin {"Capability", "Timer"} \/ ~Waiting(a)
    PROVE  /\ \A w \in waits : Current(w) => w.owner # a
           /\ phase \in ActivePhases => \A t \in timers : t.owner # a
<1>1. ASSUME NEW w \in waits, Current(w), w.owner = a PROVE FALSE
  <2>1. actors[a].at = w.kind /\ actors[a].serial = w.serial
    BY <1>1 DEF ShardInv, Tables, WaitsParked
  <2>2. w.kind \in {"Capability", "Timer"}
    BY DEF ShardInv, ShardTypeOK, Wait
  <2> QED BY <1>1, <2>1, <2>2 DEF Waiting
<1>2. ASSUME phase \in ActivePhases, NEW t \in timers PROVE t.owner # a
  BY <1>1, <1>2 DEF ShardInv, Tables, TimersParked
<1> QED BY <1>1, <1>2

\* Once the one wait an actor holds in this generation is gone, no other
\* names it.
LEMMA OnlyWait ==
    ASSUME ShardInv, NEW w \in waits, Current(w)
    PROVE  \A v \in waits \ {w} : Current(v) => v.owner # w.owner
BY DEF ShardInv, Tables, WaitsSingle

\* One actor moves, and nothing of this generation that names it is left.
LEMMA ActorMoves ==
    ASSUME ShardInv, NEW a \in Actors, NEW x \in Actor,
           actors' = [actors EXCEPT ![a] = x],
           UNCHANGED <<epoch, phase>>,
           next_operation_sequence' \in Nat,
           next_operation_sequence' >= next_operation_sequence,
           waits' \subseteq waits,
           \A w \in waits : w \notin waits' /\ Current(w) => w.owner = a,
           \A w \in waits' : Current(w) => w.owner # a,
           timers' \subseteq timers,
           phase \in ActivePhases => \A t \in timers' : t.owner # a,
           \A t \in timers' : last_clock_tick' < t.deadline
    PROVE  Tables'
<1>1. /\ waits \subseteq Wait
      /\ timers \subseteq Timer
      /\ actors \in [Actors -> Actor]
      /\ next_operation_sequence \in Nat
  BY Constants DEF ShardInv, ShardTypeOK
<1>2. \A w \in waits : w.op.id \in Nat
  BY <1>1, Constants DEF Wait, Operation
<1>3. WaitsIssued'
  BY <1>1, <1>2 DEF ShardInv, Tables, WaitsIssued
<1>4. \A w \in waits' : Current(w)' => Current(w) /\ w.owner \in Actors /\ w.owner # a
  BY <1>1 DEF Current, Wait
<1>5. WaitsParked'
  BY <1>1, <1>4 DEF ShardInv, Tables, WaitsParked
<1>6. WaitsSingle'
  BY <1>4 DEF ShardInv, Tables, WaitsSingle
<1>7. TimersParked'
  <2> SUFFICES ASSUME phase \in ActivePhases, NEW t \in timers'
               PROVE  \E w \in waits' : /\ Current(w)' /\ w.kind = "Timer"
                                        /\ w.owner = t.owner
                                        /\ w.deadline = t.deadline
    BY DEF TimersParked
  <2>1. PICK w \in waits : Current(w) /\ w.kind = "Timer" /\ w.owner = t.owner
                           /\ w.deadline = t.deadline
    BY DEF ShardInv, Tables, TimersParked
  <2>2. t.owner # a
    OBVIOUS
  <2>3. w \in waits'
    BY <2>1, <2>2
  <2>4. Current(w)'
    BY <2>1 DEF Current
  <2> QED BY <2>1, <2>3, <2>4
<1>8. TimersAhead'
  BY DEF TimersAhead
<1> QED BY <1>3, <1>5, <1>6, <1>7, <1>8 DEF Tables

\* An actor without a wait gets one, and with a timer wait its timer.
LEMMA WaitAdded ==
    ASSUME ShardInv, NEW w \in Wait, w.op.epoch = epoch,
           actors[w.owner].at = w.kind, actors[w.owner].serial = w.serial,
           ~Waiting(w.owner),
           w.op.id < next_operation_sequence',
           next_operation_sequence' \in Nat,
           next_operation_sequence' >= next_operation_sequence,
           waits' = waits \cup {w},
           \/ timers' = timers
           \/ /\ timers' = timers \cup {[owner |-> w.owner, deadline |-> w.deadline]}
              /\ w.kind = "Timer"
              /\ last_clock_tick < w.deadline,
           UNCHANGED <<epoch, phase, actors, last_clock_tick>>
    PROVE  Tables'
<1>1. /\ waits \subseteq Wait
      /\ next_operation_sequence \in Nat
      /\ epoch \in Nat
  BY Constants DEF ShardInv, ShardTypeOK, ImageCurrent, Epochs
<1>2. \A v \in Wait : v.op.id \in Nat /\ v.op.epoch \in Nat /\ v.owner \in Actors
  BY Constants DEF Wait, Operation, Epochs
<1>3. \A v \in waits : Current(v) => v.owner # w.owner
  BY <1>2, NothingHeld
<1>4. \A v \in waits' : Current(v)' <=> Current(v)
  BY DEF Current
<1>5. Current(w)
  BY DEF Current
<1>6. WaitsIssued'
  BY <1>1, <1>2 DEF ShardInv, Tables, WaitsIssued
<1>7. WaitsParked'
  BY <1>4 DEF ShardInv, Tables, WaitsParked
<1>8. WaitsSingle'
  BY <1>3, <1>4 DEF ShardInv, Tables, WaitsSingle
<1>9. TimersParked'
  <2> SUFFICES ASSUME phase \in ActivePhases, NEW t \in timers'
               PROVE  \E v \in waits' : /\ Current(v)' /\ v.kind = "Timer"
                                        /\ v.owner = t.owner
                                        /\ v.deadline = t.deadline
    BY DEF TimersParked
  <2>1. CASE t \in timers
    BY <2>1, <1>4 DEF ShardInv, Tables, TimersParked
  <2>2. CASE t \notin timers
    <3>1. t = [owner |-> w.owner, deadline |-> w.deadline] /\ w.kind = "Timer"
      BY <2>2
    <3> QED BY <3>1, <1>4, <1>5
  <2> QED BY <2>1, <2>2
<1>10. TimersAhead'
  BY DEF ShardInv, Tables, TimersAhead
<1> QED BY <1>6, <1>7, <1>8, <1>9, <1>10 DEF Tables

\* A wait is dropped that is of another generation, or of one that accepts no
\* calls any more.
LEMMA WaitDropped ==
    ASSUME ShardInv, NEW w \in waits, ~Current(w) \/ phase \notin ActivePhases,
           waits' = waits \ {w},
           UNCHANGED <<epoch, phase, actors, timers, last_clock_tick,
                       next_operation_sequence>>
    PROVE  Tables'
<1>1. \A v \in waits : Current(v)' <=> Current(v)
  BY DEF Current
<1>2. WaitsIssued' /\ WaitsParked' /\ WaitsSingle' /\ TimersAhead'
  BY <1>1 DEF ShardInv, Tables, WaitsIssued, WaitsParked, WaitsSingle, TimersAhead
<1>3. TimersParked'
  BY <1>1 DEF ShardInv, Tables, TimersParked
<1> QED BY <1>2, <1>3 DEF Tables

\* Nothing in the tables or of the generation changes, but a phase that does
\* not begin to accept calls.
LEMMA TablesKept ==
    ASSUME ShardInv, phase' \in ActivePhases => phase \in ActivePhases,
           UNCHANGED <<epoch, actors, waits, timers, last_clock_tick,
                       next_operation_sequence>>
    PROVE  Tables'
<1>1. \A v \in waits : Current(v)' <=> Current(v)
  BY DEF Current
<1>2. WaitsIssued' /\ WaitsParked' /\ WaitsSingle' /\ TimersAhead'
  BY <1>1 DEF ShardInv, Tables, WaitsIssued, WaitsParked, WaitsSingle, TimersAhead
<1>3. TimersParked'
  BY <1>1 DEF ShardInv, Tables, TimersParked
<1> QED BY <1>2, <1>3 DEF Tables

-----------------------------------------------------------------------------
(* Each method preserves the invariant *)

\* A method that works on operations: it writes the ledger below the next
\* sequence only, and publishes progress below it.
LEMMA OperationsKept ==
    ASSUME ShardInv, EpochUnchanged,
           next_operation_sequence' \in 1 .. MaxOperation + 1,
           next_operation_sequence' >= next_operation_sequence,
           effects' \in [OperationIds -> [count : Nat, last : 0 .. MaxEpoch]],
           epoch_fence' \in Fence,
           epoch_fence'.epoch = epoch_fence.epoch,
           \A id \in OperationIds : id >= next_operation_sequence' =>
              epoch_fence'.operations[id] = epoch_fence.operations[id],
           done' \subseteq OperationIds,
           \/ signals' = signals
           \/ \E n \in Nat : n < next_operation_sequence' /\ Progress(n)
    PROVE  TypeOK' /\ ImageCurrent' /\ FreshAdmission'
<1>1. next_operation_sequence \in Nat /\ next_operation_sequence' \in Nat
  BY Constants DEF ShardInv, ShardTypeOK
<1>2. /\ signals' \in [health : Nat, work : Nat]
      /\ signals'.work < next_operation_sequence'
  BY <1>1 DEF ShardInv, ShardTypeOK, TypeOK, Progress, FreshAdmission
<1>3. TypeOK'
  BY <1>2 DEF ShardInv, ShardTypeOK, TypeOK, EpochUnchanged, lifecycleVars
<1>4. ImageCurrent'
  BY DEF ShardInv, ImageCurrent, EpochUnchanged
<1>5. \A id \in OperationIds :
         id >= next_operation_sequence' => id >= next_operation_sequence
  BY <1>1, Constants
<1>6. FreshAdmission'
  BY <1>2, <1>5 DEF ShardInv, FreshAdmission
<1> QED BY <1>3, <1>4, <1>6

\* A method that touches the supervisor's state in nothing.
LEMMA OperationsUnchanged ==
    ASSUME ShardInv, UNCHANGED vars,
           next_operation_sequence' \in 1 .. MaxOperation + 1,
           next_operation_sequence' >= next_operation_sequence
    PROVE  TypeOK' /\ ImageCurrent' /\ FreshAdmission'
<1>1. next_operation_sequence \in Nat /\ next_operation_sequence' \in Nat
  BY Constants DEF ShardInv, ShardTypeOK
<1>2. TypeOK'
  BY DEF ShardInv, ShardTypeOK, TypeOK, vars
<1>3. ImageCurrent'
  BY DEF ShardInv, ImageCurrent, vars
<1>4. \A id \in OperationIds :
         id >= next_operation_sequence' => id >= next_operation_sequence
  BY <1>1, Constants
<1>5. signals.work \in Nat
  BY DEF ShardInv, ShardTypeOK, TypeOK
<1>6. FreshAdmission'
  BY <1>1, <1>4, <1>5 DEF ShardInv, FreshAdmission, vars
<1> QED BY <1>2, <1>3, <1>6

\* begin_call and resume_call around generated code.
LEMMA InternalKept ==
    ASSUME ShardInv, NEW kind \in Kinds, NEW succeeds \in BOOLEAN,
           InternalOperation(kind, succeeds)
    PROVE  /\ TypeOK' /\ ImageCurrent' /\ FreshAdmission'
           /\ UNCHANGED <<epoch, phase>>
           /\ phase \in ActivePhases
           /\ next_operation_sequence' \in 1 .. MaxOperation + 1
           /\ next_operation_sequence' > next_operation_sequence
           /\ next_operation_sequence \in Nat
<1> DEFINE op == OperationOf(Sequence(1), kind)
<1>1. /\ Allocate(1)
      /\ Ran({op})
      /\ IF succeeds THEN Progress(op.id) /\ done' = done \cup {op.id}
                     ELSE UNCHANGED <<signals, done>>
      /\ epoch_fence' = epoch_fence
      /\ EpochUnchanged
      /\ phase \in ActivePhases
  BY DEF InternalOperation
<1>2. /\ next_operation_sequence \in 1 .. MaxOperation + 1
      /\ next_operation_sequence' = next_operation_sequence + 1
      /\ next_operation_sequence' \in 1 .. MaxOperation + 1
      /\ Sequence(1) = next_operation_sequence
      /\ Sequence(1) \in 1 .. MaxOperation
  BY <1>1, Allocated
<1>3. op.id = next_operation_sequence /\ op.id \in OperationIds
  BY <1>2, OperationType, Constants
<1>4. effects' \in [OperationIds -> [count : Nat, last : 0 .. MaxEpoch]]
  BY <1>1, RanType
<1> HIDE DEF op
<1>5. done' \subseteq OperationIds
  BY <1>1, <1>3 DEF ShardInv, ShardTypeOK, TypeOK
<1>6. \/ signals' = signals
      \/ \E n \in Nat : n < next_operation_sequence' /\ Progress(n)
  BY <1>1, <1>2, <1>3
<1>7. epoch_fence' \in Fence
  BY <1>1 DEF ShardInv, ImageCurrent
<1>8. next_operation_sequence' >= next_operation_sequence
  BY <1>2
<1>9. TypeOK' /\ ImageCurrent' /\ FreshAdmission'
  BY <1>1, <1>2, <1>4, <1>5, <1>6, <1>7, <1>8, OperationsKept
<1> QED BY <1>1, <1>2, <1>9 DEF EpochUnchanged, lifecycleVars

\* A call begins, and its operation commits or fails (begin_call).
LEMMA BeginCallInv ==
    ASSUME ShardInv, NEW a \in Actors, BeginCall(a)
    PROVE  ShardInv'
<1>1. PICK succeeds \in BOOLEAN : InternalOperation("ActorRoute", succeeds)
  BY DEF BeginCall
<1>2. /\ TypeOK' /\ ImageCurrent' /\ FreshAdmission'
      /\ UNCHANGED <<epoch, phase>>
      /\ phase \in ActivePhases
      /\ next_operation_sequence' \in 1 .. MaxOperation + 1
      /\ next_operation_sequence' > next_operation_sequence
      /\ next_operation_sequence \in Nat
  BY <1>1, InternalKept, Constants
<1>3. PICK x \in Actor : /\ actors' = [actors EXCEPT ![a] = x]
                         /\ timers' \subseteq timers
  <2>1. spawned + 1 \in Nat
    BY DEF ShardInv, ShardTypeOK
  <2>2. Absent \in Actor /\ \A b \in Boundaries : [at |-> b, serial |-> spawned + 1] \in Actor
    BY <2>1 DEF Absent, Actor
  <2> QED BY <2>2 DEF BeginCall, FinishOwner, WithoutTimer
<1>4. UNCHANGED <<waits, last_clock_tick, transfers, applied>>
      /\ spawned' = spawned + 1 /\ actors[a].at = "Absent"
  BY DEF BeginCall, Live
<1>5. /\ \A w \in waits : Current(w) => w.owner # a
      /\ \A t \in timers : t.owner # a
  BY <1>2, <1>4, NothingHeld
<1>6. Tables'
  <2>1. /\ next_operation_sequence' \in Nat
        /\ next_operation_sequence' >= next_operation_sequence
    BY <1>2, Constants
  <2>2. \A t \in timers' : last_clock_tick' < t.deadline
    BY <1>3, <1>4 DEF ShardInv, Tables, TimersAhead
  <2>3. actors' = [actors EXCEPT ![a] = x] /\ timers' \subseteq timers
    BY <1>3
  <2> QED BY <1>2, <2>3, <1>4, <1>5, <2>1, <2>2, ActorMoves
<1>7. ShardTypeOK'
  BY <1>2, <1>3, <1>4 DEF ShardInv, ShardTypeOK
<1> QED BY <1>2, <1>4, <1>6, <1>7 DEF ShardInv, ContinuationExact, TransferPinsGeneration

\* A ready continuation is resumed (resume_call).
LEMMA ResumeCallInv ==
    ASSUME ShardInv, NEW a \in Actors, ResumeCall(a)
    PROVE  ShardInv'
<1>1. PICK succeeds \in BOOLEAN : InternalOperation("ContinuationResume", succeeds)
  BY DEF ResumeCall
<1>2. /\ TypeOK' /\ ImageCurrent' /\ FreshAdmission'
      /\ UNCHANGED <<epoch, phase>>
      /\ phase \in ActivePhases
      /\ next_operation_sequence' \in 1 .. MaxOperation + 1
      /\ next_operation_sequence' > next_operation_sequence
      /\ next_operation_sequence \in Nat
  BY <1>1, InternalKept, Constants
<1>3. PICK x \in Actor : /\ actors' = [actors EXCEPT ![a] = x]
                         /\ timers' \subseteq timers
  BY ActorType DEF ResumeCall, FinishOwner, WithoutTimer
<1>4. UNCHANGED <<waits, last_clock_tick, transfers, spawned, applied>>
      /\ actors[a].at \in {"Receive", "Yield"}
  BY DEF ResumeCall
<1>5. /\ \A w \in waits : Current(w) => w.owner # a
      /\ \A t \in timers : t.owner # a
  BY <1>2, <1>4, NothingHeld
<1>6. Tables'
  <2>1. /\ next_operation_sequence' \in Nat
        /\ next_operation_sequence' >= next_operation_sequence
    BY <1>2, Constants
  <2>2. \A t \in timers' : last_clock_tick' < t.deadline
    BY <1>3, <1>4 DEF ShardInv, Tables, TimersAhead
  <2>3. actors' = [actors EXCEPT ![a] = x] /\ timers' \subseteq timers
    BY <1>3
  <2> QED BY <1>2, <2>3, <1>4, <1>5, <2>1, <2>2, ActorMoves
<1>7. ShardTypeOK'
  BY <1>2, <1>3, <1>4 DEF ShardInv, ShardTypeOK
<1> QED BY <1>2, <1>4, <1>6, <1>7 DEF ShardInv, ContinuationExact, TransferPinsGeneration

\* The caller of a finished or cancelled call drops its wait with it.
LEMMA FinishCallInv ==
    ASSUME ShardInv, NEW a \in Actors, FinishCall(a)
    PROVE  ShardInv'
<1>1. /\ actors' = [actors EXCEPT ![a] = Absent]
      /\ timers' = WithoutTimer(a)
      /\ waits' = WithoutWaits(a)
      /\ UNCHANGED vars
      /\ UNCHANGED <<next_operation_sequence, last_clock_tick, transfers,
                     spawned, applied>>
  BY DEF FinishCall, FinishOwner
<1>2. TypeOK' /\ ImageCurrent' /\ FreshAdmission'
  <2>1. next_operation_sequence' \in 1 .. MaxOperation + 1
        /\ next_operation_sequence' >= next_operation_sequence
    BY <1>1, Constants DEF ShardInv, ShardTypeOK
  <2> QED BY <1>1, <2>1, OperationsUnchanged
<1>3. Tables'
  <2>1. next_operation_sequence' \in Nat
        /\ next_operation_sequence' >= next_operation_sequence
    BY <1>1, Constants DEF ShardInv, ShardTypeOK
  <2>2. waits' \subseteq waits /\ timers' \subseteq timers
    BY <1>1 DEF WithoutWaits, WithoutTimer
  <2>3. \A w \in waits : w \notin waits' => w.owner = a
    BY <1>1 DEF WithoutWaits
  <2>4. \A w \in waits' : Current(w) => w.owner # a
    BY <1>1 DEF WithoutWaits, ShardInv, Tables, WaitsParked
  <2>5. \A t \in timers' : t.owner # a /\ last_clock_tick' < t.deadline
    BY <1>1 DEF WithoutTimer, ShardInv, Tables, TimersAhead
  <2>6. UNCHANGED <<epoch, phase>>
    BY <1>1 DEF vars
  <2>7. Absent \in Actor
    BY DEF Absent, Actor
  <2> QED BY <1>1, <2>1, <2>2, <2>3, <2>4, <2>5, <2>6, <2>7, ActorMoves
<1>4. ShardTypeOK'
  <2>1. Absent \in Actor
    BY DEF Absent, Actor
  <2> QED BY <1>1, <1>2, <2>1 DEF ShardInv, ShardTypeOK, WithoutWaits, WithoutTimer
<1> QED BY <1>1, <1>2, <1>3, <1>4
        DEF ShardInv, ContinuationExact, TransferPinsGeneration, vars

\* A detached actor takes a lease on its generation.
LEMMA DetachActorInv ==
    ASSUME ShardInv, NEW a \in Actors, DetachActor(a)
    PROVE  ShardInv'
<1>1. /\ phase = "Ready"
      /\ actors[a].at = "Yield"
      /\ actors' = [actors EXCEPT ![a] = Absent]
      /\ transfers' = transfers \cup {[owner |-> a, epoch |-> epoch]}
      /\ UNCHANGED vars
      /\ UNCHANGED <<next_operation_sequence, waits, timers, last_clock_tick,
                     spawned, applied>>
  BY DEF DetachActor
<1>2. /\ next_operation_sequence' \in 1 .. MaxOperation + 1
      /\ next_operation_sequence' \in Nat
      /\ next_operation_sequence' >= next_operation_sequence
      /\ UNCHANGED <<epoch, phase>>
      /\ Absent \in Actor
  BY <1>1, Constants DEF ShardInv, ShardTypeOK, vars, Absent, Actor
<1>3. TypeOK' /\ ImageCurrent' /\ FreshAdmission'
  BY <1>1, <1>2, OperationsUnchanged
<1>4. /\ \A w \in waits : Current(w) => w.owner # a
      /\ \A t \in timers : t.owner # a
  BY <1>1, NothingHeld DEF ActivePhases
<1>5. \A t \in timers' : last_clock_tick' < t.deadline
  BY <1>1 DEF ShardInv, Tables, TimersAhead
<1>6. Tables'
  BY <1>1, <1>2, <1>4, <1>5, ActorMoves
<1>7. ShardTypeOK' /\ TransferPinsGeneration'
  BY <1>1, <1>2, <1>3
  DEF ShardInv, ShardTypeOK, ImageCurrent, Envelope, TransferPinsGeneration
<1> QED BY <1>1, <1>3, <1>6, <1>7 DEF ShardInv, ContinuationExact

\* An envelope the destination refused comes back to its source.
LEMMA ImportActorInv ==
    ASSUME ShardInv, NEW e \in transfers, ImportActor(e)
    PROVE  ShardInv'
<1> DEFINE x == [at |-> "Yield", serial |-> spawned + 1]
<1>1. /\ phase = "Ready"
      /\ actors[e.owner].at = "Absent"
      /\ spawned' = spawned + 1
      /\ actors' = [actors EXCEPT ![e.owner] = x]
      /\ transfers' = transfers \ {e}
      /\ UNCHANGED vars
      /\ UNCHANGED <<next_operation_sequence, waits, timers, last_clock_tick,
                     applied>>
  BY DEF ImportActor, Live
<1>2. /\ next_operation_sequence' \in 1 .. MaxOperation + 1
      /\ next_operation_sequence' \in Nat
      /\ next_operation_sequence' >= next_operation_sequence
      /\ UNCHANGED <<epoch, phase>>
      /\ x \in Actor
      /\ e.owner \in Actors
      /\ spawned' \in Nat
  BY <1>1, Constants
  DEF ShardInv, ShardTypeOK, vars, Actor, Envelope, Boundaries
<1> HIDE DEF x
<1>3. TypeOK' /\ ImageCurrent' /\ FreshAdmission'
  BY <1>1, <1>2, OperationsUnchanged
<1>4. /\ \A w \in waits : Current(w) => w.owner # e.owner
      /\ \A t \in timers : t.owner # e.owner
  BY <1>1, <1>2, NothingHeld DEF ActivePhases
<1>5. \A t \in timers' : last_clock_tick' < t.deadline
  BY <1>1 DEF ShardInv, Tables, TimersAhead
<1>6. Tables'
  BY <1>1, <1>2, <1>4, <1>5, ActorMoves
<1>7. ShardTypeOK' /\ TransferPinsGeneration'
  BY <1>1, <1>2, <1>3 DEF ShardInv, ShardTypeOK, TransferPinsGeneration
<1> QED BY <1>1, <1>3, <1>6, <1>7 DEF ShardInv, ContinuationExact

\* Nothing but an envelope or a wait goes.
LEMMA ReleaseTransferInv ==
    ASSUME ShardInv, NEW e \in transfers, ReleaseTransfer(e)
    PROVE  ShardInv'
<1>1. /\ transfers' = transfers \ {e}
      /\ UNCHANGED vars
      /\ UNCHANGED <<next_operation_sequence, actors, waits, timers,
                     last_clock_tick, spawned, applied>>
  BY DEF ReleaseTransfer
<1>2. /\ next_operation_sequence' \in 1 .. MaxOperation + 1
      /\ next_operation_sequence' >= next_operation_sequence
      /\ UNCHANGED <<epoch, phase>>
  BY <1>1, Constants DEF ShardInv, ShardTypeOK, vars
<1>3. TypeOK' /\ ImageCurrent' /\ FreshAdmission'
  BY <1>1, <1>2, OperationsUnchanged
<1>4. Tables'
  BY <1>1, <1>2, TablesKept
<1>5. ShardTypeOK' /\ TransferPinsGeneration'
  BY <1>1, <1>2, <1>3 DEF ShardInv, ShardTypeOK, TransferPinsGeneration
<1> QED BY <1>1, <1>3, <1>4, <1>5 DEF ShardInv, ContinuationExact

\* An answer for a generation that is gone, or while no calls are accepted.
LEMMA WaitRejectedInv ==
    ASSUME ShardInv, NEW w \in waits, WaitRejected(w)
    PROVE  ShardInv'
<1>1. /\ phase \notin ActivePhases \/ ~Current(w)
      /\ waits' = waits \ {w}
      /\ UNCHANGED vars
      /\ UNCHANGED <<next_operation_sequence, actors, timers, last_clock_tick,
                     transfers, spawned, applied>>
  BY DEF WaitRejected, Current
<1>2. /\ next_operation_sequence' \in 1 .. MaxOperation + 1
      /\ next_operation_sequence' >= next_operation_sequence
      /\ UNCHANGED <<epoch, phase>>
  BY <1>1, Constants DEF ShardInv, ShardTypeOK, vars
<1>3. TypeOK' /\ ImageCurrent' /\ FreshAdmission'
  BY <1>1, <1>2, OperationsUnchanged
<1>4. Tables'
  BY <1>1, <1>2, WaitDropped
<1>5. ShardTypeOK' /\ TransferPinsGeneration'
  BY <1>1, <1>2, <1>3 DEF ShardInv, ShardTypeOK, TransferPinsGeneration
<1> QED BY <1>1, <1>3, <1>4, <1>5 DEF ShardInv, ContinuationExact

\* begin_capability_call prepares the completion under a fresh identity.
LEMMA BeginCapabilityCallInv ==
    ASSUME ShardInv, NEW a \in Actors, BeginCapabilityCall(a)
    PROVE  ShardInv'
<1> DEFINE op == OperationOf(Sequence(1), "CapabilityCompletion")
           w == [kind |-> "Capability", owner |-> a, op |-> op,
                 serial |-> actors[a].serial, deadline |-> 0]
<1>1. /\ actors[a].at = "Capability"
      /\ ~Waiting(a)
      /\ Allocate(1)
      /\ epoch_fence' = Begun(epoch_fence, op)
      /\ Ran({op})
      /\ waits' = waits \cup {w}
      /\ EpochUnchanged
      /\ UNCHANGED <<signals, done, actors, timers, last_clock_tick, transfers,
                     spawned, applied>>
  BY DEF BeginCapabilityCall
<1>2. /\ next_operation_sequence \in 1 .. MaxOperation + 1
      /\ next_operation_sequence' = next_operation_sequence + 1
      /\ next_operation_sequence' \in 1 .. MaxOperation + 1
      /\ Sequence(1) = next_operation_sequence
      /\ Sequence(1) \in 1 .. MaxOperation
  BY <1>1, Allocated
<1>3. /\ op \in Operation
      /\ op.id = next_operation_sequence
      /\ op.epoch = epoch
  BY <1>2, OperationType, Constants
<1>4. effects' \in [OperationIds -> [count : Nat, last : 0 .. MaxEpoch]]
  BY <1>1, RanType
<1>5. /\ w \in Wait
      /\ w.op = op
      /\ w.owner = a
      /\ w.kind = "Capability"
      /\ w.serial = actors[a].serial
  <2>1. actors[a].serial \in Nat
    BY DEF ShardInv, ShardTypeOK, Actor
  <2> HIDE DEF op
  <2> QED BY <2>1, <1>3 DEF Wait
<1> HIDE DEF w, op
<1>6. TypeOK' /\ ImageCurrent' /\ FreshAdmission'
  <2>1. epoch_fence \in Fence
    BY DEF ShardInv, ImageCurrent
  <2>2. /\ epoch_fence' \in Fence
        /\ epoch_fence'.epoch = epoch_fence.epoch
        /\ \A id \in OperationIds : id # op.id =>
              epoch_fence'.operations[id] = epoch_fence.operations[id]
    BY <2>1, <1>1, <1>3, BegunLedger
  <2>3. \A id \in OperationIds : id >= next_operation_sequence' => id # op.id
    BY <1>2, <1>3, Constants
  <2>4. done' \subseteq OperationIds
    BY <1>1 DEF ShardInv, ShardTypeOK, TypeOK
  <2>5. next_operation_sequence' >= next_operation_sequence
    BY <1>2
  <2> QED BY <1>1, <1>2, <1>4, <2>2, <2>3, <2>4, <2>5, OperationsKept
<1>7. Tables'
  <2>1. /\ next_operation_sequence' \in Nat
        /\ next_operation_sequence' >= next_operation_sequence
        /\ w.op.id < next_operation_sequence'
    BY <1>2, <1>3, <1>5
  <2>2. UNCHANGED <<epoch, phase, actors, last_clock_tick>>
    BY <1>1 DEF EpochUnchanged, lifecycleVars
  <2> QED BY <1>1, <1>3, <1>5, <2>1, <2>2, WaitAdded
<1>8. ShardTypeOK'
  BY <1>1, <1>2, <1>5, <1>6 DEF ShardInv, ShardTypeOK
<1> QED BY <1>1, <1>6, <1>7, <1>8
        DEF ShardInv, ContinuationExact, TransferPinsGeneration, EpochUnchanged

\* A granted service commits before it runs; its actor held no wait.
LEMMA NativeServiceCallInv ==
    ASSUME ShardInv, NEW a \in Actors, NativeServiceCall(a)
    PROVE  ShardInv'
<1> DEFINE op == OperationOf(Sequence(1), "CapabilityCompletion")
<1>1. /\ phase \in ActivePhases
      /\ ~Waiting(a)
      /\ Allocate(1)
      /\ Admission(epoch_fence, op) = "ExecuteFirst"
      /\ epoch_fence' = Settled(Begun(epoch_fence, op), op)
      /\ Ran({op})
      /\ done' = done \cup {op.id}
      /\ Progress(op.id)
      /\ EpochUnchanged
      /\ UNCHANGED <<waits, last_clock_tick, transfers, spawned, applied>>
  BY DEF NativeServiceCall
<1>2. /\ next_operation_sequence \in 1 .. MaxOperation + 1
      /\ next_operation_sequence' = next_operation_sequence + 1
      /\ next_operation_sequence' \in 1 .. MaxOperation + 1
      /\ Sequence(1) = next_operation_sequence
      /\ Sequence(1) \in 1 .. MaxOperation
  BY <1>1, Allocated
<1>3. /\ op \in Operation
      /\ op.id = next_operation_sequence
      /\ op.id \in OperationIds
  BY <1>2, OperationType, Constants
<1>4. effects' \in [OperationIds -> [count : Nat, last : 0 .. MaxEpoch]]
  BY <1>1, RanType
<1>5. PICK x \in Actor : /\ actors' = [actors EXCEPT ![a] = x]
                         /\ timers' \subseteq timers
  BY ActorType DEF NativeServiceCall, FinishOwner, WithoutTimer
<1> HIDE DEF op
<1>6. TypeOK' /\ ImageCurrent' /\ FreshAdmission'
  <2>1. epoch_fence \in Fence
    BY DEF ShardInv, ImageCurrent
  <2>2. /\ epoch_fence' \in Fence
        /\ epoch_fence'.epoch = epoch_fence.epoch
        /\ \A id \in OperationIds : id # op.id =>
              epoch_fence'.operations[id] = epoch_fence.operations[id]
    BY <2>1, <1>1, <1>3, BegunLedger, SettledLedger
  <2>3. \A id \in OperationIds : id >= next_operation_sequence' => id # op.id
    BY <1>2, <1>3, Constants
  <2>4. done' \subseteq OperationIds
    BY <1>1, <1>3 DEF ShardInv, ShardTypeOK, TypeOK
  <2>5. /\ next_operation_sequence' >= next_operation_sequence
        /\ \E n \in Nat : n < next_operation_sequence' /\ Progress(n)
    BY <1>1, <1>2, <1>3
  <2> QED BY <1>1, <1>2, <1>4, <2>2, <2>3, <2>4, <2>5, OperationsKept
<1>7. UNCHANGED <<epoch, phase>>
  BY <1>1 DEF EpochUnchanged, lifecycleVars
<1>8. Tables'
  <2>1. /\ \A w \in waits : Current(w) => w.owner # a
        /\ \A t \in timers : t.owner # a
    BY <1>1, NothingHeld
  <2>2. /\ next_operation_sequence' \in Nat
        /\ next_operation_sequence' >= next_operation_sequence
    BY <1>2
  <2>3. \A t \in timers' : last_clock_tick' < t.deadline
    BY <1>1, <1>5 DEF ShardInv, Tables, TimersAhead
  <2>4. actors' = [actors EXCEPT ![a] = x] /\ timers' \subseteq timers
    BY <1>5
  <2> QED BY <1>1, <1>7, <2>1, <2>2, <2>3, <2>4, ActorMoves
<1>9. ShardTypeOK'
  BY <1>1, <1>2, <1>5, <1>6 DEF ShardInv, ShardTypeOK
<1> QED BY <1>1, <1>6, <1>7, <1>8, <1>9
        DEF ShardInv, ContinuationExact, TransferPinsGeneration

\* A wait that matches resumes the very continuation that issued it.
LEMMA MatchedWait ==
    ASSUME ShardInv, NEW w \in waits, Matches(w)
    PROVE  /\ Current(w)
           /\ w.serial = actors[w.owner].serial
           /\ w.owner \in Actors
           /\ w.op \in Operation
           /\ w.op.id \in OperationIds
           /\ w.op.id \in Nat
           /\ w.op.id < next_operation_sequence
           /\ w.deadline \in Nat
<1>1. w \in Wait
  BY DEF ShardInv, ShardTypeOK
<1>2. Current(w)
  BY DEF Matches, Current
<1> QED BY <1>1, <1>2, Constants
        DEF Wait, Operation, ShardInv, Tables, WaitsParked, WaitsIssued

\* Applying a matching wait names the incarnation that issued it.
LEMMA AppliedExactly ==
    ASSUME ShardInv, NEW w \in waits, Matches(w), Apply(w)
    PROVE  ContinuationExact' /\ applied' \in [wait : Nat, actor : Nat]
<1>1. actors[w.owner].serial \in Nat
  BY MatchedWait DEF ShardInv, ShardTypeOK, Actor
<1> QED BY <1>1, MatchedWait DEF Apply, ContinuationExact

\* A timer of an actor is the one its wait of this generation set.
LEMMA OwnTimer ==
    ASSUME ShardInv, phase \in ActivePhases, NEW w \in waits, Current(w),
           NEW t \in timers, t.owner = w.owner
    PROVE  /\ w.kind = "Timer"
           /\ t = [owner |-> w.owner, deadline |-> w.deadline]
<1>1. PICK v \in waits : Current(v) /\ v.kind = "Timer" /\ v.owner = t.owner
                         /\ v.deadline = t.deadline
  BY DEF ShardInv, Tables, TimersParked
<1>2. v = w
  BY <1>1 DEF ShardInv, Tables, WaitsSingle
<1>3. t \in Timer
  BY DEF ShardInv, ShardTypeOK
<1> QED BY <1>1, <1>2, <1>3 DEF Timer

\* A capability answers the continuation that waited for it.
LEMMA CapabilityCompletesInv ==
    ASSUME ShardInv, NEW w \in waits, CapabilityCompletes(w)
    PROVE  ShardInv'
<1> DEFINE commits == MayCommit(epoch_fence, w.op)
           succeeds == commits /\ Advances(w.op.id)
<1>1. /\ w.kind = "Capability"
      /\ phase \in ActivePhases
      /\ Matches(w)
      /\ waits' = waits \ {w}
      /\ epoch_fence' = IF commits THEN Settled(epoch_fence, w.op) ELSE epoch_fence
      /\ done' = IF commits THEN done \cup {w.op.id} ELSE done
      /\ IF succeeds THEN Progress(w.op.id) ELSE UNCHANGED signals
      /\ \E b \in Boundaries :
            actors' = [actors EXCEPT ![w.owner].at =
                          IF succeeds THEN b ELSE "Orphan"]
      /\ Apply(w)
      /\ EpochUnchanged
      /\ UNCHANGED <<effects, timers, last_clock_tick, transfers, spawned,
                     next_operation_sequence>>
  BY DEF CapabilityCompletes
<1>2. /\ Current(w)
      /\ w.owner \in Actors
      /\ w.op \in Operation
      /\ w.op.id \in OperationIds
      /\ w.op.id \in Nat
      /\ w.op.id < next_operation_sequence
  BY <1>1, MatchedWait
<1>3. PICK x \in Actor : actors' = [actors EXCEPT ![w.owner] = x]
  <2>1. PICK b \in Boundaries \cup {"Absent", "Orphan"} :
           actors' = [actors EXCEPT ![w.owner].at = b]
    BY <1>1
  <2> QED BY <2>1, <1>2, ActorType
<1>4. ContinuationExact' /\ applied' \in [wait : Nat, actor : Nat]
  BY <1>1, AppliedExactly
<1>5. /\ next_operation_sequence' \in 1 .. MaxOperation + 1
      /\ next_operation_sequence' \in Nat
      /\ next_operation_sequence' >= next_operation_sequence
      /\ UNCHANGED <<epoch, phase>>
  BY <1>1, Constants DEF ShardInv, ShardTypeOK, EpochUnchanged, lifecycleVars
<1>6. TypeOK' /\ ImageCurrent' /\ FreshAdmission'
  <2>1. epoch_fence \in Fence
    BY DEF ShardInv, ImageCurrent
  <2>2. commits => epoch_fence.operations[w.op.id] \in Record
    BY <2>1, <1>2 DEF MayCommit, Known, Existing, Fence
  <2>3. /\ epoch_fence' \in Fence
        /\ epoch_fence'.epoch = epoch_fence.epoch
        /\ \A id \in OperationIds : id # w.op.id =>
              epoch_fence'.operations[id] = epoch_fence.operations[id]
    <3> HIDE DEF commits
    <3> QED BY <2>1, <2>2, <1>1, <1>2, SettledLedger
  <2>4. \A id \in OperationIds : id >= next_operation_sequence' => id # w.op.id
    BY <1>1, <1>2, <1>5, Constants
  <2>5. done' \subseteq OperationIds
    BY <1>1, <1>2 DEF ShardInv, ShardTypeOK, TypeOK
  <2>6. effects' \in [OperationIds -> [count : Nat, last : 0 .. MaxEpoch]]
    BY <1>1 DEF ShardInv, ShardTypeOK, TypeOK
  <2>7. \/ signals' = signals
        \/ \E n \in Nat : n < next_operation_sequence' /\ Progress(n)
    BY <1>1, <1>2, <1>5
  <2> QED BY <1>1, <1>5, <2>3, <2>4, <2>5, <2>6, <2>7, OperationsKept
<1>7. Tables'
  <2>1. /\ waits' \subseteq waits
        /\ timers' \subseteq timers
        /\ \A v \in waits : v \notin waits' => v.owner = w.owner
        /\ \A v \in waits' : Current(v) => v.owner # w.owner
    BY <1>1, <1>2, OnlyWait
  <2>2. \A t \in timers' : t.owner # w.owner
    BY <1>1, <1>2, OwnTimer
  <2>3. \A t \in timers' : last_clock_tick' < t.deadline
    BY <1>1 DEF ShardInv, Tables, TimersAhead
  <2> QED BY <1>2, <1>3, <1>5, <2>1, <2>2, <2>3, ActorMoves
<1>8. ShardTypeOK'
  BY <1>1, <1>2, <1>3, <1>4, <1>5, <1>6 DEF ShardInv, ShardTypeOK
<1> QED BY <1>1, <1>4, <1>5, <1>6, <1>7, <1>8 DEF ShardInv, TransferPinsGeneration

\* A capability fails and its actor ends.
LEMMA CapabilityFailsInv ==
    ASSUME ShardInv, NEW w \in waits, CapabilityFails(w)
    PROVE  ShardInv'
<1>1. /\ phase \in ActivePhases
      /\ Matches(w)
      /\ waits' = waits \ {w}
      /\ actors' = [actors EXCEPT ![w.owner] = Absent]
      /\ timers' = WithoutTimer(w.owner)
      /\ Apply(w)
      /\ UNCHANGED vars
      /\ UNCHANGED <<next_operation_sequence, last_clock_tick, transfers,
                     spawned>>
  BY DEF CapabilityFails, FinishOwner
<1>2. Current(w) /\ w.owner \in Actors
  BY <1>1, MatchedWait
<1>3. ContinuationExact' /\ applied' \in [wait : Nat, actor : Nat]
  BY <1>1, AppliedExactly
<1>4. /\ next_operation_sequence' \in 1 .. MaxOperation + 1
      /\ next_operation_sequence' \in Nat
      /\ next_operation_sequence' >= next_operation_sequence
      /\ UNCHANGED <<epoch, phase>>
      /\ Absent \in Actor
  BY <1>1, Constants DEF ShardInv, ShardTypeOK, vars, Absent, Actor
<1>5. TypeOK' /\ ImageCurrent' /\ FreshAdmission'
  BY <1>1, <1>4, OperationsUnchanged
<1>6. Tables'
  <2>1. /\ waits' \subseteq waits
        /\ \A v \in waits : v \notin waits' => v.owner = w.owner
        /\ \A v \in waits' : Current(v) => v.owner # w.owner
    BY <1>1, <1>2, OnlyWait
  <2>2. /\ timers' \subseteq timers
        /\ \A t \in timers' : t.owner # w.owner
        /\ \A t \in timers' : last_clock_tick' < t.deadline
    BY <1>1 DEF WithoutTimer, ShardInv, Tables, TimersAhead
  <2> QED BY <1>1, <1>2, <1>4, <2>1, <2>2, ActorMoves
<1>7. ShardTypeOK'
  BY <1>1, <1>2, <1>3, <1>4, <1>5 DEF ShardInv, ShardTypeOK, WithoutTimer
<1> QED BY <1>1, <1>3, <1>4, <1>5, <1>6, <1>7 DEF ShardInv, TransferPinsGeneration

\* begin_timer_call allocates the identity of the tick and leaves the ledger
\* to its application.
LEMMA BeginTimerCallInv ==
    ASSUME ShardInv, NEW a \in Actors, NEW delay \in TimerDelays,
           BeginTimerCall(a, delay)
    PROVE  ShardInv'
<1> DEFINE op == OperationOf(Sequence(1), "TimerDelivery")
           deadline == now + delay
           w == [kind |-> "Timer", owner |-> a, serial |-> actors[a].serial,
                 op |-> op, deadline |-> deadline]
<1>1. /\ actors[a].at = "Timer"
      /\ ~Waiting(a)
      /\ now >= last_clock_tick
      /\ Allocate(1)
      /\ timers' = timers \cup {[owner |-> a, deadline |-> deadline]}
      /\ waits' = waits \cup {w}
      /\ UNCHANGED vars
      /\ UNCHANGED <<actors, last_clock_tick, transfers, spawned, applied>>
  BY DEF BeginTimerCall
<1>2. /\ next_operation_sequence \in 1 .. MaxOperation + 1
      /\ next_operation_sequence' = next_operation_sequence + 1
      /\ next_operation_sequence' \in 1 .. MaxOperation + 1
      /\ Sequence(1) = next_operation_sequence
      /\ Sequence(1) \in 1 .. MaxOperation
  BY <1>1, Allocated
<1>3. /\ op \in Operation
      /\ op.id = next_operation_sequence
      /\ op.epoch = epoch
  BY <1>2, OperationType, Constants
<1>4. deadline \in Nat /\ last_clock_tick < deadline
  BY <1>1, Constants DEF ShardInv, ShardTypeOK, TypeOK
<1> HIDE DEF op, deadline
<1>5. /\ w \in Wait
      /\ w.op = op
      /\ w.owner = a
      /\ w.kind = "Timer"
      /\ w.serial = actors[a].serial
      /\ w.deadline = deadline
  <2>1. actors[a].serial \in Nat
    BY DEF ShardInv, ShardTypeOK, Actor
  <2> QED BY <2>1, <1>3, <1>4 DEF Wait
<1> HIDE DEF w
<1>6. /\ next_operation_sequence' \in Nat
      /\ next_operation_sequence' >= next_operation_sequence
      /\ w.op.id < next_operation_sequence'
      /\ UNCHANGED <<epoch, phase, actors, last_clock_tick>>
  BY <1>1, <1>2, <1>3, <1>5 DEF vars
<1>7. TypeOK' /\ ImageCurrent' /\ FreshAdmission'
  BY <1>1, <1>2, <1>6, OperationsUnchanged
<1>8. Tables'
  BY <1>1, <1>3, <1>4, <1>5, <1>6, WaitAdded
<1>9. ShardTypeOK'
  BY <1>1, <1>2, <1>4, <1>5, <1>7 DEF ShardInv, ShardTypeOK, Timer
<1> QED BY <1>1, <1>6, <1>7, <1>8, <1>9
        DEF ShardInv, ContinuationExact, TransferPinsGeneration

\* apply_timer_tick writes the record of the tick alone.
LEMMA TickLedger ==
    ASSUME ShardInv, NEW w \in waits, MayFire(w)
    PROVE  /\ TickApplied(w) \in Fence
           /\ TickApplied(w).epoch = epoch_fence.epoch
           /\ \A id \in OperationIds : id # w.op.id =>
                 TickApplied(w).operations[id] = epoch_fence.operations[id]
<1>1. w.op \in Operation /\ epoch_fence \in Fence
  BY MatchedWait DEF MayFire, ShardInv, ImageCurrent
<1>2. /\ Begun(epoch_fence, w.op) \in Fence
      /\ Begun(epoch_fence, w.op).operations[w.op.id] \in Record
  BY <1>1, BegunLedger DEF MayFire
<1> QED BY <1>1, <1>2, BegunLedger, CommittedLedger DEF TickApplied

\* The clock that fires a timer wait leaves only timers that are not due, none
\* of them its actor's.
LEMMA ClockAdvanced ==
    ASSUME ShardInv, NEW w \in waits, MayFire(w), AdvanceClock(w),
           timers' = timers \ Due(w.deadline)
    PROVE  /\ timers' \subseteq timers
           /\ \A t \in timers' : t.owner # w.owner /\ last_clock_tick' < t.deadline
           /\ last_clock_tick' \in Nat
<1>1. /\ Current(w)
      /\ w.deadline \in Nat
      /\ phase \in ActivePhases
      /\ last_clock_tick \in Nat
      /\ timers \subseteq Timer
  BY MatchedWait DEF MayFire, ShardInv, ShardTypeOK
<1>2. \A t \in timers : last_clock_tick < t.deadline /\ t.deadline \in Nat
  BY <1>1 DEF ShardInv, Tables, TimersAhead, Timer
<1>3. ASSUME NEW t \in timers' PROVE last_clock_tick' < t.deadline
  BY <1>1, <1>2 DEF AdvanceClock, Due
<1>4. ASSUME NEW t \in timers', t.owner = w.owner PROVE FALSE
  <2>1. t.deadline = w.deadline
    BY <1>1, <1>4, OwnTimer
  <2>2. t \in Due(w.deadline)
    BY <1>1, <1>2, <2>1 DEF Due
  <2> QED BY <2>2
<1> QED BY <1>1, <1>3, <1>4 DEF AdvanceClock

\* The tick delivered this wait's own timer: generated code goes on, under a
\* second identity, or fails.
LEMMA TimerResumesInv ==
    ASSUME ShardInv, NEW w \in waits, TimerResumes(w)
    PROVE  ShardInv'
<1> DEFINE op == OperationOf(Sequence(2), "ContinuationResume")
           begun == Begun(TickApplied(w), op)
<1>1. /\ MayFire(w)
      /\ Matches(w)
      /\ Allocate(2)
      /\ Ran({w.op, op})
      /\ timers' = timers \ Due(w.deadline)
      /\ waits' = waits \ {w}
      /\ Apply(w)
      /\ AdvanceClock(w)
      /\ EpochUnchanged
      /\ UNCHANGED <<transfers, spawned>>
  BY DEF TimerResumes, MayFire
<1>2. /\ Current(w)
      /\ w.owner \in Actors
      /\ w.op \in Operation
      /\ w.op.id \in OperationIds
      /\ w.op.id \in Nat
      /\ w.op.id < next_operation_sequence
  BY <1>1, MatchedWait
<1>3. /\ next_operation_sequence \in 1 .. MaxOperation + 1
      /\ next_operation_sequence' = next_operation_sequence + 2
      /\ next_operation_sequence' \in 1 .. MaxOperation + 1
      /\ Sequence(1) = next_operation_sequence
      /\ Sequence(2) = next_operation_sequence + 1
      /\ Sequence(2) \in 1 .. MaxOperation
  BY <1>1, Allocated
<1>4. /\ op \in Operation
      /\ op.id = next_operation_sequence + 1
      /\ op.id \in OperationIds
      /\ op.epoch = epoch
  BY <1>3, OperationType, Constants
<1>5. effects' \in [OperationIds -> [count : Nat, last : 0 .. MaxEpoch]]
  BY <1>1, RanType
<1>6. /\ \/ epoch_fence' = Settled(begun, op) /\ done' = done \cup {w.op.id, op.id}
         \/ epoch_fence' = begun /\ done' = done \cup {w.op.id}
      /\ \/ Progress(op.id)
         \/ Progress(Sequence(1))
  BY DEF TimerResumes
<1>7. PICK x \in Actor : actors' = [actors EXCEPT ![w.owner] = x]
  BY <1>2, ActorType DEF TimerResumes
<1>8. /\ TickApplied(w) \in Fence
      /\ TickApplied(w).epoch = epoch_fence.epoch
      /\ \A id \in OperationIds : id # w.op.id =>
            TickApplied(w).operations[id] = epoch_fence.operations[id]
  BY <1>1, TickLedger
<1> HIDE DEF op
<1>9. /\ begun \in Fence
      /\ begun.epoch = epoch_fence.epoch
      /\ \A id \in OperationIds : id # w.op.id /\ id # op.id =>
            begun.operations[id] = epoch_fence.operations[id]
      /\ begun.operations[op.id] \in Record
  <2>1. TickApplied(w).operations[op.id] = NoRecord
    BY <1>2, <1>3, <1>4, <1>8, Constants DEF ShardInv, FreshAdmission
  <2>2. op.epoch = TickApplied(w).epoch
    BY <1>4, <1>8 DEF ShardInv, ImageCurrent
  <2> QED BY <1>4, <1>8, <2>1, <2>2, BegunLedger
<1> HIDE DEF begun
<1>10. TypeOK' /\ ImageCurrent' /\ FreshAdmission'
  <2>1. /\ epoch_fence' \in Fence
        /\ epoch_fence'.epoch = epoch_fence.epoch
        /\ \A id \in OperationIds : id # w.op.id /\ id # op.id =>
              epoch_fence'.operations[id] = epoch_fence.operations[id]
    BY <1>4, <1>6, <1>9, SettledLedger
  <2>2. \A id \in OperationIds :
           id >= next_operation_sequence' => id # w.op.id /\ id # op.id
    BY <1>2, <1>3, <1>4, Constants
  <2>3. done' \subseteq OperationIds
    BY <1>2, <1>4, <1>6 DEF ShardInv, ShardTypeOK, TypeOK
  <2>4. /\ next_operation_sequence' >= next_operation_sequence
        /\ \E n \in Nat : n < next_operation_sequence' /\ Progress(n)
    BY <1>3, <1>4, <1>6
  <2> QED BY <1>1, <1>3, <1>5, <2>1, <2>2, <2>3, <2>4, OperationsKept
<1>11. UNCHANGED <<epoch, phase>>
  BY <1>1 DEF EpochUnchanged, lifecycleVars
<1>12. /\ timers' \subseteq timers
       /\ \A t \in timers' : t.owner # w.owner /\ last_clock_tick' < t.deadline
       /\ last_clock_tick' \in Nat
  BY <1>1, ClockAdvanced
<1>13. Tables'
  <2>1. /\ waits' \subseteq waits
        /\ \A v \in waits : v \notin waits' => v.owner = w.owner
        /\ \A v \in waits' : Current(v) => v.owner # w.owner
    BY <1>1, <1>2, OnlyWait
  <2>2. /\ next_operation_sequence' \in Nat
        /\ next_operation_sequence' >= next_operation_sequence
    BY <1>3
  <2> QED BY <1>2, <1>7, <1>11, <1>12, <2>1, <2>2, ActorMoves
<1>14. ContinuationExact' /\ applied' \in [wait : Nat, actor : Nat]
  BY <1>1, AppliedExactly
<1>15. ShardTypeOK'
  BY <1>1, <1>2, <1>3, <1>7, <1>10, <1>12, <1>14 DEF ShardInv, ShardTypeOK
<1> QED BY <1>1, <1>10, <1>11, <1>13, <1>14, <1>15
        DEF ShardInv, TransferPinsGeneration

\* The tick delivered somebody else's timers: the actor is left behind with
\* neither wait nor timer.
LEMMA TimerMissedInv ==
    ASSUME ShardInv, NEW w \in waits, TimerMissed(w)
    PROVE  ShardInv'
<1>1. /\ MayFire(w)
      /\ Matches(w)
      /\ Allocate(1)
      /\ Ran({w.op})
      /\ timers' = timers \ Due(w.deadline)
      /\ waits' = waits \ {w}
      /\ epoch_fence' = TickApplied(w)
      /\ done' = done \cup {w.op.id}
      /\ Progress(Sequence(1))
      /\ actors' = [actors EXCEPT ![w.owner].at = "Orphan"]
      /\ AdvanceClock(w)
      /\ EpochUnchanged
      /\ UNCHANGED <<transfers, spawned, applied>>
  BY DEF TimerMissed, MayFire
<1>2. /\ Current(w)
      /\ w.owner \in Actors
      /\ w.op \in Operation
      /\ w.op.id \in OperationIds
      /\ w.op.id \in Nat
      /\ w.op.id < next_operation_sequence
  BY <1>1, MatchedWait
<1>3. /\ next_operation_sequence \in 1 .. MaxOperation + 1
      /\ next_operation_sequence' = next_operation_sequence + 1
      /\ next_operation_sequence' \in 1 .. MaxOperation + 1
      /\ Sequence(1) = next_operation_sequence
  BY <1>1, Allocated
<1>4. effects' \in [OperationIds -> [count : Nat, last : 0 .. MaxEpoch]]
  BY <1>1, RanType
<1>5. PICK x \in Actor : actors' = [actors EXCEPT ![w.owner] = x]
  BY <1>1, <1>2, ActorType
<1>6. TypeOK' /\ ImageCurrent' /\ FreshAdmission'
  <2>1. /\ epoch_fence' \in Fence
        /\ epoch_fence'.epoch = epoch_fence.epoch
        /\ \A id \in OperationIds : id # w.op.id =>
              epoch_fence'.operations[id] = epoch_fence.operations[id]
    BY <1>1, TickLedger
  <2>2. \A id \in OperationIds : id >= next_operation_sequence' => id # w.op.id
    BY <1>2, <1>3, Constants
  <2>3. done' \subseteq OperationIds
    BY <1>1, <1>2 DEF ShardInv, ShardTypeOK, TypeOK
  <2>4. /\ next_operation_sequence' >= next_operation_sequence
        /\ \E n \in Nat : n < next_operation_sequence' /\ Progress(n)
    BY <1>1, <1>3
  <2> QED BY <1>1, <1>3, <1>4, <2>1, <2>2, <2>3, <2>4, OperationsKept
<1>7. UNCHANGED <<epoch, phase>>
  BY <1>1 DEF EpochUnchanged, lifecycleVars
<1>8. /\ timers' \subseteq timers
      /\ \A t \in timers' : t.owner # w.owner /\ last_clock_tick' < t.deadline
      /\ last_clock_tick' \in Nat
  BY <1>1, ClockAdvanced
<1>9. Tables'
  <2>1. /\ waits' \subseteq waits
        /\ \A v \in waits : v \notin waits' => v.owner = w.owner
        /\ \A v \in waits' : Current(v) => v.owner # w.owner
    BY <1>1, <1>2, OnlyWait
  <2>2. /\ next_operation_sequence' \in Nat
        /\ next_operation_sequence' >= next_operation_sequence
    BY <1>3
  <2> QED BY <1>2, <1>5, <1>7, <1>8, <2>1, <2>2, ActorMoves
<1>10. ShardTypeOK'
  BY <1>1, <1>2, <1>3, <1>5, <1>6, <1>8 DEF ShardInv, ShardTypeOK
<1> QED BY <1>1, <1>6, <1>7, <1>9, <1>10
        DEF ShardInv, TransferPinsGeneration, ContinuationExact

\* Shutdown, draining, quarantine and crash reports change the phase and the
\* restart accounting, and never begin to accept calls.
LEMMA PhaseMoves ==
    ASSUME ShardInv, UNCHANGED <<generationVars, operationVars, now, shardVars>>,
           phase' \in Phases,
           phase' \in ActivePhases => phase \in ActivePhases,
           restart_count' \in Nat,
           restart_deadline_tick' \in 0 .. NoDeadline
    PROVE  ShardInv'
<1>1. UNCHANGED <<epoch, next_epoch, signals, epoch_fence, internal_operation,
                  effects, done, now>>
  BY DEF generationVars, operationVars
<1>2. UNCHANGED <<next_operation_sequence, actors, waits, timers,
                  last_clock_tick, transfers, spawned, applied>>
  BY DEF shardVars
<1>3. TypeOK'
  BY <1>1 DEF ShardInv, ShardTypeOK, TypeOK, NoDeadline
<1>4. ImageCurrent' /\ FreshAdmission'
  BY <1>1, <1>2 DEF ShardInv, ImageCurrent, FreshAdmission
<1>5. Tables'
  BY <1>1, <1>2, TablesKept
<1>6. ShardTypeOK'
  BY <1>2, <1>3 DEF ShardInv, ShardTypeOK
<1> QED BY <1>1, <1>2, <1>4, <1>5, <1>6
        DEF ShardInv, ContinuationExact, TransferPinsGeneration

\* A crash at any time keeps the tables; recovery empties them.
LEMMA CrashInv ==
    ASSUME ShardInv, NEW tick, ReportCrashAt(tick), UNCHANGED shardVars
    PROVE  ShardInv'
<1>1. /\ restart_count' \in Nat
      /\ restart_deadline_tick' \in 0 .. NoDeadline
      /\ phase' \in {"Quarantined", "RestartBackoff"}
  BY Constants DEF ReportCrashAt, NoDeadline, ShardInv, ShardTypeOK, TypeOK
<1>2. UNCHANGED <<generationVars, operationVars, now, shardVars>>
  BY DEF ReportCrashAt
<1> QED BY <1>1, <1>2, PhaseMoves DEF Phases, ActivePhases

\* The next generation: every wait that is still held is of an earlier one,
\* the ledger goes on, and no envelope is left that pins the one before.
LEMMA AdmitNextInv ==
    ASSUME ShardInv, AdmitNext, OutstandingTransfers = {},
           restart_deadline_tick' \in 0 .. NoDeadline,
           UNCHANGED next_operation_sequence
    PROVE  /\ ShardInv'
           /\ epoch' # epoch
<1>1. /\ next_epoch \in Epochs
      /\ next_epoch + 1 \in Epochs
      /\ next_epoch \in Nat
      /\ epoch \in Nat
      /\ epoch < next_epoch
      /\ epoch' = next_epoch
      /\ next_epoch' = next_epoch + 1
  BY Constants DEF AdmitNext, Epochs, ShardInv, ShardTypeOK, TypeOK, ImageCurrent
<1>2. /\ epoch_fence' \in Fence
      /\ epoch_fence'.epoch = epoch'
      /\ epoch_fence'.operations = epoch_fence.operations
  BY <1>1, InstalledFence DEF AdmitNext, ShardInv, ImageCurrent
<1>3. UNCHANGED <<waits, transfers, spawned, applied, restart_count, now,
                  effects, done>>
      /\ internal_operation' = NoOperation
      /\ signals' = [health |-> 1, work |-> 0]
      /\ phase' = "Ready"
      /\ actors' = [a \in Actors |-> Absent]
      /\ timers' = {}
      /\ last_clock_tick' = 0
  BY DEF AdmitNext, ResetTables
<1>4. TypeOK'
  BY <1>1, <1>2, <1>3
  DEF ShardInv, ShardTypeOK, TypeOK, Phases
<1>5. ImageCurrent'
  BY <1>1, <1>2, <1>3 DEF ImageCurrent
<1>6. FreshAdmission'
  BY <1>2, <1>3, Constants DEF ShardInv, ShardTypeOK, FreshAdmission
<1>7. \A w \in waits : w.op.epoch \in Nat /\ w.op.epoch < epoch'
                       /\ w.op.id < next_operation_sequence
  BY <1>1 DEF ShardInv, ShardTypeOK, Tables, WaitsIssued, Wait, Operation, Epochs
<1>8. \A w \in waits' : ~Current(w)'
  BY <1>1, <1>3, <1>7 DEF Current
<1>9. Tables'
  BY <1>1, <1>3, <1>7, <1>8
  DEF Tables, WaitsIssued, WaitsParked, WaitsSingle, TimersParked, TimersAhead
<1>10. Absent \in Actor
  BY DEF Absent, Actor
<1>11. ShardTypeOK'
  BY <1>3, <1>4, <1>10 DEF ShardInv, ShardTypeOK
<1>12. TransferPinsGeneration'
  BY <1>3 DEF ShardInv, TransferPinsGeneration, OutstandingTransfers
<1>13. ContinuationExact'
  BY <1>3 DEF ShardInv, ContinuationExact
<1> QED BY <1>1, <1>5, <1>6, <1>9, <1>11, <1>12, <1>13 DEF ShardInv

\* A drained image is replaced, or its backend refuses and the shard crashes.
LEMMA InstallDrainedInv ==
    ASSUME ShardInv, Quiescent, InstallDrained
    PROVE  ShardInv'
<1>1. CASE AdmitNext /\ UNCHANGED <<restart_deadline_tick, next_operation_sequence>>
  <2>1. restart_deadline_tick' \in 0 .. NoDeadline
    BY <1>1 DEF ShardInv, ShardTypeOK, TypeOK, NoDeadline
  <2> QED BY <1>1, <2>1, AdmitNextInv DEF Quiescent
<1>2. CASE BackendFails
  BY <1>2, CrashInv DEF BackendFails
<1> QED BY <1>1, <1>2 DEF InstallDrained

\* Every step of the image and its epochs.
LEMMA ImageStepInv ==
    ASSUME ShardInv, ImageStep
    PROVE  ShardInv'
<1>1. /\ restart_count \in Nat
      /\ restart_deadline_tick \in 0 .. NoDeadline
      /\ NoDeadline \in 0 .. NoDeadline
      /\ phase \in Phases
  BY Constants DEF ShardInv, ShardTypeOK, TypeOK, NoDeadline
<1>2. CASE ShutdownShard
  <2>1. CASE BackendFails
    BY <2>1, CrashInv DEF BackendFails
  <2>2. CASE /\ phase' = "Stopped"
             /\ UNCHANGED <<generationVars, restart_count,
                            restart_deadline_tick, operationVars, now, shardVars>>
    BY <1>1, <2>2, PhaseMoves DEF Phases, ActivePhases
  <2> QED BY <1>2, <2>1, <2>2 DEF ShutdownShard
<1>3. CASE ReplaceImage
  BY <1>3, InstallDrainedInv DEF ReplaceImage
<1>4. CASE ReportShardCrash
  BY <1>4, CrashInv DEF ReportShardCrash, ReportCrash
<1>5. CASE RecoverComponents
  BY <1>1, <1>5, AdmitNextInv DEF RecoverComponents
<1>6. ASSUME NEW expired \in BOOLEAN, ReplaceImageBeforeDeadline(expired)
      PROVE  ShardInv'
  <2>1. CASE Quiescent /\ InstallDrained
    BY <2>1, InstallDrainedInv
  <2>2. CASE ~Quiescent
    <3>1. /\ phase \in ActivePhases
          /\ phase' \in {"Quarantined", "Draining"}
          /\ restart_deadline_tick' \in {NoDeadline, restart_deadline_tick}
          /\ UNCHANGED <<generationVars, restart_count, operationVars, now,
                         shardVars>>
      BY <1>6, <2>2 DEF ReplaceImageBeforeDeadline
    <3> QED BY <1>1, <3>1, PhaseMoves DEF Phases, ActivePhases
  <2> QED BY <1>6, <2>1, <2>2 DEF ReplaceImageBeforeDeadline
<1> QED BY <1>2, <1>3, <1>4, <1>5, <1>6 DEF ImageStep

\* Time goes on without the shard.
LEMMA TickInv ==
    ASSUME ShardInv, Tick, UNCHANGED shardVars
    PROVE  ShardInv'
<1>1. UNCHANGED <<epoch, next_epoch, signals, phase, restart_count,
                  restart_deadline_tick, epoch_fence, internal_operation,
                  effects, done>>
      /\ now < MaxTick /\ now' = now + 1
  BY DEF Tick, generationVars, operationVars, lifecycleVars
<1>2. UNCHANGED <<next_operation_sequence, actors, waits, timers,
                  last_clock_tick, transfers, spawned, applied>>
  BY DEF shardVars
<1>3. TypeOK'
  BY <1>1, Constants DEF ShardInv, ShardTypeOK, TypeOK
<1>4. ImageCurrent' /\ FreshAdmission'
  BY <1>1, <1>2 DEF ShardInv, ImageCurrent, FreshAdmission
<1>5. Tables'
  BY <1>1, <1>2, TablesKept
<1>6. ShardTypeOK'
  BY <1>2, <1>3 DEF ShardInv, ShardTypeOK
<1> QED BY <1>1, <1>2, <1>4, <1>5, <1>6
        DEF ShardInv, ContinuationExact, TransferPinsGeneration

-----------------------------------------------------------------------------
(* The theorems *)

\* A shard starts with empty tables.
LEMMA ShardInitInv == ShardInit => ShardInv
<1> SUFFICES ASSUME ShardInit PROVE ShardInv
  OBVIOUS
<1>1. /\ 1 \in Epochs /\ 2 \in Epochs
      /\ NewFence(1) \in Fence
      /\ NewFence(1).epoch = 1
      /\ \A id \in OperationIds : NewFence(1).operations[id] = NoRecord
  BY Constants, AdmittedAssumption, InstalledFence DEF Epochs
<1>2. TypeOK
  BY <1>1, Constants
  DEF ShardInit, TypeOK, Phases, NoDeadline, NoEpoch, Epochs
<1>3. Absent \in Actor
  BY DEF Absent, Actor
<1>4. ShardTypeOK
  BY <1>2, <1>3, Constants DEF ShardInit, ShardTypeOK, NothingApplied
<1>5. ImageCurrent /\ FreshAdmission
  BY <1>1 DEF ShardInit, ImageCurrent, FreshAdmission
<1>6. Tables
  BY DEF ShardInit, Tables, WaitsIssued, WaitsParked, WaitsSingle, TimersParked,
         TimersAhead
<1>7. ContinuationExact /\ TransferPinsGeneration
  BY DEF ShardInit, ContinuationExact, NothingApplied, TransferPinsGeneration
<1> QED BY <1>4, <1>5, <1>6, <1>7 DEF ShardInv

\* Every step of the owner keeps the invariant.
LEMMA ShardNextInv == ShardInv /\ [ShardNext]_allVars => ShardInv'
<1> SUFFICES ASSUME ShardInv, [ShardNext]_allVars PROVE ShardInv'
  OBVIOUS
<1>1. ASSUME NEW a \in Actors, ActorStep(a) PROVE ShardInv'
  BY <1>1, BeginCallInv, ResumeCallInv, FinishCallInv, DetachActorInv,
     BeginCapabilityCallInv, NativeServiceCallInv, BeginTimerCallInv
  DEF ActorStep
<1>2. ASSUME NEW w \in waits, WaitStep(w) PROVE ShardInv'
  BY <1>2, CapabilityCompletesInv, CapabilityFailsInv, WaitRejectedInv,
     TimerResumesInv, TimerMissedInv
  DEF WaitStep
<1>3. ASSUME NEW e \in transfers, ImportActor(e) \/ ReleaseTransfer(e)
      PROVE  ShardInv'
  BY <1>3, ImportActorInv, ReleaseTransferInv
<1>4. CASE ImageStep
  BY <1>4, ImageStepInv
<1>5. CASE Tick /\ UNCHANGED shardVars
  BY <1>5, TickInv
<1>6. CASE UNCHANGED allVars
  <2>1. UNCHANGED <<generationVars, operationVars, now, shardVars, phase,
                    restart_count, restart_deadline_tick>>
    BY <1>6 DEF allVars, vars, generationVars, operationVars
  <2>2. phase \in Phases /\ restart_count \in Nat
        /\ restart_deadline_tick \in 0 .. NoDeadline
    BY DEF ShardInv, ShardTypeOK, TypeOK
  <2> QED BY <2>1, <2>2, PhaseMoves
<1> QED BY <1>1, <1>2, <1>3, <1>4, <1>5, <1>6 DEF ShardNext

\* Every reachable state of a shard owner has fresh identities, exact waits
\* and owned timers together; each part is needed to preserve the others.
THEOREM ShardInvariance == ShardSpec => []ShardInv
<1>1. ShardInit => ShardInv
  BY ShardInitInv
<1>2. ShardInv /\ [ShardNext]_allVars => ShardInv'
  BY ShardNextInv
<1> QED BY <1>1, <1>2, PTL DEF ShardSpec

\* The tables, identities and counters of a shard owner keep their types
\* through every method, crash and recovery.
THEOREM ShardTypeCorrect == ShardSpec => []ShardTypeOK
<1>1. ShardInv => ShardTypeOK
  BY DEF ShardInv
<1> QED BY <1>1, ShardInvariance, PTL

\* "fresh operation {} received {admission}" (epoch_operations.rs:52) is never
\* raised: the ledger holds no record of an identity that is still to be
\* allocated, although it outlives every generation.
THEOREM FreshOperationsAdmitted == ShardSpec => []FreshAdmission
<1>1. ShardInv => FreshAdmission
  BY DEF ShardInv
<1> QED BY <1>1, ShardInvariance, PTL

\* A completion or a timer tick, however late, resumes the incarnation of the
\* actor that waited for it, although a new generation starts over with the
\* same process identities.
THEOREM ContinuationsExact == ShardSpec => []ContinuationExact
<1>1. ShardInv => ContinuationExact
  BY DEF ShardInv
<1> QED BY <1>1, ShardInvariance, PTL

\* While a shard accepts calls, the owner of every armed timer is parked on it
\* and somebody holds the wait: no exit or lost tick leaves a timer behind.
THEOREM TimersAreOwned == ShardSpec => []TimersOwned
<1>1. ShardInv => TimersOwned
  <2> SUFFICES ASSUME ShardInv, phase \in ActivePhases, NEW t \in timers
               PROVE  actors[t.owner].at = "Timer" /\ Waiting(t.owner)
    BY DEF TimersOwned
  <2>1. PICK w \in waits : Current(w) /\ w.kind = "Timer" /\ w.owner = t.owner
    BY DEF ShardInv, Tables, TimersParked
  <2>2. actors[w.owner].at = w.kind /\ actors[w.owner].serial = w.serial
    BY <2>1 DEF ShardInv, Tables, WaitsParked
  <2> QED BY <2>1, <2>2 DEF Waiting
<1> QED BY <1>1, ShardInvariance, PTL

\* An actor between two shards keeps the generation it left loaded, through
\* replacement, crash and recovery.
THEOREM TransfersPinGeneration == ShardSpec => []TransferPinsGeneration
<1>1. ShardInv => TransferPinsGeneration
  BY DEF ShardInv
<1> QED BY <1>1, ShardInvariance, PTL

\* Only a crash separates a wait from its generation: a generation that is
\* unloaded without one has no wait outstanding.
THEOREM AcceptedWorkIsKept == ShardSpec => AcceptedWorkKept
<1>1. ASSUME ShardInv, [ShardNext]_allVars
      PROVE  [phase # "RestartBackoff" /\ epoch' # epoch =>
                 \A w \in waits : w.op.epoch # epoch]_allVars
  <2> SUFFICES ASSUME ShardNext, phase # "RestartBackoff", epoch' # epoch,
                      NEW w \in waits, Current(w)
               PROVE  FALSE
    BY <1>1 DEF Current
  <2>1. Quiescent
    <3>1. ~UNCHANGED epoch
      OBVIOUS
    <3>2. ImageStep
      BY <3>1
      DEF ShardNext, ActorStep, WaitStep, BeginCall, ResumeCall, FinishCall,
          DetachActor, BeginCapabilityCall, NativeServiceCall, BeginTimerCall,
          CapabilityCompletes, CapabilityFails, WaitRejected, TimerResumes,
          TimerMissed, ImportActor, ReleaseTransfer, InternalOperation,
          EpochUnchanged, Tick, generationVars, vars
    <3> QED BY <3>1, <3>2
        DEF ImageStep, ShutdownShard, ReplaceImage, ReportShardCrash,
            ReportCrash, ReportCrashAt, RecoverComponents,
            ReplaceImageBeforeDeadline, BackendFails, generationVars
  <2>2. w \in Wait
    BY <1>1 DEF ShardInv, ShardTypeOK
  <2>3. actors[w.owner].at = w.kind /\ w.owner \in Actors
        /\ w.kind \in {"Capability", "Timer"}
    BY <1>1, <2>2 DEF ShardInv, Tables, WaitsParked, Wait
  <2> QED BY <2>1, <2>3 DEF Quiescent, Live
<1> QED BY <1>1, ShardInvariance, PTL DEF ShardSpec, AcceptedWorkKept

=============================================================================
