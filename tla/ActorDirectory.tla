--------------------------- MODULE ActorDirectory ---------------------------
(***************************************************************************)
(* The data of the actor directory of the Terlan VM                        *)
(* (src/crates/terlan/src/runtime/vm/actor_directory.rs and its            *)
(* sub-modules): lifecycles, the packed ownership word, handles, mutator   *)
(* tokens and the mailbox wake states, with the pure operators the         *)
(* directory's methods are built from.  FixedSchedulerControl is the state *)
(* machine over this data.                                                 *)
(***************************************************************************)
EXTENDS Naturals, Sequences, FiniteSets

CONSTANTS
    Pids,            \* process identities an actor can be registered under
    Schedulers,      \* fixed scheduler threads; each is a nonzero owner word
    NoOwner,         \* the owner word 0: no scheduler owns the actor
    GenerationMask   \* GENERATION_MASK: 2^20 - 1 in the code

ASSUME MaskAssumption == GenerationMask \in Nat /\ GenerationMask >= 1

ASSUME OwnerAssumption == NoOwner \notin Schedulers

-----------------------------------------------------------------------------
(* VmActorLifecycle *)

Lifecycles == {"Queued", "Executing", "Yielding", "Parked", "Migrating",
               "Exiting", "Retired", "Reclaimed"}

\* States that publish_fragment rejects.
Terminal == {"Exiting", "Retired", "Reclaimed"}

\* States a lease may be released into.
Releasable == {"Yielding", "Parked", "Exiting"}

\* States from which begin_migration may leave.
Transferable == {"Queued", "Yielding", "Parked"}

-----------------------------------------------------------------------------
(* The packed state word and its generations *)

Generations == 0 .. GenerationMask

Word == [lifecycle : Lifecycles, actorGen : Generations,
         ownerGen : Generations, owner : Schedulers \cup {NoOwner}]

PackState(lifecycle, actorGen, ownerGen, owner) ==
    [lifecycle |-> lifecycle, actorGen |-> actorGen,
     ownerGen |-> ownerGen, owner |-> owner]

\* next_generation: one step modulo the mask, zero being reserved as invalid.
NextGeneration(current) ==
    LET next == (current + 1) % (GenerationMask + 1)
    IN  IF next = 0 THEN 1 ELSE next

\* The same word in another lifecycle, with no owner.
Unowned(word, lifecycle) ==
    PackState(lifecycle, word.actorGen, word.ownerGen, NoOwner)

\* The word that grants scheduler s a fresh ownership generation.
Owned(word, s) ==
    PackState("Executing", word.actorGen, NextGeneration(word.ownerGen), s)

\* The word of a new cell: VmActorCell::new.
NewWord(actorGen) == PackState("Yielding", actorGen, 0, NoOwner)

\* The preconditions of acquire_mutator and transition_unowned.
MayAcquire(word) == word.owner = NoOwner /\ word.lifecycle = "Queued"

MayTransition(word, allowed) == word.owner = NoOwner /\ word.lifecycle \in allowed

\* validate_token: the token names the current owner and generations.
TokenMatches(word, token) ==
    /\ word.lifecycle = "Executing"
    /\ word.owner = token.owner
    /\ word.ownerGen = token.ownerGen
    /\ word.actorGen = token.actorGen

-----------------------------------------------------------------------------
(* The mailbox wake states *)

WakeStates == {"ACTIVE", "PARKING", "PARKED", "NOTIFIED"}

\* VmMailboxWake: what a producer is told to do after its publication.
WakeOf(previous) == IF previous = "PARKED" THEN "Enqueue" ELSE "Observed"
=============================================================================
