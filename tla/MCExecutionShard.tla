-------------------------- MODULE MCExecutionShard --------------------------
(* Instances of ExecutionShard for TLC. *)
EXTENDS ExecutionShard, TLC

CONSTANTS a1, a2

TwoActors == {a1, a2}

\* Process identities are interchangeable.
ActorSymmetry == Permutations(TwoActors)
=============================================================================
