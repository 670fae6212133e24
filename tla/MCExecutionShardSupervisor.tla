--------------------- MODULE MCExecutionShardSupervisor ---------------------
(* Instances of ExecutionShardSupervisor for TLC. *)
EXTENDS ExecutionShardSupervisor
=============================================================================
