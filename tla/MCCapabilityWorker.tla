------------------------- MODULE MCCapabilityWorker -------------------------
(***************************************************************************)
(* Instances of CapabilityWorker: a worker with a credit of one or two,    *)
(* with and without crashes, for a handful of calls.                       *)
(***************************************************************************)
EXTENDS CapabilityWorker
=============================================================================
