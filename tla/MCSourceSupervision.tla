------------------------- MODULE MCSourceSupervision -------------------------
(***************************************************************************)
(* SourceSupervision for TLC: two permanent children under rest_for_one,   *)
(* the first restarted at once and asked to stop by a deadline, the second *)
(* restarted after a backoff and killed when it is stopped.                *)
(***************************************************************************)
EXTENDS SourceSupervision, TLC

CONSTANTS a, b

Declared == <<a, b>>
Permanent == (a :> "permanent") @@ (b :> "permanent")
OnlySecond == (a :> 0) @@ (b :> 1)
OnlyFirst == (a :> 1) @@ (b :> 0)
=============================================================================
