--------------------------- MODULE MCRunnableQueues ---------------------------
(* An instance of RunnableQueues for TLC. *)
EXTENDS RunnableQueues, TLC

CONSTANTS a1, a2, a3, a4

TwoPriority == (a1 :> 0) @@ (a2 :> 0) @@ (a3 :> 1) @@ (a4 :> 2)
=============================================================================
