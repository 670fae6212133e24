------------------------ MODULE MCHandlerShards ------------------------
(***************************************************************************)
(* HandlerShards for TLC: an actor that lives long enough to yield, to be  *)
(* stolen and to park at the thief, another that is soon over, and two     *)
(* owners of which one may panic and the other be shut down, and of which  *)
(* either may lose what a dropped invocation publishes.                    *)
(***************************************************************************)
EXTENDS HandlerShards

LongAndShort == <<3, 1>>
EveryFault == {<<1, "panic">>, <<0, "shutdown">>, <<0, "telemetry">>, <<1, "spawn">>}
=============================================================================
