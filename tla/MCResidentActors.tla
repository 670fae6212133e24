-------------------------- MODULE MCResidentActors --------------------------
(***************************************************************************)
(* ResidentActors for TLC: a root that spawns, links and sends, a first    *)
(* child that spawns, watches and uses a capability, a last one that fails *)
(* and cancels.  In later calls each of them is a root of its own.         *)
(***************************************************************************)
EXTENDS ResidentActors

RootOps == {"spawn", "receive", "send", "link"}
WatcherOps == {"spawn", "receive", "unlink", "monitor", "capability"}
FailingOps == {"receive", "link", "demonitor", "fail", "cancel"}

Roles == <<RootOps, WatcherOps, FailingOps>>
=============================================================================
