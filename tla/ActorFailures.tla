--------------------------- MODULE ActorFailures ---------------------------
(***************************************************************************)
(* The failure layer of the local actor runtime: links, monitors and the  *)
(* exit of an actor (vm/failure.rs, vm/actor_exit.rs,                      *)
(* vm/actor_relationship.rs, vm/process.rs).                               *)
(*                                                                         *)
(* The runtime is one record, and an operation is an operator from the     *)
(* record before to the record after.  Its fields are                      *)
(*   status    the state of a process; an exited one keeps its reason,     *)
(*             Normal ("normal") or any other ("failed");                  *)
(*   reaped    exited actors whose tombstone was removed from the table;   *)
(*   cancelled actors with cancellation_requested;                         *)
(*   links     the symmetric links, as two-element sets;                   *)
(*   monitors  every monitor ever registered, in order of its reference;   *)
(*   mail      the number of messages a native receive could take;         *)
(*   lease     actors with an entry in native_continuations.               *)
(* No caller outside the tests traps exits, so a link either kills or      *)
(* does nothing.  DOWN messages carry no boundary type and no native       *)
(* receive selects them: they are counted by their monitor, not in mail.   *)
(***************************************************************************)
EXTENDS Integers, Sequences, FiniteSets, SequencesExt

CONSTANT MaxActors \* process identities 1 .. MaxActors are handed out

ASSUME MaxActorsAssumption == MaxActors \in Nat \ {0}

Actors == 1..MaxActors

Live(v, a) == v.status[a] = "live"

\* The process table still holds the actor, alive or as a tombstone.
Known(v, a) == v.status[a] # "unborn" /\ a \notin v.reaped

\* Identities are handed out in ascending order.
NextActor(v) == Cardinality({a \in Actors : v.status[a] # "unborn"}) + 1

SpawnActor(v, a) == [v EXCEPT !.status[a] = "live"]

LinkActors(v, a, b) == [v EXCEPT !.links = @ \union {{a, b}}]

UnlinkActors(v, a, b) == [v EXCEPT !.links = @ \ {{a, b}}]

\* monitor_or_complete: an exited target is reported at once.
MonitorActor(v, watcher, target) ==
    [v EXCEPT !.monitors =
        Append(@, [watcher |-> watcher, target |-> target,
                   state |-> IF Live(v, target) THEN "active" ELSE "told"])]

DemonitorActor(v, r) == [v EXCEPT !.monitors[r].state = "dropped"]

\* A set of actors in ascending order.
Below(S, b) == Cardinality({c \in S : c < b})
Ascending(S) == [k \in 1..Cardinality(S) |-> CHOOSE b \in S : Below(S, b) = k - 1]

\* take_links lists the peers in the order of the canonical pairs.
PeerSet(v, a) == {b \in Actors : {a, b} \in v.links}
Peers(v, a) == Ascending(PeerSet(v, a))

\* Mutant: a target tells only the watchers it is not linked with, as if the
\* link had done so.
TakeMonitorsUnlinked(v, a) ==
    [r \in DOMAIN v.monitors |->
        LET m == v.monitors[r]
        IN  IF m.watcher = a THEN [m EXCEPT !.state = "dropped"]
            ELSE IF m.state # "active" \/ m.target # a THEN m
            ELSE [m EXCEPT !.state = IF {m.watcher, a} \in v.links
                                     THEN "unheard" ELSE "told"]]

\* remove_watcher_monitors, then take_target_monitors with a DOWN message to
\* every watcher that is still alive.  What was said to an actor is gone with
\* its mailbox.
TakeMonitors(v, a) ==
    [r \in DOMAIN v.monitors |->
        LET m == v.monitors[r]
        IN  IF m.watcher = a THEN [m EXCEPT !.state = "dropped"]
            ELSE IF m.state # "active" \/ m.target # a THEN m
            ELSE [m EXCEPT !.state = IF Live(v, m.watcher) THEN "told"
                                     ELSE "unheard"]]

\* What the exit of one process changes, its peers apart: state and mailbox,
\* monitors, links and the native continuation lease.
ExitOne(v, a, why) ==
    [v EXCEPT !.status[a] = why, !.mail[a] = 0,
              !.lease = @ \ {a},
              !.links = {l \in @ : a \notin l},
              !.monitors = TakeMonitors(v, a)]

\* Mutant: a normal exit is propagated as well.
PropagatedAlways(v, a, why) == Peers(v, a)

\* The linked actors an exit is passed on to.
Propagated(v, a, why) == IF why = "normal" THEN <<>> ELSE Peers(v, a)

\* exit_process_inner: depth first, one process at a time, its links taken
\* before any peer is visited, a peer that is no longer alive skipped.  Every
\* link is visited at most once from each end, which bounds the steps.
ExitStep(s, why) ==
    IF s.work = <<>> THEN s
    ELSE LET a == Head(s.work)
         IN  IF Live(s.v, a)
             THEN [v |-> ExitOne(s.v, a, why),
                   work |-> Propagated(s.v, a, why) \o Tail(s.work)]
             ELSE [s EXCEPT !.work = Tail(@)]

Cascade(v, a, why) ==
    LET after[n \in Nat] == IF n = 0 THEN [v |-> v, work |-> <<a>>]
                            ELSE ExitStep(after[n - 1], why)
    IN  after

ExitActor(v, a, why) == Cascade(v, a, why)[1 + 2 * Cardinality(v.links)].v

\* reap_exited_actors: every tombstone of the table goes, its cancellation
\* flag with it.
ReapExited(v) ==
    LET exited == {a \in Actors : v.status[a] \in {"normal", "failed"}}
    IN  [v EXCEPT !.reaped = exited, !.cancelled = @ \ exited]
=============================================================================
