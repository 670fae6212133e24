--------------------------- MODULE SourceSupervision ---------------------------
(***************************************************************************)
(* Supervision of the children a Terlan program starts with                *)
(* std.vm.Supervisor: one supervisor, its children and their processes,    *)
(* restart intents kept as VM timers, and the drive that settles exits     *)
(* (supervision.rs, supervision/backoff.rs, supervision/source.rs,         *)
(* actor/supervision.rs and pure_native/execution/supervision.rs under     *)
(* src/crates/terlan/src/runtime/vm).                                      *)
(*                                                                         *)
(* Everything runs on the thread of one execution shard.  An operation     *)
(* ends in a drive, which works in phases: all exits, all terminations,    *)
(* one start, and again from the exits as long as there was a start.  An   *)
(* error leaves the drive at once and goes to the actor that drives.       *)
(* `mode' is the phase; nothing else happens until it is "idle" again.     *)
(*                                                                         *)
(* Sets of children are processed in declared order: child_order is the    *)
(* order of ChildSeq throughout.                                           *)
(*                                                                         *)
(* A process is an identity that is never reused.  Exit reasons count as   *)
(* normal or error: Killed and ShutdownTimeout are errors.                 *)
(***************************************************************************)
EXTENDS Integers, Sequences, SequencesExt, FiniteSets

CONSTANTS
    ChildSeq,       \* the children in declared order
    Strategy,       \* "one_for_one", "one_for_all" or "rest_for_one"
    Class,          \* restart class of each child
    InitialBackoff, MaximumBackoff, ShutdownTimeout,    \* of each child
    Limit, Window,  \* restart intensity of the supervisor
    CallsFinish,    \* whether other calls finish on the shard meanwhile
    MaxPid,         \* bound: processes
    MaxClock,       \* bound: VM clock ticks, but for deadlines set before
    MaxTimers       \* bound: timers at a time

Children == ToSet(ChildSeq)
Pids == 1 .. MaxPid
NoPid == 0

ASSUME SupervisionAssumption ==
    /\ ChildSeq \in Seq(Children) /\ IsInjective(ChildSeq)
    /\ Strategy \in {"one_for_one", "one_for_all", "rest_for_one"}
    /\ Class \in [Children -> {"permanent", "transient", "temporary"}]
    /\ {InitialBackoff, MaximumBackoff, ShutdownTimeout} \subseteq [Children -> Nat]
    /\ \A c \in Children : InitialBackoff[c] <= MaximumBackoff[c]
    /\ {Limit, MaxPid, MaxClock, MaxTimers} \subseteq Nat /\ Window \in Nat \ {0}
    /\ CallsFinish \in BOOLEAN

VARIABLES
    mode,          \* "idle", "firing", or the phase of the drive
    clock,         \* current_tick of the timer table
    owner_alive,   \* whether the actor that owns the supervisor lives
    proc,          \* the process table
    child,         \* what the supervisor knows of each child
    listed,        \* child_order, as a set: the order is ChildSeq's
    state,         \* VmSupervisorState
    restarts,      \* ticks of the incidents in the rolling window
    timers,        \* backoff and shutdown timers, in order of identity
    events,        \* due timers of the current advance
    timer_owner,   \* whether the backoff queue has a live timer owner
    exits, terminations, ready, failure,    \* queues of VmSourceSupervision
    incidents      \* history: the tick of every restart that was granted

vars == <<mode, clock, owner_alive, proc, child, listed, state, restarts, timers,
          events, timer_owner, exits, terminations, ready, failure, incidents>>

-----------------------------------------------------------------------------
(* State *)

Reasons == {"normal", "error"}
Phases == {"exits", "terminations", "ready"}

NoChild == [pid |-> NoPid, restart_count |-> 0, stopped |-> FALSE,
            handled |-> NoPid, pending |-> FALSE]

Timers == [kind : {"restart", "stop"}, child : Children, pid : Nat,
           reason : Reasons, deadline : Nat]

\* Type correctness.
TypeOK ==
    /\ mode \in {"idle", "firing"} \cup Phases
    /\ clock \in Nat
    /\ {owner_alive, timer_owner, failure} \subseteq BOOLEAN
    /\ proc \in [Pids -> {"unused", "live", "reaped"} \cup Reasons]
    /\ child \in [Children -> [pid : Nat, restart_count : Nat, stopped : BOOLEAN,
                               handled : Nat, pending : BOOLEAN]]
    /\ listed \subseteq Children
    /\ state \in {"running", "failed"}
    /\ restarts \in Seq(0 .. clock) /\ Len(restarts) <= Limit
    /\ timers \in Seq(Timers) /\ events \in Seq(Timers)
    /\ exits \in Seq([pid : Nat, reason : Reasons])
    /\ terminations \in Seq(Nat) /\ ready \in Seq(Nat)
    /\ incidents \in Seq(0 .. clock)

Init ==
    /\ mode = "idle" /\ clock = 0 /\ owner_alive = TRUE
    /\ proc = [p \in Pids |-> "unused"]
    /\ child = [c \in Children |-> NoChild]
    /\ listed = {} /\ state = "running" /\ restarts = <<>>
    /\ timers = <<>> /\ events = <<>> /\ timer_owner = FALSE
    /\ exits = <<>> /\ terminations = <<>> /\ ready = <<>> /\ failure = FALSE
    /\ incidents = <<>>

-----------------------------------------------------------------------------
(* Order *)

Position == [c \in Children |-> CHOOSE i \in DOMAIN ChildSeq : ChildSeq[i] = c]
PositionsOf(S) == {Position[c] : c \in S}

\* The entries of a sequence at a set of its positions, in their order.
Rank(I, i) == Cardinality({j \in I : j < i})
Picked(s, I) == [k \in 1 .. Cardinality(I) |-> s[CHOOSE i \in I : Rank(I, i) = k - 1]]

\* A set of children in declared order.
InOrder(S) == Picked(ChildSeq, PositionsOf(S))

-----------------------------------------------------------------------------
(* Processes *)

NextPid(table) == 1 + Cardinality({p \in Pids : table[p] # "unused"})
Live(c) == child[c].pid # NoPid /\ proc[child[c].pid] = "live"
Admitted == {c \in Children : child[c].pid # NoPid}

\* A bound: room for every restart that may still be owed, and one round more.
Room ==
    MaxPid - NextPid(proc) + 1 >=
        Cardinality(Children) * (Len(exits) + 1)
        + Cardinality({c \in Children : child[c].pending})

\* exit_actor of the live ones among the processes of a sequence of children.
Ended(table, doomed, reason) ==
    [p \in Pids |-> IF \E c \in doomed : child[c].pid = p /\ table[p] = "live"
                    THEN reason ELSE table[p]]

Recorded(doomed, reason) ==
    LET dead == InOrder({c \in doomed : Live(c)})
    IN  [i \in DOMAIN dead |-> [pid |-> child[dead[i]].pid, reason |-> reason]]

\* The processes that replace those of a set of children, one after the other
\* in declared order, and who has them.
Spawned(table, reborn) ==
    [p \in Pids |-> IF p \in NextPid(table) .. NextPid(table) + Cardinality(reborn) - 1
                    THEN "live" ELSE table[p]]

Replaced(kids, table, reborn) ==
    [c \in Children |->
        IF c \in reborn
        THEN [kids[c] EXCEPT !.pid = NextPid(table) + Rank(PositionsOf(reborn), Position[c]),
                             !.restart_count = @ + 1]
        ELSE kids[c]]

\* collect_replacements: a replacement is ready to start, its child not pending.
Collected(kids) == {c \in Children : kids[c].pending /\ kids[c].handled # kids[c].pid}
Settled(kids) == [c \in Children |-> [kids[c] EXCEPT !.pending = @ /\ kids[c].handled = kids[c].pid]]
Starts(kids) ==
    LET new == InOrder(Collected(kids)) IN [i \in DOMAIN new |-> kids[new[i]].pid]

-----------------------------------------------------------------------------
(* Restart policy *)

ShouldRestart(c, reason) ==
    /\ ~child[c].stopped
    /\ \/ Class[c] = "permanent"
       \/ Class[c] = "transient" /\ reason # "normal"

\* delay_for_restart_count: doubled with each restart, and capped.
DelayFor(c, count) ==
    LET doubled == InitialBackoff[c] * 2 ^ (count - 1)
    IN  IF doubled < MaximumBackoff[c] THEN doubled ELSE MaximumBackoff[c]

Delay(c) == DelayFor(c, child[c].restart_count + 1)

Selected(c) ==
    CASE Strategy = "one_for_one"  -> {c}
      [] Strategy = "one_for_all"  -> listed
      [] Strategy = "rest_for_one" -> {d \in listed : Position[d] >= Position[c]}

\* Mutant: the window is one tick short.
ExpiredShort(tick) == clock - tick + 1 >= Window

Expired(tick) == clock - tick >= Window

\* The incidents that still count at the current tick: expired ones leave the
\* queue at its front, up to the first that has not expired.
Dropped ==
    CHOOSE n \in 0 .. Len(restarts) :
        /\ \A i \in 1 .. n : Expired(restarts[i])
        /\ n < Len(restarts) => ~Expired(restarts[n + 1])
InWindow == SubSeq(restarts, Dropped + 1, Len(restarts))

IntentOf(c) == {i \in DOMAIN timers : timers[i].kind = "restart" /\ timers[i].child = c}
\* Mutant: the restart timers stay.
WithoutIntentsKept(S) == timers
WithoutIntents(S) ==
    Picked(timers, {i \in DOMAIN timers : ~(timers[i].kind = "restart" /\ timers[i].child \in S)})

-----------------------------------------------------------------------------
(* Operations of the owner *)

\* Mutant: a running child is started again.
StartChildTwice(c) ==
    /\ mode = "idle" /\ owner_alive /\ state = "running" /\ Room
    /\ proc' = Spawned(proc, {c})
    /\ child' = [child EXCEPT ![c].pid = NextPid(proc)]
    /\ listed' = listed \cup {c}
    /\ ready' = Append(ready, NextPid(proc))
    /\ mode' = "exits"
    /\ UNCHANGED <<clock, owner_alive, state, restarts, timers, events, timer_owner,
                   exits, terminations, failure, incidents>>

\* start: the child is admitted, spawned and queued for its first execution.
StartChild(c) ==
    /\ mode = "idle" /\ owner_alive /\ state = "running"
    /\ c \notin Admitted /\ Room
    /\ proc' = Spawned(proc, {c})
    /\ child' = [child EXCEPT ![c].pid = NextPid(proc)]
    /\ listed' = listed \cup {c}
    /\ ready' = Append(ready, NextPid(proc))
    /\ mode' = "exits"
    /\ UNCHANGED <<clock, owner_alive, state, restarts, timers, events, timer_owner,
                   exits, terminations, failure, incidents>>

\* stop: no restart from here on; the process is killed, or asked to go by a deadline.
Lingers(c) == Live(c) /\ ShutdownTimeout[c] > 0

StopChild(c) ==
    /\ mode = "idle" /\ owner_alive /\ c \in Admitted
    /\ Len(timers) < MaxTimers /\ clock < MaxClock
    /\ child' = [child EXCEPT ![c].stopped = TRUE]
    /\ listed' = listed \ {c}
    /\ IF Lingers(c)
       THEN /\ timers' = Append(WithoutIntents({c}),
                            [kind |-> "stop", child |-> c, pid |-> child[c].pid,
                             reason |-> "error", deadline |-> clock + ShutdownTimeout[c]])
            /\ UNCHANGED <<proc, exits>>
       ELSE /\ timers' = WithoutIntents({c})
            /\ proc' = Ended(proc, {c}, "error")
            /\ exits' = exits \o Recorded({c}, "error")
    /\ mode' = "exits"
    /\ UNCHANGED <<clock, owner_alive, state, restarts, events, timer_owner,
                   terminations, ready, failure, incidents>>

\* owner_exited: the children go with their owner, and so do its timers.
OwnerExits ==
    /\ mode = "idle" /\ owner_alive
    /\ owner_alive' = FALSE /\ state' = "failed"
    /\ child' = [c \in Children |-> [child[c] EXCEPT !.stopped = c \in Admitted]]
    /\ proc' = Ended(proc, Admitted, "error")
    /\ exits' = exits \o Recorded(Admitted, "error")
    /\ timers' = <<>> /\ timer_owner' = FALSE
    /\ mode' \in {"idle", "exits"}
    /\ UNCHANGED <<clock, listed, restarts, events, terminations, ready, failure, incidents>>

-----------------------------------------------------------------------------
(* Children and the clock *)

\* Children that have run end: one by itself, or several that are linked when
\* one fails.  A drive follows, except after the capability completion of a
\* resident actor.
ChildrenExit(S, reason) ==
    /\ mode = "idle" /\ Room
    /\ \A c \in S : Live(c) /\ child[c].pid \notin ToSet(ready)
    /\ reason = "normal" => Cardinality(S) = 1
    /\ proc' = Ended(proc, S, reason)
    /\ exits' = exits \o Recorded(S, reason)
    /\ mode' \in {"idle", "exits"}
    /\ UNCHANGED <<clock, owner_alive, child, listed, state, restarts, timers, events,
                   timer_owner, terminations, ready, failure, incidents>>

\* advance_clock: the wait of some actor of the shard is over.
AdvanceClock(now) ==
    /\ mode = "idle"
    /\ clock' = now
    /\ events' = Picked(timers, {i \in DOMAIN timers : timers[i].deadline <= now})
    /\ timers' = Picked(timers, {i \in DOMAIN timers : timers[i].deadline > now})
    /\ mode' = "firing"
    /\ UNCHANGED <<owner_alive, proc, child, listed, state, restarts, timer_owner,
                   exits, terminations, ready, failure, incidents>>

\* Mutant: a shutdown deadline passes without effect.
FireStopLost ==
    /\ mode = "firing" /\ events # <<>> /\ Head(events).kind = "stop"
    /\ events' = Tail(events)
    /\ UNCHANGED <<mode, clock, owner_alive, proc, child, listed, state, restarts, timers,
                   timer_owner, exits, terminations, ready, failure, incidents>>

\* timer_event for a shutdown deadline.
FireStop ==
    /\ mode = "firing" /\ events # <<>> /\ Head(events).kind = "stop"
    /\ terminations' = Append(terminations, Head(events).pid)
    /\ events' = Tail(events)
    /\ UNCHANGED <<mode, clock, owner_alive, proc, child, listed, state, restarts, timers,
                   timer_owner, exits, ready, failure, incidents>>

\* handle_timer_event and restart_child_after_backoff.  A tombstone that was
\* reaped meanwhile is an error, and the intent is gone all the same.
FireRestart ==
    LET intent == Head(events)
        current == timer_owner /\ child[intent.child].pid = intent.pid
        reborn == IF current /\ proc[intent.pid] # "reaped" THEN {intent.child} ELSE {}
        kids == Replaced(child, proc, reborn)
    IN  /\ mode = "firing" /\ events # <<>> /\ intent.kind = "restart"
        /\ proc' = Spawned(proc, reborn)
        /\ child' = Settled(kids)
        /\ ready' = ready \o Starts(kids)
        /\ failure' = (failure \/ (current /\ proc[intent.pid] = "reaped"))
        /\ events' = Tail(events)
        /\ UNCHANGED <<mode, clock, owner_alive, listed, state, restarts, timers,
                       timer_owner, exits, terminations, incidents>>

Fired ==
    /\ mode = "firing" /\ events = <<>>
    /\ mode' \in {"idle", "exits"}
    /\ UNCHANGED <<clock, owner_alive, proc, child, listed, state, restarts, timers, events,
                   timer_owner, exits, terminations, ready, failure, incidents>>

-----------------------------------------------------------------------------
(* The drive *)

\* take_supervised_start, entered from a transition of any actor of the shard.
Drive ==
    /\ mode = "idle"
    /\ mode' = "exits"
    /\ UNCHANGED <<clock, owner_alive, proc, child, listed, state, restarts, timers, events,
                   timer_owner, exits, terminations, ready, failure, incidents>>

\* Who next_exit finds for the exit at the head of the queue.
Failing == {c \in Admitted :
                /\ child[c].pid = Head(exits).pid /\ child[c].handled # Head(exits).pid
                /\ ~child[c].stopped /\ ~child[c].pending}

\* An exit that is nobody's concern, or that ends a child for good.
IgnoreExit ==
    /\ mode = "exits" /\ exits # <<>>
    /\ \/ state # "running"
       \/ \A c \in Failing : ~ShouldRestart(c, Head(exits).reason)
    /\ child' = [c \in Children |->
                    IF c \in Failing /\ state = "running"
                    THEN [child[c] EXCEPT !.handled = Head(exits).pid] ELSE child[c]]
    /\ exits' = Tail(exits)
    /\ UNCHANGED <<mode, clock, owner_alive, proc, listed, state, restarts, timers, events,
                   timer_owner, terminations, ready, failure, incidents>>

Incident(c) ==
    /\ mode = "exits" /\ exits # <<>> /\ state = "running"
    /\ c \in Failing /\ ShouldRestart(c, Head(exits).reason)

\* The restart budget is spent: the supervisor fails and takes its children along.
Exhausted == Len(InWindow) >= Limit

GiveUp(c) ==
    /\ Incident(c) /\ Exhausted
    /\ state' = "failed" /\ restarts' = InWindow
    /\ proc' = Ended(proc, Admitted, Head(exits).reason)
    /\ exits' = Tail(exits) \o Recorded(Admitted, Head(exits).reason)
    /\ child' = [d \in Children |-> IF d \in listed
                                    THEN [child[d] EXCEPT !.stopped = TRUE, !.pending = FALSE]
                                    ELSE child[d]]
    /\ timers' = WithoutIntents(listed)
    /\ UNCHANGED <<mode, clock, owner_alive, listed, events, timer_owner,
                   terminations, ready, failure, incidents>>

\* The selected siblings once next_exit marked them and their processes ended.
Marked(c) ==
    [d \in Children |->
        IF d \in Selected(c)
        THEN [child[d] EXCEPT !.handled = child[d].pid,
                              !.pending = ShouldRestart(d, Head(exits).reason)]
        ELSE child[d]]

\* schedule_restart: who is restarted at once, who is deferred, and what it
\* refuses: a sibling that is already deferred, or one whose tombstone is gone.
Reborn(c) == {d \in Selected(c) : ShouldRestart(d, Head(exits).reason) /\ Delay(d) = 0}
Deferred(c) == {d \in Selected(c) : ShouldRestart(d, Head(exits).reason) /\ Delay(d) > 0}
Missing(c) == {d \in Selected(c) : proc[child[d].pid] = "reaped"}
Refused(c) == \E d \in Selected(c) : IntentOf(d) # {}

\* An immediate group restart that meets a missing process has restarted those before it.
BeforeMissing(c) ==
    {d \in Reborn(c) : \A m \in Missing(c) : Position[d] < Position[m]}

Intents(c) ==
    LET late == InOrder(Deferred(c))
    IN  [i \in DOMAIN late |->
            [kind |-> "restart", child |-> late[i], pid |-> child[late[i]].pid,
             reason |-> Head(exits).reason, deadline |-> clock + Delay(late[i])]]

IncidentCounted(c) ==
    /\ Incident(c) /\ ~Exhausted
    /\ restarts' = Append(InWindow, clock)
    /\ exits' = Tail(exits) \o Recorded(Selected(c), Head(exits).reason)
    /\ incidents' = Append(incidents, clock)
    /\ UNCHANGED <<clock, owner_alive, listed, state, events, terminations, failure>>

RestartSelected(c) ==
    LET table == Ended(proc, Selected(c), Head(exits).reason)
        kids == Replaced(Marked(c), table, Reborn(c))
    IN  /\ IncidentCounted(c)
        /\ ~Refused(c) /\ Missing(c) = {}
        /\ proc' = Spawned(table, Reborn(c))
        /\ child' = Settled(kids)
        /\ ready' = ready \o Starts(kids)
        /\ timers' = timers \o Intents(c)
        /\ timer_owner' = (timer_owner \/ Deferred(c) # {})
        /\ mode' = mode

RestartFails(c) ==
    LET table == Ended(proc, Selected(c), Head(exits).reason)
        reborn == IF Refused(c) \/ Deferred(c) # {} THEN {} ELSE BeforeMissing(c)
    IN  /\ IncidentCounted(c)
        /\ Refused(c) \/ Missing(c) # {}
        /\ proc' = Spawned(table, reborn)
        /\ child' = Replaced(Marked(c), table, reborn)
        /\ mode' = "idle"
        /\ UNCHANGED <<ready, timers, timer_owner>>

ExitsDone ==
    /\ mode = "exits" /\ exits = <<>>
    /\ mode' = "terminations"
    /\ UNCHANGED <<clock, owner_alive, proc, child, listed, state, restarts, timers, events,
                   timer_owner, exits, terminations, ready, failure, incidents>>

\* take_termination: children past their deadline, then an idle timer owner.
Terminate ==
    LET doomed == {c \in Admitted : child[c].pid = Head(terminations)}
    IN  /\ mode = "terminations" /\ terminations # <<>>
        /\ proc' = Ended(proc, doomed, "error")
        /\ exits' = exits \o Recorded(doomed, "error")
        /\ terminations' = Tail(terminations)
        /\ UNCHANGED <<mode, clock, owner_alive, child, listed, state, restarts, timers, events,
                       timer_owner, ready, failure, incidents>>

NoIntents == \A i \in DOMAIN timers : timers[i].kind # "restart"

TerminationsDone ==
    /\ mode = "terminations" /\ terminations = <<>>
    /\ timer_owner' = (timer_owner /\ ~NoIntents)
    /\ mode' = "ready"
    /\ UNCHANGED <<clock, owner_alive, proc, child, listed, state, restarts, timers, events,
                   exits, terminations, ready, failure, incidents>>

\* take_ready: the first queued start that is still somebody's current process.
Startable(p) == state = "running" /\ \E c \in Admitted : child[c].pid = p /\ ~child[c].stopped
StartsLeft == {i \in DOMAIN ready : Startable(ready[i])}
NextStart == CHOOSE i \in StartsLeft : \A j \in StartsLeft : i <= j

\* A timer event failed before: the drive that comes across it fails.
SurfaceFailure ==
    /\ mode = "ready" /\ failure
    /\ failure' = FALSE /\ mode' = "idle"
    /\ UNCHANGED <<clock, owner_alive, proc, child, listed, state, restarts, timers, events,
                   timer_owner, exits, terminations, ready, incidents>>

\* The child runs its entry: it parks, completes or fails.  Only a runnable
\* process is enqueued; anything else is an error.
ExecuteStart(outcome) ==
    LET p == ready[NextStart]
    IN  /\ mode = "ready" /\ ~failure /\ StartsLeft # {}
        /\ ready' = SubSeq(ready, NextStart + 1, Len(ready))
        /\ IF proc[p] # "live"
           THEN mode' = "idle" /\ outcome = "live" /\ UNCHANGED <<proc, exits>>
           ELSE /\ outcome = "live" \/ Room
                /\ proc' = [proc EXCEPT ![p] = outcome]
                /\ exits' = IF outcome = "live" THEN exits
                            ELSE Append(exits, [pid |-> p, reason |-> outcome])
                /\ mode' = "exits"
        /\ UNCHANGED <<clock, owner_alive, child, listed, state, restarts, timers, events,
                       timer_owner, terminations, failure, incidents>>

\* The drive is done.  If it belongs to finish_owner of another call,
\* reap_exited_actors follows.
DriveDone ==
    /\ mode = "ready" /\ ~failure /\ StartsLeft = {}
    /\ ready' = <<>> /\ mode' = "idle"
    /\ \/ UNCHANGED proc
       \/ /\ CallsFinish
          /\ proc' = [p \in Pids |-> IF proc[p] \in Reasons THEN "reaped" ELSE proc[p]]
    /\ UNCHANGED <<clock, owner_alive, child, listed, state, restarts, timers, events,
                   timer_owner, exits, terminations, failure, incidents>>

-----------------------------------------------------------------------------

\* What runs once it was entered, on the thread of the shard.
Step ==
    \/ FireStop \/ FireRestart \/ Fired
    \/ IgnoreExit \/ ExitsDone \/ Terminate \/ TerminationsDone
    \/ \E c \in Children : GiveUp(c) \/ RestartSelected(c) \/ RestartFails(c)
    \/ SurfaceFailure \/ DriveDone
    \/ \E outcome \in {"live"} \cup Reasons : ExecuteStart(outcome)

\* The bound on the clock does not keep a deadline from passing.
LastTick == Max({MaxClock} \cup {timers[i].deadline : i \in DOMAIN timers})
Tick == \E now \in clock + 1 .. LastTick : AdvanceClock(now)

Next ==
    \/ \E c \in Children : StartChild(c) \/ StopChild(c)
    \/ \E S \in (SUBSET Children) \ {{}}, reason \in Reasons : ChildrenExit(S, reason)
    \/ OwnerExits
    \/ Tick
    \/ Drive
    \/ Step

Spec == Init /\ [][Next]_vars

\* What is entered runs to its end; actors of the shard keep waking from waits,
\* which advances the clock between drives (strong fairness: a drive disables
\* it), and keep making transitions, which drives.
FairSpec == Spec /\ WF_vars(Step) /\ SF_vars(Tick) /\ WF_vars(Drive)

-----------------------------------------------------------------------------
(* Properties *)

\* Whatever crosses what (a restart from a timer, a group restart, a stop), a
\* child never has two live processes: the live ones are the current ones.
OneLiveProcess ==
    \A p \in Pids : proc[p] = "live" => \E c \in Children : child[c].pid = p

\* Wherever the window is laid over the past, it holds no more restarts than
\* the limit, although only the ticks the last look left are remembered.
IntensityBounded ==
    \A from \in 0 .. clock :
        Cardinality({i \in DOMAIN incidents : incidents[i] \in from .. from + Window - 1}) <= Limit

\* A stopped child is never given another process, whatever was under way.
StoppedStaysDown ==
    [][\A c \in Children : child[c].stopped =>
            child'[c].stopped /\ child'[c].pid = child[c].pid]_vars

\* A stopped child goes away, by itself or at its deadline.
StopCompletes ==
    \A c \in Children : child[c].stopped ~> ~Live(c)
=============================================================================
