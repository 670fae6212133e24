---------------------------- MODULE HandlerShards ----------------------------
(***************************************************************************)
(* One generation of the HTTP server's generated handlers: the owner       *)
(* threads of its execution shards                                         *)
(* (src/crates/terlan/src/commands/serve/handler_cache/shard_owner.rs and  *)
(* its sub-modules), the requests that call into them (invocation.rs) and  *)
(* the work stealing those requests drive while they wait                  *)
(* (handler_cache.rs).                                                     *)
(*                                                                         *)
(* An owner thread is the only one to touch its shard and its queues: one  *)
(* command, one slice, one due timer or one completed capability is one    *)
(* action.  A request's thread takes a step between two operations on what *)
(* it shares with others.  The directory is reduced to the lifecycle and   *)
(* the scheduler of an actor: FixedSchedulerControl has the words beneath. *)
(* What generated code does in a slice, whether a shard lets an actor go   *)
(* or takes one in, and when a thread panics is the environment's choice.  *)
(* A queue of runnable actors is a set: the order inside is RunnableQueue. *)
(***************************************************************************)
EXTENDS Integers, Sequences, FiniteSets

CONSTANTS
    Width,            \* shards of the generation
    MaxActors,        \* bound: actor routes handed out
    MaxSlices,        \* bound: slices of each actor that do not end it
    InboxCapacity,    \* SHARD_INBOX_CAPACITY
    QueueCapacity,    \* RUNNABLE_QUEUE_CAPACITY and TIMER_QUEUE_CAPACITY
    CounterModulus,   \* 2^w of the reservation counters
    Faults            \* what may go wrong at which shard, per the run

ASSUME SizeAssumption ==
    /\ {Width, MaxActors, InboxCapacity, QueueCapacity} \subseteq Nat \ {0}
    /\ CounterModulus \in Nat /\ CounterModulus > MaxActors + 1

Shards == 0 .. Width - 1
ASSUME FaultsAssumption ==
    Faults \subseteq Shards \X {"panic", "shutdown", "telemetry", "spawn"}

Actors == 1 .. MaxActors
ASSUME SlicesAssumption == MaxSlices \in [Actors -> Nat]

VARIABLES
    next_actor_route, \* routes handed out so far
    active_actors,    \* reservations of each shard
    invocation,       \* where the request of an actor stands, and its route
    reply,            \* what its reply channel holds
    control,          \* lifecycle and scheduler in the directory
    published,        \* the publication in an actor's mailbox
    helpers,          \* terlan-aot-cancel threads: drains still to be sent
    failure,          \* the failure latch shared by the generation
    owner,            \* the owner threads
    turn,             \* what an owner thread does next in its loop
    inbox,            \* commands of each owner
    routes,           \* actor routes an owner has registered
    resident,         \* actors whose state is in the shard of an owner
    runnable, timers, capabilities,  \* retained invocations of an owner
    resource_owners,  \* actors whose resources an owner's dispatcher holds
    slices,           \* slices spent by each actor, for the bound
    work_policy,      \* the steal that runs under the policy lock
    booked,           \* history: the shard that is charged for a request
    undrained         \* history: actors whose Drain a drop could not send

callerVars == <<next_actor_route, active_actors, invocation, booked, undrained>>
sharedVars == <<control, published, failure>>
ownerVars == <<owner, turn, inbox, routes, resident, runnable, timers,
               capabilities, resource_owners, slices>>
vars == <<callerVars, reply, sharedVars, helpers, ownerVars, work_policy>>

-----------------------------------------------------------------------------
(* State *)

Phases == {"new", "routed", "registered", "waiting", "holding", "publishing",
           "resuming", "cancelling", "done"}

Nowhere == Width
Places == 0 .. Width

NoReply == [kind |-> "None", scheduler |-> Nowhere]

Replies == [kind : {"None", "Complete", "Waiting", "Err", "Cancelled",
                    "Disconnected"}, scheduler : Places]

Unregistered == [life |-> "None", scheduler |-> Nowhere]

Commands ==
    [op : {"Begin", "Drain"}, actor : Actors]
      \cup [op : {"Detach"}, to : Shards]
      \cup [op : {"Import"}, actor : Actors]
      \cup {[op |-> "Shutdown"]}

IdlePolicy == [phase |-> "idle", by |-> 0, from |-> Nowhere, to |-> Nowhere,
               actor |-> 0]

\* Type correctness.
TypeOK ==
    /\ next_actor_route \in 0 .. MaxActors
    /\ active_actors \in [Shards -> 0 .. CounterModulus - 1]
    /\ invocation \in [Actors -> [at : Phases, route : Places]]
    /\ reply \in [Actors -> Replies]
    /\ control \in [Actors -> [life : {"None", "Queued", "Parked"},
                               scheduler : Places]]
    /\ published \in [Actors -> {"none", "resumed", "waited", "detached"}]
    /\ helpers \subseteq Actors
    /\ failure \in BOOLEAN
    /\ owner \in [Shards -> {"running", "stopped", "panicked"}]
    /\ turn \in [Shards -> {"command", "slice"}]
    /\ inbox \in [Shards -> Seq(Commands)]
    /\ {routes, resident, runnable, timers, capabilities, resource_owners}
         \subseteq [Shards -> SUBSET Actors]
    /\ slices \in [Actors -> Nat] /\ \A a \in Actors : slices[a] <= MaxSlices[a] + 1
    /\ work_policy \in [phase : {"idle", "detaching", "detached", "importing",
                                 "rejected", "restoring"},
                        by : 0 .. MaxActors, from : Places, to : Places,
                        actor : 0 .. MaxActors]
    /\ booked \in [Actors -> Places] /\ undrained \subseteq Actors

Init ==
    /\ next_actor_route = 0
    /\ active_actors = [s \in Shards |-> 0]
    /\ invocation = [a \in Actors |-> [at |-> "new", route |-> Nowhere]]
    /\ reply = [a \in Actors |-> NoReply]
    /\ control = [a \in Actors |-> Unregistered]
    /\ published = [a \in Actors |-> "none"]
    /\ helpers = {}
    /\ failure = FALSE
    /\ owner = [s \in Shards |-> "running"]
    /\ turn = [s \in Shards |-> "command"]
    /\ inbox = [s \in Shards |-> <<>>]
    /\ routes = [s \in Shards |-> {}]
    /\ resident = [s \in Shards |-> {}]
    /\ runnable = [s \in Shards |-> {}]
    /\ timers = [s \in Shards |-> {}]
    /\ capabilities = [s \in Shards |-> {}]
    /\ resource_owners = [s \in Shards |-> {}]
    /\ slices = [a \in Actors |-> 0]
    /\ work_policy = IdlePolicy
    /\ booked = [a \in Actors |-> Nowhere]
    /\ undrained = {}

-----------------------------------------------------------------------------
(* Helpers *)

\* VmSchedulerTopology::route: actors are dealt out to the shards in turn.
Home(a) == (a - 1) % Width

Add(table, s, a) == [table EXCEPT ![s] = @ \cup {a}]
Remove(table, s, a) == [table EXCEPT ![s] = @ \ {a}]

Running(s) == owner[s] = "running"

\* fetch_add and fetch_sub wrap around.  In debug builds a shard that gives back
\* more than it is charged for panics: "actor route reservation underflow".
Reserve(active, s) == [active EXCEPT ![s] = (@ + 1) % CounterModulus]

Release(active, s) == [active EXCEPT ![s] = (@ - 1) % CounterModulus]

\* move_actor_reservation
MoveReservation(from, to) ==
    /\ active_actors' = Reserve(Release(active_actors, from), to)
    /\ booked' = [booked EXCEPT ![work_policy.actor] = to]

At(a, phase) == invocation[a].at = phase

Goes(a, phase) == invocation' = [invocation EXCEPT ![a].at = phase]

Failed(a) == reply[a].kind \in {"Err", "Disconnected"}

\* Mutant: every outcome is given back at the shard of the route handed out.
EndsAtHome(a, s) ==
    /\ Goes(a, "done")
    /\ active_actors' = Release(active_actors, Home(a))
    /\ booked' = IF Failed(a) /\ booked[a] # s THEN booked
                                               ELSE [booked EXCEPT ![a] = Nowhere]

\* The request has its outcome; its reservation is given back at shard s.  A
\* request that fails stays in the books of a shard it did not give it back to.
Ends(a, s) ==
    /\ Goes(a, "done")
    /\ active_actors' = Release(active_actors, s)
    /\ booked' = IF Failed(a) /\ booked[a] # s THEN booked
                                               ELSE [booked EXCEPT ![a] = Nowhere]

\* A command enters a bounded channel; the sender of a full one waits.
HasRoom(s) == Len(inbox[s]) < InboxCapacity
Send(s, command) == inbox' = [inbox EXCEPT ![s] = Append(@, command)]

Registered(a) == [life |-> "Queued", scheduler |-> Home(a)]
QueuedAt(a, s) == control[a] = [life |-> "Queued", scheduler |-> s]
ParkedAt(a, s) == control[a] = [life |-> "Parked", scheduler |-> s]

-----------------------------------------------------------------------------
(* The request's thread: begin_target_invocation and begin *)

\* route_new_actor
RouteNewActor(a) ==
    /\ a = next_actor_route + 1
    /\ At(a, "new")
    /\ next_actor_route' = a
    /\ active_actors' = Reserve(active_actors, Home(a))
    /\ booked' = [booked EXCEPT ![a] = Home(a)]
    /\ Goes(a, "routed")
    /\ UNCHANGED <<undrained, reply, sharedVars, helpers, ownerVars, work_policy>>

\* control.register
Register(a) ==
    /\ At(a, "routed")
    /\ control' = [control EXCEPT ![a] = Registered(a)]
    /\ Goes(a, "registered")
    /\ UNCHANGED <<next_actor_route, active_actors, booked, undrained, reply,
                   published, failure, helpers, ownerVars, work_policy>>

SendBegin(a) ==
    /\ At(a, "registered")
    /\ ~failure /\ Running(Home(a)) /\ HasRoom(Home(a))
    /\ Send(Home(a), [op |-> "Begin", actor |-> a])
    /\ Goes(a, "waiting")
    /\ UNCHANGED <<next_actor_route, active_actors, booked, undrained, reply,
                   sharedVars, helpers, owner, turn, routes, resident, runnable,
                   timers, capabilities, resource_owners, slices, work_policy>>

\* send refuses after a failure, and latches one when the owner is gone; the
\* registration is discarded and the reservation released.
BeginRefused(a) ==
    /\ At(a, "registered")
    /\ failure \/ ~Running(Home(a))
    /\ failure' = TRUE
    /\ control' = [control EXCEPT ![a] = Unregistered]
    /\ Ends(a, Home(a))
    /\ UNCHANGED <<next_actor_route, undrained, reply, published, helpers,
                   ownerVars, work_policy>>

\* The reply of a waiting begin: an outcome carries the route the actor has
\* now, but an error is given back to the shard of the route it entered by, also
\* when its actor was stolen from there.
ReceiveReply(a) ==
    /\ At(a, "waiting")
    /\ work_policy.by # a
    /\ \/ /\ reply[a].kind = "Complete"
          /\ Ends(a, reply[a].scheduler)
       \/ /\ reply[a].kind = "Waiting"
          /\ invocation' = [invocation EXCEPT ![a] =
                [at |-> "holding", route |-> reply[a].scheduler]]
          /\ UNCHANGED <<active_actors, booked>>
       \/ /\ reply[a].kind \in {"Err", "Disconnected"}
          /\ Ends(a, Home(a))
    /\ reply' = [reply EXCEPT ![a] = NoReply]
    /\ UNCHANGED <<next_actor_route, undrained, sharedVars, helpers, ownerVars,
                   work_policy>>

-----------------------------------------------------------------------------
(* A parked invocation is resumed, cancelled or dropped by its request *)

\* publish_identified wakes the parked actor before its owner hears of it.
Publish(a, form) ==
    /\ ParkedAt(a, invocation[a].route)
    /\ published[a] = "none"
    /\ published' = [published EXCEPT ![a] = form]
    /\ control' = [control EXCEPT ![a].life = "Queued"]

\* resume_capability and the resumption of an I/O wait, which requests do when
\* the owner dispatches no capabilities itself (test builds); cancel
PublishWake(a) ==
    /\ At(a, "holding")
    /\ \E form \in {"resumed", "waited"} : Publish(a, form)
    /\ Goes(a, "publishing")
    /\ UNCHANGED <<next_actor_route, active_actors, booked, undrained, reply,
                   failure, helpers, ownerVars, work_policy>>

SendDrain(a) ==
    LET s == invocation[a].route IN
    /\ At(a, "publishing")
    /\ ~failure /\ Running(s) /\ HasRoom(s)
    /\ Send(s, [op |-> "Drain", actor |-> a])
    /\ Goes(a, IF published[a] = "resumed" THEN "resuming" ELSE "cancelling")
    /\ UNCHANGED <<next_actor_route, active_actors, booked, undrained, reply,
                   sharedVars, helpers, owner, turn, routes, resident, runnable,
                   timers, capabilities, resource_owners, slices, work_policy>>

PublicationFails(a) ==
    /\ failure' = TRUE
    /\ Ends(a, invocation[a].route)
    /\ UNCHANGED <<next_actor_route, undrained, reply, control, published, helpers,
                   ownerVars, work_policy>>

DrainRefused(a) ==
    /\ At(a, "publishing")
    /\ failure \/ ~Running(invocation[a].route)
    /\ PublicationFails(a)

\* Telemetry does not record the publication.
PublicationUnrecorded(a) ==
    /\ At(a, "publishing")
    /\ <<invocation[a].route, "telemetry">> \in Faults
    /\ PublicationFails(a)

\* The outcome of a resumption; an error is given back where it began.
ReceiveResumed(a) ==
    /\ At(a, "resuming")
    /\ \/ /\ reply[a].kind = "Complete"
          /\ Ends(a, reply[a].scheduler)
       \/ /\ reply[a].kind = "Waiting"
          /\ invocation' = [invocation EXCEPT ![a] =
                [at |-> "holding", route |-> reply[a].scheduler]]
          /\ UNCHANGED <<active_actors, booked>>
       \/ /\ reply[a].kind \in {"Err", "Disconnected"}
          /\ Ends(a, invocation[a].route)
    /\ reply' = [reply EXCEPT ![a] = NoReply]
    /\ UNCHANGED <<next_actor_route, undrained, sharedVars, helpers, ownerVars,
                   work_policy>>

ReceiveCancelled(a) ==
    /\ At(a, "cancelling")
    /\ reply[a].kind # "None"
    /\ reply' = [reply EXCEPT ![a] = NoReply]
    /\ Ends(a, invocation[a].route)
    /\ UNCHANGED <<next_actor_route, undrained, sharedVars, helpers, ownerVars,
                   work_policy>>

\* Drop: cancel_detached never blocks, a full inbox gets a thread of its own.
\* Nobody hears of a publication that telemetry does not record, nor of one for
\* which that thread cannot be spawned: its actor is left as it is.
DropInvocation(a) ==
    LET s == invocation[a].route
        sendable == Running(s) /\ HasRoom(s) IN
    /\ At(a, "holding")
    /\ Publish(a, "detached")
    /\ Ends(a, s)
    /\ \/ /\ sendable
          /\ Send(s, [op |-> "Drain", actor |-> a])
          /\ UNCHANGED <<helpers, undrained>>
       \/ /\ ~sendable
          /\ helpers' = helpers \cup {a}
          /\ UNCHANGED <<inbox, undrained>>
       \/ /\ <<s, "telemetry">> \in Faults \/ (<<s, "spawn">> \in Faults /\ ~sendable)
          /\ undrained' = undrained \cup {a}
          /\ UNCHANGED <<inbox, helpers>>
    /\ UNCHANGED <<next_actor_route, reply, failure, owner, turn, routes,
                   resident, runnable, timers, capabilities, resource_owners,
                   slices, work_policy>>

\* Mutant: the helper does not wait for room in the inbox.
HelperTriesOnce(a) ==
    LET s == invocation[a].route IN
    /\ a \in helpers
    /\ helpers' = helpers \ {a}
    /\ IF Running(s) /\ HasRoom(s) THEN Send(s, [op |-> "Drain", actor |-> a])
                                   ELSE UNCHANGED inbox
    /\ UNCHANGED <<callerVars, reply, sharedVars, owner, turn, routes, resident,
                   runnable, timers, capabilities, resource_owners, slices,
                   work_policy>>

HelperSends(a) ==
    LET s == invocation[a].route IN
    /\ a \in helpers
    /\ helpers' = helpers \ {a}
    /\ \/ /\ Running(s) /\ HasRoom(s)
          /\ Send(s, [op |-> "Drain", actor |-> a])
       \/ /\ ~Running(s)
          /\ UNCHANGED inbox
    /\ UNCHANGED <<callerVars, reply, sharedVars, owner, turn, routes, resident,
                   runnable, timers, capabilities, resource_owners, slices,
                   work_policy>>

-----------------------------------------------------------------------------
(* The end of a slice: finish_execution *)

\* Generated code may go on for MaxSlices slices.
Outcomes(a) ==
    {"Complete", "Err", "Orphan"} \cup
    IF slices[a] < MaxSlices[a]
    THEN {"Receive", "Timer", "Yield", "Capability", "Resource", "Denied"}
    ELSE {}

Answer(a, kind, s) ==
    reply' = [reply EXCEPT ![a] = [kind |-> kind, scheduler |-> s]]

\* settle_terminal and finish_route, with the entry that was being served
\* already taken out.  An orphan stays in the shard: its error came after
\* generated code went on.
Settle(s, a, kind, stays) ==
    /\ control' = [control EXCEPT ![a] = Unregistered]
    /\ routes' = Remove(routes, s, a)
    /\ resource_owners' = Remove(resource_owners, s, a)
    /\ resident' = IF stays THEN Add(resident, s, a) ELSE Remove(resident, s, a)
    /\ Answer(a, kind, s)

\* The actor goes on living: its route is registered, its lease released.
Continue(s, a, life) ==
    /\ control' = [control EXCEPT ![a] = [life |-> life, scheduler |-> s]]
    /\ routes' = Add(routes, s, a)
    /\ resident' = Add(resident, s, a)

QueueFull(queue) == Cardinality(queue) = QueueCapacity

\* ready, armed and asked are the queues without the entry being served.
Finish(s, a, outcome, ready, armed, asked) ==
    LET ends == \/ outcome \in {"Complete", "Err", "Orphan", "Denied"}
                \/ outcome = "Yield" /\ QueueFull(ready)
                \/ outcome = "Timer" /\ QueueFull(armed)
        Joins(outcomes) == IF ~ends /\ outcome \in outcomes THEN {a} ELSE {} IN
    /\ runnable' = [runnable EXCEPT ![s] = ready \cup Joins({"Yield"})]
    /\ timers' = [timers EXCEPT ![s] = armed \cup Joins({"Timer"})]
    /\ capabilities' = [capabilities EXCEPT
                           ![s] = asked \cup Joins({"Capability", "Resource"})]
    /\ slices' = [slices EXCEPT ![a] = IF @ > MaxSlices[a] THEN @ ELSE @ + 1]
    /\ IF ends
       THEN Settle(s, a, IF outcome = "Complete" THEN "Complete" ELSE "Err",
                   outcome = "Orphan")
       ELSE /\ Continue(s, a, IF outcome = "Yield" THEN "Queued" ELSE "Parked")
            /\ IF outcome = "Receive" THEN Answer(a, "Waiting", s)
                                      ELSE UNCHANGED reply
            /\ resource_owners' = IF outcome = "Resource"
                                  THEN Add(resource_owners, s, a)
                                  ELSE resource_owners
    /\ UNCHANGED <<callerVars, failure, helpers, owner, work_policy>>

-----------------------------------------------------------------------------
(* The owner's loop: due timers, a capability, one command, one slice *)

\* The loop is at its top: the slice that follows a command is behind it.
Top(s) == Running(s) /\ turn[s] = "command"

\* After a command the loop serves a runnable actor, if there is one.
AfterCommand(s) ==
    turn' = [turn EXCEPT ![s] = IF runnable'[s] = {} THEN "command" ELSE "slice"]

Received(s, op) == Top(s) /\ inbox[s] # <<>> /\ Head(inbox[s]).op = op

TakeCommand(s) == inbox' = [inbox EXCEPT ![s] = Tail(@)]

HandleBegin(s) ==
    LET a == Head(inbox[s]).actor IN
    /\ Received(s, "Begin")
    /\ a \notin routes[s]
    /\ QueuedAt(a, s)
    /\ TakeCommand(s)
    /\ \E outcome \in Outcomes(a) :
          Finish(s, a, outcome, runnable[s], timers[s], capabilities[s])
    /\ UNCHANGED published
    /\ AfterCommand(s)

\* service_runnable, on the entry pop_weighted chose
ServiceRunnable(s, a) ==
    /\ Running(s)
    /\ turn[s] = "slice" \/ inbox[s] = <<>>
    /\ a \in runnable[s]
    /\ QueuedAt(a, s) /\ a \in routes[s]
    /\ \E outcome \in Outcomes(a) :
          Finish(s, a, outcome, runnable[s] \ {a}, timers[s], capabilities[s])
    /\ turn' = [turn EXCEPT ![s] = "command"]
    /\ UNCHANGED <<inbox, published>>

\* publish_due_timers: published, drained and resumed in one go.
FireTimer(s, a) ==
    /\ Top(s)
    /\ a \in timers[s]
    /\ ParkedAt(a, s) /\ a \in routes[s]
    /\ \E outcome \in Outcomes(a) :
          Finish(s, a, outcome, runnable[s], timers[s] \ {a}, capabilities[s])
    /\ UNCHANGED <<turn, inbox, published>>

\* dispatch_next: a completion, or the loss of the worker that had the call.
CompleteCapability(s, a) ==
    /\ Top(s)
    /\ a \in capabilities[s]
    /\ ParkedAt(a, s) /\ a \in routes[s]
    /\ \E outcome \in Outcomes(a) :
          Finish(s, a, outcome, runnable[s], timers[s], capabilities[s] \ {a})
    /\ UNCHANGED <<turn, inbox, published>>

\* The cancellation of a parked invocation
Cancel(s, a) ==
    /\ control' = [control EXCEPT ![a] = Unregistered]
    /\ routes' = Remove(routes, s, a)
    /\ resource_owners' = Remove(resource_owners, s, a)
    /\ resident' = Remove(resident, s, a)
    /\ reply' = IF published[a] = "waited"
                THEN [reply EXCEPT ![a] = [kind |-> "Cancelled", scheduler |-> s]]
                ELSE reply
    /\ UNCHANGED <<callerVars, failure, helpers, owner, runnable, timers,
                   capabilities, slices, work_policy>>

\* drain_route
HandleDrain(s) ==
    LET a == Head(inbox[s]).actor IN
    /\ Received(s, "Drain")
    /\ QueuedAt(a, s) /\ published[a] # "none"
    /\ TakeCommand(s)
    /\ published' = [published EXCEPT ![a] = "none"]
    /\ \/ /\ published[a] = "resumed"
          /\ \E outcome \in Outcomes(a) :
                Finish(s, a, outcome, runnable[s], timers[s], capabilities[s])
       \/ /\ published[a] # "resumed"
          /\ Cancel(s, a)
    /\ AfterCommand(s)

-----------------------------------------------------------------------------
(* Work stealing: a request whose reply is late moves runnable actors *)

\* rebalance_generated_queues from the wait of begin: the policy lock is
\* taken, and a source and a destination chosen from snapshots that are old.
StartSteal(a, from, to) ==
    /\ At(a, "waiting") /\ reply[a].kind = "None"
    /\ work_policy = IdlePolicy
    /\ from # to
    /\ ~failure /\ Running(from) /\ Running(to) /\ HasRoom(from)
    /\ Send(from, [op |-> "Detach", to |-> to])
    /\ work_policy' = [phase |-> "detaching", by |-> a, from |-> from,
                       to |-> to, actor |-> 0]
    /\ UNCHANGED <<callerVars, reply, sharedVars, helpers, owner, turn, routes,
                   resident, runnable, timers, capabilities, resource_owners,
                   slices>>

MoveRoute(a, s) == control' = [control EXCEPT ![a].scheduler = s]

\* Mutant: a failed detach leaves the route at the destination.
DetachRefusedForward(s, a) == MoveRoute(a, work_policy.to)

\* detach_actor_state refuses, and the route moves back.
DetachRefused(s, a) == MoveRoute(a, s)

\* Mutant: the queue entry of a detached actor is left behind.
TakeOutEntryKept(s, a) ==
    /\ UNCHANGED runnable
    /\ routes' = Remove(routes, s, a)
    /\ resident' = Remove(resident, s, a)

\* Entry, route and state leave the source; open resources stay behind.
TakeOut(s, a) ==
    /\ runnable' = Remove(runnable, s, a)
    /\ routes' = Remove(routes, s, a)
    /\ resident' = Remove(resident, s, a)

\* detach_runnable
HandleDetach(s) ==
    LET to == Head(inbox[s]).to IN
    /\ Received(s, "Detach")
    /\ TakeCommand(s)
    /\ \/ /\ runnable[s] = {}
          /\ work_policy' = IdlePolicy
          /\ UNCHANGED <<control, routes, resident, runnable>>
       \/ \E a \in runnable[s] :
             /\ a \in routes[s] /\ QueuedAt(a, s)
             /\ \/ /\ DetachRefused(s, a)
                   /\ work_policy' = IdlePolicy
                   /\ UNCHANGED <<routes, resident, runnable>>
                \/ /\ MoveRoute(a, to)
                   /\ TakeOut(s, a)
                   /\ work_policy' = [work_policy EXCEPT !.phase = "detached",
                                                         !.actor = a]
    /\ UNCHANGED <<callerVars, reply, published, failure, helpers, owner, timers,
                   capabilities, resource_owners, slices>>
    /\ AfterCommand(s)

\* The reservation moves, then the envelope goes to the destination.
SendImport ==
    LET to == work_policy.to IN
    /\ work_policy.phase = "detached"
    /\ Running(to) /\ HasRoom(to)
    /\ MoveReservation(work_policy.from, to)
    /\ Send(to, [op |-> "Import", actor |-> work_policy.actor])
    /\ work_policy' = [work_policy EXCEPT !.phase = "importing"]
    /\ UNCHANGED <<next_actor_route, invocation, undrained, reply, sharedVars,
                   helpers, owner, turn, routes, resident, runnable, timers,
                   capabilities, resource_owners, slices>>

\* The destination is gone: its inbox hands the envelope back.
SendImportFails ==
    /\ work_policy.phase = "detached"
    /\ ~Running(work_policy.to)
    /\ MoveReservation(work_policy.from, work_policy.to)
    /\ failure' = TRUE
    /\ work_policy' = [work_policy EXCEPT !.phase = "rejected"]
    /\ UNCHANGED <<next_actor_route, invocation, undrained, reply, control,
                   published, helpers, ownerVars>>

\* import_runnable, for the destination of a steal or for the source of one
\* that is rolled back; the shard may reject the actor.
HandleImport(s) ==
    LET a == Head(inbox[s]).actor
        restoring == work_policy.phase = "restoring" IN
    /\ Received(s, "Import")
    /\ TakeCommand(s)
    /\ \/ /\ a \notin routes[s] /\ ~QueueFull(runnable[s])
          /\ routes' = Add(routes, s, a)
          /\ resident' = Add(resident, s, a)
          /\ runnable' = Add(runnable, s, a)
          /\ work_policy' = IdlePolicy
          /\ UNCHANGED reply
       \/ /\ work_policy' = IF restoring THEN IdlePolicy
                            ELSE [work_policy EXCEPT !.phase = "rejected"]
          /\ IF restoring THEN Answer(a, "Disconnected", s) ELSE UNCHANGED reply
          /\ UNCHANGED <<routes, resident, runnable>>
    /\ UNCHANGED <<callerVars, sharedVars, helpers, owner, timers, capabilities,
                   resource_owners, slices>>
    /\ AfterCommand(s)

\* The failed import is undone: reservation, route, then the actor.
RollBack ==
    LET from == work_policy.from
        a == work_policy.actor IN
    /\ work_policy.phase = "rejected"
    /\ MoveReservation(work_policy.to, from)
    /\ QueuedAt(a, work_policy.to)
    /\ MoveRoute(a, from)
    /\ \/ /\ Running(from) /\ HasRoom(from)
          /\ Send(from, [op |-> "Import", actor |-> a])
          /\ work_policy' = [work_policy EXCEPT !.phase = "restoring"]
          /\ UNCHANGED <<reply, failure>>
       \/ /\ ~Running(from)
          /\ work_policy' = IdlePolicy
          /\ Answer(a, "Disconnected", from)
          /\ failure' = TRUE
          /\ UNCHANGED inbox
    /\ UNCHANGED <<next_actor_route, invocation, undrained, published, helpers,
                   owner, turn, routes, resident, runnable, timers, capabilities,
                   resource_owners, slices>>

\* Mutant: only a thief with an actor in hand hears that an owner is gone.
AskingMoved == {"importing", "restoring"}

\* The phases in which the thief waits for an owner to answer.
Asking == {"detaching", "importing", "restoring"}

\* The owner stopped before it answered the thief; what it was sent is lost.
StealLost ==
    LET asked == IF work_policy.phase = "importing" THEN work_policy.to
                                                    ELSE work_policy.from IN
    /\ work_policy.phase \in Asking
    /\ ~Running(asked)
    /\ IF work_policy.phase = "importing"
       THEN MoveReservation(work_policy.to, work_policy.from)
       ELSE UNCHANGED <<active_actors, booked>>
    /\ work_policy' = IdlePolicy
    /\ UNCHANGED <<next_actor_route, invocation, undrained, reply, sharedVars,
                   helpers, ownerVars>>

-----------------------------------------------------------------------------
(* An owner stops *)

\* Actors whose reply channel an owner holds: when it goes, they go with it.
Holds(s) ==
    runnable[s] \cup timers[s] \cup capabilities[s] \cup
    {inbox[s][i].actor : i \in {j \in DOMAIN inbox[s] :
                                   inbox[s][j].op \in {"Begin", "Import"}}}

ShardDropped(s) ==
    /\ inbox' = [inbox EXCEPT ![s] = <<>>]
    /\ routes' = [routes EXCEPT ![s] = {}]
    /\ resident' = [resident EXCEPT ![s] = {}]
    /\ runnable' = [runnable EXCEPT ![s] = {}]
    /\ timers' = [timers EXCEPT ![s] = {}]
    /\ capabilities' = [capabilities EXCEPT ![s] = {}]
    /\ resource_owners' = [resource_owners EXCEPT ![s] = {}]
    /\ turn' = [turn EXCEPT ![s] = "command"]

\* scheduler_thread: a panic is caught, the failure of the generation latched.
Panic(s) ==
    /\ <<s, "panic">> \in Faults
    /\ Running(s)
    /\ owner' = [owner EXCEPT ![s] = "panicked"]
    /\ failure' = TRUE
    /\ reply' = [a \in Actors |-> IF a \in Holds(s)
                                  THEN [kind |-> "Disconnected", scheduler |-> s]
                                  ELSE reply[a]]
    /\ ShardDropped(s)
    /\ UNCHANGED <<callerVars, control, published, helpers, slices, work_policy>>

\* AotHandlerShardOwner::shutdown
Shutdown(s) ==
    /\ <<s, "shutdown">> \in Faults
    /\ Running(s) /\ HasRoom(s)
    /\ \A i \in DOMAIN inbox[s] : inbox[s][i].op # "Shutdown"
    /\ Send(s, [op |-> "Shutdown"])
    /\ UNCHANGED <<callerVars, reply, sharedVars, helpers, owner, turn, routes,
                   resident, runnable, timers, capabilities, resource_owners,
                   slices, work_policy>>

\* Actors that a shutdown reaches with a lease: the queued and the timed.  An
\* actor parked on a capability is not queued, acquire refuses it.
Cancellable(s) == runnable[s] \cup timers[s]

\* cancel_runnable, cancel_timers and cancel_all; the commands behind the
\* shutdown are dropped with the thread.
HandleShutdown(s) ==
    LET told == runnable[s] \cup timers[s] \cup capabilities[s] IN
    /\ Received(s, "Shutdown")
    /\ owner' = [owner EXCEPT ![s] = "stopped"]
    /\ control' = [a \in Actors |-> IF a \in Cancellable(s) THEN Unregistered
                                                            ELSE control[a]]
    /\ reply' = [a \in Actors |->
          IF a \in told THEN [kind |-> "Err", scheduler |-> s]
          ELSE IF a \in Holds(s) THEN [kind |-> "Disconnected", scheduler |-> s]
          ELSE reply[a]]
    /\ ShardDropped(s)
    /\ UNCHANGED <<callerVars, published, failure, helpers, slices, work_policy>>

-----------------------------------------------------------------------------
(* Specification *)

CallerStep(a) ==
    \/ RouteNewActor(a) \/ Register(a) \/ SendBegin(a) \/ BeginRefused(a)
    \/ ReceiveReply(a) \/ PublishWake(a) \/ SendDrain(a) \/ DrainRefused(a)
    \/ PublicationUnrecorded(a) \/ ReceiveResumed(a) \/ ReceiveCancelled(a)
    \/ DropInvocation(a) \/ HelperSends(a)
    \/ \E from, to \in Shards : StartSteal(a, from, to)

ThiefStep == SendImport \/ SendImportFails \/ RollBack \/ StealLost

CommandStep(s) ==
    \/ HandleBegin(s) \/ HandleDrain(s) \/ HandleDetach(s) \/ HandleImport(s)
    \/ HandleShutdown(s)

OwnerStep(s) == CommandStep(s) \/ \E a \in Actors : ServiceRunnable(s, a)

EventStep(s, a) == FireTimer(s, a) \/ CompleteCapability(s, a)

Next ==
    \/ \E a \in Actors : CallerStep(a)
    \/ ThiefStep
    \/ \E s \in Shards : OwnerStep(s) \/ Panic(s) \/ Shutdown(s)
    \/ \E s \in Shards, a \in Actors : EventStep(s, a)

Spec == Init /\ [][Next]_vars

\* A thread that can go on does, except that a request may keep its parked
\* invocation for ever and new requests need not come.  The loop looks for
\* due timers and completed capabilities each time it is at its top.
Fairness ==
    /\ \A s \in Shards : WF_vars(OwnerStep(s))
    /\ \A s \in Shards, a \in Actors : SF_vars(EventStep(s, a))
    /\ \A a \in Actors : WF_vars(Register(a)) /\ WF_vars(SendBegin(a))
    /\ \A a \in Actors : WF_vars(BeginRefused(a)) /\ WF_vars(ReceiveReply(a))
    /\ \A a \in Actors : WF_vars(SendDrain(a)) /\ WF_vars(DrainRefused(a))
    /\ \A a \in Actors : WF_vars(ReceiveResumed(a)) /\ WF_vars(ReceiveCancelled(a))
    /\ WF_vars(ThiefStep)

FairSpec == Spec /\ Fairness

-----------------------------------------------------------------------------
(* Safety *)

Stealing(a) == work_policy.actor = a /\ work_policy.phase \in {"detached", "rejected"}

Sent(s, op, a) ==
    \E i \in DOMAIN inbox[s] : inbox[s][i].op = op /\ inbox[s][i].actor = a

\* The request waits for what its actor does next.
Awaits(a) ==
    \/ At(a, "waiting") \/ At(a, "resuming")
    \/ At(a, "publishing") /\ published[a] = "resumed"

\* Everything that still owes the request of an actor its answer.
Owed(a) ==
    {<<s, "begin">> : s \in {t \in Shards : Sent(t, "Begin", a)}}
    \cup {<<s, "import">> : s \in {t \in Shards : Sent(t, "Import", a)}}
    \cup {<<s, "run">> : s \in {t \in Shards : a \in runnable[t]}}
    \cup {<<s, "timer">> : s \in {t \in Shards : a \in timers[t]}}
    \cup {<<s, "capability">> : s \in {t \in Shards : a \in capabilities[t]}}
    \cup (IF Stealing(a) THEN {<<Nowhere, "steal">>} ELSE {})
    \cup (IF Awaits(a) /\ published[a] = "resumed" THEN {<<Nowhere, "mail">>} ELSE {})

\* A request that waits for its reply is owed it exactly once: by one command,
\* one publication, one queue or one envelope, through steals, rollbacks, panics and shutdowns;
\* and one that has its reply is in no queue any more (MC-C01 in
\* TVM_MULTICORE_CONCURRENCY_CONTRACT.md: no two executable queue entries).
OwedOnce ==
    \A a \in Actors :
       Cardinality(Owed(a)) =
          IF Awaits(a) /\ reply[a].kind = "None" THEN 1 ELSE 0

\* What an owner retains it can also serve: the directory has the actor where
\* and how the owner will acquire or wake it, and the route is registered.  The
\* branches that panic with "fixed scheduler control corruption", "timer
\* corruption" or "capability corruption" (owner_loop.rs) are not reached.
ServedWhereRouted ==
    \A s \in Shards, a \in Actors :
       /\ a \in runnable[s] => QueuedAt(a, s)
       /\ a \in timers[s] \cup capabilities[s] => ParkedAt(a, s)
       /\ a \in runnable[s] \cup timers[s] \cup capabilities[s]
             => a \in routes[s] /\ a \in resident[s]
       /\ Sent(s, "Drain", a) => QueuedAt(a, s) /\ published[a] # "none"
       /\ Sent(s, "Begin", a) => QueuedAt(a, s) /\ a \notin routes[s]
       /\ Sent(s, "Import", a) => QueuedAt(a, s) /\ a \notin routes[s]

\* The shard a request gives its reservation back to when it fails: that of the
\* route it entered by, or of the one it last held.
EntryOf(a) == IF invocation[a].route = Nowhere THEN Home(a) ELSE invocation[a].route

Booked(s) == {a \in Actors : booked[a] = s}

\* The failed requests that gave back to shard s what another is charged for.
Overdrawn(s) == {a \in Actors : At(a, "done") /\ booked[a] # Nowhere /\ EntryOf(a) = s}

\* Every shard is charged for the requests that are in its books, each once, and
\* has in its books what it serves, through steals, rollbacks, panics and
\* shutdowns: a shard that no failed request has overdrawn gives nothing back it
\* is not charged for ("actor route reservation underflow", handler_cache.rs:366).
\* A request that fails after its actor was stolen overdraws the shard it entered
\* by, and stays in the books of the thief (invocation.rs:397).
ReservationsExact ==
    \A s \in Shards :
       /\ (active_actors[s] + Cardinality(Overdrawn(s))) % CounterModulus
             = Cardinality(Booked(s))
       /\ \A a \in runnable[s] \cup timers[s] \cup capabilities[s] : booked[a] = s

\* A resumption or cancellation that was published is on its way to the owner of the actor:
\* the request, a helper thread or the inbox has its Drain, also when the inbox
\* was full, until a failure is latched (publish_wake, cancel_detached).  Only a
\* drop whose publication was not recorded or whose helper was not spawned loses it.
DrainOnItsWay ==
    \A a \in Actors :
       LET s == invocation[a].route IN
       published[a] # "none" /\ ~failure /\ Running(s) =>
          \/ At(a, "publishing") \/ a \in helpers \/ Sent(s, "Drain", a)
          \/ a \in undrained /\ published[a] = "detached"

-----------------------------------------------------------------------------
(* Liveness *)

\* A request that waits in begin returns: its actor ends or parks, or the
\* owner that had its reply is gone and the channel tells.
BeginReturns ==
    \A a \in Actors : At(a, "waiting") ~> ~At(a, "waiting")
=============================================================================
