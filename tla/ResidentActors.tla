--------------------------- MODULE ResidentActors ---------------------------
(***************************************************************************)
(* Spawned actors of one execution shard and the call that drives them     *)
(* (vm/pure_native/execution.rs, vm/pure_native/execution_shard.rs and its *)
(* capability_ingress.rs, vm/package_native_helper/execution.rs).          *)
(*                                                                         *)
(* A shard is one thread.  A call runs a root actor in a loop that polls   *)
(* the capability workers, services one parked capability of a spawned     *)
(* actor and then advances the root by one transition.  A spawned actor    *)
(* has no thread of its own: it runs inside the Rust call that spawned it, *)
(* that sent to it or that answered its capability, nested on the stack of *)
(* the actor that happened to do so, until it parks as a resident          *)
(* suspension or exits.  The stack below is that nesting: every frame is   *)
(* one activation of execute_spawned_child ("child"),                      *)
(* drive_resident_execution ("resident", "served") or of the capability    *)
(* result that precedes it ("serve", "reply"); frame 1 is execute_root.    *)
(*                                                                         *)
(* Generated code is external: a slice may do anything an image can do,    *)
(* that is complete, trap or suspend on any transition.  Supervised        *)
(* children, timers, resources and scheduling classes are not transitions  *)
(* here; payloads are messages that a receive takes in order.              *)
(***************************************************************************)
EXTENDS ActorFailures

CONSTANTS
    Ops,     \* the transitions the code of each actor uses
    MaxMail, \* bound on queued messages of one actor
    MaxRefs, \* bound on monitors ever registered
    Faults,  \* may a slice trap and a capability fail
    Loops    \* transitions that a slice may suspend on at the very continuation
             \* it was resumed from, as a recursive program does

ASSUME ResidentAssumption == {MaxMail, MaxRefs} \subseteq Nat /\ Faults \in BOOLEAN

VARIABLES
    vm,      \* the actor runtime, with the shard's retained state of an actor:
             \*   heap      managed heap and continuation record
             \*   resident  parked suspension, NoOp when there is none
             \*   worker    capability submitted to a worker, answer pending
             \*   helper    resources held for the actor by the native helpers
    stack,   \* activations, the running one last
    turn,    \* where execute_root's loop is: "poll", "service" or "step"
    call     \* root actor and result of the call being executed

vars == <<vm, stack, turn, call>>

Op(o, to) == [op |-> o, to |-> to]

NoOp == Op("none", 0)

OperationsOf(a) ==
    {Op(o, 0) : o \in Ops[a] \intersect {"receive", "spawn", "fail", "capability"}}
    \union {Op(o, b) : o \in Ops[a] \intersect {"send", "link", "unlink",
                                                "monitor", "cancel"},
                       b \in Actors}
    \union {Op(o, r) : o \in Ops[a] \intersect {"demonitor"}, r \in 1..MaxRefs}

Operations == UNION {OperationsOf(a) : a \in Actors}

Frame(a, kind, pc, op) ==
    [actor |-> a, kind |-> kind, pc |-> pc, op |-> op, park |-> FALSE]

Top == Last(stack)

Retop(f) == Front(stack) \o <<f>>

Init ==
    /\ vm = [status    |-> [a \in Actors |-> "unborn"],
             reaped    |-> {},
             cancelled |-> {},
             links     |-> {},
             monitors  |-> <<>>,
             mail      |-> [a \in Actors |-> 0],
             lease     |-> {},
             heap      |-> {},
             resident  |-> [a \in Actors |-> NoOp],
             worker    |-> {},
             helper    |-> {}]
    /\ stack = <<>>
    /\ turn = "poll"
    /\ call = [root |-> 0, result |-> "none"]

(***************************************************************************)
(* The end of an actor and of a call.                                      *)
(***************************************************************************)

\* release_owner: continuation record, resident suspension and managed heap.
Release(v, a) == [v EXCEPT !.heap = @ \ {a}, !.resident[a] = NoOp]

\* VmPackageNativeHelpers::close_owner.
CloseOwner(v, a) == [v EXCEPT !.helper = @ \ {a}, !.worker = @ \ {a}]

\* finish_owner: exit, release, reap; an actor whose tombstone is gone is an
\* error before anything is released.
FinishOwner(v, a, why) ==
    IF a \in v.reaped THEN v
    ELSE ReapExited(Release(ExitActor(v, a, why), a))

\* execute_call returns, and the drop of OwnerResources closes the root's
\* helper state.
EndCall(v, result) ==
    /\ vm' = CloseOwner(v, call.root)
    /\ stack' = <<>>
    /\ turn' = "poll"
    /\ call' = [call EXCEPT !.result = result]

\* An error leaves activation f.  A spawned actor that runs inside another
\* actor's activation is ended there (execute_spawned_child,
\* drive_resident_execution).  An error in the step that applies a capability
\* result to a resident ends the resident and goes on to the caller: from
\* service_resident_capability the root is cancelled, from a worker completion
\* the question mark returns at once.
FailFrame(f, v) ==
    CASE f.kind = "root" ->
            EndCall(FinishOwner(v, f.actor, "failed"), "error")
      [] f.kind = "serve" ->
            EndCall(FinishOwner(FinishOwner(CloseOwner(v, f.actor), f.actor, "failed"),
                                call.root, "failed"), "error")
      [] f.kind = "reply" ->
            EndCall(FinishOwner(CloseOwner(v, f.actor), f.actor, "failed"), "error")
      [] OTHER ->
            LET w == ExitActor(Release(v, f.actor), f.actor, "failed")
            IN  /\ vm' = IF f.kind = "served" THEN CloseOwner(w, f.actor) ELSE w
                /\ stack' = Front(stack)
                /\ UNCHANGED <<turn, call>>

\* park_resident_suspension by a spawned actor; the root keeps its suspension
\* in execute_root and tries again in the next round.
Park(f, v) ==
    IF f.kind = "root"
    THEN vm' = v /\ turn' = "poll" /\ UNCHANGED <<stack, call>>
    ELSE /\ vm' = [v EXCEPT !.resident[f.actor] = f.op]
         /\ stack' = Front(stack)
         /\ UNCHANGED <<turn, call>>

\* The activation has its next execution: the actor completed, blocks, or goes
\* on to its next transition.  A completed root waits for its step.
Settle(f, v) ==
    IF f.op.op = "done" /\ f.kind # "root"
    THEN LET w == ExitActor(Release(v, f.actor), f.actor, "normal")
         IN  /\ vm' = IF f.kind = "served" THEN CloseOwner(w, f.actor) ELSE w
             /\ stack' = Front(stack)
             /\ UNCHANGED <<turn, call>>
    ELSE IF f.park THEN Park([f EXCEPT !.pc = "service", !.park = FALSE], v)
    ELSE /\ vm' = v
         /\ stack' = Retop([f EXCEPT !.pc = "service"])
         /\ UNCHANGED <<turn, call>>

(***************************************************************************)
(* resume_transition_for_actor: servicing one transition.                  *)
(***************************************************************************)

Serving(o) ==
    /\ stack # <<>>
    /\ Top.pc = "service"
    /\ Top.op.op = o
    /\ Top.kind = "root" => turn = "step"

\* Mutant: the activation's own suspension is authority enough.
LeasedByFrame == Top.pc = "service"

\* validate_native_continuation_owner: an exited actor has no lease.
Leased == Top.actor \in vm.lease

\* consume_native_continuation, and on to finish_transition_resume.
Served(v) ==
    /\ vm' = [v EXCEPT !.lease = @ \ {Top.actor}]
    /\ stack' = Retop([Top EXCEPT !.pc = "finish"])
    /\ turn' = IF Top.kind = "root" THEN "poll" ELSE turn
    /\ UNCHANGED call

ServiceSend ==
    /\ Serving("send")
    /\ LET to == Top.op.to
       IN  IF Leased /\ Live(vm, to)
           THEN vm.mail[to] < MaxMail /\ Served([vm EXCEPT !.mail[to] = @ + 1])
           ELSE FailFrame(Top, vm)

ServiceReceive ==
    /\ Serving("receive")
    /\ IF ~Leased THEN FailFrame(Top, vm)
       ELSE IF vm.mail[Top.actor] > 0
            THEN Served([vm EXCEPT !.mail[Top.actor] = @ - 1])
            ELSE Park(Top, vm)

\* The child runs its first slice before the parent's next one.
ServiceSpawn ==
    /\ Serving("spawn")
    /\ IF ~Leased THEN FailFrame(Top, vm)
       ELSE LET child == NextActor(vm)
            IN  /\ child \in Actors
                /\ vm' = [SpawnActor(vm, child) EXCEPT
                             !.lease = @ \ {Top.actor},
                             !.heap = @ \union {child}]
                /\ stack' = Retop([Top EXCEPT !.pc = "finish"])
                            \o <<Frame(child, "child", "finish", NoOp)>>
                /\ turn' = IF Top.kind = "root" THEN "poll" ELSE turn
                /\ UNCHANGED call

ServiceLink ==
    /\ Serving("link")
    /\ IF Leased /\ Top.op.to # Top.actor /\ Live(vm, Top.op.to)
       THEN Served(LinkActors(vm, Top.actor, Top.op.to))
       ELSE FailFrame(Top, vm)

ServiceUnlink ==
    /\ Serving("unlink")
    /\ IF Leased /\ Top.op.to # Top.actor /\ Live(vm, Top.op.to)
       THEN Served(UnlinkActors(vm, Top.actor, Top.op.to))
       ELSE FailFrame(Top, vm)

ServiceMonitor ==
    /\ Serving("monitor")
    /\ IF Leased /\ Known(vm, Top.op.to)
       THEN /\ Len(vm.monitors) < MaxRefs
            /\ Served(MonitorActor(vm, Top.actor, Top.op.to))
       ELSE FailFrame(Top, vm)

\* A reference that is not registered any more answers FALSE.
ServiceDemonitor ==
    /\ Serving("demonitor")
    /\ LET r == Top.op.to
           active == r \in DOMAIN vm.monitors /\ vm.monitors[r].state = "active"
       IN  IF ~Leased \/ (active /\ vm.monitors[r].watcher # Top.actor)
           THEN FailFrame(Top, vm)
           ELSE Served(IF active THEN DemonitorActor(vm, r) ELSE vm)

\* Cancellation is a request, applied at the target's next boundary.
ServiceCancellation ==
    /\ Serving("cancel")
    /\ IF Leased /\ Live(vm, Top.op.to)
       THEN Served([vm EXCEPT !.cancelled = @ \union {Top.op.to}])
       ELSE FailFrame(Top, vm)

ServiceFailure ==
    /\ Serving("fail")
    /\ IF Leased THEN Served(ExitActor(vm, Top.actor, "failed"))
       ELSE FailFrame(Top, vm)

\* A spawned actor parks on a capability, and the lease is not looked at.
ParkCapability == Serving("capability") /\ Top.kind # "root" /\ Park(Top, vm)

(***************************************************************************)
(* finish_transition_resume: the slice of generated code that follows.     *)
(***************************************************************************)

Slicing == stack # <<>> /\ Top.pc = "finish"

Admitted == Live(vm, Top.actor) /\ Top.actor \notin vm.cancelled

\* enforce_native_cancellation_boundary, then the exited check.
SliceRefused ==
    /\ Slicing
    /\ ~Admitted
    /\ FailFrame(Top, IF Top.actor \in vm.cancelled
                      THEN ExitActor(vm, Top.actor, "failed") ELSE vm)

SliceTraps == Slicing /\ Admitted /\ Faults /\ FailFrame(Top, vm)

\* drive_resident_actor claims whatever suspension the recipient has parked.
Drives(served, kind, v) ==
    served.op = "send" /\ v.resident[served.to] # NoOp

\* The slice ended without an error: the recipient of a served Send is driven
\* on top of this activation before the activation goes on.
Sliced(f, v) ==
    LET to == Top.op.to
    IN  IF Drives(Top.op, Top.kind, v)
        THEN /\ vm' = [v EXCEPT !.resident[to] = NoOp]
             /\ stack' = Retop([f EXCEPT !.pc = "settle"])
                         \o <<Frame(to, "resident", "service", v.resident[to])>>
             /\ UNCHANGED <<turn, call>>
        ELSE Settle(f, v)

\* After the slice that applied a capability result the resident is driven by
\* drive_resident_execution.
Driven(f) == IF f.kind \in {"serve", "reply"} THEN "served" ELSE f.kind

SliceCompletes ==
    /\ Slicing
    /\ Admitted
    /\ Sliced([Top EXCEPT !.op = Op("done", 0), !.kind = Driven(Top)], vm)

\* handle_reply parks a new lease.  The loop that drives a spawned actor takes
\* a suspension with the request and continuation it has just resumed to mean
\* that the transition blocked; a recursive program comes back to one too.
SliceSuspends(o, again) ==
    /\ Slicing
    /\ Admitted
    /\ o \in OperationsOf(Top.actor)
    /\ o.op \in {"send", "link", "unlink", "monitor", "cancel"} =>
           vm.status[o.to] # "unborn"
    /\ again => o.op \in Loops /\ o.op = Top.op.op
    /\ Sliced([Top EXCEPT !.op = o, !.kind = Driven(Top),
                          !.park = again /\ Top.kind \in {"child", "resident", "served"}],
              [vm EXCEPT !.lease = @ \union {Top.actor}])

\* The driven recipient is done and the sender's activation goes on.
DriveReturns == stack # <<>> /\ Top.pc = "settle" /\ Settle(Top, vm)

(***************************************************************************)
(* execute_root: the loop of one call.                                     *)
(***************************************************************************)

\* begin_call: a fresh root actor runs its first slice.
BeginCall ==
    LET root == NextActor(vm)
    IN  /\ stack = <<>>
        /\ root \in Actors
        /\ vm' = [SpawnActor(vm, root) EXCEPT !.heap = @ \union {root}]
        /\ stack' = <<Frame(root, "root", "finish", NoOp)>>
        /\ turn' = "poll"
        /\ call' = [root |-> root, result |-> "running"]

\* Only the root's activation is left, between two rounds of its loop.
AtTurn(t) == Len(stack) = 1 /\ Top.pc \in {"service", "wait"} /\ turn = t

Polled == AtTurn("poll") /\ turn' = "service" /\ UNCHANGED <<vm, stack, call>>

\* A worker pool that cannot be polled cancels the call.
PollFails == AtTurn("poll") /\ Faults /\ FailFrame(Top, vm)

\* The answer of a worker is applied to f's actor: the lease is consumed and
\* the slice follows, unless the answer is an error or the lease is gone.
Answered(f, v, ok, below) ==
    IF ok /\ f.actor \in v.lease
    THEN /\ vm' = [v EXCEPT !.lease = @ \ {f.actor}]
         /\ stack' = below \o <<f>>
         /\ turn' = IF turn = "poll" THEN "service"
                    ELSE IF turn = "service" THEN "step" ELSE "poll"
         /\ UNCHANGED call
    ELSE FailFrame(f, v)

Outcomes == IF Faults THEN BOOLEAN ELSE {TRUE}

\* A worker completion, for the root or for a spawned actor.
PollCompletion(a, ok) ==
    /\ AtTurn("poll")
    /\ a \in vm.worker
    /\ LET kind == IF a = call.root THEN "root" ELSE "reply"
       IN  Answered(Frame(a, kind, "finish", Op("capability", 0)),
                    [vm EXCEPT !.worker = @ \ {a}], ok,
                    IF a = call.root THEN <<>> ELSE stack)

Waiting == {a \in Actors : vm.resident[a].op = "capability"}

NoResidentCapability ==
    /\ AtTurn("service")
    /\ Waiting = {}
    /\ turn' = "step"
    /\ UNCHANGED <<vm, stack, call>>

\* take_resident_capability_suspension claims the lowest owner.
Claimed(a) ==
    /\ AtTurn("service")
    /\ Waiting # {}
    /\ a = Min(Waiting)

\* service_resident_capability with an operation that answers at once.
ServeResident(ok) ==
    \E a \in Actors :
        /\ Claimed(a)
        /\ Answered(Frame(a, "serve", "finish", Op("capability", 0)),
                    [vm EXCEPT !.resident[a] = NoOp,
                               !.helper = IF ok THEN @ \union {a} ELSE @], ok, stack)

\* Mutant: the suspension is copied to the worker and stays parked.
SubmitResidentCopy ==
    \E a \in Actors :
        /\ Claimed(a)
        /\ vm' = [vm EXCEPT !.helper = @ \union {a}, !.worker = @ \union {a}]
        /\ turn' = "step"
        /\ UNCHANGED <<stack, call>>

\* submit_postgres and submit_storage move the suspension to a worker.
SubmitResident ==
    \E a \in Actors :
        /\ Claimed(a)
        /\ vm' = [vm EXCEPT !.resident[a] = NoOp,
                            !.helper = @ \union {a},
                            !.worker = @ \union {a}]
        /\ turn' = "step"
        /\ UNCHANGED <<stack, call>>

\* begin_capability_call refuses: both actors end, the helpers are not told.
RefuseResident ==
    /\ Faults
    /\ \E a \in Actors :
        /\ Claimed(a)
        /\ EndCall(FinishOwner(FinishOwner([vm EXCEPT !.resident[a] = NoOp],
                                           a, "failed"),
                               call.root, "failed"), "error")

\* The root's own capability.
ServeRoot(ok) ==
    /\ Serving("capability")
    /\ Top.kind = "root"
    /\ Answered([Top EXCEPT !.pc = "finish"],
                [vm EXCEPT !.helper = IF ok THEN @ \union {Top.actor} ELSE @],
                ok, <<>>)

SubmitRoot ==
    /\ Serving("capability")
    /\ Top.kind = "root"
    /\ vm' = [vm EXCEPT !.helper = @ \union {Top.actor},
                        !.worker = @ \union {Top.actor}]
    /\ stack' = Retop([Top EXCEPT !.pc = "wait"])
    /\ turn' = "poll"
    /\ UNCHANGED call

RootWaits ==
    /\ AtTurn("step")
    /\ Top.pc = "wait"
    /\ turn' = "poll"
    /\ UNCHANGED <<vm, stack, call>>

\* finish_completed_call.
RootCompletes == Serving("done") /\ EndCall(FinishOwner(vm, call.root, "normal"), "ok")

Next ==
    \/ BeginCall
    \/ Polled
    \/ PollFails
    \/ \E a \in Actors, ok \in Outcomes : PollCompletion(a, ok)
    \/ NoResidentCapability
    \/ \E ok \in Outcomes : ServeResident(ok) \/ ServeRoot(ok)
    \/ SubmitResident
    \/ RefuseResident
    \/ SubmitRoot
    \/ RootWaits
    \/ RootCompletes
    \/ ServiceSend
    \/ ServiceReceive
    \/ ServiceSpawn
    \/ ServiceLink
    \/ ServiceUnlink
    \/ ServiceMonitor
    \/ ServiceDemonitor
    \/ ServiceCancellation
    \/ ServiceFailure
    \/ ParkCapability
    \/ SliceRefused
    \/ SliceTraps
    \/ SliceCompletes
    \/ \E o \in Operations, again \in BOOLEAN : SliceSuspends(o, again)
    \/ DriveReturns

Spec == Init /\ [][Next]_vars

(***************************************************************************)
(* Properties.                                                             *)
(***************************************************************************)

FrameType ==
    [actor : Actors,
     kind  : {"root", "child", "resident", "serve", "reply", "served"},
     pc    : {"service", "finish", "settle", "wait"},
     op    : Operations \union {NoOp, Op("done", 0)},
     park  : BOOLEAN]

\* Type invariant of the runtime record, the stack and the loop of the call.
TypeOK ==
    /\ vm.status \in [Actors -> {"unborn", "live", "normal", "failed"}]
    /\ \A s \in {vm.reaped, vm.cancelled, vm.lease, vm.heap, vm.worker, vm.helper} :
          s \subseteq Actors
    /\ \A l \in vm.links : l \subseteq Actors /\ Cardinality(l) = 2
    /\ vm.mail \in [Actors -> 0..MaxMail]
    /\ vm.resident \in [Actors -> Operations \union {NoOp}]
    /\ \A i \in DOMAIN stack : stack[i] \in FrameType
    /\ turn \in {"poll", "service", "step"}
    /\ call.result \in {"none", "running", "ok", "error"}

\* The places that can hold an actor's suspension: an activation, the table of
\* resident suspensions, a worker.
Holders(a) ==
    {i \in DOMAIN stack : /\ stack[i].actor = a
                          /\ stack[i].pc \in {"service", "settle"}
                          /\ stack[i].op.op # "done"}
    \union (IF vm.resident[a] # NoOp THEN {0} ELSE {})
    \union (IF a \in vm.worker THEN {-1} ELSE {})

\* A suspension is held in one place, an actor has at most one activation, and
\* the lease that lets a suspension resume belongs to live actors and is there
\* for every live actor whose suspension is held: no nesting of drives, exits
\* and capability answers makes two resumes of one continuation possible
\* (park_native_continuation, consume_native_continuation,
\* remove_native_continuation_for_owner).
LeaseExact ==
    /\ \A a \in Actors :
          /\ Cardinality(Holders(a)) <= 1
          /\ a \in vm.lease => Live(vm, a)
          /\ Live(vm, a) /\ Holders(a) # {} => a \in vm.lease
    /\ \A i, j \in DOMAIN stack : stack[i].actor = stack[j].actor => i = j

\* A watcher that lives and has not given its monitor up is told exactly when
\* the target is gone, whichever cascade took it (monitor_or_complete,
\* exit_process_inner).
DownExact ==
    \A r \in DOMAIN vm.monitors :
        LET m == vm.monitors[r]
        IN  Live(vm, m.watcher) /\ m.state # "dropped" =>
                (m.state = "told" <=> ~Live(vm, m.target))

\* Actors joined with those of I by a chain of links before the step: whatever
\* holds I, and with an actor those it is linked with, holds them.
LinkedWith(I) ==
    {b \in Actors : \A C \in SUBSET Actors :
        I \subseteq C /\ (\A x \in C : PeerSet(vm, x) \subseteq C) => b \in C}

\* One step ends one actor normally, or ends abnormally what its one failing
\* actor, and the root when the call is cancelled with it, are linked with:
\* the depth-first exit reaches the whole component and nothing else
\* (exit_process_inner).
CascadeExact ==
    [][LET failed == {a \in Actors : Live(vm, a) /\ vm'.status[a] = "failed"}
           normal == {a \in Actors : Live(vm, a) /\ vm'.status[a] = "normal"}
       IN  /\ Cardinality(normal) <= 1
           /\ normal = {} \/ failed = {}
           /\ \E I \in SUBSET failed :
                 Cardinality(I) <= 2 /\ failed = LinkedWith(I)]_vars

\* An actor that was killed while its activation was waiting for something it
\* drove does nothing more: no message, child, link, monitor or cancellation
\* comes from its activation (validate_native_continuation_owner).
DeadIsSilent ==
    [][stack # <<>> /\ ~Live(vm, Top.actor) =>
          /\ \A a \in Actors : /\ vm'.mail[a] <= vm.mail[a]
                                /\ vm'.status[a] = "live" => Live(vm, a)
          /\ vm'.links \subseteq vm.links
          /\ vm'.cancelled \subseteq vm.cancelled
          /\ Len(vm'.monitors) = Len(vm.monitors)]_vars

=============================================================================
