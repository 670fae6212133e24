-------------------------- MODULE CapabilityWorker --------------------------
(***************************************************************************)
(* One capability worker, from the scheduler owner that submits calls to   *)
(* the sandboxed process that runs them (runtime/vm/capability_worker.rs   *)
(* and its submodules; native_worker/protocol/execution.rs).  On the       *)
(* owner's thread an event pump keeps the parked caller of every call and  *)
(* a client keeps the correlation of every request; a writer and a reader  *)
(* thread carry frames to and from the process, in which a reader thread   *)
(* takes them off the standard input, a coordinator admits requests        *)
(* against a credit and an executor runs them one at a time.  The process  *)
(* exits when all three have ended.  A production pool has one slot, which *)
(* is never filled again.                                                  *)
(*                                                                         *)
(* A handle is <<call, h>>: the h-th resource the result of a call owns.   *)
(* A cancellation token only makes a call likelier to end in an error,     *)
(* which any call may do, so tokens are left out.                          *)
(***************************************************************************)
EXTENDS Integers, Sequences, FiniteSets, SequencesExt

CONSTANTS
  Credit,       \* the worker's credit limit, remote_credit_limit at the client
  Slot,         \* the concurrency limit of the pool slot
  MaxRequests,  \* requests a worker process accepts in its life
  PipeCap,      \* frames the pipe and the worker's input channel hold
  LastCall,     \* bound: no call is submitted once this id was allocated
  Handles,      \* the resources a result may own
  Crashes       \* whether the worker process may die by itself

ASSUME CapabilityAssumption ==
  /\ Credit \in Nat \ {0} /\ Slot \in 1..Credit /\ MaxRequests \in Nat
  /\ PipeCap \in Nat \ {0} /\ LastCall \in Nat /\ IsFiniteSet(Handles)
  /\ Crashes \in BOOLEAN

VARIABLES
  phase,        \* the owner: "open", "stopping" (in shutdown), "stopped"
  pending,      \* pump.pending: the calls whose caller is retained
  fate,         \* what the caller of each call was told
  live,         \* the pool slot holds a client
  parked,       \* client.parked_contexts
  cancelled,    \* late_cleanup.cancelled
  queued,       \* late_cleanup.queued
  inFlight,     \* late_cleanup.in_flight: disposal id -> the handle
  lastId,       \* client.last_request_id
  requests,     \* the transport's request queue
  writer,       \* the writer thread runs
  input,        \* frames on their way to the coordinator
  events,       \* frames on their way to the client, then its event queue
  active,       \* the coordinator's active requests
  commands,     \* the executor's command queue
  completions,  \* the executor's completion queue
  served,       \* requests the coordinator has counted
  lastSeen,     \* its last request id
  closing,      \* "no", "error" (no acknowledgement) or "shutdown"
  ended,        \* the coordinator's loop has ended, and the executor with it
  reading,      \* the worker's reader thread has not returned
  exited,       \* the worker process is gone
  store,        \* the handles the worker process owns
  unsent        \* history: the requests whose reply could not be sent

owner  == <<phase, pending, fate>>
client == <<live, parked, cancelled, queued, inFlight, lastId>>
pipes  == <<requests, writer, input, events>>
worker == <<active, commands, completions, served, lastSeen, closing, ended, reading,
            exited, store, unsent>>
vars   == <<owner, client, pipes, worker>>

MaxId   == LastCall * (1 + Cardinality(Handles))
Ids     == 1..MaxId
NoId    == 0
NoHandle == <<NoId, NoId>>
Handle  == Ids \X Handles
Fates   == {"none", "waiting", "replied", "lost", "cancelled", "unheard"}

Request(type, id, handle) == [type |-> type, id |-> id, handle |-> handle]
Event(type, id, outcome, handles, reserved) ==
  [type |-> type, id |-> id, outcome |-> outcome, handles |-> handles, reserved |-> reserved]
Notice(type) == Event(type, NoId, "ok", {}, 0)

QueueLimit == 2 * Credit + 1
EventLimit == QueueLimit + PipeCap
PendingLen == Cardinality(parked) + Cardinality(DOMAIN inFlight)

Init ==
  /\ phase = "open" /\ pending = {} /\ fate = [id \in Ids |-> "none"]
  /\ live = TRUE /\ parked = {} /\ cancelled = {} /\ queued = <<>>
  /\ inFlight = [id \in {} |-> NoHandle] /\ lastId = 0
  /\ requests = <<>> /\ writer = TRUE /\ input = <<>> /\ events = <<>>
  /\ active = {} /\ commands = <<>> /\ completions = <<>>
  /\ served = 0 /\ lastSeen = 0 /\ closing = "no" /\ ended = FALSE /\ reading = TRUE
  /\ exited = FALSE /\ store = {} /\ unsent = {}

-----------------------------------------------------------------------------
(* The owner's thread. *)

\* try_send: the queue has room for n more and its receiver is alive.
CanSend(n) == writer /\ Len(requests) + n <= QueueLimit

\* submit, select_slot and start_parked_call.  A refused frame gives its id up
\* and hands the caller back; a call without a slot or a credit changes nothing.
Submit ==
  /\ phase = "open" /\ live /\ lastId < LastCall
  /\ PendingLen < Slot /\ PendingLen < Credit
  /\ lastId' = lastId + 1
  /\ IF CanSend(1)
     THEN /\ parked' = parked \cup {lastId'}
          /\ pending' = pending \cup {lastId'}
          /\ fate' = [fate EXCEPT ![lastId'] = "waiting"]
          /\ requests' = Append(requests, Request("call", lastId', NoHandle))
     ELSE UNCHANGED <<parked, pending, fate, requests>>
  /\ UNCHANGED <<phase, live, cancelled, queued, inFlight, writer, input, events, worker>>

\* cancel of the pump and cancel_parked of the pool and the client: the caller
\* is handed back in any case; a cancellation frame the transport refuses
\* leaves the client's correlation as it was.
CancelCall(id) ==
  /\ phase \in {"open", "stopping"} /\ id \in pending
  /\ pending' = pending \ {id}
  /\ IF live /\ id \in parked /\ CanSend(1)
     THEN /\ parked' = parked \ {id}
          /\ cancelled' = cancelled \cup {id}
          /\ requests' = Append(requests, Request("cancel", id, NoHandle))
          /\ fate' = [fate EXCEPT ![id] = "cancelled"]
     ELSE /\ fate' = [fate EXCEPT ![id] = "unheard"]
          /\ UNCHANGED <<parked, cancelled, requests>>
  /\ UNCHANGED <<phase, live, queued, inFlight, lastId, writer, input, events, worker>>

\* shutdown: every retained call is cancelled, then the worker is asked to
\* stop, if its queue takes the frame.
BeginShutdown ==
  /\ phase = "open"
  /\ phase' = "stopping"
  /\ UNCHANGED <<pending, fate, client, pipes, worker>>

SendShutdown ==
  /\ phase = "stopping" /\ pending = {}
  /\ phase' = "stopped"
  /\ requests' = IF live /\ CanSend(1)
                 THEN Append(requests, Request("shutdown", NoId, NoHandle)) ELSE requests
  /\ UNCHANGED <<pending, fate, client, writer, input, events, worker>>

\* close_parked_state, the drop of the client by poll_parked of the pool (which
\* ends the child process and both transport threads) and worker_lost.
DropClient ==
  /\ live' = FALSE /\ parked' = {} /\ cancelled' = {} /\ queued' = <<>>
  /\ inFlight' = [id \in {} |-> NoHandle]
  /\ requests' = <<>> /\ writer' = FALSE /\ input' = <<>> /\ events' = <<>>
  /\ active' = {} /\ commands' = <<>> /\ completions' = <<>>
  /\ closing' = "error" /\ ended' = TRUE /\ reading' = FALSE
  /\ exited' = TRUE /\ store' = {}
  /\ UNCHANGED <<served, lastSeen, unsent, phase>>

\* Mutant: callers whose cancellation was answered are failed again.
LoseTellingCancelled ==
  /\ DropClient
  /\ pending' = {}
  /\ fate' = [id \in Ids |-> IF id \in pending \cup cancelled THEN "lost" ELSE fate[id]]
  /\ UNCHANGED lastId

LoseWorker ==
  /\ DropClient
  /\ pending' = {}
  /\ fate' = [id \in Ids |-> IF id \in pending THEN "lost" ELSE fate[id]]
  /\ UNCHANGED lastId

\* schedule_late_disposals with `left` waiting: as many as the credit allows
\* are published, and a frame the transport refuses fails the whole worker.
ScheduleLateDisposals(left, flying, calls) ==
  LET room == Credit - (Cardinality(calls) + Cardinality(DOMAIN flying))
      n    == IF room < Len(left) THEN (IF room > 0 THEN room ELSE 0) ELSE Len(left)
      New(k) == lastId + k
  IN  IF n = 0 \/ CanSend(n)
      THEN /\ queued' = SubSeq(left, n + 1, Len(left))
           /\ inFlight' = [id \in DOMAIN flying \cup {New(k) : k \in 1..n} |->
                             IF id \in DOMAIN flying THEN flying[id] ELSE left[id - lastId]]
           /\ requests' = requests \o [k \in 1..n |-> Request("dispose", New(k), left[k])]
           /\ lastId' = lastId + n
           /\ parked' = calls
           /\ UNCHANGED <<phase, pending, fate, live, writer, input, worker>>
           /\ events' = Tail(events)
           /\ cancelled' = cancelled \ {Head(events).id}
      ELSE LoseWorker

Without(f, id) == [x \in DOMAIN f \ {id} |-> f[x]]

\* The reply to a disposal must be a plain success.
DisposalReply(e) ==
  IF e.outcome = "ok" THEN ScheduleLateDisposals(queued, Without(inFlight, e.id), parked)
                      ELSE LoseWorker

\* The reply to a call: it resumes the caller the pump retains, if it still does.
CallReply(e) ==
  /\ parked' = parked \ {e.id}
  /\ pending' = pending \ {e.id}
  /\ fate' = IF e.id \in pending THEN [fate EXCEPT ![e.id] = "replied"] ELSE fate
  /\ events' = Tail(events)
  /\ UNCHANGED <<phase, live, cancelled, queued, inFlight, lastId, requests, writer, input, worker>>

\* Mutant: the resources of a late reply are not queued for disposal.
LateReplyForgotten(e) == ScheduleLateDisposals(queued, inFlight, parked)

\* The late reply to a cancelled call: the resources it owns are to be disposed of.
LateReply(e) ==
  ScheduleLateDisposals(IF e.outcome = "ok" THEN queued \o SetToSeq(e.handles) ELSE queued,
                        inFlight, parked)

Ignore ==
  /\ events' = Tail(events)
  /\ UNCHANGED <<owner, client, requests, writer, input, worker>>

\* apply_parked_response on a reply: its credits must add up to the limit.
ApplyReply(e) ==
  CASE e.reserved > Credit        -> LoseWorker
    [] e.id \in DOMAIN inFlight   -> DisposalReply(e)
    [] e.id \in parked            -> CallReply(e)
    [] e.id \in cancelled         -> LateReply(e)
    [] OTHER                      -> Ignore

\* Mutant: the pump does not look at the end of the worker.
PollReplies ==
  /\ phase # "stopping" /\ live /\ events # <<>>
  /\ LET e == Head(events) IN
     \/ e.type = "reply" /\ ApplyReply(e)
     \/ e.type = "cancelAck" /\ Ignore

\* poll of the pump, poll_parked of the pool and the client.
Poll ==
  /\ phase # "stopping" /\ live /\ events # <<>>
  /\ LET e == Head(events) IN
     \/ e.type = "reply" /\ ApplyReply(e)
     \/ e.type = "cancelAck" /\ Ignore
     \/ e.type \in {"shutdownAck", "closed", "failed"} /\ LoseWorker

\* The owner's thread ends: its dispatcher, pump and client are dropped.
DropPump == phase = "stopped" /\ live /\ LoseWorker

-----------------------------------------------------------------------------
(* The transport's writer thread. *)

Write ==
  /\ writer /\ requests # <<>> /\ ~exited /\ Len(input) < PipeCap
  /\ requests' = Tail(requests)
  /\ input' = Append(input, Head(requests))
  /\ UNCHANGED <<owner, client, writer, events, worker>>

\* The worker is gone, or a call exceeds the payload limit.  The thread ends, and
\* with it the worker's standard input.
WriteFails ==
  /\ writer /\ requests # <<>> /\ Len(events) < EventLimit
  /\ exited \/ Head(requests).type = "call"
  /\ requests' = Tail(requests)
  /\ writer' = FALSE
  /\ events' = Append(events, Notice("failed"))
  /\ UNCHANGED <<owner, client, input, worker>>

-----------------------------------------------------------------------------
(* The worker process. *)

\* The coordinator is in its loop, and its output takes another frame.
Coordinating == ~ended /\ ~exited /\ ~(closing # "no" /\ active = {}) /\ Len(events) < EventLimit

Reply(id, outcome, handles, reserved) == Event("reply", id, outcome, handles, reserved)

\* admit_call, admit_dispose, write_rejection and send_command.  A call may also
\* be refused for its operation.
Admit(m) ==
  \/ /\ Cardinality(active) < Credit
     /\ active' = active \cup {m.id}
     /\ commands' = Append(commands, m)
     /\ UNCHANGED events
  \/ /\ Cardinality(active) >= Credit \/ m.type = "call"
     /\ events' = Append(events, Reply(m.id, IF Cardinality(active) >= Credit THEN "backpressure"
                                             ELSE "error", {}, Cardinality(active)))
     /\ UNCHANGED <<active, commands>>

\* handle_input_request on a call or a disposal: the count of requests and the
\* order of ids are checked first, and a failed check closes the worker.
AcceptRequest ==
  /\ Coordinating /\ closing = "no" /\ input # <<>>
  /\ LET m == Head(input) IN
     /\ m.type \in {"call", "dispose"}
     /\ input' = Tail(input)
     /\ IF served < MaxRequests /\ m.id > lastSeen
        THEN /\ served' = served + 1 /\ lastSeen' = m.id
             /\ Admit(m)
             /\ UNCHANGED closing
        ELSE /\ closing' = "error"
             /\ UNCHANGED <<served, lastSeen, active, commands, events>>
  /\ UNCHANGED <<owner, client, requests, writer, completions, ended, reading,
                 exited, store, unsent>>

AcceptCancel ==
  /\ Coordinating /\ closing = "no" /\ input # <<>> /\ Head(input).type = "cancel"
  /\ input' = Tail(input)
  /\ events' = Append(events, Event("cancelAck", Head(input).id, "ok", {}, 0))
  /\ UNCHANGED <<owner, client, requests, writer, worker>>

\* The reader returns when it has passed a shutdown on.
AcceptShutdown ==
  /\ Coordinating /\ closing = "no" /\ input # <<>> /\ Head(input).type = "shutdown"
  /\ input' = Tail(input)
  /\ closing' = "shutdown" /\ reading' = FALSE
  /\ UNCHANGED <<owner, client, requests, writer, events, active, commands, completions,
                 served, lastSeen, ended, exited, store, unsent>>

\* A request that arrives while the coordinator closes is read and dropped.
DropInput ==
  /\ Coordinating /\ closing # "no" /\ reading /\ input # <<>>
  /\ input' = Tail(input)
  /\ reading' = (Head(input).type # "shutdown")
  /\ UNCHANGED <<owner, client, requests, writer, events, active, commands, completions,
                 served, lastSeen, closing, ended, exited, store, unsent>>

\* The reader meets the end of its input.
ReadEnd ==
  /\ ~exited /\ reading /\ ~writer /\ input = <<>>
  /\ reading' = FALSE
  /\ closing' = IF closing = "no" THEN "error" ELSE closing
  /\ UNCHANGED <<owner, client, pipes, active, commands, completions, served, lastSeen,
                 ended, exited, store, unsent>>

\* execute_requests: a call ends in an error or in a result that owns some
\* handles, a disposal succeeds if the handle is there.
Execute ==
  /\ ~exited /\ commands # <<>>
  /\ commands' = Tail(commands)
  /\ LET m == Head(commands) IN
     \/ /\ m.type = "call"
        /\ \E hs \in SUBSET Handles :
             /\ store' = store \cup ({m.id} \X hs)
             /\ completions' = Append(completions, Reply(m.id, "ok", {m.id} \X hs, 0))
     \/ /\ m.type = "call"
        /\ completions' = Append(completions, Reply(m.id, "error", {}, 0))
        /\ UNCHANGED store
     \/ /\ m.type = "dispose"
        /\ store' = store \ {m.handle}
        /\ completions' = Append(completions,
             Reply(m.id, IF m.handle \in store THEN "ok" ELSE "error", {}, 0))
  /\ UNCHANGED <<owner, client, pipes, active, served, lastSeen, closing, ended, reading,
                 exited, unsent>>

\* complete_request: the reply carries the credits after the release.  A reply of a
\* request without credit, or one that exceeds the payload limit, is not sent and
\* closes the worker.
CompleteRequest ==
  /\ Coordinating /\ completions # <<>>
  /\ completions' = Tail(completions)
  /\ LET c == Head(completions) IN
     /\ active' = active \ {c.id}
     /\ \/ /\ c.id \in active
           /\ events' = Append(events, [c EXCEPT !.reserved = Cardinality(active')])
           /\ UNCHANGED <<closing, unsent>>
        \/ /\ closing' = IF closing = "no" THEN "error" ELSE closing
           /\ unsent' = unsent \cup {c.id}
           /\ UNCHANGED events
  /\ UNCHANGED <<owner, client, requests, writer, input,
                 commands, served, lastSeen, ended, reading, exited, store>>

\* The coordinator ends and the executor drops its resources.  Frames the reader
\* had passed on are lost; the others are still in the pipe.
EndCoordinator ==
  /\ ~ended /\ ~exited /\ closing # "no" /\ active = {} /\ Len(events) < EventLimit
  /\ ended' = TRUE /\ store' = {}
  /\ events' = events \o (IF closing = "shutdown" THEN <<Notice("shutdownAck")>> ELSE <<>>)
  /\ \E n \in 0..Len(input) :
       /\ input' = SubSeq(input, n + 1, Len(input))
       /\ reading' = (reading /\ \A k \in 1..n : input[k].type # "shutdown")
  /\ UNCHANGED <<owner, client, requests, writer,
                 active, commands, completions, served, lastSeen, closing, exited, unsent>>

\* The reader finds that nobody takes the frame it read.
ReadForNobody ==
  /\ ended /\ ~exited /\ reading /\ input # <<>>
  /\ reading' = FALSE /\ input' = <<>>
  /\ UNCHANGED <<owner, client, requests, writer, events, active, commands, completions,
                 served, lastSeen, closing, ended, exited, store, unsent>>

\* run() has joined its threads: the process exits, and the client's reader meets
\* the end of the stream after everything that was written.
Exit ==
  /\ ended /\ ~exited /\ ~reading /\ Len(events) < EventLimit
  /\ exited' = TRUE /\ input' = <<>>
  /\ events' = Append(events, Notice("closed"))
  /\ UNCHANGED <<owner, client, requests, writer, active, commands, completions,
                 served, lastSeen, closing, ended, reading, store, unsent>>

\* The process dies.
Crash ==
  /\ Crashes /\ ~exited
  /\ exited' = TRUE /\ ended' = TRUE /\ reading' = FALSE /\ store' = {} /\ input' = <<>>
  /\ active' = {} /\ commands' = <<>> /\ completions' = <<>>
  /\ events' = Append(events, Notice("closed"))
  /\ UNCHANGED <<owner, client, requests, writer, served, lastSeen, closing, unsent>>

Next ==
  \/ Submit
  \/ \E id \in Ids : CancelCall(id)
  \/ BeginShutdown
  \/ SendShutdown
  \/ Poll
  \/ DropPump
  \/ Write
  \/ WriteFails
  \/ AcceptRequest
  \/ AcceptCancel
  \/ AcceptShutdown
  \/ DropInput
  \/ ReadEnd
  \/ Execute
  \/ CompleteRequest
  \/ EndCoordinator
  \/ ReadForNobody
  \/ Exit
  \/ Crash

Spec == Init /\ [][Next]_vars

\* The transport's threads and the worker run; an adapter call returns.  The
\* owner polls without being asked to only while it retains a caller
\* (has_pending), and its shutdown runs to the end.
Fairness ==
  /\ WF_vars(Write) /\ WF_vars(WriteFails)
  /\ WF_vars(AcceptRequest) /\ WF_vars(AcceptCancel) /\ WF_vars(AcceptShutdown)
  /\ WF_vars(DropInput) /\ WF_vars(ReadEnd) /\ WF_vars(Execute) /\ WF_vars(CompleteRequest)
  /\ WF_vars(EndCoordinator) /\ WF_vars(ReadForNobody) /\ WF_vars(Exit)
  /\ WF_vars(Poll /\ pending # {})
  /\ WF_vars(phase = "stopping" /\ \E id \in Ids : CancelCall(id))
  /\ WF_vars(SendShutdown)

FairSpec == Spec /\ Fairness
-----------------------------------------------------------------------------
Elements(seq) == {seq[i] : i \in DOMAIN seq}
RequestType == [type : {"call", "cancel", "dispose", "shutdown"},
                id : Ids \cup {NoId}, handle : Handle \cup {NoHandle}]
EventType   == [type : {"reply", "cancelAck", "shutdownAck", "closed", "failed"},
                id : Ids \cup {NoId}, outcome : {"ok", "error", "backpressure"},
                handles : SUBSET Handle, reserved : 0..Credit]

\* Every variable has its type and every queue its bound.
TypeOK ==
  /\ phase \in {"open", "stopping", "stopped"} /\ pending \subseteq Ids
  /\ fate \in [Ids -> Fates] /\ live \in BOOLEAN
  /\ parked \subseteq Ids /\ cancelled \subseteq Ids /\ queued \in Seq(Handle)
  /\ DOMAIN inFlight \subseteq Ids /\ \A id \in DOMAIN inFlight : inFlight[id] \in Handle
  /\ lastId \in 0..MaxId
  /\ requests \in Seq(RequestType) /\ Len(requests) <= QueueLimit /\ writer \in BOOLEAN
  /\ input \in Seq(RequestType) /\ Len(input) <= PipeCap
  /\ events \in Seq(EventType) /\ Len(events) <= EventLimit + 2
  /\ active \subseteq Ids /\ commands \in Seq(RequestType) /\ completions \in Seq(EventType)
  /\ served \in 0..MaxRequests /\ lastSeen \in 0..MaxId
  /\ closing \in {"no", "error", "shutdown"} /\ {ended, reading, exited} \subseteq BOOLEAN
  /\ store \subseteq Handle /\ unsent \subseteq Ids

\* What the caller of a call was told is final: a cancelled or lost call is
\* never resumed by a late reply (MC-C11: a late completion is observable as
\* stale).
AnsweredOnce ==
  [][\A id \in Ids : fate[id] \notin {"none", "waiting"} => fate'[id] = fate[id]]_vars

\* The worker owns handle h on behalf of nobody but a reply that is still to
\* be polled and correlated, or a disposal that waits or is in flight.
HeldByCleanup(h) ==
  \/ h \in Elements(queued)
  \/ \E id \in DOMAIN inFlight : inFlight[id] = h
  \/ /\ h[1] \in cancelled \cup parked
     /\ \E e \in Elements(completions) \cup Elements(events) : e.type = "reply" /\ h \in e.handles

\* The resources of a call whose cancellation was published are never
\* forgotten while the worker runs: "cleanup authority retained until a
\* cancelled request replies or the worker exits" (parked.rs:44).  A reply that
\* could not be sent is the exception; the worker closes then.
LateHandlesHeld ==
  live /\ ~exited => \A h \in store : fate[h[1]] = "cancelled" =>
                        HeldByCleanup(h) \/ (h[1] \in unsent /\ closing # "no")

\* The coordinator has ended without a shutdown and the process has not: its
\* reader waits for a frame, and there is none on its way.
Silent == /\ ended /\ ~exited /\ reading /\ writer
          /\ requests = <<>> /\ input = <<>> /\ events = <<>>

\* Every submitted call is answered, cancelled or reported lost, unless its worker
\* is silent, and then again once the owner sends it anything.
CallsSettle == \A id \in 1..LastCall : id \in pending ~> (id \notin pending \/ Silent)
=============================================================================
