----------------------- MODULE CapabilityWorkerProofs -----------------------
(***************************************************************************)
(* What a capability worker guarantees for any credit, number of calls and *)
(* set of resources, whatever is cancelled, late, refused or crashed: a    *)
(* caller is told one thing, and no resource of a cancelled call is        *)
(* forgotten while the worker runs, unless its reply could not be sent.    *)
(***************************************************************************)
EXTENDS CapabilityWorker, FiniteSetTheorems, TLAPS

(* The inductive invariant *)

\* Frames by where they are: on the way to the coordinator, admitted, executed,
\* and replied to.
Asked   == Elements(requests) \cup Elements(input)
Running == Elements(commands)
Done    == Elements(completions)
Sent    == {e \in Elements(events) : e.type = "reply"}

\* The frames that stand for one request each.
Answerable == {"call", "dispose", "reply"}

\* No request is in a queue twice.
Single(seq) ==
    \A i, j \in DOMAIN seq :
       /\ seq[i].type \in Answerable /\ seq[j].type \in Answerable
       /\ seq[i].id = seq[j].id
       => i = j

Owned  == Nat \X Handles
Asks   == [type : {"call", "cancel", "dispose", "shutdown"}, id : Nat,
           handle : Owned \cup {NoHandle}]
Events == [type : {"reply", "cancelAck", "shutdownAck", "closed", "failed"}, id : Nat,
           outcome : {"ok", "error", "backpressure"}, handles : SUBSET Owned, reserved : Nat]

Shape ==
    /\ fate \in [Ids -> Fates] /\ pending \subseteq Ids
    /\ parked \subseteq Nat /\ cancelled \subseteq Nat /\ queued \in Seq(Owned)
    /\ inFlight \in [DOMAIN inFlight -> Owned] /\ DOMAIN inFlight \subseteq Nat
    /\ lastId \in Nat /\ lastSeen \in Nat
    /\ requests \in Seq(Asks) /\ input \in Seq(Asks) /\ commands \in Seq(Asks)
    /\ events \in Seq(Events) /\ completions \in Seq(Events)
    /\ IsFiniteSet(active) /\ store \subseteq Owned

\* Ids are used in order.
Numbered ==
    /\ lastSeen <= lastId
    /\ \A id \in parked \cup cancelled \cup DOMAIN inFlight : id <= lastId
    /\ \A m \in Asked : m.id <= lastId
    /\ \A x \in Running \cup Done \cup Sent : x.id <= lastSeen

\* A request that may still be executed is a call, or the disposal of the
\* handle that is in flight under its id.
Carried ==
    \A m \in Running \cup {a \in Asked : a.id > lastSeen} :
       /\ m.type = "call" => m.id \in Ids /\ m.id \notin DOMAIN inFlight
       /\ m.type = "dispose" => m.id \in DOMAIN inFlight /\ inFlight[m.id] = m.handle

\* A request is admitted, executed or replied to, and keeps its credit until
\* it is replied to.
OnePlace ==
    /\ Single(commands) /\ Single(completions) /\ Single(events)
    /\ \A m \in Running : /\ m.type \in {"call", "dispose"} /\ m.id \in active
                          /\ \A e \in Done \cup Sent : e.id # m.id
    /\ \A e \in Done : /\ e.type = "reply" /\ e.id \in active
                       /\ \A f \in Sent : f.id # e.id

\* The reply to a call names its own resources; a disposal that succeeded has
\* removed its handle.
Answers ==
    \A e \in Done \cup Sent :
       /\ e.handles \subseteq {e.id} \X Handles
       /\ e.outcome # "ok" => e.handles = {}
       /\ e.id \in DOMAIN inFlight =>
             e.handles = {} /\ (e.outcome = "ok" => inFlight[e.id] \notin store)

\* The call a handle belongs to was executed, and will not be again.
Executed(h) ==
    h[1] <= lastSeen /\ \A m \in Running : m.type = "call" => m.id # h[1]

Dated ==
    /\ \A h \in store : h[1] \in Ids /\ Executed(h)
    /\ \A h \in Elements(queued) : Executed(h)
    /\ \A id \in DOMAIN inFlight : Executed(inFlight[id])

\* The owner retains the callers that wait; the client correlates them.
Waits ==
    /\ pending \subseteq parked
    /\ \A id \in Ids : /\ id \in pending <=> fate[id] = "waiting"
                       /\ id > lastId => fate[id] = "none"
                       /\ fate[id] = "cancelled" => id \notin parked

\* The call of this id has not been replied to, as far as the client can tell.
Unanswered(id) ==
    id > lastSeen \/ \E x \in Running \cup Done \cup Sent : x.id = id

\* A published cancellation is remembered until its reply is polled.
Remembered ==
    /\ ~exited => live
    /\ live => \A id \in Ids : fate[id] = "cancelled" /\ Unanswered(id) => id \in cancelled

\* The handle is to be disposed of, or named by a reply that is correlated.
Kept(h) ==
    \/ h \in Elements(queued)
    \/ \E id \in DOMAIN inFlight : inFlight[id] = h
    \/ h[1] \in cancelled \cup parked /\ \E e \in Done \cup Sent : h \in e.handles

\* LateHandlesHeld, also for the calls that may yet be cancelled.
Held ==
    \A h \in store : fate[h[1]] \in {"waiting", "cancelled"} => Kept(h) \/ h[1] \in unsent

CleanupInv ==
    /\ Shape /\ Numbered /\ Carried /\ OnePlace
    /\ Answers /\ Dated /\ Waits /\ Remembered /\ Held
-----------------------------------------------------------------------------
(* Queues *)

\* What a queue holds after a frame was put into it.
LEMMA AppendElements ==
    ASSUME NEW S, NEW seq \in Seq(S), NEW x \in S
    PROVE  /\ Append(seq, x) \in Seq(S)
           /\ Elements(Append(seq, x)) = Elements(seq) \cup {x}
           /\ /\ Single(seq)
              /\ x.type \in Answerable =>
                    \A y \in Elements(seq) : y.type \in Answerable => y.id # x.id
              => Single(Append(seq, x))
<1> DEFINE new == Append(seq, x)
<1>1. /\ new \in Seq(S) /\ Len(seq) \in Nat /\ DOMAIN seq = 1 .. Len(seq)
      /\ DOMAIN new = 1 .. (Len(seq) + 1)
      /\ new[Len(seq) + 1] = x /\ \A i \in DOMAIN seq : new[i] = seq[i]
  OBVIOUS
<1> HIDE DEF new
<1>2. Elements(new) = Elements(seq) \cup {x}
  BY <1>1 DEF Elements
<1>3. ASSUME Single(seq),
             x.type \in Answerable =>
                \A y \in Elements(seq) : y.type \in Answerable => y.id # x.id
      PROVE  Single(new)
  <2> SUFFICES ASSUME NEW i \in DOMAIN new, NEW j \in DOMAIN new, i # j,
                      new[i].type \in Answerable, new[j].type \in Answerable,
                      new[i].id = new[j].id
               PROVE  FALSE
    BY DEF Single
  <2>1. CASE i \in DOMAIN seq /\ j \in DOMAIN seq
    BY <1>1, <1>3, <2>1 DEF Single
  <2>2. CASE i = Len(seq) + 1
    <3>1. j \in DOMAIN seq /\ new[j] = seq[j] /\ seq[j] \in Elements(seq)
      BY <1>1, <2>2 DEF Elements
    <3> QED BY <1>1, <1>3, <2>2, <3>1
  <2>3. CASE j = Len(seq) + 1
    <3>1. i \in DOMAIN seq /\ new[i] = seq[i] /\ seq[i] \in Elements(seq)
      BY <1>1, <2>3 DEF Elements
    <3> QED BY <1>1, <1>3, <2>3, <3>1
  <2> QED BY <1>1, <2>1, <2>2, <2>3
<1> QED BY <1>1, <1>2, <1>3 DEF new

\* What a queue holds after a frame was taken from it.
LEMMA TailElements ==
    ASSUME NEW S, NEW seq \in Seq(S), seq # <<>>
    PROVE  /\ Head(seq) \in S /\ Tail(seq) \in Seq(S)
           /\ Elements(seq) = Elements(Tail(seq)) \cup {Head(seq)}
           /\ Single(seq) =>
                 /\ Single(Tail(seq))
                 /\ Head(seq).type \in Answerable =>
                       \A y \in Elements(Tail(seq)) :
                          y.type \in Answerable => y.id # Head(seq).id
<1> DEFINE rest == Tail(seq)
<1>1. /\ Len(seq) \in Nat \ {0} /\ DOMAIN seq = 1 .. Len(seq)
      /\ Head(seq) = seq[1] /\ Head(seq) \in S
      /\ rest \in Seq(S) /\ DOMAIN rest = 1 .. (Len(seq) - 1)
      /\ \A i \in DOMAIN rest : i + 1 \in DOMAIN seq /\ rest[i] = seq[i + 1]
  OBVIOUS
<1> HIDE DEF rest
<1>2. Elements(seq) = Elements(rest) \cup {Head(seq)}
  <2>1. ASSUME NEW i \in DOMAIN seq PROVE seq[i] \in Elements(rest) \cup {Head(seq)}
    <3>1. CASE i = 1
      BY <1>1, <3>1
    <3>2. CASE i # 1
      <4>1. i - 1 \in DOMAIN rest /\ rest[i - 1] = seq[(i - 1) + 1] /\ (i - 1) + 1 = i
        BY <1>1, <3>2
      <4> QED BY <4>1 DEF Elements
    <3> QED BY <3>1, <3>2
  <2>2. Elements(rest) \subseteq Elements(seq) /\ Head(seq) \in Elements(seq)
    BY <1>1 DEF Elements
  <2> QED BY <2>1, <2>2 DEF Elements
<1>3. ASSUME Single(seq)
      PROVE  /\ Single(rest)
             /\ Head(seq).type \in Answerable =>
                   \A y \in Elements(rest) : y.type \in Answerable => y.id # Head(seq).id
  <2>1. Single(rest)
    <3> SUFFICES ASSUME NEW i \in DOMAIN rest, NEW j \in DOMAIN rest,
                        rest[i].type \in Answerable, rest[j].type \in Answerable,
                        rest[i].id = rest[j].id
                 PROVE  i = j
      BY DEF Single
    <3>1. i + 1 = j + 1
      BY <1>1, <1>3 DEF Single
    <3> QED BY <3>1, <1>1
  <2>2. ASSUME NEW i \in DOMAIN rest, Head(seq).type \in Answerable,
               rest[i].type \in Answerable
        PROVE  rest[i].id # Head(seq).id
    <3>1. i + 1 # 1 /\ i + 1 \in DOMAIN seq /\ 1 \in DOMAIN seq
      BY <1>1
    <3> QED BY <1>1, <1>3, <2>2, <3>1 DEF Single
  <2> QED BY <2>1, <2>2 DEF Elements
<1> QED BY <1>1, <1>2, <1>3 DEF rest

\* What two queues hold, one behind the other.
LEMMA ConcatElements ==
    ASSUME NEW S, NEW s \in Seq(S), NEW t \in Seq(S)
    PROVE  s \o t \in Seq(S) /\ Elements(s \o t) = Elements(s) \cup Elements(t)
<1> DEFINE st == s \o t
<1>1. /\ st \in Seq(S) /\ Len(s) \in Nat /\ Len(t) \in Nat
      /\ DOMAIN s = 1 .. Len(s) /\ DOMAIN t = 1 .. Len(t)
      /\ DOMAIN st = 1 .. (Len(s) + Len(t))
      /\ \A i \in DOMAIN s : st[i] = s[i]
      /\ \A i \in DOMAIN t : st[Len(s) + i] = t[i]
  OBVIOUS
<1> HIDE DEF st
<1>2. ASSUME NEW i \in DOMAIN st PROVE st[i] \in Elements(s) \cup Elements(t)
  <2>1. CASE i \in DOMAIN s
    BY <1>1, <2>1 DEF Elements
  <2>2. CASE i \notin DOMAIN s
    <3>1. i - Len(s) \in DOMAIN t /\ Len(s) + (i - Len(s)) = i
      BY <1>1, <2>2
    <3> QED BY <1>1, <3>1 DEF Elements
  <2> QED BY <2>1, <2>2
<1>3. Elements(s) \subseteq Elements(st)
  BY <1>1 DEF Elements
<1>4. ASSUME NEW i \in DOMAIN t PROVE t[i] \in Elements(st)
  <2>1. Len(s) + i \in DOMAIN st /\ st[Len(s) + i] = t[i]
    BY <1>1
  <2> QED BY <2>1 DEF Elements
<1> QED BY <1>1, <1>2, <1>3, <1>4 DEF st, Elements

\* What a queue holds is what its first n frames and the others hold.
LEMMA SplitElements ==
    ASSUME NEW S, NEW seq \in Seq(S), NEW n \in 0 .. Len(seq)
    PROVE  /\ SubSeq(seq, n + 1, Len(seq)) \in Seq(S)
           /\ Elements(seq) = {seq[k] : k \in 1 .. n} \cup Elements(SubSeq(seq, n + 1, Len(seq)))
<1> DEFINE rest == SubSeq(seq, n + 1, Len(seq))
<1>1. /\ Len(seq) \in Nat /\ n \in Nat /\ n <= Len(seq) /\ DOMAIN seq = 1 .. Len(seq)
      /\ rest \in Seq(S) /\ DOMAIN rest = 1 .. (Len(seq) - n)
      /\ \A i \in DOMAIN rest : rest[i] = seq[n + i]
  OBVIOUS
<1> HIDE DEF rest
<1>2. ASSUME NEW i \in DOMAIN seq, i \notin 1 .. n PROVE seq[i] \in Elements(rest)
  <2>1. i - n \in DOMAIN rest /\ rest[i - n] = seq[n + (i - n)] /\ n + (i - n) = i
    BY <1>1, <1>2
  <2> QED BY <2>1 DEF Elements
<1>3. ASSUME NEW i \in DOMAIN rest PROVE rest[i] \in Elements(seq)
  <2>1. n + i \in DOMAIN seq
    BY <1>1
  <2> QED BY <1>1, <2>1 DEF Elements
<1>4. \A k \in 1 .. n : k \in DOMAIN seq
  BY <1>1
<1> QED BY <1>1, <1>2, <1>3, <1>4 DEF rest, Elements

\* SetToSeq lists the elements of a finite set.
LEMMA ListElements ==
    ASSUME NEW T, IsFiniteSet(T)
    PROVE  SetToSeq(T) \in Seq(T) /\ Elements(SetToSeq(T)) = T
<1> DEFINE n == Cardinality(T)
           list == SetToSeq(T)
<1>1. n \in Nat /\ \E f \in Bijection(1 .. n, T) : TRUE
  BY FS_CardinalityType DEF ExistsBijection
<1>2. \E f \in [1 .. n -> T] : IsInjective(f)
  BY <1>1 DEF Bijection, Injection, IsInjective
<1>3. list \in [1 .. n -> T] /\ IsInjective(list)
  BY <1>2 DEF SetToSeq
<1> HIDE DEF list
<1>4. list \in Seq(T) /\ DOMAIN list = 1 .. n
  BY <1>1, <1>3
<1>5. Elements(list) \in SUBSET T /\ list \in Bijection(1 .. n, Elements(list))
  BY <1>3, <1>4 DEF Elements, Bijection, Injection, Surjection, IsInjective
<1>6. Cardinality(Elements(list)) = n
  BY <1>1, <1>5, FS_CountingElements DEF ExistsBijection
<1>7. Elements(list) = T
  BY <1>5, <1>6, FS_Subset
<1> QED BY <1>4, <1>7 DEF list
-----------------------------------------------------------------------------
(* Steps that move frames and answer nobody *)

\* A step that neither the client nor the executor notices.
LEMMA QuietStep ==
    ASSUME CleanupInv, Shape', Single(events)', Sent' = Sent,
           UNCHANGED <<fate, pending, live, parked, cancelled, queued, inFlight, lastId>>,
           UNCHANGED <<lastSeen, commands, completions, active, store, unsent>>,
           exited' \in {exited, TRUE},
           \A m \in Asked' : m \in Asked \/ (m.type \notin {"call", "dispose"} /\ m.id <= lastId)
    PROVE  CleanupInv'
<1>1. Running' = Running /\ Done' = Done
  BY DEF Running, Done
<1>2. Numbered'
  BY <1>1 DEF CleanupInv, Numbered
<1>3. Carried'
  <2> SUFFICES ASSUME NEW m \in (Running \cup {a \in Asked' : a.id > lastSeen})
               PROVE  /\ m.type = "call" => m.id \in Ids /\ m.id \notin DOMAIN inFlight
                      /\ m.type = "dispose" => /\ m.id \in DOMAIN inFlight
                                               /\ inFlight[m.id] = m.handle
    BY <1>1 DEF Carried
  <2>1. \/ m \in Running \cup {a \in Asked : a.id > lastSeen}
        \/ m.type \notin {"call", "dispose"}
    OBVIOUS
  <2> QED BY <2>1 DEF CleanupInv, Carried
<1>4. OnePlace'
  BY <1>1 DEF CleanupInv, OnePlace, Single
<1>5. Answers'
  BY <1>1 DEF CleanupInv, Answers
<1>6. Dated'
  BY <1>1 DEF CleanupInv, Dated, Executed
<1>7. Waits'
  BY DEF CleanupInv, Waits
<1>8. Remembered'
  BY <1>1 DEF CleanupInv, Remembered, Unanswered
<1>9. Held'
  BY <1>1 DEF CleanupInv, Held, Kept
<1> QED BY <1>2, <1>3, <1>4, <1>5, <1>6, <1>7, <1>8, <1>9 DEF CleanupInv

\* The owner begins to shut the pump down.
LEMMA BeginShutdownInv ==
    ASSUME CleanupInv, BeginShutdown
    PROVE  CleanupInv'
<1>1. UNCHANGED <<fate, pending, client, pipes, worker>>
  BY DEF BeginShutdown
<1>2. Shape' /\ Single(events)' /\ Sent' = Sent /\ Asked' = Asked
  BY <1>1 DEF CleanupInv, Shape, OnePlace, Single, Sent, Asked, client, pipes, worker
<1> QED BY <1>1, <1>2, QuietStep DEF client, worker

\* The owner asks the worker to stop.
LEMMA SendShutdownInv ==
    ASSUME CleanupInv, SendShutdown
    PROVE  CleanupInv'
<1>1. PICK m \in Asks : m = Request("shutdown", NoId, NoHandle)
  BY DEF Request, Asks, NoId
<1>2. /\ UNCHANGED <<pending, fate, client, writer, input, events, worker>>
      /\ requests' = requests \/ requests' = Append(requests, m)
  BY <1>1 DEF SendShutdown
<1>3. /\ requests' \in Seq(Asks)
      /\ Elements(requests') \subseteq Elements(requests) \cup {m}
  <2>1. requests \in Seq(Asks)
    BY DEF CleanupInv, Shape
  <2>2. Append(requests, m) \in Seq(Asks)
        /\ Elements(Append(requests, m)) = Elements(requests) \cup {m}
    BY <2>1, AppendElements
  <2>3. CASE requests' = requests
    BY <2>1, <2>3
  <2>4. CASE requests' = Append(requests, m)
    BY <2>2, <2>4
  <2> QED BY <1>2, <2>3, <2>4
<1>4. Shape' /\ Single(events)' /\ Sent' = Sent
  BY <1>2, <1>3 DEF CleanupInv, Shape, OnePlace, Single, Sent, client, worker
<1>5. m.type = "shutdown" /\ m.id <= lastId
  BY <1>1 DEF Request, NoId, CleanupInv, Shape
<1>6. \A a \in Asked' : a \in Asked \/ (a.type \notin {"call", "dispose"} /\ a.id <= lastId)
  BY <1>2, <1>3, <1>5 DEF Asked
<1> QED BY <1>2, <1>4, <1>6, QuietStep DEF client, worker

\* The writer thread passes a frame on.
LEMMA WriteInv ==
    ASSUME CleanupInv, Write
    PROVE  CleanupInv'
<1>1. /\ requests # <<>> /\ requests' = Tail(requests)
      /\ input' = Append(input, Head(requests))
      /\ UNCHANGED <<owner, client, writer, events, worker>>
  BY DEF Write
<1>2. /\ requests' \in Seq(Asks) /\ input' \in Seq(Asks)
      /\ Elements(requests') \subseteq Elements(requests)
      /\ Head(requests) \in Elements(requests)
      /\ Elements(input') = Elements(input) \cup {Head(requests)}
  BY <1>1, AppendElements, TailElements DEF CleanupInv, Shape
<1>3. Shape' /\ Single(events)' /\ Sent' = Sent
  BY <1>1, <1>2 DEF CleanupInv, Shape, OnePlace, Single, Sent, owner, client, worker
<1>4. Asked' \subseteq Asked
  BY <1>2 DEF Asked
<1> QED BY <1>1, <1>3, <1>4, QuietStep DEF owner, client, worker

\* An event that is no reply is put into the queue of events.
LEMMA NoticeEvent ==
    ASSUME CleanupInv, NEW e \in Events, e.type # "reply", e.type \notin Answerable,
           events' = Append(events, e)
    PROVE  events' \in Seq(Events) /\ Single(events)' /\ Sent' = Sent
<1>1. /\ events' \in Seq(Events) /\ Elements(events') = Elements(events) \cup {e}
      /\ Single(events')
  BY AppendElements DEF CleanupInv, Shape, OnePlace
<1> QED BY <1>1 DEF Sent, Single

\* The notices of the transport and of the coordinator are events.
LEMMA NoticeType ==
    ASSUME NEW type \in {"shutdownAck", "closed", "failed"}
    PROVE  /\ Notice(type) \in Events /\ Notice(type).type # "reply"
           /\ Notice(type).type \notin Answerable
  BY DEF Notice, Event, Events, NoId, Answerable

\* The writer thread ends.
LEMMA WriteFailsInv ==
    ASSUME CleanupInv, WriteFails
    PROVE  CleanupInv'
<1>1. /\ requests # <<>> /\ requests' = Tail(requests)
      /\ events' = Append(events, Notice("failed"))
      /\ UNCHANGED <<owner, client, input, worker>>
  BY DEF WriteFails
<1>2. requests' \in Seq(Asks) /\ Elements(requests') \subseteq Elements(requests)
  BY <1>1, TailElements DEF CleanupInv, Shape
<1>3. events' \in Seq(Events) /\ Single(events)' /\ Sent' = Sent
  BY <1>1, NoticeEvent, NoticeType
<1>4. Shape' /\ Asked' \subseteq Asked
  BY <1>1, <1>2, <1>3 DEF CleanupInv, Shape, Asked, owner, client, worker
<1> QED BY <1>1, <1>3, <1>4, QuietStep DEF owner, client, worker

\* The coordinator takes a request from its input and admits nothing.
LEMMA DroppedInput ==
    ASSUME CleanupInv, input # <<>>, input' = Tail(input), Single(events)', Sent' = Sent,
           events' \in Seq(Events),
           UNCHANGED <<owner, client, requests, active, commands, completions, lastSeen,
                       exited, store, unsent>>
    PROVE  CleanupInv'
<1>1. input' \in Seq(Asks) /\ Elements(input') \subseteq Elements(input)
  BY TailElements DEF CleanupInv, Shape
<1>2. Shape' /\ Asked' \subseteq Asked
  BY <1>1 DEF CleanupInv, Shape, Asked, owner, client
<1> QED BY <1>2, QuietStep DEF owner, client

\* A cancellation is acknowledged, a shutdown begins, a request is dropped.
LEMMA CoordinatorQuietInv ==
    ASSUME CleanupInv, AcceptCancel \/ AcceptShutdown \/ DropInput
    PROVE  CleanupInv'
<1>0. Single(events) /\ events \in Seq(Events) /\ input \in Seq(Asks)
  BY DEF CleanupInv, OnePlace, Shape
<1>1. CASE AcceptCancel
  <2> DEFINE ack == Event("cancelAck", Head(input).id, "ok", {}, 0)
  <2>1. /\ input # <<>> /\ input' = Tail(input) /\ events' = Append(events, ack)
        /\ UNCHANGED <<owner, client, requests, writer, worker>>
    BY <1>1 DEF AcceptCancel
  <2>2. Head(input) \in Asks
    BY <1>0, <2>1, TailElements
  <2>3. ack \in Events /\ ack.type = "cancelAck"
    BY <2>2 DEF Event, Events, Asks
  <2> HIDE DEF ack
  <2>4. events' \in Seq(Events) /\ Single(events)' /\ Sent' = Sent
    BY <2>1, <2>3, NoticeEvent DEF Answerable
  <2> QED BY <2>1, <2>4, DroppedInput DEF worker
<1>2. CASE AcceptShutdown
  <2>1. Single(events)' /\ Sent' = Sent /\ events' \in Seq(Events)
    BY <1>0, <1>2 DEF AcceptShutdown, Single, Sent
  <2> QED BY <1>2, <2>1, DroppedInput DEF AcceptShutdown
<1>3. CASE DropInput
  <2>1. Single(events)' /\ Sent' = Sent /\ events' \in Seq(Events)
    BY <1>0, <1>3 DEF DropInput, Single, Sent
  <2> QED BY <1>3, <2>1, DroppedInput DEF DropInput
<1> QED BY <1>1, <1>2, <1>3

\* The executor is gone, and with it what it owned.
LEMMA ExitStep ==
    ASSUME CleanupInv, Shape', Single(events)', Sent' = Sent,
           UNCHANGED <<fate, pending, live, parked, cancelled, queued, inFlight, lastId>>,
           UNCHANGED <<requests, lastSeen>>, Elements(input)' \subseteq Elements(input),
           Running' = {}, Done' = {}, Single(commands)', Single(completions)',
           store' = {}, exited' \in {exited, TRUE}
    PROVE  CleanupInv'
<1>1. Asked' \subseteq Asked
  BY DEF Asked
<1>2. Numbered'
  BY <1>1 DEF CleanupInv, Numbered
<1>3. Carried'
  BY <1>1 DEF CleanupInv, Carried
<1>4. OnePlace'
  BY DEF CleanupInv, OnePlace
<1>5. Answers'
  BY DEF CleanupInv, Answers
<1>6. Dated'
  BY DEF CleanupInv, Dated, Executed
<1>7. Waits'
  BY DEF CleanupInv, Waits
<1>8. Remembered'
  BY DEF CleanupInv, Remembered, Unanswered
<1>9. Held'
  BY DEF Held
<1> QED BY <1>2, <1>3, <1>4, <1>5, <1>6, <1>7, <1>8, <1>9 DEF CleanupInv

\* An empty queue.
LEMMA EmptyQueue ==
    ASSUME NEW S
    PROVE  <<>> \in Seq(S) /\ Elements(<<>>) = {} /\ Single(<<>>)
  BY DEF Elements, Single

\* The process dies.
LEMMA CrashInv ==
    ASSUME CleanupInv, Crash
    PROVE  CleanupInv'
<1>1. /\ exited' = TRUE /\ store' = {} /\ input' = <<>>
      /\ active' = {} /\ commands' = <<>> /\ completions' = <<>>
      /\ events' = Append(events, Notice("closed"))
      /\ UNCHANGED <<owner, client, requests, lastSeen>>
  BY DEF Crash
<1>2. events' \in Seq(Events) /\ Single(events)' /\ Sent' = Sent
  BY <1>1, NoticeEvent, NoticeType
<1>3. /\ Elements(input)' = {} /\ Running' = {} /\ Done' = {}
      /\ Single(commands)' /\ Single(completions)'
      /\ input' \in Seq(Asks) /\ commands' \in Seq(Asks) /\ completions' \in Seq(Events)
  BY <1>1, EmptyQueue DEF Running, Done, Elements, Single
<1>4. IsFiniteSet(active')
  BY <1>1, FS_EmptySet
<1>5. Shape'
  BY <1>1, <1>2, <1>3, <1>4 DEF CleanupInv, Shape, owner, client
<1> QED BY <1>1, <1>2, <1>3, <1>5, ExitStep DEF owner, client

\* The coordinator ends, when no request is admitted any more.
LEMMA EndCoordinatorInv ==
    ASSUME CleanupInv, EndCoordinator
    PROVE  CleanupInv'
<1> DEFINE acks == IF closing = "shutdown" THEN <<Notice("shutdownAck")>> ELSE <<>>
<1>1. /\ active = {} /\ events' = events \o acks /\ store' = {}
      /\ UNCHANGED <<owner, client, requests, active, commands, completions, lastSeen, exited>>
  BY DEF EndCoordinator
<1>2. events \in Seq(Events) /\ Single(events) /\ input \in Seq(Asks)
  BY DEF CleanupInv, Shape, OnePlace
<1>3. events' \in Seq(Events) /\ Single(events)' /\ Sent' = Sent
  <2>1. CASE closing = "shutdown"
    <3>1. events' = Append(events, Notice("shutdownAck"))
      BY <1>1, <1>2, <2>1, NoticeType
    <3> QED BY <3>1, NoticeEvent, NoticeType
  <2>2. CASE closing # "shutdown"
    <3>1. events' = events
      BY <1>1, <1>2, <2>2
    <3> QED BY <1>2, <3>1 DEF Sent, Single
  <2> QED BY <2>1, <2>2
<1>4. Running' = {} /\ Done' = {} /\ Single(commands)' /\ Single(completions)'
  <2>1. Running = {} /\ Done = {}
    BY <1>1 DEF CleanupInv, OnePlace
  <2> QED BY <1>1, <2>1 DEF CleanupInv, OnePlace, Running, Done, Single
<1>5. input' \in Seq(Asks) /\ Elements(input)' \subseteq Elements(input)
  <2>1. PICK n \in 0 .. Len(input) : input' = SubSeq(input, n + 1, Len(input))
    BY DEF EndCoordinator
  <2> QED BY <1>2, <2>1, SplitElements
<1> HIDE DEF acks
<1>6. Shape'
  BY <1>1, <1>3, <1>5, FS_EmptySet DEF CleanupInv, Shape, owner, client
<1> QED BY <1>1, <1>3, <1>4, <1>5, <1>6, ExitStep DEF owner, client

\* The reader ends at the end of its input, or with the coordinator.
LEMMA ReaderInv ==
    ASSUME CleanupInv, ReadEnd \/ ReadForNobody
    PROVE  CleanupInv'
<1>1. /\ input' = input \/ input' = <<>>
      /\ UNCHANGED <<owner, client, requests, events, active, commands, completions,
                     lastSeen, exited, store, unsent>>
  BY DEF ReadEnd, ReadForNobody, pipes
<1>2. input' \in Seq(Asks) /\ Elements(input') \subseteq Elements(input)
  BY <1>1, EmptyQueue DEF CleanupInv, Shape
<1>3. Shape' /\ Single(events)' /\ Sent' = Sent /\ Asked' \subseteq Asked
  BY <1>1, <1>2 DEF CleanupInv, Shape, OnePlace, Single, Sent, Asked, owner, client
<1> QED BY <1>1, <1>3, QuietStep DEF owner, client

\* The process exits after its threads.
LEMMA ExitInv ==
    ASSUME CleanupInv, Exit
    PROVE  CleanupInv'
<1>1. /\ exited' = TRUE /\ input' = <<>> /\ events' = Append(events, Notice("closed"))
      /\ UNCHANGED <<owner, client, requests, active, commands, completions,
                     lastSeen, store, unsent>>
  BY DEF Exit
<1>2. events' \in Seq(Events) /\ Single(events)' /\ Sent' = Sent
  BY <1>1, NoticeEvent, NoticeType
<1>3. input' \in Seq(Asks) /\ Elements(input') \subseteq Elements(input)
  BY <1>1, EmptyQueue
<1>4. Shape' /\ Asked' \subseteq Asked
  BY <1>1, <1>2, <1>3 DEF CleanupInv, Shape, Asked, owner, client
<1> QED BY <1>1, <1>2, <1>4, QuietStep DEF owner, client

\* The client is dropped: whoever waits is told that the worker is lost.
LEMMA LoseWorkerInv ==
    ASSUME CleanupInv, LoseWorker
    PROVE  CleanupInv'
<1>1. /\ live' = FALSE /\ parked' = {} /\ cancelled' = {} /\ queued' = <<>>
      /\ inFlight' = [id \in {} |-> NoHandle] /\ lastId' = lastId /\ lastSeen' = lastSeen
      /\ requests' = <<>> /\ input' = <<>> /\ events' = <<>>
      /\ active' = {} /\ commands' = <<>> /\ completions' = <<>>
      /\ exited' = TRUE /\ store' = {} /\ pending' = {}
      /\ fate' = [id \in Ids |-> IF id \in pending THEN "lost" ELSE fate[id]]
  BY DEF LoseWorker, DropClient
<1>2. DOMAIN inFlight' = {}
  BY <1>1
<1>3. /\ Asked' = {} /\ Running' = {} /\ Done' = {} /\ Sent' = {} /\ Elements(queued)' = {}
      /\ Single(commands)' /\ Single(completions)' /\ Single(events)'
  BY <1>1 DEF Asked, Running, Done, Sent, Elements, Single
<1>4. Shape'
  <2>1. IsFiniteSet(active')
    BY <1>1, FS_EmptySet
  <2>2. fate' \in [Ids -> Fates]
    BY <1>1 DEF CleanupInv, Shape, Fates
  <2>3. inFlight' \in [DOMAIN inFlight' -> Owned]
    BY <1>1
  <2> QED BY <1>1, <1>2, <2>1, <2>2, <2>3, EmptyQueue DEF CleanupInv, Shape
<1>5. Numbered' /\ Carried' /\ OnePlace' /\ Answers' /\ Dated' /\ Held'
  BY <1>1, <1>2, <1>3 DEF CleanupInv, Numbered, Carried, OnePlace, Answers, Dated, Held
<1>6. Waits'
  BY <1>1 DEF CleanupInv, Waits, Shape
<1>7. Remembered'
  BY <1>1 DEF Remembered
<1> QED BY <1>4, <1>5, <1>6, <1>7 DEF CleanupInv
-----------------------------------------------------------------------------
(* The owner's thread *)

\* A call gets an id of its own.
LEMMA CallId ==
    ASSUME lastId \in Nat, lastId < LastCall
    PROVE  lastId + 1 \in Ids
<1>1. LastCall \in Nat /\ Cardinality(Handles) \in Nat
  BY CapabilityAssumption, FS_CardinalityType
<1>2. \A n, c \in Nat : n <= n * (1 + c)
  OBVIOUS
<1>3. LastCall <= MaxId /\ MaxId \in Nat
  BY <1>1, <1>2 DEF MaxId
<1> QED BY <1>1, <1>3 DEF Ids

\* The frames and what they carry.
LEMMA FrameTypes ==
    ASSUME Shape
    PROVE  /\ Asked \subseteq Asks /\ Running \subseteq Asks
           /\ Done \subseteq Events /\ Sent \subseteq Events
           /\ Elements(events) \subseteq Events
           /\ \A m \in Asks : m.id \in Nat
           /\ \A e \in Events : e.id \in Nat
           /\ \A id \in parked \cup cancelled \cup DOMAIN inFlight : id \in Nat
<1>1. \A S : \A seq \in Seq(S) : Elements(seq) \subseteq S
  BY DEF Elements
<1>2. /\ Asked \subseteq Asks /\ Running \subseteq Asks
      /\ Done \subseteq Events /\ Sent \subseteq Events
      /\ Elements(events) \subseteq Events
  BY <1>1 DEF Shape, Asked, Running, Done, Sent
<1> QED BY <1>2 DEF Shape, Asks, Events

\* A call is submitted, or refused by the transport.
LEMMA SubmitInv ==
    ASSUME CleanupInv, Submit
    PROVE  CleanupInv'
<1> DEFINE id == lastId + 1
           m  == Request("call", id, NoHandle)
<1>0. /\ lastId \in Nat /\ lastSeen \in Nat /\ requests \in Seq(Asks)
      /\ lastSeen <= lastId
  BY DEF CleanupInv, Shape, Numbered
<1>1. /\ lastId' = id /\ id \in Ids /\ id \in Nat
      /\ UNCHANGED <<live, cancelled, queued, inFlight, writer, input, events, worker>>
  BY <1>0, CallId DEF Submit
<1>2. /\ Running' = Running /\ Done' = Done /\ Sent' = Sent
      /\ UNCHANGED <<lastSeen, active, store, exited, unsent, commands, completions, events>>
  BY <1>1 DEF Running, Done, Sent, worker
<1>5. /\ \A x \in parked \cup cancelled \cup DOMAIN inFlight : x \in Nat
      /\ \A x \in Asked : x.id \in Nat
  BY FrameTypes DEF CleanupInv
<1>3. CASE CanSend(1)
  <2>1. /\ parked' = parked \cup {id} /\ pending' = pending \cup {id}
        /\ fate' = [fate EXCEPT ![id] = "waiting"] /\ requests' = Append(requests, m)
    BY <1>3, <1>1 DEF Submit
  <2>2. m \in Asks /\ m.type = "call" /\ m.id = id
    BY <1>1 DEF Request, Asks
  <2> HIDE DEF m
  <2>3. requests' \in Seq(Asks) /\ Asked' = Asked \cup {m}
    BY <1>0, <1>1, <2>1, <2>2, AppendElements DEF Asked
  <2>4. /\ fate' \in [Ids -> Fates] /\ fate'[id] = "waiting"
        /\ \A i \in Ids : i # id => fate'[i] = fate[i]
    BY <1>1, <2>1 DEF CleanupInv, Shape, Fates
  <2>5. Shape'
    BY <1>1, <1>2, <2>1, <2>3, <2>4 DEF CleanupInv, Shape
  <2>6. Numbered'
    <3>1. \A n \in Nat : n <= lastId => n <= id
      BY <1>0
    <3>2. \A x \in parked \cup cancelled \cup DOMAIN inFlight : x <= id
      BY <1>5, <3>1 DEF CleanupInv, Numbered
    <3>3. \A x \in Asked : x.id <= id
      BY <1>5, <3>1 DEF CleanupInv, Numbered
    <3> QED BY <1>0, <1>1, <1>2, <2>1, <2>2, <2>3, <3>1, <3>2, <3>3
            DEF CleanupInv, Numbered
  <2>7. Carried'
    <3>1. id \notin DOMAIN inFlight
      BY <1>0 DEF CleanupInv, Numbered, Shape
    <3> QED BY <1>1, <1>2, <2>2, <2>3, <3>1 DEF CleanupInv, Carried
  <2>8. OnePlace' /\ Answers' /\ Dated'
    BY <1>1, <1>2 DEF CleanupInv, OnePlace, Single, Answers, Dated, Executed
  <2>9. Waits'
    <3>1. \A i \in Ids : i \in Nat
      BY DEF Ids
    <3> QED BY <1>0, <1>1, <2>1, <2>4, <3>1 DEF CleanupInv, Waits
  <2>10. Remembered'
    BY <1>1, <1>2, <2>4 DEF CleanupInv, Remembered, Unanswered
  <2>11. Held'
    <3>1. \A h \in store : h[1] # id /\ h[1] \in Ids
      BY <1>0 DEF CleanupInv, Dated, Executed, Shape, Owned
    <3>2. \A h \in store : fate'[h[1]] = fate[h[1]]
      BY <2>4, <3>1
    <3> QED BY <1>1, <1>2, <2>1, <3>2 DEF CleanupInv, Held, Kept
  <2> QED BY <2>5, <2>6, <2>7, <2>8, <2>9, <2>10, <2>11 DEF CleanupInv
<1>4. CASE ~CanSend(1)
  <2>1. UNCHANGED <<parked, pending, fate, requests>> /\ Asked' = Asked
    BY <1>4, <1>1 DEF Submit, Asked
  <2>2. Shape' /\ Numbered'
    <3>1. \A n \in Nat : n <= lastId => n <= id
      BY <1>0
    <3>2. \A x \in parked \cup cancelled \cup DOMAIN inFlight : x <= id
      BY <1>5, <3>1 DEF CleanupInv, Numbered
    <3>3. \A x \in Asked : x.id <= id
      BY <1>5, <3>1 DEF CleanupInv, Numbered
    <3>4. Numbered'
      BY <1>0, <1>1, <1>2, <2>1, <3>1, <3>2, <3>3 DEF CleanupInv, Numbered
    <3> QED BY <1>1, <1>2, <2>1, <3>4 DEF CleanupInv, Shape
  <2>3. Carried' /\ OnePlace' /\ Answers' /\ Dated'
    BY <1>1, <1>2, <2>1 DEF CleanupInv, Carried, OnePlace, Single, Answers, Dated, Executed
  <2>4. Waits'
    <3>1. \A i \in Ids : i \in Nat
      BY DEF Ids
    <3> QED BY <1>0, <1>1, <2>1, <3>1 DEF CleanupInv, Waits
  <2>5. Remembered'
    BY <1>1, <1>2, <2>1 DEF CleanupInv, Remembered, Unanswered
  <2>6. Held'
    BY <1>1, <1>2, <2>1 DEF CleanupInv, Held, Kept
  <2> QED BY <2>2, <2>3, <2>4, <2>5, <2>6 DEF CleanupInv
<1> QED BY <1>3, <1>4

\* A caller is handed back before it was answered, and its call is withdrawn if
\* the transport takes the cancellation.
LEMMA CancelCallInv ==
    ASSUME CleanupInv, NEW id \in Ids, CancelCall(id)
    PROVE  CleanupInv'
<1>0. /\ requests \in Seq(Asks) /\ id \in Nat /\ id \in pending /\ id \in parked
      /\ fate[id] = "waiting" /\ id <= lastId /\ fate \in [Ids -> Fates]
  BY DEF CleanupInv, Shape, Ids, Numbered, Waits, CancelCall
<1>1. /\ pending' = pending \ {id}
      /\ UNCHANGED <<live, queued, inFlight, lastId, writer, input, events, worker>>
  BY DEF CancelCall
<1>2. /\ Running' = Running /\ Done' = Done /\ Sent' = Sent
      /\ UNCHANGED <<lastSeen, active, store, exited, unsent, commands, completions, events>>
  BY <1>1 DEF Running, Done, Sent, worker
<1>3. OnePlace' /\ Answers' /\ Dated'
  BY <1>1, <1>2 DEF CleanupInv, OnePlace, Single, Answers, Dated, Executed
<1>4. CASE live /\ id \in parked /\ CanSend(1)
  <2> DEFINE m == Request("cancel", id, NoHandle)
  <2>1. /\ parked' = parked \ {id} /\ cancelled' = cancelled \cup {id}
        /\ requests' = Append(requests, m) /\ fate' = [fate EXCEPT ![id] = "cancelled"]
    BY <1>4 DEF CancelCall
  <2>2. m \in Asks /\ m.type = "cancel" /\ m.id = id
    BY <1>0 DEF Request, Asks
  <2> HIDE DEF m
  <2>3. requests' \in Seq(Asks) /\ Asked' = Asked \cup {m}
    BY <1>0, <1>1, <2>1, <2>2, AppendElements DEF Asked
  <2>4. /\ fate' \in [Ids -> Fates] /\ fate'[id] = "cancelled"
        /\ \A i \in Ids : i # id => fate'[i] = fate[i]
    BY <1>0, <2>1 DEF Fates
  <2>5. Shape'
    BY <1>0, <1>1, <1>2, <2>1, <2>3, <2>4 DEF CleanupInv, Shape
  <2>6. Numbered'
    BY <1>0, <1>1, <1>2, <2>1, <2>2, <2>3 DEF CleanupInv, Numbered
  <2>7. Carried'
    BY <1>1, <1>2, <2>2, <2>3 DEF CleanupInv, Carried
  <2>8. Waits'
    BY <1>0, <1>1, <2>1, <2>4 DEF CleanupInv, Waits
  <2>9. Remembered'
    BY <1>1, <1>2, <2>1, <2>4 DEF CleanupInv, Remembered, Unanswered
  <2>10. Held'
    <3> SUFFICES ASSUME NEW h \in store, fate'[h[1]] \in {"waiting", "cancelled"},
                        h[1] \notin unsent
                 PROVE  Kept(h)'
      BY <1>2 DEF Held
    <3>1. fate[h[1]] \in {"waiting", "cancelled"}
      BY <1>0, <2>4 DEF CleanupInv, Dated
    <3>2. Kept(h) /\ cancelled' \cup parked' = cancelled \cup parked
      BY <1>0, <2>1, <3>1 DEF CleanupInv, Held
    <3> QED BY <1>1, <1>2, <3>2 DEF Kept
  <2> QED BY <1>3, <2>5, <2>6, <2>7, <2>8, <2>9, <2>10 DEF CleanupInv
<1>5. CASE ~(live /\ id \in parked /\ CanSend(1))
  <2>1. /\ UNCHANGED <<parked, cancelled, requests>> /\ fate' = [fate EXCEPT ![id] = "unheard"]
        /\ Asked' = Asked
    BY <1>1, <1>5 DEF CancelCall, Asked
  <2>2. /\ fate' \in [Ids -> Fates] /\ fate'[id] = "unheard"
        /\ \A i \in Ids : i # id => fate'[i] = fate[i]
    BY <1>0, <2>1 DEF Fates
  <2>3. Shape' /\ Numbered' /\ Carried'
    BY <1>1, <1>2, <2>1, <2>2 DEF CleanupInv, Shape, Numbered, Carried
  <2>4. Waits'
    BY <1>0, <1>1, <2>1, <2>2 DEF CleanupInv, Waits
  <2>5. Remembered'
    BY <1>1, <1>2, <2>1, <2>2 DEF CleanupInv, Remembered, Unanswered
  <2>6. Held'
    <3>1. \A h \in store : fate'[h[1]] \in {"waiting", "cancelled"} =>
                              fate[h[1]] \in {"waiting", "cancelled"}
      BY <2>2 DEF CleanupInv, Dated
    <3> QED BY <1>1, <1>2, <2>1, <3>1 DEF CleanupInv, Held, Kept
  <2> QED BY <1>3, <2>3, <2>4, <2>5, <2>6 DEF CleanupInv
<1> QED BY <1>4, <1>5

\* The first event of the queue, when it is a reply.
LEMMA PolledReply ==
    ASSUME CleanupInv, events # <<>>, Head(events).type = "reply"
    PROVE  /\ Head(events) \in Events /\ Head(events) \in Sent
           /\ Tail(events) \in Seq(Events) /\ Single(Tail(events))
           /\ \A f \in Sent : f # Head(events) => f \in Elements(Tail(events))
           /\ \A f \in Elements(Tail(events)) :
                 f.type = "reply" => f \in Sent /\ f.id # Head(events).id
<1>1. events \in Seq(Events) /\ Single(events)
  BY DEF CleanupInv, Shape, OnePlace
<1>2. /\ Head(events) \in Events /\ Tail(events) \in Seq(Events) /\ Single(Tail(events))
      /\ Elements(events) = Elements(Tail(events)) \cup {Head(events)}
      /\ Head(events).type \in Answerable =>
            \A y \in Elements(Tail(events)) :
               y.type \in Answerable => y.id # Head(events).id
  BY <1>1, TailElements
<1> QED BY <1>2 DEF Sent, Answerable

\* The reply to a call that the client correlates resumes its caller.
LEMMA CallReplyInv ==
    ASSUME CleanupInv, events # <<>>, Head(events).type = "reply",
           Head(events).id \in parked, CallReply(Head(events))
    PROVE  CleanupInv'
<1>1. PICK e \in Events : e = Head(events)
  BY PolledReply
<1>2. /\ e \in Sent /\ events' \in Seq(Events) /\ Single(events')
      /\ \A f \in Sent : f # e => f \in Sent'
      /\ \A f \in Sent' : f \in Sent /\ f.id # e.id
  BY <1>1, PolledReply DEF CallReply, Sent
<1>3. /\ parked' = parked \ {e.id} /\ pending' = pending \ {e.id}
      /\ fate' = IF e.id \in pending THEN [fate EXCEPT ![e.id] = "replied"] ELSE fate
      /\ UNCHANGED <<live, cancelled, queued, inFlight, lastId, requests, input, worker>>
  BY <1>1 DEF CallReply
<1>4. /\ Asked' = Asked /\ Running' = Running /\ Done' = Done
      /\ UNCHANGED <<lastSeen, active, store, exited, unsent, commands, completions>>
  BY <1>3 DEF Asked, Running, Done, worker
<1>5. /\ e.id \in parked /\ pending \subseteq Ids
      /\ fate \in [Ids -> Fates] /\ fate' \in [Ids -> Fates]
      /\ \A i \in Ids : i # e.id => fate'[i] = fate[i]
      /\ e.id \in Ids => fate'[e.id] \notin {"waiting", "cancelled"}
  BY <1>1, <1>3 DEF CleanupInv, Shape, Waits, Fates
<1>6. Shape'
  BY <1>2, <1>3, <1>4, <1>5 DEF CleanupInv, Shape
<1>7. Numbered'
  BY <1>2, <1>3, <1>4 DEF CleanupInv, Numbered
<1>8. Carried'
  BY <1>3, <1>4 DEF CleanupInv, Carried
<1>9. OnePlace'
  BY <1>2, <1>4 DEF CleanupInv, OnePlace, Single
<1>10. Answers'
  BY <1>2, <1>3, <1>4 DEF CleanupInv, Answers
<1>11. Dated'
  BY <1>3, <1>4 DEF CleanupInv, Dated, Executed
<1>12. Waits'
  <2>1. ASSUME NEW i \in Ids
        PROVE  /\ i \in pending' <=> fate'[i] = "waiting"
               /\ i > lastId' => fate'[i] = "none"
               /\ fate'[i] = "cancelled" => i \notin parked'
    <3>1. CASE i # e.id
      BY <1>3, <1>5, <3>1 DEF CleanupInv, Waits
    <3>2. CASE i = e.id
      <4>1. i \in Nat /\ i <= lastId /\ lastId \in Nat
        BY <1>5, <3>2 DEF CleanupInv, Numbered, Shape
      <4> QED BY <1>3, <1>5, <3>2, <4>1
    <3> QED BY <3>1, <3>2
  <2>2. pending' \subseteq parked'
    BY <1>3 DEF CleanupInv, Waits
  <2> QED BY <2>1, <2>2 DEF Waits
<1>13. Remembered'
  BY <1>2, <1>3, <1>4, <1>5 DEF CleanupInv, Remembered, Unanswered
<1>14. Held'
  <2> SUFFICES ASSUME NEW h \in store, fate'[h[1]] \in {"waiting", "cancelled"},
                      h[1] \notin unsent
               PROVE  Kept(h)'
    BY <1>4 DEF Held
  <2>1. h[1] \in Ids /\ h[1] # e.id /\ fate[h[1]] = fate'[h[1]]
    BY <1>5 DEF CleanupInv, Dated
  <2>2. Kept(h)
    BY <2>1 DEF CleanupInv, Held
  <2>3. ASSUME NEW f \in Done \cup Sent, h \in f.handles
        PROVE  f \in Done' \cup Sent'
    <3>1. f.handles \subseteq {f.id} \X Handles
      BY DEF CleanupInv, Answers
    <3>2. f # e
      BY <2>1, <2>3, <3>1
    <3> QED BY <1>2, <1>4, <3>2
  <2> QED BY <1>3, <2>1, <2>2, <2>3 DEF Kept
<1> QED BY <1>6, <1>7, <1>8, <1>9, <1>10, <1>11, <1>12, <1>13, <1>14 DEF CleanupInv

\* The credit that is left admits between none and all of the disposals.
LEMMA RoomForDisposals ==
    ASSUME CleanupInv, NEW left \in Seq(Owned), NEW D \in SUBSET DOMAIN inFlight
    PROVE  LET room == Credit - (Cardinality(parked) + Cardinality(D))
           IN  (IF room < Len(left) THEN (IF room > 0 THEN room ELSE 0) ELSE Len(left))
               \in 0 .. Len(left)
<1>0. lastId \in Nat
  BY DEF CleanupInv, Shape
<1>1. lastId \in Int /\ 0 \in Int /\ IsFiniteSet(0 .. lastId)
  BY <1>0, FS_Interval
<1>2. parked \in SUBSET (0 .. lastId) /\ D \in SUBSET (0 .. lastId)
  BY <1>0 DEF CleanupInv, Shape, Numbered
<1>3. Cardinality(parked) \in Nat /\ Cardinality(D) \in Nat
  BY <1>1, <1>2, FS_Subset, FS_CardinalityType
<1>4. Credit \in Nat /\ Len(left) \in Nat
  BY CapabilityAssumption
<1> QED BY <1>3, <1>4

\* A late reply is dealt with: its resources join the ones that are to be
\* disposed of, and as many disposals as there is credit for are published.
LEMMA ScheduledInv ==
    ASSUME CleanupInv, events # <<>>, Head(events).type = "reply",
           NEW left \in Seq(Owned), NEW D \in SUBSET DOMAIN inFlight,
           NEW flying \in [D -> Owned],
           \A d \in DOMAIN flying : flying[d] = inFlight[d],
           \A d \in DOMAIN inFlight \ DOMAIN flying :
              d = Head(events).id /\ inFlight[d] \notin store,
           Elements(queued) \cup Head(events).handles \subseteq Elements(left),
           \A h \in Elements(left) : Executed(h),
           ScheduleLateDisposals(left, flying, parked)
    PROVE  CleanupInv'
<1> DEFINE room == Credit - (Cardinality(parked) + Cardinality(DOMAIN flying))
           n == IF room < Len(left) THEN (IF room > 0 THEN room ELSE 0) ELSE Len(left)
<1>1. n \in 0 .. Len(left) /\ Len(left) \in Nat
  BY RoomForDisposals
<1>2. \/ LoseWorker
      \/ /\ queued' = SubSeq(left, n + 1, Len(left))
         /\ inFlight' = [id \in DOMAIN flying \cup {lastId + k : k \in 1 .. n} |->
                           IF id \in DOMAIN flying THEN flying[id] ELSE left[id - lastId]]
         /\ requests' = requests \o [k \in 1 .. n |-> Request("dispose", lastId + k, left[k])]
         /\ lastId' = lastId + n
         /\ parked' = parked
         /\ UNCHANGED <<phase, pending, fate, live, writer, input, worker>>
         /\ events' = Tail(events)
         /\ cancelled' = cancelled \ {Head(events).id}
  BY DEF ScheduleLateDisposals
<1> HIDE DEF n
<1>3. CASE LoseWorker
  BY <1>3, LoseWorkerInv
<1>4. CASE ~LoseWorker
  <2> DEFINE new == [k \in 1 .. n |-> Request("dispose", lastId + k, left[k])]
  <2>1. PICK e \in Events : e = Head(events)
    BY PolledReply
  <2>2. /\ e \in Sent /\ events' \in Seq(Events) /\ Single(events')
        /\ \A f \in Sent : f # e => f \in Sent'
        /\ \A f \in Sent' : f \in Sent /\ f.id # e.id
    BY <1>2, <1>4, <2>1, PolledReply DEF Sent
  <2>3. /\ lastId \in Nat /\ lastSeen \in Nat /\ lastSeen <= lastId /\ n \in Nat
        /\ lastId' = lastId + n /\ lastId' \in Nat
    <3>1. lastId \in Nat /\ lastSeen \in Nat /\ lastSeen <= lastId
      BY DEF CleanupInv, Shape, Numbered
    <3>2. n \in Nat
      BY <1>1
    <3>3. lastId' = lastId + n
      BY <1>2, <1>4
    <3> QED BY <3>1, <3>2, <3>3
  <2>4. /\ parked' = parked /\ cancelled' = cancelled \ {e.id}
        /\ Running' = Running /\ Done' = Done
        /\ UNCHANGED <<pending, fate, live, lastSeen, active, store, exited, unsent>>
        /\ UNCHANGED <<commands, completions, input>>
    BY <1>2, <1>4, <2>1 DEF Running, Done, worker
  <2>5. /\ queued' \in Seq(Owned)
        /\ Elements(left) = {left[k] : k \in 1 .. n} \cup Elements(queued')
    <3>1. /\ SubSeq(left, n + 1, Len(left)) \in Seq(Owned)
          /\ Elements(left) = {left[k] : k \in 1 .. n}
                                 \cup Elements(SubSeq(left, n + 1, Len(left)))
      BY <1>1, SplitElements
    <3> QED BY <1>2, <1>4, <3>1
  <2>6. \A k \in 1 .. n : k \in 1 .. Len(left) /\ left[k] \in Owned /\ left[k] \in Elements(left)
    <3>1. DOMAIN left = 1 .. Len(left) /\ \A k \in 1 .. n : k \in 1 .. Len(left)
      BY <1>1
    <3>2. \A k \in 1 .. Len(left) : left[k] \in Owned
      OBVIOUS
    <3> QED BY <3>1, <3>2 DEF Elements
  <2>7. /\ new \in Seq(Asks)
        /\ \A m \in Elements(new) :
              \E k \in 1 .. n : /\ m.type = "dispose" /\ m.id = lastId + k
                                /\ m.handle = left[k]
    <3>1. \A k \in 1 .. n : /\ Request("dispose", lastId + k, left[k]) \in Asks
                            /\ Request("dispose", lastId + k, left[k]).type = "dispose"
                            /\ Request("dispose", lastId + k, left[k]).id = lastId + k
                            /\ Request("dispose", lastId + k, left[k]).handle = left[k]
      BY <2>3, <2>6 DEF Request, Asks
    <3>2. new \in [1 .. n -> Asks] /\ DOMAIN new = 1 .. n
      BY <3>1
    <3>3. new \in Seq(Asks)
      BY <2>3, <3>2
    <3> QED BY <3>1, <3>2, <3>3 DEF Elements
  <2>8. requests' = requests \o new
    BY <1>2, <1>4
  <2> HIDE DEF new
  <2>9. requests' \in Seq(Asks) /\ Asked' = Asked \cup Elements(new)
    BY <2>4, <2>7, <2>8, ConcatElements DEF CleanupInv, Shape, Asked
  <2>10. /\ DOMAIN inFlight' = DOMAIN flying \cup {lastId + k : k \in 1 .. n}
         /\ \A d \in DOMAIN flying : inFlight'[d] = inFlight[d]
    BY <1>2, <1>4
  <2>11. \A d \in DOMAIN inFlight : d \in Nat /\ d <= lastId
    BY DEF CleanupInv, Shape, Numbered
  <2>12. \A k \in 1 .. n : /\ lastId + k \in DOMAIN inFlight'
                           /\ lastId + k \notin DOMAIN flying
                           /\ lastId + k > lastId
                           /\ inFlight'[lastId + k] = left[k]
    <3> SUFFICES ASSUME NEW k \in 1 .. n
                 PROVE  /\ lastId + k \in DOMAIN inFlight'
                        /\ lastId + k \notin DOMAIN flying
                        /\ lastId + k > lastId
                        /\ inFlight'[lastId + k] = left[k]
      OBVIOUS
    <3>1. lastId + k > lastId /\ (lastId + k) - lastId = k /\ lastId + k \in DOMAIN inFlight'
      BY <2>3, <2>10
    <3>2. lastId + k \notin DOMAIN flying
      BY <2>3, <2>11, <3>1
    <3> QED BY <1>2, <1>4, <2>10, <3>1, <3>2
  <2>13. \A d \in DOMAIN inFlight' :
            \/ d \in DOMAIN flying /\ inFlight'[d] = inFlight[d]
            \/ \E k \in 1 .. n : d = lastId + k /\ inFlight'[d] = left[k]
    BY <2>10, <2>12
  <2>14. Shape'
    <3>1. inFlight' \in [DOMAIN inFlight' -> Owned] /\ DOMAIN inFlight' \subseteq Nat
      <4>1. \A d \in DOMAIN inFlight' : d \in Nat /\ inFlight'[d] \in Owned
        BY <2>3, <2>6, <2>11, <2>13
      <4>2. inFlight' = [d \in DOMAIN inFlight' |-> inFlight'[d]]
        BY <1>2, <1>4
      <4> QED BY <4>1, <4>2
    <3> QED BY <2>2, <2>3, <2>4, <2>5, <2>9, <3>1 DEF CleanupInv, Shape
  <2>15. Numbered'
    <3>1. \A x \in Nat : x <= lastId => x <= lastId'
      BY <2>3
    <3>2. \A d \in DOMAIN inFlight' : d <= lastId'
      BY <2>3, <2>11, <2>13, <3>1
    <3>3. \A m \in Asked' : m.id <= lastId'
      BY <2>3, <2>7, <2>9, <3>1, FrameTypes DEF CleanupInv, Numbered
    <3>4. \A id \in parked' \cup cancelled' : id <= lastId'
      BY <2>4, <3>1, FrameTypes DEF CleanupInv, Numbered
    <3>5. lastSeen' <= lastId'
      BY <2>3, <2>4
    <3>6. \A x \in Running' \cup Done' \cup Sent' : x.id <= lastSeen'
      BY <2>2, <2>4 DEF CleanupInv, Numbered
    <3> QED BY <3>2, <3>3, <3>4, <3>5, <3>6 DEF Numbered
  <2>16. Carried'
    <3> SUFFICES ASSUME NEW m \in Running' \cup {a \in Asked' : a.id > lastSeen'}
                 PROVE  /\ m.type = "call" => m.id \in Ids /\ m.id \notin DOMAIN inFlight'
                        /\ m.type = "dispose" => /\ m.id \in DOMAIN inFlight'
                                                 /\ inFlight'[m.id] = m.handle
      BY DEF Carried
    <3>1. CASE m \in Elements(new)
      BY <2>7, <2>12, <3>1
    <3>2. CASE m \notin Elements(new)
      <4>1. m \in Running \cup {a \in Asked : a.id > lastSeen}
        BY <2>4, <2>9, <3>2
      <4>2. m.id \in Nat /\ m.id <= lastId /\ m.id # e.id
        <5>1. CASE m \in Running
          BY <2>2, <2>3, <5>1, FrameTypes DEF CleanupInv, Numbered, OnePlace
        <5>2. CASE m \in Asked /\ m.id > lastSeen
          <6>1. e.id <= lastSeen /\ e.id \in Nat /\ m.id \in Nat /\ m.id <= lastId
            BY <2>2, <5>2, FrameTypes DEF CleanupInv, Numbered
          <6> QED BY <2>3, <5>2, <6>1
        <5> QED BY <4>1, <5>1, <5>2
      <4>3. m.id \in DOMAIN inFlight' <=> m.id \in DOMAIN inFlight
        BY <2>1, <2>3, <2>10, <2>13, <4>2
      <4>4. m.id \in DOMAIN inFlight => inFlight'[m.id] = inFlight[m.id]
        BY <2>1, <2>10, <4>2
      <4> QED BY <4>1, <4>3, <4>4 DEF CleanupInv, Carried
    <3> QED BY <3>1, <3>2
  <2>17. OnePlace'
    BY <2>2, <2>4 DEF CleanupInv, OnePlace, Single
  <2>18. Answers'
    <3> SUFFICES ASSUME NEW f \in Done \cup Sent'
                 PROVE  /\ f.handles \subseteq {f.id} \X Handles
                        /\ f.outcome # "ok" => f.handles = {}
                        /\ f.id \in DOMAIN inFlight' =>
                              /\ f.handles = {}
                              /\ f.outcome = "ok" => inFlight'[f.id] \notin store
      BY <2>4 DEF Answers
    <3>1. f \in Done \cup Sent
      BY <2>2
    <3>2. f.id \in Nat /\ f.id <= lastId
      BY <2>3, <3>1, FrameTypes DEF CleanupInv, Numbered
    <3>3. f.id \in DOMAIN inFlight' =>
             f.id \in DOMAIN inFlight /\ inFlight'[f.id] = inFlight[f.id]
      BY <2>3, <2>13, <3>2
    <3> QED BY <3>1, <3>3 DEF CleanupInv, Answers
  <2>19. Dated'
    <3>1. \A h : Executed(h)' <=> Executed(h)
      BY <2>4 DEF Executed
    <3>2. \A h \in store' : h[1] \in Ids /\ Executed(h)
      BY <2>4 DEF CleanupInv, Dated
    <3>3. \A h \in Elements(queued') : Executed(h)
      BY <2>5
    <3>4. \A d \in DOMAIN inFlight' : Executed(inFlight'[d])
      BY <2>6, <2>13 DEF CleanupInv, Dated
    <3>5. \A h \in Elements(queued)' : Executed(h)
      BY <3>3 DEF Elements
    <3> QED BY <3>1, <3>2, <3>4, <3>5 DEF Dated
  <2>20. Waits'
    <3>1. \A i \in Ids : i \in Nat
      BY DEF Ids
    <3> QED BY <2>3, <2>4, <3>1 DEF CleanupInv, Waits
  <2>21. Remembered'
    <3>1. ASSUME NEW i \in Ids, fate[i] = "cancelled", Unanswered(i)', live
          PROVE  i \in cancelled'
      <4>1. i # e.id
        <5>1. e.id <= lastSeen /\ e.id \in Nat /\ i \in Nat
          BY <2>2, FrameTypes DEF CleanupInv, Numbered, Ids
        <5>2. \A x \in Running \cup Done \cup Sent' : x.id # e.id
          BY <2>2 DEF CleanupInv, OnePlace
        <5> QED BY <2>3, <2>4, <3>1, <5>1, <5>2 DEF Unanswered
      <4>2. Unanswered(i)
        BY <2>2, <2>4, <3>1 DEF Unanswered
      <4> QED BY <2>4, <3>1, <4>1, <4>2 DEF CleanupInv, Remembered
    <3> QED BY <2>4, <3>1 DEF CleanupInv, Remembered
  <2>22. Held'
    <3> SUFFICES ASSUME NEW h \in store, fate[h[1]] \in {"waiting", "cancelled"},
                        h[1] \notin unsent
                 PROVE  Kept(h)'
      BY <2>4 DEF Held
    <3>0. Kept(h)
      BY DEF CleanupInv, Held
    <3>1. ASSUME h \in Elements(left) PROVE Kept(h)'
      <4>1. CASE h \in Elements(queued')
        BY <4>1 DEF Kept, Elements
      <4>2. CASE \E k \in 1 .. n : h = left[k]
        BY <2>12, <4>2 DEF Kept
      <4> QED BY <2>5, <3>1, <4>1, <4>2
    <3>2. CASE h \in Elements(queued)
      BY <3>1, <3>2
    <3>3. ASSUME NEW d \in DOMAIN inFlight, inFlight[d] = h PROVE Kept(h)'
      <4>1. d \in DOMAIN flying /\ d \in DOMAIN inFlight' /\ inFlight'[d] = h
        BY <2>10, <3>3
      <4> QED BY <4>1 DEF Kept
    <3>4. ASSUME NEW f \in Done \cup Sent, h[1] \in cancelled \cup parked, h \in f.handles
          PROVE  Kept(h)'
      <4>1. CASE f = e
        BY <2>1, <3>1, <3>4, <4>1
      <4>2. CASE f # e
        <5>1. f \in Done' \cup Sent' /\ f.id # e.id
          BY <2>2, <2>4, <4>2 DEF CleanupInv, OnePlace
        <5>2. h[1] = f.id
          BY <3>4 DEF CleanupInv, Answers
        <5>3. h[1] \in cancelled' \cup parked'
          BY <2>4, <3>4, <5>1, <5>2
        <5> QED BY <3>4, <5>1, <5>3 DEF Kept
      <4> QED BY <4>1, <4>2
    <3> QED BY <3>0, <3>2, <3>3, <3>4 DEF Kept
  <2> QED BY <2>14, <2>15, <2>16, <2>17, <2>18, <2>19, <2>20, <2>21, <2>22 DEF CleanupInv
<1> QED BY <1>3, <1>4

\* The reply to a disposal, and the late reply to a cancelled call.
LEMMA CleanupReplyInv ==
    ASSUME CleanupInv, events # <<>>, Head(events).type = "reply",
           \/ Head(events).id \in DOMAIN inFlight /\ DisposalReply(Head(events))
           \/ LateReply(Head(events))
    PROVE  CleanupInv'
<1>1. PICK e \in Events : e = Head(events)
  BY PolledReply
<1>2. e \in Sent /\ e.id \in Nat /\ e.handles \subseteq {e.id} \X Handles
  BY <1>1, PolledReply, FrameTypes DEF CleanupInv, Answers
<1>3. PICK waiting \in Seq(Owned) : waiting = queued
  BY DEF CleanupInv, Shape
<1>4. \A h \in Elements(waiting) : Executed(h)
  BY <1>3 DEF CleanupInv, Dated
<1>5. inFlight \in [DOMAIN inFlight -> Owned]
  BY DEF CleanupInv, Shape
<1>6. CASE e.id \in DOMAIN inFlight /\ DisposalReply(e)
  <2>1. CASE e.outcome = "ok"
    <3> DEFINE D == DOMAIN inFlight \ {e.id}
    <3>1. PICK flying \in [D -> Owned] : flying = Without(inFlight, e.id)
      BY <1>5 DEF Without
    <3>2. /\ D \in SUBSET DOMAIN inFlight /\ DOMAIN flying = D
          /\ \A d \in DOMAIN flying : flying[d] = inFlight[d]
      BY <1>5, <3>1 DEF Without
    <3>3. e.handles = {} /\ inFlight[e.id] \notin store
      BY <1>2, <1>6, <2>1 DEF CleanupInv, Answers
    <3>4. ScheduleLateDisposals(waiting, flying, parked)
      BY <1>3, <1>6, <2>1, <3>1 DEF DisposalReply
    <3> HIDE DEF D
    <3>5. \A d \in DOMAIN inFlight \ DOMAIN flying : d = e.id /\ inFlight[d] \notin store
      BY <3>2, <3>3 DEF D
    <3> QED BY <1>1, <1>3, <1>4, <3>2, <3>3, <3>4, <3>5, ScheduledInv
  <2>2. CASE e.outcome # "ok"
    BY <1>6, <2>2, LoseWorkerInv DEF DisposalReply
  <2> QED BY <2>1, <2>2
<1>7. CASE LateReply(e)
  <2>1. PICK flying \in [DOMAIN inFlight -> Owned] : flying = inFlight
    BY <1>5
  <2>2. /\ DOMAIN inFlight \in SUBSET DOMAIN inFlight /\ DOMAIN flying = DOMAIN inFlight
        /\ \A d \in DOMAIN flying : flying[d] = inFlight[d]
    BY <2>1
  <2>3. CASE e.outcome = "ok"
    <3>1. IsFiniteSet(e.handles)
      <4>1. IsFiniteSet({e.id} \X Handles)
        BY CapabilityAssumption, FS_Product, FS_Singleton
      <4> QED BY <1>2, <4>1, FS_Subset
    <3>2. /\ SetToSeq(e.handles) \in Seq(e.handles)
          /\ Elements(SetToSeq(e.handles)) = e.handles
      BY <3>1, ListElements
    <3>3. e.handles \subseteq Owned
      BY <1>1 DEF Events
    <3>4. PICK late \in Seq(Owned) : late = SetToSeq(e.handles)
      BY <3>2, <3>3
    <3>5. PICK left \in Seq(Owned) : left = waiting \o late
      <4>1. waiting \o late \in Seq(Owned)
        OBVIOUS
      <4> QED BY <4>1, Zenon
    <3>6. Elements(left) = Elements(waiting) \cup e.handles
      BY <3>2, <3>4, <3>5, ConcatElements
    <3>7. \A h \in e.handles : Executed(h)
      <4> SUFFICES ASSUME NEW h \in e.handles PROVE Executed(h)
        OBVIOUS
      <4>1. h[1] = e.id
        BY <1>2
      <4>2. e.id <= lastSeen /\ \A m \in Running : m.id # e.id
        BY <1>2 DEF CleanupInv, Numbered, OnePlace
      <4> QED BY <4>1, <4>2 DEF Executed
    <3>8. ScheduleLateDisposals(left, flying, parked)
      BY <1>3, <1>7, <2>1, <2>3, <3>4, <3>5 DEF LateReply
    <3>9. Elements(queued) \cup e.handles \subseteq Elements(left)
      BY <1>3, <3>6
    <3>10. \A h \in Elements(left) : Executed(h)
      BY <1>4, <3>6, <3>7
    <3> QED BY <1>1, <2>2, <3>8, <3>9, <3>10, ScheduledInv
  <2>4. CASE e.outcome # "ok"
    <3>1. e.handles = {}
      BY <1>2, <2>4 DEF CleanupInv, Answers
    <3>2. ScheduleLateDisposals(waiting, flying, parked)
      BY <1>3, <1>7, <2>1, <2>4 DEF LateReply
    <3> QED BY <1>1, <1>3, <1>4, <2>2, <3>1, <3>2, ScheduledInv
  <2> QED BY <2>3, <2>4
<1> QED BY <1>1, <1>6, <1>7

\* An event that answers nothing is taken from the queue.
LEMMA IgnoreInv ==
    ASSUME CleanupInv, events # <<>>, Ignore,
           Head(events).type = "reply" =>
              Head(events).id \notin cancelled \cup parked
    PROVE  CleanupInv'
<1>1. events' = Tail(events) /\ UNCHANGED <<owner, client, requests, writer, input, worker>>
  BY DEF Ignore
<1>2. /\ UNCHANGED <<fate, pending, live, parked, cancelled, queued, inFlight, lastId>>
      /\ UNCHANGED <<lastSeen, commands, completions, active, store, exited, unsent>>
      /\ Asked' = Asked /\ Running' = Running /\ Done' = Done
  BY <1>1 DEF owner, client, worker, Asked, Running, Done
<1>3. /\ events' \in Seq(Events) /\ Single(events')
      /\ Elements(events) = Elements(events') \cup {Head(events)}
  BY <1>1, TailElements DEF CleanupInv, Shape, OnePlace
<1>4. Sent' \subseteq Sent /\ \A f \in Sent : f # Head(events) => f \in Sent'
  BY <1>3 DEF Sent, Elements
<1>5. Shape'
  BY <1>1, <1>2, <1>3 DEF CleanupInv, Shape
<1>6. Numbered' /\ Carried' /\ OnePlace' /\ Answers'
  BY <1>2, <1>3, <1>4 DEF CleanupInv, Numbered, Carried, OnePlace, Answers, Single
<1>7. Dated' /\ Waits'
  BY <1>2 DEF CleanupInv, Dated, Waits, Executed
<1>8. Remembered'
  BY <1>2, <1>4 DEF CleanupInv, Remembered, Unanswered
<1>9. Held'
  <2> SUFFICES ASSUME NEW h \in store, fate[h[1]] \in {"waiting", "cancelled"},
                      h[1] \notin unsent
               PROVE  Kept(h)'
    BY <1>2 DEF Held
  <2>1. Kept(h)
    BY DEF CleanupInv, Held
  <2>2. ASSUME NEW f \in Done \cup Sent, h[1] \in cancelled \cup parked, h \in f.handles
        PROVE  f \in Done' \cup Sent'
    <3>1. h[1] = f.id
      BY <2>2 DEF CleanupInv, Answers
    <3> QED BY <1>2, <1>4, <2>2, <3>1 DEF Sent
  <2> QED BY <1>2, <2>1, <2>2 DEF Kept
<1> QED BY <1>5, <1>6, <1>7, <1>8, <1>9 DEF CleanupInv

\* The owner takes the next event.
LEMMA PollInv ==
    ASSUME CleanupInv, Poll
    PROVE  CleanupInv'
<1> DEFINE e == Head(events)
<1>1. /\ events # <<>>
      /\ \/ e.type = "reply" /\ ApplyReply(e)
         \/ e.type = "cancelAck" /\ Ignore
         \/ LoseWorker
  BY DEF Poll
<1>2. CASE e.type = "reply" /\ ApplyReply(e)
  <2>1. \/ LoseWorker
        \/ e.id \in DOMAIN inFlight /\ DisposalReply(e)
        \/ e.id \in parked /\ CallReply(e)
        \/ LateReply(e)
        \/ e.id \notin parked /\ e.id \notin cancelled /\ Ignore
    <3> DEFINE credits == e.reserved > Credit
    <3>1. CASE credits
      BY <1>2, <3>1, Zenon DEF ApplyReply
    <3>2. CASE ~credits /\ e.id \in DOMAIN inFlight
      BY <1>2, <3>2, Zenon DEF ApplyReply
    <3>3. CASE ~credits /\ e.id \notin DOMAIN inFlight /\ e.id \in parked
      BY <1>2, <3>3, Zenon DEF ApplyReply
    <3>4. CASE ~credits /\ e.id \notin DOMAIN inFlight /\ e.id \notin parked /\ e.id \in cancelled
      BY <1>2, <3>4, Zenon DEF ApplyReply
    <3>5. CASE ~credits /\ e.id \notin DOMAIN inFlight /\ e.id \notin parked /\ e.id \notin cancelled
      BY <1>2, <3>5, Zenon DEF ApplyReply
    <3> QED BY <3>1, <3>2, <3>3, <3>4, <3>5
  <2>2. CASE LoseWorker
    BY <2>2, LoseWorkerInv
  <2>3. CASE \/ e.id \in DOMAIN inFlight /\ DisposalReply(e)
             \/ LateReply(e)
    BY <1>1, <1>2, <2>3, CleanupReplyInv
  <2>4. CASE e.id \in parked /\ CallReply(e)
    BY <1>1, <1>2, <2>4, CallReplyInv
  <2>5. CASE e.id \notin parked /\ e.id \notin cancelled /\ Ignore
    BY <1>1, <2>5, IgnoreInv
  <2> QED BY <2>1, <2>2, <2>3, <2>4, <2>5
<1>3. CASE e.type = "cancelAck" /\ Ignore
  BY <1>1, <1>3, IgnoreInv
<1>4. CASE LoseWorker
  BY <1>4, LoseWorkerInv
<1> QED BY <1>1, <1>2, <1>3, <1>4
-----------------------------------------------------------------------------
(* The worker process *)

\* A request is admitted, rejected, or the last one the worker looks at.
LEMMA AcceptRequestInv ==
    ASSUME CleanupInv, AcceptRequest
    PROVE  CleanupInv'
<1>1. input # <<>> /\ input \in Seq(Asks)
  BY DEF AcceptRequest, CleanupInv, Shape
<1>2. PICK m \in Asks : m = Head(input)
  BY <1>1, TailElements
<1>3. /\ m.type \in {"call", "dispose"} /\ input' = Tail(input) /\ m \in Asked
      /\ input' \in Seq(Asks) /\ Asked' \subseteq Asked
      /\ UNCHANGED <<owner, client, requests, completions, exited, store, unsent>>
  <2>1. /\ m \in Elements(input) /\ Tail(input) \in Seq(Asks)
        /\ Elements(Tail(input)) \subseteq Elements(input)
    BY <1>1, <1>2, TailElements
  <2> QED BY <1>2, <2>1 DEF AcceptRequest, Asked
<1>4. \/ UNCHANGED <<lastSeen, active, commands, events>>
      \/ m.id > lastSeen /\ lastSeen' = m.id /\ Admit(m)
  BY <1>2 DEF AcceptRequest
<1>5. CASE UNCHANGED <<lastSeen, active, commands, events>>
  <2>1. Single(events)' /\ Sent' = Sent /\ events' \in Seq(Events)
    BY <1>5 DEF CleanupInv, OnePlace, Shape, Single, Sent
  <2> QED BY <1>1, <1>3, <1>5, <2>1, DroppedInput
<1>6. CASE m.id > lastSeen /\ lastSeen' = m.id /\ Admit(m)
  <2>1. /\ lastId \in Nat /\ lastSeen \in Nat /\ m.id \in Nat /\ m.id <= lastId
        /\ m.id > lastSeen /\ lastSeen' = m.id
        /\ UNCHANGED <<fate, pending, live, parked, cancelled, queued, inFlight, lastId>>
        /\ UNCHANGED <<requests, completions, exited, store, unsent>> /\ Done' = Done
    BY <1>3, <1>6 DEF CleanupInv, Shape, Numbered, Asks, owner, client, Done
  <2>2. \A x \in Running \cup Done \cup Sent : /\ x.id \in Nat /\ x.id <= lastSeen
                                               /\ x.id < m.id /\ x.id # m.id
    BY <2>1, FrameTypes DEF CleanupInv, Numbered
  <2>3. \A h : Executed(h) /\ h[1] \in Nat => h[1] < m.id
    BY <2>1 DEF Executed
  <2>4. /\ \A h \in store : h[1] \in Nat
        /\ \A h \in Elements(queued) : h[1] \in Nat
        /\ \A d \in DOMAIN inFlight : inFlight[d][1] \in Nat
    BY DEF CleanupInv, Shape, Owned, Elements
  <2>5. Waits'
    BY <2>1 DEF CleanupInv, Waits
  <2>6. CASE active' = active \cup {m.id} /\ commands' = Append(commands, m)
             /\ UNCHANGED events
    <3>1. /\ commands' \in Seq(Asks) /\ Running' = Running \cup {m} /\ Single(commands)'
          /\ Sent' = Sent
      <4>1. \A y \in Elements(commands) : y.id # m.id
        BY <2>2 DEF Running
      <4>2. commands \in Seq(Asks) /\ Single(commands)
        BY DEF CleanupInv, Shape, OnePlace
      <4>3. /\ Append(commands, m) \in Seq(Asks)
            /\ Elements(Append(commands, m)) = Elements(commands) \cup {m}
            /\ Single(Append(commands, m))
        BY <4>1, <4>2, AppendElements
      <4> QED BY <2>6, <4>3 DEF Running, Sent, Single
    <3>2. IsFiniteSet(active')
      BY <2>6, FS_AddElement DEF CleanupInv, Shape
    <3>3. Shape'
      BY <1>3, <2>1, <2>6, <3>1, <3>2 DEF CleanupInv, Shape
    <3>4. Numbered'
      BY <1>3, <2>1, <2>2, <3>1 DEF CleanupInv, Numbered
    <3>5. Carried'
      <4>1. ASSUME NEW a \in Asked', a.id > lastSeen'
            PROVE  a \in Asked /\ a.id > lastSeen
        <5>1. a \in Asked /\ a.id \in Nat
          BY <1>3, <4>1, FrameTypes DEF CleanupInv
        <5> QED BY <2>1, <4>1, <5>1
      <4> QED BY <1>3, <2>1, <3>1, <4>1 DEF CleanupInv, Carried
    <3>6. OnePlace'
      BY <1>3, <2>1, <2>2, <2>6, <3>1 DEF CleanupInv, OnePlace, Single
    <3>7. Answers'
      BY <2>1, <3>1 DEF CleanupInv, Answers
    <3>8. Dated'
      <4>1. \A h : Executed(h) /\ h[1] \in Nat => Executed(h)'
        BY <2>1, <2>3, <3>1 DEF Executed
      <4> QED BY <2>1, <2>4, <4>1 DEF CleanupInv, Dated
    <3>9. Remembered'
      <4>1. \A i \in Ids : Unanswered(i)' => Unanswered(i)
        BY <2>1, <2>2, <3>1 DEF Unanswered, Ids
      <4> QED BY <2>1, <4>1 DEF CleanupInv, Remembered
    <3>10. Held'
      BY <2>1, <3>1 DEF CleanupInv, Held, Kept
    <3> QED BY <2>5, <3>3, <3>4, <3>5, <3>6, <3>7, <3>8, <3>9, <3>10 DEF CleanupInv
  <2>7. CASE \E outcome \in {"backpressure", "error"} :
                /\ events' = Append(events, Reply(m.id, outcome, {}, Cardinality(active)))
                /\ UNCHANGED <<active, commands>>
    <3>0. Cardinality(active) \in Nat
      BY FS_CardinalityType DEF CleanupInv, Shape
    <3>1. PICK r \in Events : /\ r.type = "reply" /\ r.id = m.id /\ r.handles = {}
                              /\ r.outcome # "ok" /\ events' = Append(events, r)
                              /\ UNCHANGED <<active, commands>>
      BY <2>1, <2>7, <3>0 DEF Reply, Event, Events
    <3>2. /\ events' \in Seq(Events) /\ Sent' = Sent \cup {r} /\ Single(events)'
          /\ Running' = Running
      <4>1. \A y \in Elements(events) : y.type \in Answerable => y.type = "reply" /\ y \in Sent
        <5>1. Elements(events) \subseteq Events
          BY FrameTypes DEF CleanupInv
        <5>2. \A y \in Events : y.type \in Answerable => y.type = "reply"
          BY DEF Events, Answerable
        <5> QED BY <5>1, <5>2 DEF Sent
      <4>2. \A y \in Elements(events) : y.type \in Answerable => y.id # r.id
        BY <2>2, <3>1, <4>1
      <4>3. events \in Seq(Events) /\ Single(events)
        BY DEF CleanupInv, Shape, OnePlace
      <4>4. /\ Append(events, r) \in Seq(Events)
            /\ Elements(Append(events, r)) = Elements(events) \cup {r}
            /\ Single(Append(events, r))
        BY <4>2, <4>3, AppendElements
      <4> QED BY <3>1, <4>4 DEF Running, Sent, Single
    <3>3. Shape'
      BY <1>3, <2>1, <3>1, <3>2 DEF CleanupInv, Shape
    <3>4. Numbered'
      BY <1>3, <2>1, <2>2, <3>1, <3>2 DEF CleanupInv, Numbered
    <3>5. Carried'
      <4>1. ASSUME NEW a \in Asked', a.id > lastSeen'
            PROVE  a \in Asked /\ a.id > lastSeen
        <5>1. a \in Asked /\ a.id \in Nat
          BY <1>3, <4>1, FrameTypes DEF CleanupInv
        <5> QED BY <2>1, <4>1, <5>1
      <4> QED BY <2>1, <3>2, <4>1 DEF CleanupInv, Carried
    <3>6. OnePlace'
      BY <2>1, <2>2, <3>1, <3>2 DEF CleanupInv, OnePlace, Single
    <3>7. Answers'
      BY <2>1, <3>1, <3>2 DEF CleanupInv, Answers
    <3>8. Dated'
      <4>1. \A h : Executed(h) /\ h[1] \in Nat => Executed(h)'
        BY <2>1, <2>3, <3>2 DEF Executed
      <4> QED BY <2>1, <2>4, <4>1 DEF CleanupInv, Dated
    <3>9. Remembered'
      <4>1. \A i \in Ids : Unanswered(i)' => Unanswered(i)
        BY <2>1, <2>2, <3>1, <3>2 DEF Unanswered, Ids
      <4> QED BY <2>1, <4>1 DEF CleanupInv, Remembered
    <3>10. Held'
      BY <2>1, <3>2 DEF CleanupInv, Held, Kept
    <3> QED BY <2>5, <3>3, <3>4, <3>5, <3>6, <3>7, <3>8, <3>9, <3>10 DEF CleanupInv
  <2> QED BY <1>6, <2>6, <2>7 DEF Admit
<1> QED BY <1>4, <1>5, <1>6

\* A call is executed, with or without resources, or a handle is disposed of.
LEMMA ExecuteInv ==
    ASSUME CleanupInv, Execute
    PROVE  CleanupInv'
<1>1. ~exited /\ commands # <<>> /\ commands \in Seq(Asks) /\ Single(commands)
  BY DEF Execute, CleanupInv, Shape, OnePlace
<1>2. PICK m \in Asks : m = Head(commands)
  BY <1>1, TailElements
<1>3. /\ m \in Running /\ commands' \in Seq(Asks) /\ Single(commands)'
      /\ Running' \subseteq Running /\ \A x \in Running : x # m => x \in Running'
      /\ \A x \in Running' : x.id # m.id
  <2>1. /\ m.type \in {"call", "dispose"}
        /\ \A x \in Elements(commands) : x.type \in {"call", "dispose"}
    BY <1>1, <1>2, TailElements DEF CleanupInv, OnePlace, Running
  <2>2. /\ Tail(commands) \in Seq(Asks) /\ Single(Tail(commands))
        /\ Elements(commands) = Elements(Tail(commands)) \cup {m}
        /\ m.type \in Answerable =>
              \A y \in Elements(Tail(commands)) : y.type \in Answerable => y.id # m.id
    BY <1>1, <1>2, TailElements
  <2>3. commands' = Tail(commands)
    BY DEF Execute
  <2> QED BY <2>1, <2>2, <2>3 DEF Running, Answerable, Single
<1>4. /\ m.id \in Nat /\ m.id <= lastSeen /\ m.id \in active /\ m.type \in {"call", "dispose"}
      /\ \A x \in Done \cup Sent : x.id # m.id
  BY <1>2, <1>3 DEF CleanupInv, Numbered, OnePlace, Asks
<1>5. PICK c \in Events :
         /\ completions' = Append(completions, c) /\ c.type = "reply" /\ c.id = m.id
         /\ c.handles \subseteq {m.id} \X Handles
         /\ c.outcome # "ok" => c.handles = {}
         /\ m.type = "dispose" => c.handles = {}
         /\ \/ m.type = "call" /\ store' = store \cup c.handles
            \/ m.type = "dispose" /\ store' = store \ {m.handle}
  <2>1. CASE m.type = "call" /\ \E hs \in SUBSET Handles :
               /\ store' = store \cup ({m.id} \X hs)
               /\ completions' = Append(completions, Reply(m.id, "ok", {m.id} \X hs, 0))
    <3>1. PICK hs \in SUBSET Handles :
               /\ store' = store \cup ({m.id} \X hs)
               /\ completions' = Append(completions, Reply(m.id, "ok", {m.id} \X hs, 0))
      BY <2>1
    <3>2. {m.id} \X hs \in SUBSET Owned /\ {m.id} \X hs \subseteq {m.id} \X Handles
      BY <1>4 DEF Owned
    <3>3. Reply(m.id, "ok", {m.id} \X hs, 0) \in Events
      BY <1>4, <3>2 DEF Reply, Event, Events
    <3> QED BY <2>1, <3>1, <3>2, <3>3 DEF Reply, Event
  <2>2. CASE /\ m.type = "call" /\ UNCHANGED store
             /\ completions' = Append(completions, Reply(m.id, "error", {}, 0))
    <3>1. Reply(m.id, "error", {}, 0) \in Events
      BY <1>4 DEF Reply, Event, Events
    <3> QED BY <2>2, <3>1 DEF Reply, Event
  <2>3. CASE /\ m.type = "dispose" /\ store' = store \ {m.handle}
             /\ \E outcome \in {"ok", "error"} :
                   completions' = Append(completions, Reply(m.id, outcome, {}, 0))
    <3>1. \A outcome \in {"ok", "error"} : Reply(m.id, outcome, {}, 0) \in Events
      BY <1>4 DEF Reply, Event, Events
    <3> QED BY <2>3, <3>1 DEF Reply, Event
  <2> QED BY <1>2, <2>1, <2>2, <2>3 DEF Execute
<1>6. /\ UNCHANGED <<fate, pending, live, parked, cancelled, queued, inFlight, lastId>>
      /\ UNCHANGED <<requests, input, events, active, lastSeen, exited, unsent>>
      /\ Asked' = Asked /\ Sent' = Sent
  BY DEF Execute, owner, client, pipes, Asked, Sent
<1>7. /\ completions' \in Seq(Events) /\ Done' = Done \cup {c} /\ Single(completions)'
  <2>1. completions \in Seq(Events) /\ Single(completions)
    BY DEF CleanupInv, Shape, OnePlace
  <2>2. \A y \in Elements(completions) : y.id # c.id
    BY <1>4, <1>5 DEF Done
  <2>3. /\ Append(completions, c) \in Seq(Events)
        /\ Elements(Append(completions, c)) = Elements(completions) \cup {c}
        /\ Single(Append(completions, c))
    BY <2>1, <2>2, AppendElements
  <2> QED BY <1>5, <2>3 DEF Done, Single
<1>8. Shape'
  <2>1. store' \subseteq Owned
    BY <1>5 DEF CleanupInv, Shape, Events
  <2> QED BY <1>3, <1>6, <1>7, <2>1 DEF CleanupInv, Shape
<1>9. Numbered'
  BY <1>3, <1>4, <1>5, <1>6, <1>7 DEF CleanupInv, Numbered
<1>10. Carried'
  BY <1>3, <1>6 DEF CleanupInv, Carried
<1>11. OnePlace'
  BY <1>3, <1>4, <1>5, <1>6, <1>7 DEF CleanupInv, OnePlace, Single
<1>12. /\ m.type = "call" => /\ m.id \in Ids /\ m.id \notin DOMAIN inFlight
                             /\ \A d \in DOMAIN inFlight : inFlight[d][1] # m.id
       /\ m.type = "dispose" => m.id \in DOMAIN inFlight /\ inFlight[m.id] = m.handle
  BY <1>3 DEF CleanupInv, Carried, Dated, Executed
<1>13. Answers'
  <2> SUFFICES ASSUME NEW e \in Done' \cup Sent
               PROVE  /\ e.handles \subseteq {e.id} \X Handles
                      /\ e.outcome # "ok" => e.handles = {}
                      /\ e.id \in DOMAIN inFlight =>
                            e.handles = {} /\ (e.outcome = "ok" => inFlight[e.id] \notin store')
    BY <1>6 DEF Answers
  <2>1. CASE e = c
    <3>1. CASE m.type = "call"
      BY <1>5, <1>12, <2>1, <3>1
    <3>2. CASE m.type = "dispose"
      BY <1>5, <1>12, <2>1, <3>2
    <3> QED BY <1>4, <3>1, <3>2
  <2>2. CASE e # c
    <3>1. e \in Done \cup Sent
      BY <1>7, <2>2
    <3>2. \A h \in c.handles : h[1] = m.id
      BY <1>5
    <3>3. e.id \in DOMAIN inFlight /\ inFlight[e.id] \notin store => inFlight[e.id] \notin store'
      BY <1>5, <1>12, <3>2
    <3> QED BY <3>1, <3>3 DEF CleanupInv, Answers
  <2> QED BY <2>1, <2>2
<1>14. Dated'
  <2>1. \A h : Executed(h) => Executed(h)'
    BY <1>3, <1>6 DEF Executed
  <2>2. ASSUME NEW h \in store' PROVE h[1] \in Ids /\ Executed(h)'
    <3>1. CASE h \in store
      BY <2>1, <3>1 DEF CleanupInv, Dated
    <3>2. CASE h \notin store
      <4>1. m.type = "call" /\ h[1] = m.id
        BY <1>5, <3>2
      <4> QED BY <1>3, <1>4, <1>6, <1>12, <4>1 DEF Executed
    <3> QED BY <3>1, <3>2
  <2> QED BY <1>6, <2>1, <2>2 DEF CleanupInv, Dated
<1>15. Waits'
  BY <1>6 DEF CleanupInv, Waits
<1>16. Remembered'
  <2>1. \A i \in Ids : Unanswered(i)' => Unanswered(i)
    BY <1>3, <1>5, <1>6, <1>7 DEF Unanswered
  <2> QED BY <1>6, <2>1 DEF CleanupInv, Remembered
<1>17. Held'
  <2> SUFFICES ASSUME NEW h \in store', fate[h[1]] \in {"waiting", "cancelled"},
                      h[1] \notin unsent
               PROVE  Kept(h)'
    BY <1>6 DEF Held
  <2>1. CASE h \in store
    BY <1>6, <1>7, <2>1 DEF CleanupInv, Held, Kept
  <2>2. CASE h \notin store
    <3>1. m.type = "call" /\ h \in c.handles /\ h[1] = m.id /\ c \in Done'
      BY <1>5, <1>7, <2>2
    <3>2. m.id \in cancelled \cup parked
      <4>1. CASE fate[m.id] = "waiting"
        BY <1>12, <3>1, <4>1 DEF CleanupInv, Waits
      <4>2. CASE fate[m.id] = "cancelled"
        BY <1>1, <1>3, <1>12, <3>1, <4>2 DEF CleanupInv, Remembered, Unanswered
      <4> QED BY <3>1, <4>1, <4>2
    <3> QED BY <1>6, <3>1, <3>2 DEF Kept
  <2> QED BY <2>1, <2>2
<1> QED BY <1>8, <1>9, <1>10, <1>11, <1>13, <1>14, <1>15, <1>16, <1>17 DEF CleanupInv

\* The reply to an executed request is written, and its credit released.
LEMMA CompleteRequestInv ==
    ASSUME CleanupInv, CompleteRequest
    PROVE  CleanupInv'
<1>1. completions # <<>> /\ completions \in Seq(Events) /\ Single(completions)
  BY DEF CompleteRequest, CleanupInv, Shape, OnePlace
<1>2. PICK c \in Events : c = Head(completions)
  BY <1>1, TailElements
<1>3. /\ c \in Done /\ completions' \in Seq(Events) /\ Single(completions)'
      /\ Done' \subseteq Done /\ \A x \in Done : x # c => x \in Done'
      /\ \A x \in Done' : x.id # c.id
  <2>1. \A x \in Elements(completions) : x.type = "reply"
    BY DEF CleanupInv, OnePlace, Done
  <2>2. /\ Tail(completions) \in Seq(Events) /\ Single(Tail(completions))
        /\ Elements(completions) = Elements(Tail(completions)) \cup {c}
        /\ c.type \in Answerable =>
              \A y \in Elements(Tail(completions)) : y.type \in Answerable => y.id # c.id
    BY <1>1, <1>2, TailElements
  <2>3. completions' = Tail(completions)
    BY DEF CompleteRequest
  <2> QED BY <2>1, <2>2, <2>3 DEF Done, Answerable, Single
<1>4. /\ c.id \in active /\ c.type = "reply" /\ c.id <= lastSeen
      /\ \A x \in Running \cup Sent : x.id # c.id
  BY <1>3 DEF CleanupInv, OnePlace, Numbered
<1>5. /\ active' = active \ {c.id} /\ IsFiniteSet(active') /\ Cardinality(active') \in Nat
  <2>1. active' = active \ {c.id} /\ IsFiniteSet(active)
    BY <1>2 DEF CompleteRequest, CleanupInv, Shape
  <2>2. IsFiniteSet(active')
    BY <2>1, FS_RemoveElement
  <2> QED BY <2>1, <2>2, FS_CardinalityType
<1>6. /\ UNCHANGED <<fate, pending, live, parked, cancelled, queued, inFlight, lastId>>
      /\ UNCHANGED <<requests, input, commands, lastSeen, exited, store>>
      /\ Asked' = Asked /\ Running' = Running
  BY DEF CompleteRequest, owner, client, Asked, Running
<1>7. /\ events' \in Seq(Events) /\ Single(events)'
      /\ \/ \E r \in Events : /\ Sent' = Sent \cup {r} /\ r.type = "reply" /\ r.id = c.id
                             /\ r.handles = c.handles /\ r.outcome = c.outcome
                             /\ unsent' = unsent
         \/ Sent' = Sent /\ unsent' = unsent \cup {c.id}
  <2>0. events \in Seq(Events) /\ Single(events)
    BY DEF CleanupInv, Shape, OnePlace
  <2>1. CASE events' = Append(events, [c EXCEPT !.reserved = Cardinality(active')])
             /\ unsent' = unsent
    <3>1. [c EXCEPT !.reserved = Cardinality(active')] \in Events
      BY <1>5 DEF Events
    <3>2. PICK r \in Events : /\ events' = Append(events, r) /\ r.type = "reply" /\ r.id = c.id
                              /\ r.handles = c.handles /\ r.outcome = c.outcome
      BY <1>4, <2>1, <3>1 DEF Events
    <3>3. \A y \in Elements(events) : y.type \in Answerable => y.id # r.id
      <4>1. Elements(events) \subseteq Events
        BY FrameTypes DEF CleanupInv
      <4>2. \A y \in Events : y.type \in Answerable => y.type = "reply"
        BY DEF Events, Answerable
      <4> QED BY <1>4, <3>2, <4>1, <4>2 DEF Sent
    <3>4. /\ Append(events, r) \in Seq(Events)
          /\ Elements(Append(events, r)) = Elements(events) \cup {r}
          /\ Single(Append(events, r))
      BY <2>0, <3>3, AppendElements
    <3>5. Sent' = Sent \cup {r} /\ events' \in Seq(Events) /\ Single(events)'
      BY <3>2, <3>4 DEF Sent, Single
    <3> QED BY <2>1, <3>2, <3>5
  <2>2. CASE UNCHANGED events /\ unsent' = unsent \cup {c.id}
    BY <2>0, <2>2 DEF Sent, Single
  <2> QED BY <1>2, <2>1, <2>2 DEF CompleteRequest
<1>8. /\ Sent \subseteq Sent'
      /\ \A e \in Sent' : e \in Sent \/ (/\ e.type = "reply" /\ e.id = c.id
                                       /\ e.handles = c.handles /\ e.outcome = c.outcome)
  BY <1>7
<1>9. Shape'
  BY <1>3, <1>5, <1>6, <1>7 DEF CleanupInv, Shape
<1>10. Numbered'
  BY <1>3, <1>4, <1>6, <1>8 DEF CleanupInv, Numbered
<1>11. Carried'
  BY <1>6 DEF CleanupInv, Carried
<1>12. OnePlace'
  BY <1>3, <1>4, <1>5, <1>6, <1>7, <1>8 DEF CleanupInv, OnePlace, Single
<1>13. Answers'
  BY <1>3, <1>6, <1>8 DEF CleanupInv, Answers
<1>14. Dated'
  BY <1>6 DEF CleanupInv, Dated, Executed
<1>15. Waits'
  BY <1>6 DEF CleanupInv, Waits
<1>16. Remembered'
  <2>1. \A i \in Ids : Unanswered(i)' => Unanswered(i)
    BY <1>3, <1>6, <1>8 DEF Unanswered
  <2> QED BY <1>6, <2>1 DEF CleanupInv, Remembered
<1>17. Held'
  <2> SUFFICES ASSUME NEW h \in store, fate[h[1]] \in {"waiting", "cancelled"},
                      h[1] \notin unsent'
               PROVE  Kept(h)'
    BY <1>6 DEF Held
  <2>1. Kept(h)
    BY <1>7 DEF CleanupInv, Held
  <2>2. ASSUME NEW f \in Done \cup Sent, h \in f.handles
        PROVE  \E g \in Done' \cup Sent' : h \in g.handles
    <3>1. CASE f # c
      BY <1>3, <1>8, <2>2, <3>1
    <3>2. CASE f = c
      <4>1. h[1] = c.id
        BY <1>3, <2>2, <3>2 DEF CleanupInv, Answers
      <4> QED BY <1>7, <2>2, <3>2, <4>1
    <3> QED BY <3>1, <3>2
  <2> QED BY <1>6, <2>1, <2>2 DEF Kept
<1> QED BY <1>9, <1>10, <1>11, <1>12, <1>13, <1>14, <1>15, <1>16, <1>17 DEF CleanupInv
-----------------------------------------------------------------------------
(* Theorems *)

\* Every state a worker and its owner reach satisfies the cleanup invariant.
THEOREM CleanupInvariance == Spec => []CleanupInv
<1>1. Init => CleanupInv
  <2> SUFFICES ASSUME Init PROVE CleanupInv
    OBVIOUS
  <2>1. /\ Asked = {} /\ Running = {} /\ Done = {} /\ Sent = {} /\ Elements(queued) = {}
        /\ Single(commands) /\ Single(completions) /\ Single(events)
    BY EmptyQueue DEF Init, Asked, Running, Done, Sent, Elements, Single
  <2>2. inFlight = [id \in {} |-> NoHandle] /\ DOMAIN inFlight = {}
    BY DEF Init
  <2>3. Shape
    <3>1. IsFiniteSet(active)
      BY FS_EmptySet DEF Init
    <3>2. fate \in [Ids -> Fates]
      BY DEF Init, Fates
    <3>3. inFlight \in [DOMAIN inFlight -> Owned]
      BY <2>2
    <3> QED BY <2>2, <3>1, <3>2, <3>3, EmptyQueue DEF Init, Shape
  <2>4. Numbered /\ Carried /\ OnePlace /\ Answers /\ Dated /\ Held
    BY <2>1, <2>2 DEF Init, Numbered, Carried, OnePlace, Answers, Dated, Held
  <2>5. Waits
    BY DEF Init, Waits
  <2>6. Remembered
    BY DEF Init, Remembered
  <2> QED BY <2>3, <2>4, <2>5, <2>6 DEF CleanupInv
<1>2. CleanupInv /\ [Next]_vars => CleanupInv'
  <2> SUFFICES ASSUME CleanupInv, [Next]_vars PROVE CleanupInv'
    OBVIOUS
  <2>1. CASE UNCHANGED vars
    <3>1. /\ UNCHANGED <<fate, pending, live, parked, cancelled, queued, inFlight, lastId>>
          /\ UNCHANGED <<lastSeen, commands, completions, active, store, exited, unsent>>
          /\ UNCHANGED <<requests, input, events>>
      BY <2>1 DEF vars, owner, client, pipes, worker
    <3>2. Shape' /\ Single(events)' /\ Sent' = Sent /\ Asked' = Asked
      BY <3>1 DEF CleanupInv, Shape, OnePlace, Single, Sent, Asked
    <3> QED BY <3>1, <3>2, QuietStep
  <2>2. CASE Submit
    BY <2>2, SubmitInv
  <2>3. CASE \E id \in Ids : CancelCall(id)
    BY <2>3, CancelCallInv
  <2>4. CASE BeginShutdown
    BY <2>4, BeginShutdownInv
  <2>5. CASE SendShutdown
    BY <2>5, SendShutdownInv
  <2>6. CASE Poll
    BY <2>6, PollInv
  <2>7. CASE DropPump
    BY <2>7, LoseWorkerInv DEF DropPump
  <2>8. CASE Write
    BY <2>8, WriteInv
  <2>9. CASE WriteFails
    BY <2>9, WriteFailsInv
  <2>10. CASE AcceptRequest
    BY <2>10, AcceptRequestInv
  <2>11. CASE AcceptCancel \/ AcceptShutdown \/ DropInput
    BY <2>11, CoordinatorQuietInv
  <2>12. CASE Execute
    BY <2>12, ExecuteInv
  <2>13. CASE CompleteRequest
    BY <2>13, CompleteRequestInv
  <2>14. CASE EndCoordinator
    BY <2>14, EndCoordinatorInv
  <2>15. CASE ReadEnd \/ ReadForNobody
    BY <2>15, ReaderInv
  <2>16. CASE Exit
    BY <2>16, ExitInv
  <2>17. CASE Crash
    BY <2>17, CrashInv
  <2> QED BY <2>1, <2>2, <2>3, <2>4, <2>5, <2>6, <2>7, <2>8, <2>9, <2>10, <2>11,
             <2>12, <2>13, <2>14, <2>15, <2>16, <2>17 DEF Next
<1> QED BY <1>1, <1>2, PTL DEF Spec

\* Only a worker that closes leaves a reply unsent.
UnsentCloses == unsent # {} => closing # "no"

\* The outcomes of ApplyReply.
LEMMA AppliedReply ==
    ASSUME NEW e, ApplyReply(e)
    PROVE  \/ LoseWorker \/ Ignore \/ CallReply(e)
           \/ \E left, flying : ScheduleLateDisposals(left, flying, parked)
<1>1. LoseWorker \/ Ignore \/ DisposalReply(e) \/ CallReply(e) \/ LateReply(e)
  BY Zenon DEF ApplyReply
<1>2. DisposalReply(e) => LoseWorker \/ ScheduleLateDisposals(queued, Without(inFlight, e.id), parked)
  BY DEF DisposalReply
<1>3. LateReply(e) => \E left : ScheduleLateDisposals(left, inFlight, parked)
  BY DEF LateReply
<1> QED BY <1>1, <1>2, <1>3

\* A reply that could not be sent closes the worker, and the worker stays closed.
LEMMA UnsentInvariance == Spec => []UnsentCloses
<1>1. Init => UnsentCloses
  BY DEF Init, UnsentCloses
<1>2. ASSUME Next PROVE closing' # "no" \/ UNCHANGED <<closing, unsent>>
  <2>1. CASE LoseWorker
    BY <2>1 DEF LoseWorker, DropClient
  <2>2. CASE UNCHANGED worker
    BY <2>2 DEF worker
  <2>3. CASE Poll
    <3>1. LoseWorker \/ Ignore \/ ApplyReply(Head(events))
      BY <2>3 DEF Poll
    <3>2. \A left, flying : ScheduleLateDisposals(left, flying, parked) =>
                               LoseWorker \/ UNCHANGED worker
      BY DEF ScheduleLateDisposals
    <3>3. \A e : CallReply(e) => UNCHANGED worker
      BY DEF CallReply
    <3>4. Ignore => UNCHANGED worker
      BY DEF Ignore
    <3> QED BY <2>1, <2>2, <3>1, <3>2, <3>3, <3>4, AppliedReply
  <2>4. CASE \/ Submit \/ \E id \in Ids : CancelCall(id)
             \/ BeginShutdown \/ SendShutdown \/ Write \/ WriteFails \/ AcceptCancel
    BY <2>2, <2>4 DEF Submit, CancelCall, BeginShutdown, SendShutdown, Write, WriteFails,
                      AcceptCancel
  <2>5. CASE DropPump
    BY <2>1, <2>5 DEF DropPump
  <2>6. CASE AcceptRequest \/ AcceptShutdown
    BY <2>6 DEF AcceptRequest, AcceptShutdown
  <2>7. CASE \/ DropInput \/ ReadEnd \/ Execute \/ EndCoordinator \/ ReadForNobody
             \/ Exit \/ Crash
    BY <2>7 DEF DropInput, ReadEnd, Execute, EndCoordinator, ReadForNobody, Exit, Crash
  <2>8. CASE CompleteRequest
    BY <2>8 DEF CompleteRequest
  <2> QED BY <1>2, <2>3, <2>4, <2>5, <2>6, <2>7, <2>8 DEF Next
<1>3. UnsentCloses /\ [Next]_vars => UnsentCloses'
  BY <1>2 DEF UnsentCloses, vars, worker
<1> QED BY <1>1, <1>3, PTL DEF Spec

\* No resource of a call whose cancellation was published is forgotten while
\* the worker runs: the client retains the call until its reply is polled, and
\* the resources until their disposals are answered (parked.rs, late_cleanup).
\* A reply that could not be sent is the exception; the worker closes then.
THEOREM LateHandlesStayHeld == Spec => []LateHandlesHeld
<1>1. CleanupInv /\ UnsentCloses => LateHandlesHeld
  <2> SUFFICES ASSUME CleanupInv, UnsentCloses, NEW h \in store, fate[h[1]] = "cancelled"
               PROVE  HeldByCleanup(h) \/ (h[1] \in unsent /\ closing # "no")
    BY DEF LateHandlesHeld
  <2>1. Kept(h) \/ (h[1] \in unsent /\ closing # "no")
    BY DEF CleanupInv, Held, UnsentCloses
  <2>2. \A e \in Done \cup Sent :
           e.type = "reply" /\ e \in Elements(completions) \cup Elements(events)
    BY DEF CleanupInv, OnePlace, Done, Sent
  <2> QED BY <2>1, <2>2 DEF Kept, HeldByCleanup
<1> QED BY <1>1, CleanupInvariance, UnsentInvariance, PTL

\* The caller of a call is told one thing: a call that was replied to, cancelled
\* or reported lost keeps that fate, whatever arrives late.
THEOREM CallersAnsweredOnce == Spec => AnsweredOnce
<1> DEFINE Final == \A id \in Ids : fate[id] \notin {"none", "waiting"} => fate'[id] = fate[id]
<1>1. ASSUME CleanupInv, Next PROVE Final
  <2>0. /\ fate \in [Ids -> Fates] /\ lastId \in Nat
        /\ \A id \in Ids : /\ id \in pending => fate[id] = "waiting"
                           /\ id > lastId => fate[id] = "none"
    BY <1>1 DEF CleanupInv, Shape, Waits
  <2>1. CASE UNCHANGED fate
    BY <2>1
  <2>2. CASE LoseWorker
    BY <2>0, <2>2 DEF LoseWorker
  <2>3. CASE Submit
    <3>1. lastId' = lastId + 1 /\ lastId' > lastId
          /\ (fate' = fate \/ fate' = [fate EXCEPT ![lastId'] = "waiting"])
      BY <2>0, <2>3 DEF Submit
    <3> QED BY <2>0, <3>1
  <2>4. CASE \E id \in Ids : CancelCall(id)
    BY <2>0, <2>4 DEF CancelCall
  <2>5. CASE Poll
    <3> DEFINE e == Head(events)
    <3>1. \/ LoseWorker \/ UNCHANGED fate
          \/ fate' = IF e.id \in pending THEN [fate EXCEPT ![e.id] = "replied"] ELSE fate
      <4>1. \/ LoseWorker \/ Ignore \/ ApplyReply(e)
        BY <2>5 DEF Poll
      <4>2. \A left, flying : ScheduleLateDisposals(left, flying, parked) =>
                                 LoseWorker \/ UNCHANGED fate
        BY DEF ScheduleLateDisposals
      <4>3. CallReply(e) =>
               fate' = IF e.id \in pending THEN [fate EXCEPT ![e.id] = "replied"] ELSE fate
        BY DEF CallReply
      <4>4. Ignore => UNCHANGED fate
        BY DEF Ignore, owner
      <4> QED BY <4>1, <4>2, <4>3, <4>4, AppliedReply
    <3> QED BY <2>0, <2>1, <2>2, <3>1
  <2>6. CASE DropPump
    BY <2>2, <2>6 DEF DropPump
  <2>7. CASE \/ BeginShutdown \/ SendShutdown \/ Write \/ WriteFails \/ AcceptRequest
             \/ AcceptCancel \/ AcceptShutdown \/ DropInput \/ ReadEnd \/ Execute
             \/ CompleteRequest \/ EndCoordinator \/ ReadForNobody \/ Exit \/ Crash
    BY <2>1, <2>7 DEF BeginShutdown, SendShutdown, Write, WriteFails, AcceptRequest,
       AcceptCancel, AcceptShutdown, DropInput, ReadEnd, Execute, CompleteRequest,
       EndCoordinator, ReadForNobody, Exit, Crash, owner
  <2> QED BY <1>1, <2>3, <2>4, <2>5, <2>6, <2>7 DEF Next
<1>2. CleanupInv /\ [Next]_vars => [Final]_vars
  BY <1>1
<1> QED BY <1>2, CleanupInvariance, PTL DEF Spec, AnsweredOnce
=============================================================================
