------------------------ MODULE HandlerShardsProofs ------------------------
(***************************************************************************)
(* What the owner threads of a generation guarantee the requests that call *)
(* into them, for any number of shards, actors and slices, any capacity    *)
(* and every set of faults: a request that waits is owed its answer        *)
(* exactly once, an owner can serve whatever it retains, a published       *)
(* resumption or cancellation is on its way to the owner unless a drop     *)
(* could not send it, and each shard is charged for the requests in its    *)
(* books, less what failed requests gave back to it for another.           *)
(***************************************************************************)
EXTENDS HandlerShards, FiniteSetTheorems, SequenceTheorems, TLAPS

(* The inductive invariant *)

\* The shapes of the variables the argument depends on.
Shape ==
    /\ invocation \in [Actors -> [at : Phases, route : Places]]
    /\ reply \in [Actors -> Replies]
    /\ control \in [Actors -> [life : {"None", "Queued", "Parked"},
                               scheduler : Places]]
    /\ published \in [Actors -> {"none", "resumed", "waited", "detached"}]
    /\ helpers \subseteq Actors
    /\ failure \in BOOLEAN
    /\ owner \in [Shards -> {"running", "stopped", "panicked"}]
    /\ inbox \in [Shards -> Seq(Commands)]
    /\ routes \in [Shards -> SUBSET Actors]
    /\ resident \in [Shards -> SUBSET Actors]
    /\ runnable \in [Shards -> SUBSET Actors]
    /\ timers \in [Shards -> SUBSET Actors]
    /\ capabilities \in [Shards -> SUBSET Actors]
    /\ work_policy \in [phase : {"idle", "detaching", "detached", "importing",
                                 "rejected", "restoring"},
                        by : 0 .. MaxActors, from : Places, to : Places,
                        actor : 0 .. MaxActors]

Tags == {"begin", "import", "run", "timer", "capability", "steal", "mail"}

\* What owes an actor's request its answer, and where it is.
Has(a, tag, s) ==
    \/ tag = "begin" /\ s \in Shards /\ Sent(s, "Begin", a)
    \/ tag = "import" /\ s \in Shards /\ Sent(s, "Import", a)
    \/ tag = "run" /\ s \in Shards /\ a \in runnable[s]
    \/ tag = "timer" /\ s \in Shards /\ a \in timers[s]
    \/ tag = "capability" /\ s \in Shards /\ a \in capabilities[s]
    \/ tag = "steal" /\ s = Nowhere /\ Stealing(a)
    \/ tag = "mail" /\ s = Nowhere /\ Awaits(a) /\ published[a] = "resumed"

Awaited(a) == Awaits(a) /\ reply[a].kind = "None"

AtMostOneOwed(a) ==
    \A tag, other \in Tags : \A s, t \in Places :
       Has(a, tag, s) /\ Has(a, other, t) => tag = other /\ s = t

AnswerOwed(a) ==
    /\ AtMostOneOwed(a)
    /\ Awaited(a) <=> \E tag \in Tags, s \in Places : Has(a, tag, s)

\* A command is in an inbox once, and an owner that is gone has none.
Asks(s, to) == \E i \in DOMAIN inbox[s] : inbox[s][i] = [op |-> "Detach", to |-> to]

InboxSingle ==
    \A s \in Shards : \A i, j \in DOMAIN inbox[s] :
       inbox[s][i] = inbox[s][j] /\ inbox[s][i].op # "Shutdown" => i = j

InboxGone == \A s \in Shards : ~Running(s) => inbox[s] = <<>>

\* A registered route is where the directory has the actor.
RoutedAt(a) ==
    \A s \in Shards :
       a \in routes[s] => control[a].life # "None" /\ control[a].scheduler = s

\* An actor is in the directory from its registration, at an owner.
Directory(a) ==
    /\ control[a].life # "None" => control[a].scheduler \in Shards
    /\ invocation[a].at \in {"new", "routed"} => control[a].life = "None"
    /\ At(a, "registered") =>
          control[a] = Registered(a) /\ a \notin routes[Home(a)]

\* Whatever owes an answer is where the directory has the actor.
OwedAt(a) ==
    /\ \A s \in Shards :
          /\ a \in runnable[s] =>
                QueuedAt(a, s) /\ a \in routes[s] /\ a \in resident[s]
          /\ a \in timers[s] \cup capabilities[s] =>
                ParkedAt(a, s) /\ a \in routes[s] /\ a \in resident[s]
          /\ Sent(s, "Begin", a) \/ Sent(s, "Import", a) =>
                QueuedAt(a, s) /\ a \notin routes[s]
    /\ Stealing(a) => /\ QueuedAt(a, work_policy.to)
                      /\ a \notin routes[work_policy.to]

\* A publication belongs to a request in a phase of its own, and finds its
\* actor queued where the request has its route; a request that has yet to
\* wait for its actor has no reply.
PublishedAt(a) ==
    /\ published[a] # "none" => QueuedAt(a, invocation[a].route)
    /\ published[a] = "resumed" =>
          invocation[a].at \in {"publishing", "resuming", "done"}
    /\ published[a] = "waited" =>
          invocation[a].at \in {"publishing", "cancelling", "done"}
    /\ published[a] = "detached" => At(a, "done")
    /\ At(a, "publishing") => published[a] \in {"resumed", "waited"}
    /\ invocation[a].at \in {"new", "routed", "registered", "holding", "publishing"}
          => reply[a].kind = "None"
    /\ published[a] = "waited" => reply[a].kind = "None"

\* A Drain is sent once for a publication, to the route of its request.
DrainsSent(a) ==
    /\ a \in helpers => published[a] = "detached"
    /\ \A s \in Shards : Sent(s, "Drain", a) =>
          /\ s = invocation[a].route
          /\ published[a] # "none"
          /\ ~At(a, "publishing") /\ a \notin helpers
          /\ published[a] = "resumed" => At(a, "resuming")
          /\ published[a] = "waited" => At(a, "cancelling")

\* Until a failure is latched, the Drain of a publication is on its way, unless
\* a drop could not send it.
Announced(a) ==
    LET s == invocation[a].route IN
    published[a] # "none" /\ ~failure /\ Running(s) =>
       \/ At(a, "publishing") \/ a \in helpers \/ Sent(s, "Drain", a)
       \/ a \in undrained /\ published[a] = "detached"

ActorInv(a) ==
    /\ AnswerOwed(a)
    /\ RoutedAt(a) /\ Directory(a) /\ OwedAt(a)
    /\ PublishedAt(a) /\ DrainsSent(a) /\ Announced(a)

\* The steal under the policy lock, and the command it waits for.
PolicyAt ==
    /\ work_policy.phase # "idle" => /\ work_policy.from \in Shards
                                     /\ work_policy.to \in Shards
                                     /\ work_policy.from # work_policy.to
    /\ work_policy.phase \notin {"idle", "detaching"} => work_policy.actor \in Actors
    /\ \A s \in Shards, a \in Actors : Sent(s, "Import", a) =>
          /\ work_policy.actor = a
          /\ \/ work_policy.phase = "importing" /\ s = work_policy.to
             \/ work_policy.phase = "restoring" /\ s = work_policy.from
    /\ \A s, t \in Shards : Asks(s, t) =>
          /\ work_policy.phase = "detaching"
          /\ s = work_policy.from /\ t = work_policy.to

ServeInv ==
    /\ Shape
    /\ InboxSingle /\ InboxGone
    /\ PolicyAt
    /\ \A a \in Actors : ActorInv(a)

-----------------------------------------------------------------------------
(* Shards and inboxes *)

\* What the assumptions say of the constants.
LEMMA Sizes ==
    /\ Width \in Nat /\ Width > 0
    /\ MaxActors \in Nat /\ MaxActors > 0
    /\ Nowhere \notin Shards
    /\ Shards \subseteq Places
    /\ Nowhere \in Places
    /\ 0 \in 0 .. MaxActors
    /\ Actors \subseteq 0 .. MaxActors
BY SizeAssumption DEF Shards, Actors, Places, Nowhere

\* Actors are dealt out to shards that exist.
LEMMA HomeIsShard ==
    ASSUME NEW a \in Actors
    PROVE  Home(a) \in Shards
BY Sizes DEF Home, Shards, Actors

\* The commands about one actor.
ActorOps == {"Begin", "Import", "Drain"}

\* The fields of each command of the channel.
LEMMA CommandKinds ==
    ASSUME NEW c \in Commands
    PROVE  /\ c.op \in {"Begin", "Drain", "Detach", "Import", "Shutdown"}
           /\ c.op \in ActorOps => c.actor \in Actors
                                   /\ c = [op |-> c.op, actor |-> c.actor]
           /\ c.op = "Detach" => c.to \in Shards
                                 /\ c = [op |-> "Detach", to |-> c.to]
BY DEF Commands, ActorOps

\* A command that is appended is sent, and nothing else changes.
LEMMA SentBySend ==
    ASSUME inbox \in [Shards -> Seq(Commands)], InboxSingle,
           NEW s \in Shards, NEW c \in Commands, Send(s, c),
           c.op # "Shutdown" => \A i \in DOMAIN inbox[s] : inbox[s][i] # c
    PROVE  /\ inbox' \in [Shards -> Seq(Commands)]
           /\ InboxSingle'
           /\ \A t \in Shards, op \in ActorOps, a \in Actors :
                 Sent(t, op, a)' <=> Sent(t, op, a)
                                     \/ (t = s /\ c.op = op /\ c.actor = a)
           /\ \A t, to \in Shards :
                 Asks(t, to)' <=> Asks(t, to)
                                  \/ (t = s /\ c = [op |-> "Detach", to |-> to])
           /\ \A t \in Shards : t # s => inbox'[t] = inbox[t]
<1>1. /\ inbox' = [inbox EXCEPT ![s] = Append(inbox[s], c)]
      /\ inbox[s] \in Seq(Commands)
  BY DEF Send
<1>2. /\ inbox' \in [Shards -> Seq(Commands)]
      /\ inbox'[s] = Append(inbox[s], c)
      /\ \A t \in Shards : t # s => inbox'[t] = inbox[t]
  BY <1>1
<1>3. /\ Len(inbox[s]) \in Nat
      /\ DOMAIN inbox[s] = 1 .. Len(inbox[s])
      /\ DOMAIN inbox'[s] = 1 .. Len(inbox[s]) + 1
      /\ \A i \in 1 .. Len(inbox[s]) : inbox'[s][i] = inbox[s][i]
      /\ inbox'[s][Len(inbox[s]) + 1] = c
  BY <1>1, <1>2
<1>4. \A i \in DOMAIN inbox'[s] : i \in DOMAIN inbox[s] \/ i = Len(inbox[s]) + 1
  BY <1>3
<1>5. InboxSingle'
  <2> SUFFICES ASSUME NEW t \in Shards, NEW i \in DOMAIN inbox'[t],
                      NEW j \in DOMAIN inbox'[t], inbox'[t][i] = inbox'[t][j],
                      inbox'[t][i].op # "Shutdown"
               PROVE  i = j
    BY DEF InboxSingle
  <2>1. CASE t # s
    BY <2>1, <1>2 DEF InboxSingle
  <2>2. CASE t = s
    BY <2>2, <1>3, <1>4 DEF InboxSingle
  <2> QED BY <2>1, <2>2
<1>6. ASSUME NEW t \in Shards, NEW op \in ActorOps, NEW a \in Actors
      PROVE  Sent(t, op, a)' <=> Sent(t, op, a)
                                 \/ (t = s /\ c.op = op /\ c.actor = a)
  <2>1. CASE t # s
    BY <2>1, <1>2 DEF Sent
  <2>2. CASE t = s
    BY <2>2, <1>3, <1>4 DEF Sent
  <2> QED BY <2>1, <2>2
<1>7. ASSUME NEW t \in Shards, NEW to \in Shards
      PROVE  Asks(t, to)' <=> Asks(t, to)
                              \/ (t = s /\ c = [op |-> "Detach", to |-> to])
  <2>1. CASE t # s
    BY <2>1, <1>2 DEF Asks
  <2>2. CASE t = s
    <3>1. ASSUME Asks(s, to)'
          PROVE  Asks(s, to) \/ c = [op |-> "Detach", to |-> to]
      <4>1. PICK i \in DOMAIN inbox'[s] : inbox'[s][i] = [op |-> "Detach", to |-> to]
        BY <3>1 DEF Asks
      <4> QED BY <4>1, <1>3, <1>4 DEF Asks
    <3>2. ASSUME Asks(s, to) PROVE Asks(s, to)'
      <4>1. PICK i \in DOMAIN inbox[s] : inbox[s][i] = [op |-> "Detach", to |-> to]
        BY <3>2 DEF Asks
      <4>2. i \in DOMAIN inbox'[s] /\ inbox'[s][i] = inbox[s][i]
        BY <1>3
      <4> QED BY <4>1, <4>2 DEF Asks
    <3>3. ASSUME c = [op |-> "Detach", to |-> to] PROVE Asks(s, to)'
      <4>1. /\ Len(inbox[s]) + 1 \in DOMAIN inbox'[s]
            /\ inbox'[s][Len(inbox[s]) + 1] = [op |-> "Detach", to |-> to]
        BY <3>3, <1>3
      <4> QED BY <4>1 DEF Asks
    <3> QED BY <2>2, <3>1, <3>2, <3>3
  <2> QED BY <2>1, <2>2
<1> QED BY <1>2, <1>5, <1>6, <1>7

\* The command at the head of an inbox is taken, and only that one.
LEMMA SentByTake ==
    ASSUME inbox \in [Shards -> Seq(Commands)], InboxSingle,
           NEW s \in Shards, inbox[s] # <<>>, TakeCommand(s)
    PROVE  /\ Head(inbox[s]) \in Commands
           /\ inbox' \in [Shards -> Seq(Commands)]
           /\ InboxSingle'
           /\ \A op \in ActorOps, a \in Actors :
                 Head(inbox[s]) = [op |-> op, actor |-> a] => Sent(s, op, a)
           /\ \A to \in Shards :
                 Head(inbox[s]) = [op |-> "Detach", to |-> to] => Asks(s, to)
           /\ \A t \in Shards, op \in ActorOps, a \in Actors :
                 Sent(t, op, a)' <=>
                    Sent(t, op, a)
                    /\ ~(t = s /\ Head(inbox[s]) = [op |-> op, actor |-> a])
           /\ \A t, to \in Shards :
                 Asks(t, to)' <=>
                    Asks(t, to)
                    /\ ~(t = s /\ Head(inbox[s]) = [op |-> "Detach", to |-> to])
           /\ \A t \in Shards : t # s => inbox'[t] = inbox[t]
<1>1. /\ inbox' = [inbox EXCEPT ![s] = Tail(inbox[s])]
      /\ inbox[s] \in Seq(Commands)
  BY DEF TakeCommand
<1>2. /\ inbox' \in [Shards -> Seq(Commands)]
      /\ inbox'[s] = Tail(inbox[s])
      /\ \A t \in Shards : t # s => inbox'[t] = inbox[t]
      /\ Head(inbox[s]) = inbox[s][1]
      /\ Head(inbox[s]) \in Commands
      /\ 1 \in DOMAIN inbox[s]
  BY <1>1
<1>3. /\ Len(inbox[s]) \in Nat \ {0}
      /\ DOMAIN inbox[s] = 1 .. Len(inbox[s])
      /\ DOMAIN inbox'[s] = 1 .. Len(inbox[s]) - 1
      /\ \A i \in DOMAIN inbox'[s] : inbox'[s][i] = inbox[s][i + 1]
  BY <1>1, <1>2
<1>4. /\ \A i \in DOMAIN inbox'[s] : i + 1 \in DOMAIN inbox[s] /\ i + 1 # 1
      /\ \A i \in DOMAIN inbox[s] : i = 1 \/ (i - 1 \in DOMAIN inbox'[s]
                                               /\ inbox'[s][i - 1] = inbox[s][i])
  <2>1. \A i \in DOMAIN inbox'[s] : i + 1 \in DOMAIN inbox[s] /\ i + 1 # 1
    <3>1. \A n \in Nat \ {0} : \A i \in 1 .. n - 1 : i + 1 \in 1 .. n /\ i + 1 # 1
      OBVIOUS
    <3> QED
      BY <3>1, <1>3
  <2>2. ASSUME NEW i \in DOMAIN inbox[s], i # 1
        PROVE  i - 1 \in DOMAIN inbox'[s] /\ inbox'[s][i - 1] = inbox[s][i]
    <3>1. i \in 1 .. Len(inbox[s]) /\ Len(inbox[s]) \in Nat
      BY <1>3
    <3>2. i \in Int /\ i - 1 \in 1 .. Len(inbox[s]) - 1 /\ (i - 1) + 1 = i
      BY <3>1, <2>2
    <3>3. i - 1 \in DOMAIN inbox'[s]
      BY <3>2, <1>3
    <3>4. inbox'[s][i - 1] = inbox[s][(i - 1) + 1]
      BY <3>3, <1>3
    <3> QED
      BY <3>2, <3>3, <3>4
  <2> QED
    BY <2>1, <2>2
<1>5. \A i \in DOMAIN inbox[s] : inbox[s][i] \in Commands
  BY <1>1
<1>6. \A i \in DOMAIN inbox[s], op \in ActorOps, a \in Actors :
         inbox[s][i].op = op /\ inbox[s][i].actor = a <=>
            inbox[s][i] = [op |-> op, actor |-> a]
  BY <1>5, CommandKinds
<1>7. InboxSingle'
  <2> SUFFICES ASSUME NEW t \in Shards, NEW i \in DOMAIN inbox'[t],
                      NEW j \in DOMAIN inbox'[t], inbox'[t][i] = inbox'[t][j],
                      inbox'[t][i].op # "Shutdown"
               PROVE  i = j
    BY DEF InboxSingle
  <2>1. CASE t # s
    BY <2>1, <1>2 DEF InboxSingle
  <2>2. CASE t = s
    <3>1. /\ i + 1 \in DOMAIN inbox[s] /\ inbox'[s][i] = inbox[s][i + 1]
          /\ j + 1 \in DOMAIN inbox[s] /\ inbox'[s][j] = inbox[s][j + 1]
          /\ i \in Int /\ j \in Int
      BY <2>2, <1>3, <1>4
    <3>2. i + 1 = j + 1
      BY <2>2, <3>1 DEF InboxSingle
    <3> QED BY <3>1, <3>2
  <2> QED BY <2>1, <2>2
<1>8. ASSUME NEW t \in Shards, NEW op \in ActorOps, NEW a \in Actors
      PROVE  Sent(t, op, a)' <=>
                Sent(t, op, a)
                /\ ~(t = s /\ Head(inbox[s]) = [op |-> op, actor |-> a])
  <2>1. CASE t # s
    BY <2>1, <1>2 DEF Sent
  <2>2. CASE t = s
    <3>1. ASSUME Sent(s, op, a)'
          PROVE  Sent(s, op, a) /\ Head(inbox[s]) # [op |-> op, actor |-> a]
      <4>1. PICK i \in DOMAIN inbox'[s] : inbox'[s][i].op = op /\ inbox'[s][i].actor = a
        BY <3>1 DEF Sent
      <4>2. /\ i + 1 \in DOMAIN inbox[s] /\ i + 1 # 1
            /\ inbox[s][i + 1].op = op /\ inbox[s][i + 1].actor = a
        BY <4>1, <1>3, <1>4
      <4>3. inbox[s][i + 1] = [op |-> op, actor |-> a]
        BY <4>2, <1>6
      <4>4. op # "Shutdown"
        BY DEF ActorOps
      <4>5. inbox[s][1] # inbox[s][i + 1]
        BY <4>2, <4>3, <4>4, <1>2 DEF InboxSingle
      <4> QED BY <4>2, <4>3, <4>5, <1>2 DEF Sent
    <3>2. ASSUME Sent(s, op, a), Head(inbox[s]) # [op |-> op, actor |-> a]
          PROVE  Sent(s, op, a)'
      <4>1. PICK i \in DOMAIN inbox[s] : inbox[s][i].op = op /\ inbox[s][i].actor = a
        BY <3>2 DEF Sent
      <4>2. i # 1
        BY <4>1, <3>2, <1>2, <1>6
      <4> QED BY <4>1, <4>2, <1>4 DEF Sent
    <3> QED BY <2>2, <3>1, <3>2
  <2> QED BY <2>1, <2>2
<1>9. ASSUME NEW t \in Shards, NEW to \in Shards
      PROVE  Asks(t, to)' <=>
                Asks(t, to)
                /\ ~(t = s /\ Head(inbox[s]) = [op |-> "Detach", to |-> to])
  <2>1. CASE t # s
    BY <2>1, <1>2 DEF Asks
  <2>2. CASE t = s
    <3>1. ASSUME Asks(s, to)'
          PROVE  Asks(s, to) /\ Head(inbox[s]) # [op |-> "Detach", to |-> to]
      <4>1. PICK i \in DOMAIN inbox'[s] : inbox'[s][i] = [op |-> "Detach", to |-> to]
        BY <3>1 DEF Asks
      <4>2. /\ i + 1 \in DOMAIN inbox[s] /\ i + 1 # 1
            /\ inbox[s][i + 1] = [op |-> "Detach", to |-> to]
        BY <4>1, <1>3, <1>4
      <4>3. inbox[s][1] # inbox[s][i + 1]
        BY <4>2, <1>2 DEF InboxSingle
      <4> QED BY <4>2, <4>3, <1>2 DEF Asks
    <3>2. ASSUME Asks(s, to), Head(inbox[s]) # [op |-> "Detach", to |-> to]
          PROVE  Asks(s, to)'
      <4>1. PICK i \in DOMAIN inbox[s] : inbox[s][i] = [op |-> "Detach", to |-> to]
        BY <3>2 DEF Asks
      <4>2. i # 1
        BY <4>1, <3>2, <1>2
      <4> QED BY <4>1, <4>2, <1>4 DEF Asks
    <3> QED BY <2>2, <3>1, <3>2
  <2> QED BY <2>1, <2>2
<1>10. \A op \in ActorOps, a \in Actors :
          Head(inbox[s]) = [op |-> op, actor |-> a] => Sent(s, op, a)
  <2> SUFFICES ASSUME NEW op \in ActorOps, NEW a \in Actors,
                      inbox[s][1] = [op |-> op, actor |-> a]
               PROVE  Sent(s, op, a)
    BY <1>2
  <2>1. inbox[s][1].op = op /\ inbox[s][1].actor = a
    OBVIOUS
  <2> QED BY <2>1, <1>2 DEF Sent
<1>11. \A to \in Shards : Head(inbox[s]) = [op |-> "Detach", to |-> to] => Asks(s, to)
  BY <1>2 DEF Asks
<1> QED BY <1>2, <1>7, <1>8, <1>9, <1>10, <1>11

\* An owner that stops drops its inbox.
LEMMA SentByDrop ==
    ASSUME inbox \in [Shards -> Seq(Commands)], InboxSingle,
           NEW s \in Shards, inbox' = [inbox EXCEPT ![s] = <<>>]
    PROVE  /\ inbox' \in [Shards -> Seq(Commands)]
           /\ InboxSingle'
           /\ inbox'[s] = <<>>
           /\ \A t \in Shards, op \in ActorOps, a \in Actors :
                 Sent(t, op, a)' <=> t # s /\ Sent(t, op, a)
           /\ \A t, to \in Shards : Asks(t, to)' <=> t # s /\ Asks(t, to)
           /\ \A t \in Shards : t # s => inbox'[t] = inbox[t]
<1>1. /\ inbox' \in [Shards -> Seq(Commands)]
      /\ inbox'[s] = <<>>
      /\ DOMAIN inbox'[s] = {}
      /\ \A t \in Shards : t # s => inbox'[t] = inbox[t]
  OBVIOUS
<1>2. InboxSingle'
  BY <1>1 DEF InboxSingle
<1>3. \A t \in Shards, op \in ActorOps, a \in Actors :
         Sent(t, op, a)' <=> t # s /\ Sent(t, op, a)
  BY <1>1 DEF Sent
<1>4. \A t, to \in Shards : Asks(t, to)' <=> t # s /\ Asks(t, to)
  BY <1>1 DEF Asks
<1> QED BY <1>1, <1>2, <1>3, <1>4

-----------------------------------------------------------------------------
(* Who owes an answer *)

\* The same things owe the same answer.
LEMMA OwedKept ==
    ASSUME NEW a \in Actors, AnswerOwed(a), Awaited(a)' <=> Awaited(a),
           \A tag \in Tags, s \in Places : Has(a, tag, s)' <=> Has(a, tag, s)
    PROVE  AnswerOwed(a)'
BY DEF AnswerOwed, AtMostOneOwed

\* Nothing but this thing owes the answer of an actor.
Only(a, tag, s) ==
    /\ \A t \in Shards :
          /\ Sent(t, "Begin", a) => tag = "begin" /\ t = s
          /\ Sent(t, "Import", a) => tag = "import" /\ t = s
          /\ a \in runnable[t] => tag = "run" /\ t = s
          /\ a \in timers[t] => tag = "timer" /\ t = s
          /\ a \in capabilities[t] => tag = "capability" /\ t = s
    /\ Stealing(a) => tag = "steal"
    /\ Awaits(a) /\ published[a] = "resumed" => tag = "mail"

\* An awaited answer is owed by one thing alone.
LEMMA OwedByOne ==
    ASSUME NEW a \in Actors, NEW tag \in Tags, NEW s \in Places,
           Awaited(a)', Has(a, tag, s)', Only(a, tag, s)'
    PROVE  AnswerOwed(a)'
<1>1. ASSUME NEW other \in Tags, NEW t \in Places, Has(a, other, t)'
      PROVE  other = tag /\ t = s
  BY <1>1 DEF Has, Only
<1> QED BY <1>1 DEF AnswerOwed, AtMostOneOwed

\* Nothing is owed to a request that awaits nothing.
LEMMA OwedByNone ==
    ASSUME NEW a \in Actors, ~Awaited(a)', Only(a, "none", Nowhere)'
    PROVE  AnswerOwed(a)'
<1>1. ASSUME NEW other \in Tags, NEW t \in Places, Has(a, other, t)'
      PROVE  FALSE
  BY <1>1 DEF Has, Only
<1> QED BY <1>1 DEF AnswerOwed, AtMostOneOwed

\* What holds when an actor's answer is owed by a thing: nothing else owes it.
LEMMA Sole ==
    ASSUME NEW a \in Actors, AnswerOwed(a), NEW tag \in Tags, NEW s \in Places,
           Has(a, tag, s)
    PROVE  /\ Awaits(a) /\ reply[a].kind = "None"
           /\ Only(a, tag, s)
<1>1. Awaits(a) /\ reply[a].kind = "None"
  BY DEF AnswerOwed, Awaited
<1>2. ASSUME NEW t \in Shards
      PROVE  /\ Sent(t, "Begin", a) => tag = "begin" /\ t = s
             /\ Sent(t, "Import", a) => tag = "import" /\ t = s
             /\ a \in runnable[t] => tag = "run" /\ t = s
             /\ a \in timers[t] => tag = "timer" /\ t = s
             /\ a \in capabilities[t] => tag = "capability" /\ t = s
  <2>1. /\ Sent(t, "Begin", a) => Has(a, "begin", t)
        /\ Sent(t, "Import", a) => Has(a, "import", t)
        /\ a \in runnable[t] => Has(a, "run", t)
        /\ a \in timers[t] => Has(a, "timer", t)
        /\ a \in capabilities[t] => Has(a, "capability", t)
    BY DEF Has
  <2>2. t \in Places
    BY Sizes
  <2> QED BY <2>1, <2>2 DEF AnswerOwed, AtMostOneOwed, Tags
<1>3. Stealing(a) => tag = "steal"
  <2>1. Stealing(a) => Has(a, "steal", Nowhere)
    BY DEF Has
  <2> QED BY <2>1, Sizes DEF AnswerOwed, AtMostOneOwed, Tags
<1>4. Awaits(a) /\ published[a] = "resumed" => tag = "mail"
  <2>1. published[a] = "resumed" => Has(a, "mail", Nowhere)
    BY <1>1 DEF Has
  <2> QED BY <2>1, Sizes DEF AnswerOwed, AtMostOneOwed, Tags
<1> QED BY <1>1, <1>2, <1>3, <1>4 DEF Only

\* Nothing is owed to an actor whose request awaits nothing.
LEMMA NoneOwed ==
    ASSUME NEW a \in Actors, AnswerOwed(a), ~Awaited(a)
    PROVE  Only(a, "none", Nowhere)
<1>1. \A tag \in Tags, t \in Places : ~Has(a, tag, t)
  BY DEF AnswerOwed
<1>2. ASSUME NEW t \in Shards
      PROVE  /\ ~Sent(t, "Begin", a) /\ ~Sent(t, "Import", a)
             /\ a \notin runnable[t] /\ a \notin timers[t]
             /\ a \notin capabilities[t]
  <2>1. t \in Places
    BY Sizes
  <2>2. /\ ~Has(a, "begin", t) /\ ~Has(a, "import", t) /\ ~Has(a, "run", t)
        /\ ~Has(a, "timer", t) /\ ~Has(a, "capability", t)
    BY <1>1, <2>1 DEF Tags
  <2> QED BY <2>2 DEF Has
<1>3. ~Has(a, "steal", Nowhere) /\ ~Has(a, "mail", Nowhere)
  BY <1>1, Sizes DEF Tags
<1> QED BY <1>2, <1>3 DEF Has, Only

\* An actor that a step leaves alone keeps its invariant: neither its words nor
\* its queues, commands and steal change, no failure is taken back and no owner
\* comes back.
Untouched(b) ==
    /\ control'[b] = control[b]
    /\ published'[b] = published[b]
    /\ reply'[b] = reply[b]
    /\ invocation'[b] = invocation[b]
    /\ b \in helpers' <=> b \in helpers
    /\ \A s \in Shards :
          /\ b \in routes'[s] <=> b \in routes[s]
          /\ b \in runnable'[s] <=> b \in runnable[s]
          /\ b \in timers'[s] <=> b \in timers[s]
          /\ b \in capabilities'[s] <=> b \in capabilities[s]
          /\ b \in resident[s] => b \in resident'[s]
          /\ \A op \in ActorOps : Sent(s, op, b)' <=> Sent(s, op, b)
    /\ Stealing(b)' <=> Stealing(b)
    /\ Stealing(b) => work_policy'.to = work_policy.to

Onward ==
    /\ failure => failure'
    /\ undrained \subseteq undrained'
    /\ \A s \in Shards : Running(s)' => Running(s)

\* A request that a step leaves alone keeps what is known of it.
LEMMA UntouchedKept ==
    ASSUME Shape, NEW b \in Actors, ActorInv(b), Untouched(b), Onward,
           Stealing(b) => work_policy.to \in Shards
    PROVE  ActorInv(b)'
<1>1. AnswerOwed(b)'
  <2>1. Awaited(b)' <=> Awaited(b)
    BY DEF Awaited, Awaits, At, Untouched
  <2>2. \A tag \in Tags, s \in Places : Has(b, tag, s)' <=> Has(b, tag, s)
    BY DEF Has, Untouched, ActorOps, Awaits, At
  <2> QED BY <2>1, <2>2, OwedKept DEF ActorInv
<1>2. RoutedAt(b)' /\ Directory(b)'
  BY HomeIsShard DEF ActorInv, RoutedAt, Directory, Untouched, At, Registered
<1>3. OwedAt(b)'
  BY DEF ActorInv, OwedAt, Untouched, QueuedAt, ParkedAt, ActorOps
<1>4. PublishedAt(b)'
  BY DEF ActorInv, PublishedAt, Untouched, QueuedAt, At
<1>5. DrainsSent(b)'
  BY DEF ActorInv, DrainsSent, Untouched, At, ActorOps
<1>6. Announced(b)'
  <2>1. published[b] # "none" => invocation[b].route \in Shards
    BY DEF ActorInv, PublishedAt, QueuedAt, Directory
  <2> QED BY <2>1 DEF ActorInv, Announced, Untouched, Onward, At, ActorOps
<1> QED BY <1>1, <1>2, <1>3, <1>4, <1>5, <1>6 DEF ActorInv

\* A step of one actor that leaves the others alone.
LEMMA Advance ==
    ASSUME ServeInv, NEW a \in Actors, Shape', InboxSingle', InboxGone', PolicyAt',
           ActorInv(a)', Onward, \A b \in Actors \ {a} : Untouched(b)
    PROVE  ServeInv'
<1>1. ASSUME NEW b \in Actors PROVE ActorInv(b)'
  <2>1. CASE b = a
    BY <2>1
  <2>2. CASE b # a
    <3>1. Stealing(b) => work_policy.to \in Shards
      BY DEF ServeInv, PolicyAt, Stealing
    <3> QED BY <2>2, <3>1, UntouchedKept DEF ServeInv
  <2> QED BY <2>1, <2>2
<1> QED BY <1>1 DEF ServeInv

\* A step that leaves every actor alone.
LEMMA AdvanceAll ==
    ASSUME ServeInv, Shape', InboxSingle', InboxGone', PolicyAt', Onward,
           \A b \in Actors : Untouched(b)
    PROVE  ServeInv'
<1>1. ASSUME NEW b \in Actors PROVE ActorInv(b)'
  <2>1. Stealing(b) => work_policy.to \in Shards
    BY DEF ServeInv, PolicyAt, Stealing
  <2> QED BY <2>1, UntouchedKept DEF ServeInv
<1> QED BY <1>1 DEF ServeInv

\* Inboxes that stay as they are.
LEMMA InboxKept ==
    ASSUME inbox' = inbox, owner' = owner, InboxSingle, InboxGone
    PROVE  /\ InboxSingle' /\ InboxGone'
           /\ \A t \in Shards, op \in ActorOps, b \in Actors :
                 Sent(t, op, b)' <=> Sent(t, op, b)
           /\ \A t, to \in Shards : Asks(t, to)' <=> Asks(t, to)
BY DEF InboxSingle, InboxGone, Sent, Asks, Running

\* The policy lock is left alone, and no command of a steal is sent.
LEMMA PolicyKept ==
    ASSUME PolicyAt, work_policy' = work_policy,
           \A t \in Shards, b \in Actors :
              Sent(t, "Import", b)' => Sent(t, "Import", b),
           \A t, to \in Shards : Asks(t, to)' => Asks(t, to)
    PROVE  PolicyAt'
BY DEF PolicyAt

\* An actor that is in a queue, a command or an envelope waits for an answer,
\* and nothing is published for it.
LEMMA OwedUnpublished ==
    ASSUME ServeInv, NEW a \in Actors, NEW tag \in Tags \ {"mail"}, NEW s \in Places,
           Has(a, tag, s)
    PROVE  /\ Only(a, tag, s) /\ reply[a].kind = "None"
           /\ invocation[a].at \in {"waiting", "resuming"}
           /\ published[a] = "none" /\ a \notin helpers
           /\ \A t \in Shards : ~Sent(t, "Drain", a)
<1>1. /\ ActorInv(a)
      /\ published[a] \in {"none", "resumed", "waited", "detached"}
  BY DEF ServeInv, Shape
<1>2. Awaits(a) /\ reply[a].kind = "None" /\ Only(a, tag, s)
  BY <1>1, Sole DEF ActorInv
<1>3. published[a] # "resumed"
  BY <1>2 DEF Only
<1>4. invocation[a].at \in {"waiting", "resuming"}
  BY <1>2, <1>3 DEF Awaits, At
<1>5. published[a] = "none"
  BY <1>1, <1>3, <1>4 DEF ActorInv, PublishedAt, At
<1> QED BY <1>1, <1>2, <1>4, <1>5 DEF ActorInv, DrainsSent

\* What a step of a request's thread leaves alone: the owners, the steal and the
\* words of every other actor; and what a drop could not send stays unsent.
WordsKept(b) ==
    /\ control'[b] = control[b]
    /\ published'[b] = published[b]
    /\ reply'[b] = reply[b]
    /\ invocation'[b] = invocation[b]
    /\ b \in helpers' <=> b \in helpers

OwnersKept ==
    /\ undrained \subseteq undrained'
    /\ owner' = owner
    /\ routes' = routes /\ resident' = resident
    /\ runnable' = runnable /\ timers' = timers /\ capabilities' = capabilities

\* A step of a request's thread that sends nothing.
LEMMA QuietStep ==
    ASSUME ServeInv, NEW a \in Actors, OwnersKept, inbox' = inbox,
           work_policy' = work_policy, failure => failure',
           \A b \in Actors \ {a} : WordsKept(b)
    PROVE  /\ InboxSingle' /\ InboxGone' /\ PolicyAt'
           /\ \A t \in Shards, op \in ActorOps, b \in Actors :
                 Sent(t, op, b)' <=> Sent(t, op, b)
           /\ Stealing(a)' <=> Stealing(a)
           /\ Onward
           /\ \A b \in Actors \ {a} : Untouched(b)
<1>1. /\ InboxSingle' /\ InboxGone'
      /\ \A t \in Shards, op \in ActorOps, b \in Actors :
            Sent(t, op, b)' <=> Sent(t, op, b)
      /\ \A t, to \in Shards : Asks(t, to)' <=> Asks(t, to)
  BY InboxKept DEF ServeInv, OwnersKept
<1>2. PolicyAt'
  BY <1>1, PolicyKept DEF ServeInv, ActorOps
<1>3. \A b \in Actors : Stealing(b)' <=> Stealing(b)
  BY DEF Stealing
<1>4. Onward /\ \A b \in Actors \ {a} : Untouched(b)
  BY <1>1, <1>3 DEF Onward, Untouched, Running, OwnersKept, WordsKept
<1> QED BY <1>1, <1>2, <1>3, <1>4

\* Before its request resumes, cancels or drops it, nothing is published for an
\* actor; and while its request waits in begin.
LEMMA Unpublished ==
    ASSUME ServeInv, NEW a \in Actors,
           invocation[a].at \in {"new", "routed", "registered", "waiting", "holding"}
    PROVE  /\ published[a] = "none" /\ a \notin helpers
           /\ \A t \in Shards : ~Sent(t, "Drain", a)
<1>1. /\ published[a] \in {"none", "resumed", "waited", "detached"}
      /\ PublishedAt(a) /\ DrainsSent(a)
  BY DEF ServeInv, Shape, ActorInv
<1>2. published[a] = "none"
  BY <1>1 DEF PublishedAt, At
<1> QED BY <1>1, <1>2 DEF DrainsSent

\* Nothing published, nothing to announce.
LEMMA NothingPublished ==
    ASSUME NEW a \in Actors, published'[a] = "none", a \notin helpers',
           \A t \in Shards : ~Sent(t, "Drain", a)'
    PROVE  DrainsSent(a)' /\ Announced(a)'
BY DEF DrainsSent, Announced

\* What is owed by nothing is nowhere.
LEMMA OwedNowhere ==
    ASSUME NEW a \in Actors, Only(a, "none", Nowhere)'
    PROVE  OwedAt(a)'
BY DEF Only, OwedAt

\* Such a step, when the request awaits nothing after it.
LEMMA QuietServes ==
    ASSUME ServeInv, NEW a \in Actors, OwnersKept, inbox' = inbox,
           work_policy' = work_policy, failure => failure',
           \A b \in Actors \ {a} : WordsKept(b),
           Shape', Only(a, "none", Nowhere), ~Awaits(a)',
           RoutedAt(a)', Directory(a)', PublishedAt(a)',
           (\A t \in Shards : Sent(t, "Drain", a)' <=> Sent(t, "Drain", a))
              => DrainsSent(a)' /\ Announced(a)'
    PROVE  ServeInv'
<1>1. /\ InboxSingle' /\ InboxGone' /\ PolicyAt'
      /\ \A t \in Shards, op \in ActorOps, b \in Actors :
            Sent(t, op, b)' <=> Sent(t, op, b)
      /\ Stealing(a)' <=> Stealing(a)
      /\ Onward
      /\ \A b \in Actors \ {a} : Untouched(b)
  BY QuietStep
<1>2. Only(a, "none", Nowhere)'
  BY <1>1 DEF Only, ActorOps, OwnersKept
<1>3. AnswerOwed(a)' /\ OwedAt(a)'
  BY <1>2, OwedByNone, OwedNowhere DEF Awaited
<1>4. DrainsSent(a)' /\ Announced(a)'
  BY <1>1 DEF ActorOps
<1> QED BY <1>1, <1>3, <1>4, Advance DEF ActorInv

-----------------------------------------------------------------------------
(* The request's thread *)

\* A request takes its route (route_new_actor).
LEMMA RouteNewActorServes ==
    ASSUME ServeInv, NEW a \in Actors, RouteNewActor(a)
    PROVE  ServeInv'
<1>1. /\ At(a, "new") /\ invocation' = [invocation EXCEPT ![a].at = "routed"]
      /\ inbox' = inbox /\ work_policy' = work_policy /\ OwnersKept
      /\ reply' = reply /\ control' = control /\ published' = published
      /\ failure' = failure /\ helpers' = helpers
  BY DEF RouteNewActor, Goes, OwnersKept, sharedVars, ownerVars
<1>2. /\ invocation'[a].at = "routed" /\ invocation'[a].route = invocation[a].route
      /\ \A b \in Actors \ {a} : WordsKept(b)
  BY <1>1 DEF ServeInv, Shape, WordsKept
<1>3. Shape'
  BY <1>1 DEF ServeInv, Shape, Phases, OwnersKept
<1>4. ActorInv(a) /\ Only(a, "none", Nowhere)
  BY <1>1, NoneOwed DEF ServeInv, ActorInv, Awaited, Awaits, At
<1>5. ~Awaits(a)'
  BY <1>2 DEF Awaits, At
<1>6. RoutedAt(a)' /\ Directory(a)'
  BY <1>1, <1>2, <1>4 DEF ActorInv, RoutedAt, Directory, At, OwnersKept
<1>7. PublishedAt(a)'
  BY <1>1, <1>2, <1>4 DEF ActorInv, PublishedAt, At, QueuedAt
<1>8. (\A t \in Shards : Sent(t, "Drain", a)' <=> Sent(t, "Drain", a))
         => DrainsSent(a)' /\ Announced(a)'
  BY <1>1, Unpublished, NothingPublished DEF At
<1> QED BY <1>1, <1>2, <1>3, <1>4, <1>5, <1>6, <1>7, <1>8, QuietServes

\* It is registered with the directory.
LEMMA RegisterServes ==
    ASSUME ServeInv, NEW a \in Actors, Register(a)
    PROVE  ServeInv'
<1>1. /\ At(a, "routed") /\ invocation' = [invocation EXCEPT ![a].at = "registered"]
      /\ control' = [control EXCEPT ![a] = Registered(a)]
      /\ inbox' = inbox /\ work_policy' = work_policy /\ OwnersKept
      /\ reply' = reply /\ published' = published
      /\ failure' = failure /\ helpers' = helpers
  BY DEF Register, Goes, OwnersKept, ownerVars
<1>2. /\ invocation'[a].at = "registered"
      /\ control'[a] = Registered(a)
      /\ \A b \in Actors \ {a} : WordsKept(b)
  BY <1>1 DEF ServeInv, Shape, WordsKept
<1>3. Shape'
  <2>1. Registered(a) \in [life : {"None", "Queued", "Parked"}, scheduler : Places]
    BY HomeIsShard, Sizes DEF Registered
  <2> QED BY <1>1, <2>1 DEF ServeInv, Shape, Phases, OwnersKept
<1>4. ActorInv(a) /\ Only(a, "none", Nowhere)
  BY <1>1, NoneOwed DEF ServeInv, ActorInv, Awaited, Awaits, At
<1>5. ~Awaits(a)'
  BY <1>2 DEF Awaits, At
<1>6. \A t \in Shards : a \notin routes'[t]
  BY <1>1, <1>4 DEF ActorInv, RoutedAt, Directory, At, OwnersKept
<1>7. RoutedAt(a)' /\ Directory(a)'
  BY <1>2, <1>6, HomeIsShard DEF RoutedAt, Directory, At, Registered
<1>8. published'[a] = "none" /\ PublishedAt(a)'
  BY <1>1, <1>2, <1>4, Unpublished DEF ActorInv, PublishedAt, At
<1>9. (\A t \in Shards : Sent(t, "Drain", a)' <=> Sent(t, "Drain", a))
         => DrainsSent(a)' /\ Announced(a)'
  BY <1>1, Unpublished, NothingPublished DEF At
<1> QED BY <1>1, <1>2, <1>3, <1>4, <1>5, <1>7, <1>8, <1>9, QuietServes

\* Its Begin is refused after a failure, or because its owner is gone.
LEMMA BeginRefusedServes ==
    ASSUME ServeInv, NEW a \in Actors, BeginRefused(a)
    PROVE  ServeInv'
<1>1. /\ At(a, "registered") /\ invocation' = [invocation EXCEPT ![a].at = "done"]
      /\ control' = [control EXCEPT ![a] = Unregistered]
      /\ inbox' = inbox /\ work_policy' = work_policy /\ OwnersKept
      /\ reply' = reply /\ published' = published
      /\ failure' = TRUE /\ helpers' = helpers
  BY DEF BeginRefused, Ends, Goes, OwnersKept, ownerVars
<1>2. /\ invocation'[a].at = "done"
      /\ control'[a] = Unregistered
      /\ \A b \in Actors \ {a} : WordsKept(b)
  BY <1>1 DEF ServeInv, Shape, WordsKept
<1>3. Shape'
  <2>1. Unregistered \in [life : {"None", "Queued", "Parked"}, scheduler : Places]
    BY Sizes DEF Unregistered
  <2> QED BY <1>1, <2>1 DEF ServeInv, Shape, Phases, OwnersKept
<1>4. ActorInv(a) /\ Only(a, "none", Nowhere)
  BY <1>1, NoneOwed DEF ServeInv, ActorInv, Awaited, Awaits, At
<1>5. ~Awaits(a)'
  BY <1>2 DEF Awaits, At
<1>6. \A t \in Shards : a \notin routes'[t]
  BY <1>1, <1>4 DEF ActorInv, RoutedAt, Directory, At, OwnersKept, Registered
<1>7. RoutedAt(a)' /\ Directory(a)'
  BY <1>2, <1>6 DEF RoutedAt, Directory, At, Unregistered
<1>8. published'[a] = "none" /\ PublishedAt(a)'
  BY <1>1, <1>2, <1>4, Unpublished DEF ActorInv, PublishedAt, At
<1>9. (\A t \in Shards : Sent(t, "Drain", a)' <=> Sent(t, "Drain", a))
         => DrainsSent(a)' /\ Announced(a)'
  BY <1>1, Unpublished, NothingPublished DEF At
<1> QED BY <1>1, <1>2, <1>3, <1>4, <1>5, <1>7, <1>8, <1>9, QuietServes

\* A request that has its reply: it ends, or holds its parked actor.
LEMMA ReplyTakenServes ==
    ASSUME ServeInv, NEW a \in Actors,
           invocation[a].at \in {"waiting", "resuming", "cancelling"},
           reply[a].kind # "None",
           NEW next \in [at : {"done", "holding"}, route : Places],
           invocation' = [invocation EXCEPT ![a] = next],
           reply' = [reply EXCEPT ![a] = NoReply],
           inbox' = inbox, work_policy' = work_policy, OwnersKept,
           UNCHANGED <<control, published, failure, helpers>>
    PROVE  ServeInv'
<1>1. /\ invocation'[a] = next /\ reply'[a] = NoReply
      /\ \A b \in Actors \ {a} : WordsKept(b)
  BY DEF ServeInv, Shape, WordsKept
<1>2. Shape'
  BY Sizes DEF ServeInv, Shape, Phases, OwnersKept, NoReply, Replies
<1>3. ActorInv(a) /\ Only(a, "none", Nowhere)
  BY NoneOwed DEF ServeInv, ActorInv, Awaited
<1>4. published[a] = "none"
  <2>1. published[a] \in {"none", "resumed", "waited", "detached"} /\ PublishedAt(a)
    BY DEF ServeInv, Shape, ActorInv
  <2>2. published[a] # "resumed"
    BY <1>3, <2>1 DEF Only, PublishedAt, Awaits, At
  <2> QED BY <2>1, <2>2 DEF PublishedAt, At
<1>5. ~Awaits(a)'
  BY <1>1 DEF Awaits, At
<1>6. RoutedAt(a)' /\ Directory(a)'
  BY <1>1, <1>3 DEF ActorInv, RoutedAt, Directory, At, OwnersKept
<1>7. PublishedAt(a)'
  BY <1>1, <1>4 DEF PublishedAt, At, NoReply
<1>8. (\A t \in Shards : Sent(t, "Drain", a)' <=> Sent(t, "Drain", a))
         => DrainsSent(a)' /\ Announced(a)'
  BY <1>3, <1>4, NothingPublished DEF ActorInv, DrainsSent
<1>9. failure => failure'
  OBVIOUS
<1> QED BY <1>1, <1>2, <1>3, <1>5, <1>6, <1>7, <1>8, <1>9, QuietServes

\* It receives the answer it waits for.
LEMMA ReceiveServes ==
    ASSUME ServeInv, NEW a \in Actors,
           ReceiveReply(a) \/ ReceiveResumed(a) \/ ReceiveCancelled(a)
    PROVE  ServeInv'
<1>1. /\ invocation[a].at \in {"waiting", "resuming", "cancelling"}
      /\ reply[a].kind # "None"
      /\ reply' = [reply EXCEPT ![a] = NoReply]
      /\ inbox' = inbox /\ work_policy' = work_policy /\ OwnersKept
      /\ UNCHANGED <<control, published, failure, helpers>>
  BY DEF ReceiveReply, ReceiveResumed, ReceiveCancelled, At, OwnersKept, sharedVars,
         ownerVars
<1>2. invocation[a] \in [at : Phases, route : Places] /\ reply[a].scheduler \in Places
  BY DEF ServeInv, Shape, Replies
<1>3. \/ invocation' = [invocation EXCEPT ![a].at = "done"]
      \/ invocation' = [invocation EXCEPT ![a] =
                           [at |-> "holding", route |-> reply[a].scheduler]]
  BY DEF ReceiveReply, ReceiveResumed, ReceiveCancelled, Ends, Goes
<1>4. CASE invocation' = [invocation EXCEPT ![a].at = "done"]
  <2>1. invocation' = [invocation EXCEPT ![a] =
                         [at |-> "done", route |-> invocation[a].route]]
    <3>1. [invocation[a] EXCEPT !.at = "done"]
             = [at |-> "done", route |-> invocation[a].route]
      BY <1>2
    <3> QED BY <1>4, <3>1
  <2> QED BY <1>1, <1>2, <2>1, ReplyTakenServes
<1>5. CASE invocation' = [invocation EXCEPT ![a] =
                            [at |-> "holding", route |-> reply[a].scheduler]]
  BY <1>1, <1>2, <1>5, ReplyTakenServes
<1> QED BY <1>3, <1>4, <1>5

\* It publishes its resumption (publish_wake).
LEMMA PublishWakeServes ==
    ASSUME ServeInv, NEW a \in Actors, PublishWake(a)
    PROVE  ServeInv'
<1>0. PICK form \in {"resumed", "waited"} : Publish(a, form)
  BY DEF PublishWake
<1>1. /\ At(a, "holding") /\ invocation' = [invocation EXCEPT ![a].at = "publishing"]
      /\ ParkedAt(a, invocation[a].route) /\ published[a] = "none"
      /\ published' = [published EXCEPT ![a] = form]
      /\ control' = [control EXCEPT ![a].life = "Queued"]
      /\ inbox' = inbox /\ work_policy' = work_policy /\ OwnersKept
      /\ reply' = reply /\ failure' = failure /\ helpers' = helpers
  BY <1>0 DEF PublishWake, Publish, Goes, OwnersKept, ownerVars
<1>2. /\ invocation'[a].at = "publishing" /\ invocation'[a].route = invocation[a].route
      /\ published'[a] = form
      /\ control'[a] = [life |-> "Queued", scheduler |-> invocation[a].route]
      /\ \A b \in Actors \ {a} : WordsKept(b)
  BY <1>1 DEF ServeInv, Shape, WordsKept, ParkedAt
<1>3. Shape'
  <2>1. invocation' \in [Actors -> [at : Phases, route : Places]]
    <3>1. invocation \in [Actors -> [at : Phases, route : Places]]
      BY DEF ServeInv, Shape
    <3>2. invocation' = [invocation EXCEPT ![a].at = "publishing"]
      BY <1>1
    <3>3. "publishing" \in Phases
      BY DEF Phases
    <3> QED
      BY <3>1, <3>2, <3>3
  <2>2. published' \in [Actors -> {"none", "resumed", "waited", "detached"}]
    BY <1>1 DEF ServeInv, Shape
  <2>3. control' \in [Actors -> [life : {"None", "Queued", "Parked"},
                                 scheduler : Places]]
    BY <1>1 DEF ServeInv, Shape
  <2> QED
    BY <1>1, <2>1, <2>2, <2>3 DEF ServeInv, Shape, OwnersKept
<1>4. /\ InboxSingle' /\ InboxGone' /\ PolicyAt'
      /\ \A t \in Shards, op \in ActorOps, b \in Actors :
            Sent(t, op, b)' <=> Sent(t, op, b)
      /\ Stealing(a)' <=> Stealing(a)
      /\ Onward
      /\ \A b \in Actors \ {a} : Untouched(b)
  <2> failure => failure'
    BY <1>1
  <2> QED BY <1>1, <1>2, QuietStep
<1>5. ActorInv(a) /\ Only(a, "none", Nowhere)
  BY <1>1, NoneOwed DEF ServeInv, ActorInv, Awaited, Awaits, At
<1>6. /\ control[a] = [life |-> "Parked", scheduler |-> invocation[a].route]
      /\ invocation[a].route \in Shards
      /\ reply'[a].kind = "None"
  BY <1>1, <1>5 DEF ParkedAt, ActorInv, Directory, PublishedAt, At
<1>7. AnswerOwed(a)'
  <2>1. CASE form = "resumed"
    <3>1. Awaited(a)' /\ Has(a, "mail", Nowhere)'
      BY <1>2, <1>6, <2>1 DEF Awaited, Awaits, At, Has
    <3>2. Only(a, "mail", Nowhere)'
      BY <1>1, <1>4, <1>5 DEF Only, ActorOps, OwnersKept
    <3> QED BY <3>1, <3>2, OwedByOne, Sizes DEF Tags
  <2>2. CASE form = "waited"
    <3>1. ~Awaited(a)' /\ Only(a, "none", Nowhere)'
      BY <1>1, <1>2, <1>4, <1>5, <2>2
         DEF Awaited, Awaits, At, Only, ActorOps, OwnersKept
    <3> QED BY <3>1, OwedByNone
  <2> QED BY <2>1, <2>2
<1>8. RoutedAt(a)' /\ Directory(a)'
  BY <1>1, <1>2, <1>5, <1>6 DEF ActorInv, RoutedAt, Directory, At, OwnersKept
<1>9. OwedAt(a)'
  BY <1>1, <1>4, <1>5 DEF Only, OwedAt, ActorOps, OwnersKept
<1>10. PublishedAt(a)'
  BY <1>2, <1>6 DEF PublishedAt, At, QueuedAt
<1>11. DrainsSent(a)' /\ Announced(a)'
  BY <1>1, <1>2, <1>4, Unpublished DEF DrainsSent, Announced, At, ActorOps
<1> QED BY <1>3, <1>4, <1>7, <1>8, <1>9, <1>10, <1>11, Advance DEF ActorInv

\* The Drain of a publication is refused, or the publication is not recorded, and
\* the failure latched.
LEMMA PublicationFailsServes ==
    ASSUME ServeInv, NEW a \in Actors, DrainRefused(a) \/ PublicationUnrecorded(a)
    PROVE  ServeInv'
<1>1. /\ At(a, "publishing") /\ invocation' = [invocation EXCEPT ![a].at = "done"]
      /\ inbox' = inbox /\ work_policy' = work_policy /\ OwnersKept
      /\ reply' = reply /\ published' = published /\ control' = control
      /\ failure' = TRUE /\ helpers' = helpers
  BY DEF DrainRefused, PublicationUnrecorded, PublicationFails, Ends, Goes,
         OwnersKept, ownerVars
<1>2. /\ invocation'[a].at = "done" /\ invocation'[a].route = invocation[a].route
      /\ \A b \in Actors \ {a} : WordsKept(b)
  BY <1>1 DEF ServeInv, Shape, WordsKept
<1>3. Shape'
  BY <1>1 DEF ServeInv, Shape, Phases, OwnersKept
<1>4. /\ InboxSingle' /\ InboxGone' /\ PolicyAt'
      /\ \A t \in Shards, op \in ActorOps, b \in Actors :
            Sent(t, op, b)' <=> Sent(t, op, b)
      /\ Stealing(a)' <=> Stealing(a)
      /\ Onward
      /\ \A b \in Actors \ {a} : Untouched(b)
  <2> failure => failure'
    BY <1>1
  <2> QED BY <1>1, <1>2, QuietStep
<1>5. ActorInv(a) /\ published[a] \in {"resumed", "waited"} /\ reply[a].kind = "None"
  BY <1>1 DEF ServeInv, ActorInv, PublishedAt, At
<1>6. Only(a, "none", Nowhere)'
  <2>1. ~Awaits(a)'
    BY <1>2 DEF Awaits, At
  <2>2. CASE published[a] = "resumed"
    <3>1. Has(a, "mail", Nowhere)
      BY <1>1, <2>2 DEF Has, Awaits
    <3>2. Only(a, "mail", Nowhere)
      BY <1>5, <3>1, Sole, Sizes DEF ActorInv, Tags
    <3> QED BY <1>1, <1>4, <2>1, <3>2 DEF Only, ActorOps, OwnersKept
  <2>3. CASE published[a] = "waited"
    <3>1. ~Awaited(a)
      BY <1>1, <2>3 DEF Awaited, Awaits, At
    <3>2. Only(a, "none", Nowhere)
      BY <1>5, <3>1, NoneOwed DEF ActorInv
    <3> QED BY <1>1, <1>4, <2>1, <3>2 DEF Only, ActorOps, OwnersKept
  <2> QED BY <1>5, <2>2, <2>3
<1>7. AnswerOwed(a)' /\ OwedAt(a)'
  <2>1. ~Awaited(a)'
    BY <1>2 DEF Awaited, Awaits, At
  <2> QED BY <1>6, <2>1, OwedByNone, OwedNowhere
<1>8. RoutedAt(a)' /\ Directory(a)'
  BY <1>1, <1>2, <1>5 DEF ActorInv, RoutedAt, Directory, At, OwnersKept
<1>9. PublishedAt(a)'
  BY <1>1, <1>2, <1>5 DEF ActorInv, PublishedAt, At, QueuedAt
<1>10. DrainsSent(a)' /\ Announced(a)'
  BY <1>1, <1>4, <1>5 DEF ActorInv, DrainsSent, Announced, At, ActorOps
<1> QED BY <1>3, <1>4, <1>7, <1>8, <1>9, <1>10, Advance DEF ActorInv

\* A step of a request's thread that sends a command about its actor.
LEMMA SendStep ==
    ASSUME ServeInv, NEW a \in Actors, OwnersKept,
           work_policy' = work_policy, failure => failure',
           \A b \in Actors \ {a} : WordsKept(b),
           NEW s \in Shards, Running(s), NEW op \in {"Begin", "Drain"},
           Send(s, [op |-> op, actor |-> a]), ~Sent(s, op, a)
    PROVE  /\ inbox' \in [Shards -> Seq(Commands)]
           /\ InboxSingle' /\ InboxGone' /\ PolicyAt'
           /\ \A t \in Shards, kind \in ActorOps :
                 Sent(t, kind, a)' <=> Sent(t, kind, a) \/ (t = s /\ kind = op)
           /\ Stealing(a)' <=> Stealing(a)
           /\ Onward
           /\ \A b \in Actors \ {a} : Untouched(b)
<1>1. /\ [op |-> op, actor |-> a] \in Commands
      /\ [op |-> op, actor |-> a].op = op /\ [op |-> op, actor |-> a].actor = a
      /\ op \in ActorOps
  BY DEF Commands, ActorOps
<1>2. \A i \in DOMAIN inbox[s] : inbox[s][i] # [op |-> op, actor |-> a]
  BY <1>1 DEF Sent
<1>3. /\ inbox' \in [Shards -> Seq(Commands)]
      /\ InboxSingle'
      /\ \A t \in Shards, kind \in ActorOps, b \in Actors :
            Sent(t, kind, b)' <=> Sent(t, kind, b) \/ (t = s /\ op = kind /\ a = b)
      /\ \A t, to \in Shards :
            Asks(t, to)' <=> Asks(t, to)
                             \/ (t = s /\ [op |-> op, actor |-> a]
                                             = [op |-> "Detach", to |-> to])
      /\ \A t \in Shards : t # s => inbox'[t] = inbox[t]
  BY <1>1, <1>2, SentBySend DEF ServeInv, Shape
<1>4. \A to \in Shards : [op |-> op, actor |-> a] # [op |-> "Detach", to |-> to]
  <2> SUFFICES ASSUME NEW to \in Shards,
                      [op |-> op, actor |-> a] = [op |-> "Detach", to |-> to]
               PROVE  FALSE
    OBVIOUS
  <2>1. [op |-> "Detach", to |-> to].op = "Detach"
    OBVIOUS
  <2> QED BY <1>1, <2>1
<1>5. PolicyAt'
  BY <1>3, <1>4, PolicyKept DEF ServeInv, ActorOps
<1>6. InboxGone'
  BY <1>3 DEF ServeInv, InboxGone, Running, OwnersKept
<1>7. \A b \in Actors : Stealing(b)' <=> Stealing(b)
  BY DEF Stealing
<1>8. Onward /\ \A b \in Actors \ {a} : Untouched(b)
  BY <1>3, <1>7 DEF Onward, Untouched, Running, OwnersKept, WordsKept
<1> QED BY <1>3, <1>5, <1>6, <1>7, <1>8

\* Its Begin is sent to its owner.
LEMMA SendBeginServes ==
    ASSUME ServeInv, NEW a \in Actors, SendBegin(a)
    PROVE  ServeInv'
<1>1. /\ At(a, "registered") /\ invocation' = [invocation EXCEPT ![a].at = "waiting"]
      /\ Running(Home(a)) /\ Send(Home(a), [op |-> "Begin", actor |-> a])
      /\ work_policy' = work_policy /\ OwnersKept
      /\ reply' = reply /\ published' = published /\ control' = control
      /\ failure' = failure /\ helpers' = helpers
  BY DEF SendBegin, Goes, OwnersKept, sharedVars
<1>2. /\ invocation'[a].at = "waiting"
      /\ \A b \in Actors \ {a} : WordsKept(b)
  BY <1>1 DEF ServeInv, Shape, WordsKept
<1>3. Home(a) \in Shards
  BY HomeIsShard
<1>4. ActorInv(a) /\ Only(a, "none", Nowhere)
  BY <1>1, NoneOwed DEF ServeInv, ActorInv, Awaited, Awaits, At
<1>5. /\ inbox' \in [Shards -> Seq(Commands)]
      /\ InboxSingle' /\ InboxGone' /\ PolicyAt'
      /\ \A t \in Shards, kind \in ActorOps :
            Sent(t, kind, a)' <=> Sent(t, kind, a) \/ (t = Home(a) /\ kind = "Begin")
      /\ Stealing(a)' <=> Stealing(a)
      /\ Onward
      /\ \A b \in Actors \ {a} : Untouched(b)
  <2>1. ~Sent(Home(a), "Begin", a)
    BY <1>3, <1>4 DEF Only
  <2>2. failure => failure'
    BY <1>1
  <2> QED BY <1>1, <1>2, <1>3, <2>1, <2>2, SendStep
<1>6. Shape'
  BY <1>1, <1>5 DEF ServeInv, Shape, Phases, OwnersKept
<1>7. control[a] = Registered(a) /\ a \notin routes[Home(a)] /\ reply[a].kind = "None"
  BY <1>1, <1>4 DEF ActorInv, Directory, PublishedAt, At
<1>8. AnswerOwed(a)' /\ Only(a, "begin", Home(a))'
  <2>1. Awaited(a)'
    BY <1>1, <1>2, <1>7 DEF Awaited, Awaits, At
  <2>2. Has(a, "begin", Home(a))'
    BY <1>3, <1>5 DEF Has, ActorOps
  <2>3. Only(a, "begin", Home(a))'
    BY <1>1, <1>4, <1>5, Unpublished DEF Only, ActorOps, OwnersKept, At
  <2> QED BY <1>3, <2>1, <2>2, <2>3, OwedByOne, Sizes DEF Tags
<1>9. RoutedAt(a)' /\ Directory(a)'
  BY <1>1, <1>2, <1>4 DEF ActorInv, RoutedAt, Directory, At, OwnersKept
<1>10. OwedAt(a)'
  BY <1>1, <1>7, <1>8 DEF Only, OwedAt, OwnersKept, QueuedAt, Registered
<1>11. PublishedAt(a)'
  BY <1>1, <1>2, Unpublished DEF PublishedAt, At
<1>12. DrainsSent(a)' /\ Announced(a)'
  BY <1>1, <1>5, Unpublished, NothingPublished DEF At, ActorOps
<1> QED BY <1>5, <1>6, <1>8, <1>9, <1>10, <1>11, <1>12, Advance DEF ActorInv

\* The Drain of a publication is sent to the owner.
LEMMA SendDrainServes ==
    ASSUME ServeInv, NEW a \in Actors, SendDrain(a)
    PROVE  ServeInv'
<1> DEFINE s == invocation[a].route
           next == IF published[a] = "resumed" THEN "resuming" ELSE "cancelling"
<1>1. /\ At(a, "publishing") /\ invocation' = [invocation EXCEPT ![a].at = next]
      /\ Running(s) /\ Send(s, [op |-> "Drain", actor |-> a])
      /\ work_policy' = work_policy /\ OwnersKept
      /\ reply' = reply /\ published' = published /\ control' = control
      /\ failure' = failure /\ helpers' = helpers
  BY DEF SendDrain, Goes, OwnersKept, sharedVars
<1>2. /\ invocation'[a].at = next /\ invocation'[a].route = s
      /\ \A b \in Actors \ {a} : WordsKept(b)
  BY <1>1 DEF ServeInv, Shape, WordsKept
<1>3. /\ ActorInv(a) /\ published[a] \in {"resumed", "waited"}
      /\ reply[a].kind = "None" /\ QueuedAt(a, s) /\ s \in Shards
      /\ a \notin helpers /\ \A t \in Shards : ~Sent(t, "Drain", a)
  BY <1>1 DEF ServeInv, ActorInv, PublishedAt, Directory, DrainsSent, At, QueuedAt
<1>4. /\ inbox' \in [Shards -> Seq(Commands)]
      /\ InboxSingle' /\ InboxGone' /\ PolicyAt'
      /\ \A t \in Shards, kind \in ActorOps :
            Sent(t, kind, a)' <=> Sent(t, kind, a) \/ (t = s /\ kind = "Drain")
      /\ Stealing(a)' <=> Stealing(a)
      /\ Onward
      /\ \A b \in Actors \ {a} : Untouched(b)
  <2>1. failure => failure'
    BY <1>1
  <2> QED BY <1>1, <1>2, <1>3, <2>1, SendStep
<1>5. Shape'
  <2>1. next \in Phases
    BY DEF Phases
  <2> HIDE DEF next
  <2> QED BY <1>1, <1>4, <2>1 DEF ServeInv, Shape, OwnersKept
<1>6. AnswerOwed(a)' /\ OwedAt(a)'
  <2>1. CASE published[a] = "resumed"
    <3>1. Has(a, "mail", Nowhere)
      BY <1>1, <2>1 DEF Has, Awaits
    <3>2. Only(a, "mail", Nowhere)
      BY <1>3, <3>1, Sole, Sizes DEF ActorInv, Tags
    <3>3. Only(a, "mail", Nowhere)'
      BY <1>1, <1>4, <3>2 DEF Only, ActorOps, OwnersKept
    <3>4. Awaited(a)' /\ Has(a, "mail", Nowhere)'
      BY <1>1, <1>2, <1>3, <2>1 DEF Awaited, Awaits, At, Has
    <3>5. OwedAt(a)'
      BY <3>3 DEF Only, OwedAt
    <3> QED BY <3>3, <3>4, <3>5, OwedByOne, Sizes DEF Tags
  <2>2. CASE published[a] = "waited"
    <3>1. ~Awaited(a) /\ ~Awaits(a)'
      BY <1>1, <1>2, <2>2 DEF Awaited, Awaits, At
    <3>2. Only(a, "none", Nowhere)
      BY <1>3, <3>1, NoneOwed DEF ActorInv
    <3>3. Only(a, "none", Nowhere)'
      BY <1>1, <1>4, <3>1, <3>2 DEF Only, ActorOps, OwnersKept
    <3> QED BY <3>1, <3>3, OwedByNone, OwedNowhere DEF Awaited
  <2> QED BY <1>3, <2>1, <2>2
<1>7. RoutedAt(a)' /\ Directory(a)'
  BY <1>1, <1>2, <1>3 DEF ActorInv, RoutedAt, Directory, At, OwnersKept
<1>8. PublishedAt(a)'
  BY <1>1, <1>2, <1>3 DEF ActorInv, PublishedAt, At, QueuedAt
<1>9. DrainsSent(a)' /\ Announced(a)'
  BY <1>1, <1>2, <1>3, <1>4 DEF DrainsSent, Announced, At, ActorOps
<1> QED BY <1>4, <1>5, <1>6, <1>7, <1>8, <1>9, Advance DEF ActorInv

\* A request is dropped while its actor is parked, and publishes that.
LEMMA DropInvocationServes ==
    ASSUME ServeInv, NEW a \in Actors, DropInvocation(a)
    PROVE  ServeInv'
<1> DEFINE s == invocation[a].route
<1>1. /\ At(a, "holding") /\ invocation' = [invocation EXCEPT ![a].at = "done"]
      /\ ParkedAt(a, s) /\ published[a] = "none"
      /\ published' = [published EXCEPT ![a] = "detached"]
      /\ control' = [control EXCEPT ![a].life = "Queued"]
      /\ work_policy' = work_policy /\ OwnersKept
      /\ reply' = reply /\ failure' = failure
  BY DEF DropInvocation, Publish, Ends, Goes, OwnersKept
<1>2. \/ /\ Running(s) /\ Send(s, [op |-> "Drain", actor |-> a]) /\ helpers' = helpers
      \/ /\ inbox' = inbox
         /\ helpers' = helpers \cup {a} \/ (helpers' = helpers /\ a \in undrained')
  BY DEF DropInvocation
<1>3. /\ invocation'[a].at = "done" /\ invocation'[a].route = s
      /\ published'[a] = "detached"
      /\ control'[a] = [life |-> "Queued", scheduler |-> s]
      /\ \A b \in Actors \ {a} : WordsKept(b)
  BY <1>1, <1>2 DEF ServeInv, Shape, WordsKept, ParkedAt
<1>4. /\ ActorInv(a) /\ Only(a, "none", Nowhere)
      /\ control[a] = [life |-> "Parked", scheduler |-> s] /\ s \in Shards
      /\ reply[a].kind = "None"
      /\ a \notin helpers /\ \A t \in Shards : ~Sent(t, "Drain", a)
  <2>1. ActorInv(a) /\ Only(a, "none", Nowhere)
    BY <1>1, NoneOwed DEF ServeInv, ActorInv, Awaited, Awaits, At
  <2> QED BY <1>1, <2>1, Unpublished DEF ActorInv, Directory, PublishedAt, At, ParkedAt
<1>5. failure => failure'
  BY <1>1
<1>6. /\ inbox' \in [Shards -> Seq(Commands)]
      /\ InboxSingle' /\ InboxGone' /\ PolicyAt'
      /\ \A t \in Shards, kind \in ActorOps \ {"Drain"} :
            Sent(t, kind, a)' <=> Sent(t, kind, a)
      /\ \A t \in Shards : Sent(t, "Drain", a)' => t = s /\ a \notin helpers'
      /\ a \in helpers' \/ Sent(s, "Drain", a)' \/ a \in undrained'
      /\ Stealing(a)' <=> Stealing(a)
      /\ Onward
      /\ \A b \in Actors \ {a} : Untouched(b)
  <2>1. CASE Running(s) /\ Send(s, [op |-> "Drain", actor |-> a]) /\ helpers' = helpers
    <3>1. /\ inbox' \in [Shards -> Seq(Commands)]
          /\ InboxSingle' /\ InboxGone' /\ PolicyAt'
          /\ \A t \in Shards, kind \in ActorOps :
                Sent(t, kind, a)' <=> Sent(t, kind, a) \/ (t = s /\ kind = "Drain")
          /\ Stealing(a)' <=> Stealing(a)
          /\ Onward
          /\ \A b \in Actors \ {a} : Untouched(b)
      BY <1>1, <1>3, <1>4, <1>5, <2>1, SendStep
    <3>2. \A t \in Shards : Sent(t, "Drain", a)' => t = s
      BY <3>1, <1>4 DEF ActorOps
    <3>3. Sent(s, "Drain", a)'
      BY <3>1, <1>3, <1>4 DEF ActorOps
    <3>4. \A t \in Shards, kind \in ActorOps \ {"Drain"} :
            Sent(t, kind, a)' <=> Sent(t, kind, a)
      BY <3>1
    <3> QED BY <3>1, <3>2, <3>3, <3>4, <1>4, <2>1
  <2>2. CASE /\ inbox' = inbox
             /\ helpers' = helpers \cup {a} \/ (helpers' = helpers /\ a \in undrained')
    <3>1. /\ InboxSingle' /\ InboxGone' /\ PolicyAt'
          /\ \A t \in Shards, op \in ActorOps, b \in Actors :
                Sent(t, op, b)' <=> Sent(t, op, b)
          /\ Stealing(a)' <=> Stealing(a)
          /\ Onward
          /\ \A b \in Actors \ {a} : Untouched(b)
      BY <1>1, <1>3, <1>5, <2>2, QuietStep
    <3> QED BY <3>1, <1>4, <2>2 DEF ActorOps, ServeInv, Shape
  <2> QED BY <1>2, <2>1, <2>2
<1>7. Shape'
  <2>1. helpers' \subseteq Actors
    BY <1>2 DEF ServeInv, Shape
  <2>2. published' \in [Actors -> {"none", "resumed", "waited", "detached"}]
    BY <1>1 DEF ServeInv, Shape
  <2>3. control' \in [Actors -> [life : {"None", "Queued", "Parked"},
                                scheduler : Places]]
    <3>1. control' = [control EXCEPT ![a].life = "Queued"]
      BY <1>1
    <3> QED BY <3>1 DEF ServeInv, Shape
  <2>4. invocation' \in [Actors -> [at : Phases, route : Places]]
    <3>1. invocation' = [invocation EXCEPT ![a].at = "done"]
      BY <1>1
    <3>2. invocation \in [Actors -> [at : Phases, route : Places]] /\ "done" \in Phases
      BY DEF ServeInv, Shape, Phases
    <3> QED BY <3>1, <3>2
  <2> QED BY <1>1, <1>6, <2>1, <2>2, <2>3, <2>4 DEF ServeInv, Shape, OwnersKept
<1>8. ~Awaits(a)' /\ Only(a, "none", Nowhere)'
  <2>1. ~Awaits(a)'
    BY <1>3 DEF Awaits, At
  <2> QED BY <1>1, <1>4, <1>6, <2>1 DEF Only, ActorOps, OwnersKept
<1>9. AnswerOwed(a)' /\ OwedAt(a)'
  BY <1>8, OwedByNone, OwedNowhere DEF Awaited
<1>10. RoutedAt(a)' /\ Directory(a)'
  BY <1>1, <1>3, <1>4 DEF ActorInv, RoutedAt, Directory, At, OwnersKept
<1>11. PublishedAt(a)'
  BY <1>1, <1>3, <1>4 DEF PublishedAt, At, QueuedAt
<1>12. DrainsSent(a)' /\ Announced(a)'
  BY <1>3, <1>6 DEF DrainsSent, Announced, At
<1> QED BY <1>6, <1>7, <1>9, <1>10, <1>11, <1>12, Advance DEF ActorInv

\* A helper thread sends the Drain that a full inbox refused.
LEMMA HelperSendsServes ==
    ASSUME ServeInv, NEW a \in Actors, HelperSends(a)
    PROVE  ServeInv'
<1> DEFINE s == invocation[a].route
<1>1. /\ a \in helpers /\ helpers' = helpers \ {a}
      /\ invocation' = invocation /\ work_policy' = work_policy /\ OwnersKept
      /\ reply' = reply /\ published' = published /\ control' = control
      /\ failure' = failure
  BY DEF HelperSends, OwnersKept, sharedVars, callerVars
<1>2. \/ Running(s) /\ Send(s, [op |-> "Drain", actor |-> a])
      \/ ~Running(s) /\ inbox' = inbox
  BY DEF HelperSends
<1>3. \A b \in Actors \ {a} : WordsKept(b)
  BY <1>1 DEF WordsKept
<1>4. /\ ActorInv(a) /\ published[a] = "detached" /\ At(a, "done")
      /\ s \in Shards /\ \A t \in Shards : ~Sent(t, "Drain", a)
  BY <1>1 DEF ServeInv, ActorInv, DrainsSent, PublishedAt, Directory, QueuedAt
<1>5. failure => failure'
  BY <1>1
<1>6. /\ inbox' \in [Shards -> Seq(Commands)]
      /\ InboxSingle' /\ InboxGone' /\ PolicyAt'
      /\ \A t \in Shards, kind \in ActorOps \ {"Drain"} :
            Sent(t, kind, a)' <=> Sent(t, kind, a)
      /\ \A t \in Shards : Sent(t, "Drain", a)' => t = s
      /\ Running(s) => Sent(s, "Drain", a)'
      /\ Stealing(a)' <=> Stealing(a)
      /\ Onward
      /\ \A b \in Actors \ {a} : Untouched(b)
  <2>1. CASE Running(s) /\ Send(s, [op |-> "Drain", actor |-> a])
    <3>1. /\ inbox' \in [Shards -> Seq(Commands)]
          /\ InboxSingle' /\ InboxGone' /\ PolicyAt'
          /\ \A t \in Shards, kind \in ActorOps :
                Sent(t, kind, a)' <=> Sent(t, kind, a) \/ (t = s /\ kind = "Drain")
          /\ Stealing(a)' <=> Stealing(a)
          /\ Onward
          /\ \A b \in Actors \ {a} : Untouched(b)
      BY <1>1, <1>3, <1>4, <1>5, <2>1, SendStep
    <3>2. \A t \in Shards : Sent(t, "Drain", a)' => t = s
      BY <3>1, <1>4 DEF ActorOps
    <3>3. Sent(s, "Drain", a)'
      BY <3>1, <1>1, <1>4 DEF ActorOps
    <3>4. \A t \in Shards, kind \in ActorOps \ {"Drain"} :
            Sent(t, kind, a)' <=> Sent(t, kind, a)
      BY <3>1
    <3> QED BY <3>1, <3>2, <3>3, <3>4
  <2>2. CASE ~Running(s) /\ inbox' = inbox
    <3>1. /\ InboxSingle' /\ InboxGone' /\ PolicyAt'
          /\ \A t \in Shards, op \in ActorOps, b \in Actors :
                Sent(t, op, b)' <=> Sent(t, op, b)
          /\ Stealing(a)' <=> Stealing(a)
          /\ Onward
          /\ \A b \in Actors \ {a} : Untouched(b)
      BY <1>1, <1>3, <1>5, <2>2, QuietStep
    <3> QED BY <3>1, <1>4, <2>2 DEF ActorOps, ServeInv, Shape
  <2> QED BY <1>2, <2>1, <2>2
<1>7. Shape'
  BY <1>1, <1>6 DEF ServeInv, Shape, OwnersKept
<1>8. ~Awaits(a) /\ ~Awaits(a)' /\ Only(a, "none", Nowhere)'
  <2>1. ~Awaits(a) /\ ~Awaits(a)'
    BY <1>1, <1>4 DEF Awaits, At
  <2>2. Only(a, "none", Nowhere)
    BY <1>4, <2>1, NoneOwed DEF ActorInv, Awaited
  <2> QED BY <1>1, <1>6, <2>1, <2>2 DEF Only, ActorOps, OwnersKept
<1>9. AnswerOwed(a)' /\ OwedAt(a)'
  BY <1>8, OwedByNone, OwedNowhere DEF Awaited
<1>10. RoutedAt(a)' /\ Directory(a)' /\ PublishedAt(a)'
  BY <1>1, <1>4
     DEF ActorInv, RoutedAt, Directory, PublishedAt, At, QueuedAt, OwnersKept
<1>11. DrainsSent(a)' /\ Announced(a)'
  BY <1>1, <1>4, <1>6 DEF DrainsSent, Announced, At, Running, OwnersKept
<1> QED BY <1>6, <1>7, <1>9, <1>10, <1>11, Advance DEF ActorInv

-----------------------------------------------------------------------------
(* The thief *)

\* A waiting request takes the policy lock and asks the source.
LEMMA StartStealServes ==
    ASSUME ServeInv, NEW a \in Actors, NEW from \in Shards, NEW to \in Shards,
           StartSteal(a, from, to)
    PROVE  ServeInv'
<1> DEFINE c == [op |-> "Detach", to |-> to]
<1>1. /\ work_policy = IdlePolicy /\ from # to /\ Running(from) /\ Send(from, c)
      /\ work_policy' = [phase |-> "detaching", by |-> a, from |-> from,
                         to |-> to, actor |-> 0]
      /\ OwnersKept /\ invocation' = invocation /\ helpers' = helpers
      /\ reply' = reply /\ published' = published /\ control' = control
      /\ failure' = failure
  BY DEF StartSteal, OwnersKept, sharedVars, callerVars
<1>2. work_policy.phase = "idle"
  BY <1>1 DEF IdlePolicy
<1>3. \A s \in Shards : (\A b \in Actors : ~Sent(s, "Import", b))
                       /\ \A t \in Shards : ~Asks(s, t)
  BY <1>2 DEF ServeInv, PolicyAt
<1>4. /\ c \in Commands /\ c.op = "Detach" /\ c.op \notin ActorOps
      /\ \A t \in Shards : c = [op |-> "Detach", to |-> t] => t = to
  <2>1. c.to = to
    OBVIOUS
  <2>2. \A t \in Shards : [op |-> "Detach", to |-> t].to = t
    OBVIOUS
  <2>3. c \in Commands /\ c.op = "Detach" /\ c.op \notin ActorOps
    BY DEF Commands, ActorOps
  <2> QED BY <2>1, <2>2, <2>3
<1>5. \A i \in DOMAIN inbox[from] : inbox[from][i] # c
  BY <1>3 DEF Asks
<1> HIDE DEF c
<1>6. /\ inbox' \in [Shards -> Seq(Commands)] /\ InboxSingle'
      /\ \A t \in Shards, op \in ActorOps, b \in Actors :
            Sent(t, op, b)' <=> Sent(t, op, b)
      /\ \A t, dest \in Shards : Asks(t, dest)' => t = from /\ dest = to
      /\ \A t \in Shards : t # from => inbox'[t] = inbox[t]
  <2>1. /\ inbox' \in [Shards -> Seq(Commands)]
        /\ InboxSingle'
        /\ \A t \in Shards, op \in ActorOps, b \in Actors :
              Sent(t, op, b)' <=> Sent(t, op, b)
                                  \/ (t = from /\ c.op = op /\ c.actor = b)
        /\ \A t, dest \in Shards :
              Asks(t, dest)' <=> Asks(t, dest)
                                 \/ (t = from /\ c = [op |-> "Detach", to |-> dest])
        /\ \A t \in Shards : t # from => inbox'[t] = inbox[t]
    BY <1>1, <1>4, <1>5, SentBySend DEF ServeInv, Shape
  <2> QED BY <2>1, <1>3, <1>4
<1>7. /\ work_policy'.phase = "detaching" /\ work_policy'.from = from
      /\ work_policy'.to = to
  BY <1>1
<1>8. PolicyAt'
  <2>1. \A s \in Shards, b \in Actors : ~Sent(s, "Import", b)'
    BY <1>3, <1>6 DEF ActorOps
  <2> QED BY <1>1, <1>6, <1>7, <2>1 DEF PolicyAt
<1>9. InboxGone'
  BY <1>1, <1>6 DEF ServeInv, InboxGone, Running, OwnersKept
<1>10. Shape'
  <2>1. work_policy' \in [phase : {"idle", "detaching", "detached", "importing",
                                   "rejected", "restoring"},
                          by : 0 .. MaxActors, from : Places, to : Places,
                          actor : 0 .. MaxActors]
    BY <1>1, Sizes
  <2> QED BY <1>1, <1>6, <2>1 DEF ServeInv, Shape, OwnersKept
<1>11. \A b \in Actors : ~Stealing(b) /\ ~Stealing(b)'
  BY <1>2, <1>7 DEF Stealing
<1>12. Onward /\ \A b \in Actors : Untouched(b)
  BY <1>1, <1>6, <1>11 DEF Onward, Untouched, Running, OwnersKept
<1> QED BY <1>6, <1>8, <1>9, <1>10, <1>12, AdvanceAll

\* The destination is gone, and the envelope is on its way back.
LEMMA SendImportFailsServes ==
    ASSUME ServeInv, SendImportFails
    PROVE  ServeInv'
<1>1. /\ work_policy.phase = "detached"
      /\ work_policy' = [work_policy EXCEPT !.phase = "rejected"]
      /\ OwnersKept /\ inbox' = inbox /\ invocation' = invocation
      /\ helpers' = helpers /\ reply' = reply /\ published' = published
      /\ control' = control /\ failure' = TRUE
  BY DEF SendImportFails, OwnersKept, ownerVars
<1>2. /\ work_policy'.phase = "rejected" /\ work_policy'.from = work_policy.from
      /\ work_policy'.to = work_policy.to /\ work_policy'.actor = work_policy.actor
  BY <1>1 DEF ServeInv, Shape
<1>3. /\ InboxSingle' /\ InboxGone'
      /\ \A t \in Shards, op \in ActorOps, b \in Actors :
            Sent(t, op, b)' <=> Sent(t, op, b)
      /\ \A t, to \in Shards : Asks(t, to)' <=> Asks(t, to)
  BY <1>1, InboxKept DEF ServeInv, OwnersKept
<1>4. PolicyAt'
  BY <1>1, <1>2, <1>3 DEF ServeInv, PolicyAt, ActorOps
<1>5. Shape'
  BY <1>1 DEF ServeInv, Shape, OwnersKept
<1>6. \A b \in Actors : Stealing(b)' <=> Stealing(b)
  BY <1>1, <1>2 DEF Stealing
<1>7. Onward /\ \A b \in Actors : Untouched(b)
  BY <1>1, <1>2, <1>3, <1>6 DEF Onward, Untouched, Running, OwnersKept
<1> QED BY <1>3, <1>4, <1>5, <1>7, AdvanceAll

\* The owner that the thief asked stopped before it answered.
LEMMA StealLostServes ==
    ASSUME ServeInv, StealLost
    PROVE  ServeInv'
<1> DEFINE asked == IF work_policy.phase = "importing" THEN work_policy.to
                                                       ELSE work_policy.from
<1>1. /\ work_policy.phase \in {"detaching", "importing", "restoring"}
      /\ ~Running(asked) /\ work_policy' = IdlePolicy
      /\ OwnersKept /\ inbox' = inbox /\ invocation' = invocation
      /\ helpers' = helpers /\ reply' = reply /\ published' = published
      /\ control' = control /\ failure' = failure
  BY DEF StealLost, Asking, OwnersKept, ownerVars, sharedVars
<1>2. /\ InboxSingle' /\ InboxGone'
      /\ \A t \in Shards, op \in ActorOps, b \in Actors :
            Sent(t, op, b)' <=> Sent(t, op, b)
      /\ \A t, to \in Shards : Asks(t, to)' <=> Asks(t, to)
  BY <1>1, InboxKept DEF ServeInv, OwnersKept
<1>3. asked \in Shards /\ inbox[asked] = <<>>
  BY <1>1 DEF ServeInv, PolicyAt, InboxGone
<1>4. /\ \A b \in Actors : ~Sent(asked, "Import", b)
      /\ \A to \in Shards : ~Asks(asked, to)
  <2>1. DOMAIN inbox[asked] = {}
    BY <1>3
  <2> HIDE DEF asked
  <2> QED BY <2>1 DEF Sent, Asks
<1>5. \A s \in Shards : (\A b \in Actors : ~Sent(s, "Import", b))
                       /\ \A t \in Shards : ~Asks(s, t)
  BY <1>1, <1>3, <1>4 DEF ServeInv, PolicyAt
<1>6. PolicyAt'
  <2>1. work_policy'.phase = "idle"
    BY <1>1 DEF IdlePolicy
  <2>2. \A s \in Shards : (\A b \in Actors : ~Sent(s, "Import", b)')
                         /\ \A t \in Shards : ~Asks(s, t)'
    BY <1>2, <1>5 DEF ActorOps
  <2> QED BY <2>1, <2>2 DEF PolicyAt
<1>7. Shape'
  BY <1>1, Sizes DEF ServeInv, Shape, OwnersKept, IdlePolicy
<1>8. \A b \in Actors : ~Stealing(b)' /\ ~Stealing(b)
  BY <1>1 DEF Stealing, IdlePolicy
<1>9. Onward /\ \A b \in Actors : Untouched(b)
  BY <1>1, <1>2, <1>8 DEF Onward, Untouched, Running, OwnersKept
<1> QED BY <1>2, <1>6, <1>7, <1>9, AdvanceAll

\* The thief sends the actor it has to a shard: nobody else is concerned.
LEMMA ImportStep ==
    ASSUME ServeInv, NEW a \in Actors, a = work_policy.actor, OwnersKept,
           work_policy.phase \in {"detached", "rejected"},
           NEW s \in Shards, Running(s), Send(s, [op |-> "Import", actor |-> a]),
           NEW phase, work_policy' = [work_policy EXCEPT !.phase = phase],
           \/ phase = "importing" /\ s = work_policy.to
           \/ phase = "restoring" /\ s = work_policy.from,
           failure => failure', \A b \in Actors \ {a} : WordsKept(b)
    PROVE  /\ inbox' \in [Shards -> Seq(Commands)]
           /\ InboxSingle' /\ InboxGone' /\ PolicyAt'
           /\ \A t \in Shards, kind \in ActorOps :
                 Sent(t, kind, a)' <=> Sent(t, kind, a) \/ (t = s /\ kind = "Import")
           /\ ~Stealing(a)'
           /\ Onward
           /\ \A b \in Actors \ {a} : Untouched(b)
<1> DEFINE c == [op |-> "Import", actor |-> a]
<1>1. /\ c \in Commands /\ c.op = "Import" /\ c.actor = a /\ c.op \in ActorOps
  BY DEF Commands, ActorOps
<1>2. \A t \in Shards : c # [op |-> "Detach", to |-> t]
  <2>1. \A t \in Shards : [op |-> "Detach", to |-> t].op = "Detach"
    OBVIOUS
  <2> HIDE DEF c
  <2> QED BY <1>1, <2>1
<1>3. \A t \in Shards : (\A b \in Actors : ~Sent(t, "Import", b))
                       /\ \A u \in Shards : ~Asks(t, u)
  BY DEF ServeInv, PolicyAt
<1>4. \A i \in DOMAIN inbox[s] : inbox[s][i] # c
  BY <1>1, <1>3 DEF Sent
<1>5. Send(s, c)
  OBVIOUS
<1> HIDE DEF c
<1>6. /\ inbox' \in [Shards -> Seq(Commands)] /\ InboxSingle'
      /\ \A t \in Shards, kind \in ActorOps, b \in Actors :
            Sent(t, kind, b)' <=>
               Sent(t, kind, b) \/ (t = s /\ c.op = kind /\ c.actor = b)
      /\ \A t, u \in Shards :
            Asks(t, u)' <=> Asks(t, u) \/ (t = s /\ c = [op |-> "Detach", to |-> u])
      /\ \A t \in Shards : t # s => inbox'[t] = inbox[t]
  BY <1>1, <1>4, <1>5, SentBySend DEF ServeInv, Shape
<1>7. /\ work_policy'.phase = phase /\ work_policy'.from = work_policy.from
      /\ work_policy'.to = work_policy.to /\ work_policy'.actor = a
  BY DEF ServeInv, Shape
<1>8. PolicyAt'
  <2>1. \A t \in Shards, b \in Actors : Sent(t, "Import", b)' => t = s /\ b = a
    BY <1>1, <1>3, <1>6 DEF ActorOps
  <2>2. \A t, u \in Shards : ~Asks(t, u)'
    BY <1>2, <1>3, <1>6
  <2> QED BY <1>7, <2>1, <2>2 DEF ServeInv, PolicyAt
<1>9. InboxGone'
  BY <1>6 DEF ServeInv, InboxGone, Running, OwnersKept
<1>10. /\ \A b \in Actors : ~Stealing(b)'
       /\ \A b \in Actors \ {a} : ~Stealing(b)
  BY <1>7 DEF Stealing
<1>11. Onward /\ \A b \in Actors \ {a} : Untouched(b)
  BY <1>1, <1>6, <1>10 DEF Onward, Untouched, Running, OwnersKept, WordsKept
<1> QED BY <1>1, <1>6, <1>8, <1>9, <1>10, <1>11

\* The envelope is sent to the destination.
LEMMA SendImportServes ==
    ASSUME ServeInv, SendImport
    PROVE  ServeInv'
<1> DEFINE a == work_policy.actor
           to == work_policy.to
<1>1. /\ work_policy.phase = "detached" /\ Running(to)
      /\ Send(to, [op |-> "Import", actor |-> a])
      /\ work_policy' = [work_policy EXCEPT !.phase = "importing"]
      /\ OwnersKept /\ invocation' = invocation /\ helpers' = helpers
      /\ reply' = reply /\ published' = published /\ control' = control
      /\ failure' = failure
  BY DEF SendImport, OwnersKept, sharedVars
<1>2. a \in Actors /\ to \in Shards
  BY <1>1 DEF ServeInv, PolicyAt
<1>3. Stealing(a) /\ Has(a, "steal", Nowhere)
  BY <1>1 DEF Stealing, Has
<1>4. PICK b \in Actors : b = a
  BY <1>2
<1>5. PICK s \in Shards : s = to
  BY <1>2
<1> HIDE DEF a, to
<1>6. /\ Only(b, "steal", Nowhere) /\ reply[b].kind = "None"
      /\ invocation[b].at \in {"waiting", "resuming"}
      /\ published[b] = "none" /\ b \notin helpers
      /\ \A t \in Shards : ~Sent(t, "Drain", b)
  BY <1>3, <1>4, OwedUnpublished, Sizes DEF Tags
<1>7. /\ inbox' \in [Shards -> Seq(Commands)]
      /\ InboxSingle' /\ InboxGone' /\ PolicyAt'
      /\ \A t \in Shards, kind \in ActorOps :
            Sent(t, kind, b)' <=> Sent(t, kind, b) \/ (t = s /\ kind = "Import")
      /\ ~Stealing(b)'
      /\ Onward
      /\ \A d \in Actors \ {b} : Untouched(d)
  <2>1. \A d \in Actors \ {b} : WordsKept(d)
    BY <1>1 DEF WordsKept
  <2>2. b = work_policy.actor /\ s = work_policy.to
    BY <1>4, <1>5 DEF a, to
  <2>3. /\ work_policy.phase \in {"detached", "rejected"} /\ Running(s)
        /\ Send(s, [op |-> "Import", actor |-> b]) /\ (failure => failure')
    BY <1>1, <1>4, <1>5
  <2> QED BY <1>1, <2>1, <2>2, <2>3, ImportStep
<1>8. Shape'
  BY <1>1, <1>7 DEF ServeInv, Shape, OwnersKept
<1>9. ActorInv(b) /\ QueuedAt(b, s) /\ b \notin routes[s]
  BY <1>3, <1>4, <1>5 DEF ServeInv, ActorInv, OwedAt, to
<1>10. AnswerOwed(b)' /\ Only(b, "import", s)'
  <2>1. Awaited(b)' /\ Has(b, "import", s)'
    BY <1>1, <1>6, <1>7 DEF Awaited, Awaits, At, Has, ActorOps
  <2>2. Only(b, "import", s)'
    BY <1>1, <1>6, <1>7 DEF Only, ActorOps, OwnersKept
  <2> QED BY <2>1, <2>2, OwedByOne, Sizes DEF Tags
<1>11. RoutedAt(b)' /\ Directory(b)' /\ PublishedAt(b)'
  BY <1>1, <1>9
     DEF ActorInv, RoutedAt, Directory, PublishedAt, At, QueuedAt, OwnersKept
<1>12. OwedAt(b)'
  BY <1>1, <1>9, <1>10 DEF Only, OwedAt, OwnersKept, QueuedAt
<1>13. DrainsSent(b)' /\ Announced(b)'
  BY <1>1, <1>6, <1>7, NothingPublished DEF ActorOps
<1> QED BY <1>7, <1>8, <1>10, <1>11, <1>12, <1>13, Advance DEF ActorInv

\* The envelope is rolled back to its source, or lost with it.
LEMMA RollBackServes ==
    ASSUME ServeInv, RollBack
    PROVE  ServeInv'
<1> DEFINE a == work_policy.actor
           from == work_policy.from
<1>1. /\ work_policy.phase = "rejected" /\ QueuedAt(a, work_policy.to)
      /\ control' = [control EXCEPT ![a].scheduler = from]
      /\ OwnersKept /\ invocation' = invocation /\ helpers' = helpers
      /\ published' = published
  BY DEF RollBack, MoveRoute, OwnersKept
<1>2. \/ /\ Running(from) /\ Send(from, [op |-> "Import", actor |-> a])
         /\ work_policy' = [work_policy EXCEPT !.phase = "restoring"]
         /\ reply' = reply /\ failure' = failure
      \/ /\ ~Running(from) /\ work_policy' = IdlePolicy
         /\ reply' = [reply EXCEPT ![a] = [kind |-> "Disconnected", scheduler |-> from]]
         /\ failure' = TRUE /\ inbox' = inbox
  BY DEF RollBack, Answer
<1>3. a \in Actors /\ from \in Shards /\ from # work_policy.to
  BY <1>1 DEF ServeInv, PolicyAt
<1>4. Stealing(a) /\ Has(a, "steal", Nowhere)
  BY <1>1 DEF Stealing, Has
<1>5. PICK b \in Actors : b = a
  BY <1>3
<1>6. PICK s \in Shards : s = from
  BY <1>3
<1>7. b = work_policy.actor /\ s = work_policy.from
  BY <1>5, <1>6
<1> HIDE DEF a, from
<1>8. /\ Only(b, "steal", Nowhere) /\ reply[b].kind = "None"
      /\ invocation[b].at \in {"waiting", "resuming"}
      /\ published[b] = "none" /\ b \notin helpers
      /\ \A t \in Shards : ~Sent(t, "Drain", b)
  BY <1>4, <1>5, OwedUnpublished, Sizes DEF Tags
<1>9. /\ control'[b] = [life |-> "Queued", scheduler |-> s]
      /\ control' \in [Actors -> [life : {"None", "Queued", "Parked"},
                                  scheduler : Places]]
      /\ \A d \in Actors \ {b} : WordsKept(d)
  <2>1. control[b] = [life |-> "Queued", scheduler |-> work_policy.to]
    BY <1>1, <1>5 DEF QueuedAt
  <2>2. control' = [control EXCEPT ![b].scheduler = s] /\ s \in Places
    BY <1>1, <1>5, <1>6, Sizes
  <2>3. control' \in [Actors -> [life : {"None", "Queued", "Parked"},
                                scheduler : Places]]
    <3>1. control \in [Actors -> [life : {"None", "Queued", "Parked"},
                                 scheduler : Places]]
      BY DEF ServeInv, Shape
    <3>2. [control[b] EXCEPT !.scheduler = s]
             \in [life : {"None", "Queued", "Parked"}, scheduler : Places]
      BY <2>2, <3>1
    <3> QED BY <2>2, <3>1, <3>2
  <2>4. control'[b] = [life |-> "Queued", scheduler |-> s]
    BY <2>1, <2>2 DEF ServeInv, Shape
  <2>5. \A d \in Actors \ {b} : control'[d] = control[d] /\ reply'[d] = reply[d]
    BY <1>2, <1>5, <2>2 DEF ServeInv, Shape
  <2> QED BY <1>1, <2>3, <2>4, <2>5 DEF WordsKept
<1>10. ActorInv(b) /\ \A t \in Shards : b \notin routes'[t]
  <2>1. ActorInv(b) /\ QueuedAt(b, work_policy.to) /\ b \notin routes[work_policy.to]
    BY <1>4, <1>5 DEF ServeInv, ActorInv, OwedAt
  <2>2. \A t \in Shards : b \notin routes[t]
    BY <2>1 DEF ActorInv, RoutedAt, QueuedAt
  <2> QED BY <1>1, <2>1, <2>2 DEF OwnersKept
<1>11. RoutedAt(b)' /\ Directory(b)'
  BY <1>1, <1>8, <1>9, <1>10 DEF RoutedAt, Directory, At
<1>12. PublishedAt(b)'
  BY <1>1, <1>8 DEF PublishedAt, At
<1>13. CASE /\ Running(from) /\ Send(from, [op |-> "Import", actor |-> a])
            /\ work_policy' = [work_policy EXCEPT !.phase = "restoring"]
            /\ reply' = reply /\ failure' = failure
  <2>1. /\ inbox' \in [Shards -> Seq(Commands)]
        /\ InboxSingle' /\ InboxGone' /\ PolicyAt'
        /\ \A t \in Shards, kind \in ActorOps :
              Sent(t, kind, b)' <=> Sent(t, kind, b) \/ (t = s /\ kind = "Import")
        /\ ~Stealing(b)'
        /\ Onward
        /\ \A d \in Actors \ {b} : Untouched(d)
    <3>1. /\ work_policy.phase \in {"detached", "rejected"} /\ Running(s)
          /\ Send(s, [op |-> "Import", actor |-> b]) /\ (failure => failure')
      BY <1>1, <1>5, <1>6, <1>13
    <3> QED BY <1>1, <1>7, <1>9, <1>13, <3>1, ImportStep
  <2>2. Shape'
    BY <1>1, <1>9, <1>13, <2>1 DEF ServeInv, Shape, OwnersKept
  <2>3. AnswerOwed(b)' /\ Only(b, "import", s)'
    <3>1. Awaited(b)' /\ Has(b, "import", s)'
      BY <1>1, <1>8, <1>13, <2>1 DEF Awaited, Awaits, At, Has, ActorOps
    <3>2. Only(b, "import", s)'
      BY <1>1, <1>8, <2>1 DEF Only, ActorOps, OwnersKept
    <3> QED BY <3>1, <3>2, OwedByOne, Sizes DEF Tags
  <2>4. OwedAt(b)'
    BY <1>9, <1>10, <2>1, <2>3 DEF Only, OwedAt, QueuedAt
  <2>5. DrainsSent(b)' /\ Announced(b)'
    BY <1>1, <1>8, <2>1, NothingPublished DEF ActorOps
  <2> QED BY <1>11, <1>12, <2>1, <2>2, <2>3, <2>4, <2>5, Advance DEF ActorInv
<1>14. CASE /\ ~Running(from) /\ work_policy' = IdlePolicy
            /\ reply' = [reply EXCEPT
                           ![a] = [kind |-> "Disconnected", scheduler |-> from]]
            /\ failure' = TRUE /\ inbox' = inbox
  <2>1. /\ InboxSingle' /\ InboxGone'
        /\ \A t \in Shards, op \in ActorOps, d \in Actors :
              Sent(t, op, d)' <=> Sent(t, op, d)
        /\ \A t, to \in Shards : Asks(t, to)' <=> Asks(t, to)
    BY <1>1, <1>14, InboxKept DEF ServeInv, OwnersKept
  <2>2. PolicyAt'
    <3>1. work_policy'.phase = "idle"
      BY <1>14 DEF IdlePolicy
    <3>2. \A t \in Shards : (\A d \in Actors : ~Sent(t, "Import", d))
                           /\ \A u \in Shards : ~Asks(t, u)
      BY <1>1 DEF ServeInv, PolicyAt
    <3>3. \A t \in Shards : (\A d \in Actors : ~Sent(t, "Import", d)')
                           /\ \A u \in Shards : ~Asks(t, u)'
      BY <2>1, <3>2 DEF ActorOps
    <3> QED BY <3>1, <3>3 DEF PolicyAt
  <2>3. Shape'
    <3>1. /\ reply' = [reply EXCEPT ![b] = [kind |-> "Disconnected", scheduler |-> s]]
          /\ s \in Places
      BY <1>5, <1>6, <1>14, Sizes
    <3>2. reply' \in [Actors -> Replies]
      BY <3>1 DEF ServeInv, Shape, Replies
    <3>3. work_policy' \in [phase : {"idle", "detaching", "detached", "importing",
                                     "rejected", "restoring"},
                            by : 0 .. MaxActors, from : Places, to : Places,
                            actor : 0 .. MaxActors]
      BY <1>14, Sizes DEF IdlePolicy
    <3> QED BY <1>1, <1>9, <1>14, <3>2, <3>3 DEF ServeInv, Shape, OwnersKept
  <2>4. /\ \A d \in Actors : ~Stealing(d)'
        /\ \A d \in Actors \ {b} : ~Stealing(d)
    BY <1>7, <1>14 DEF Stealing, IdlePolicy
  <2>5. Onward /\ \A d \in Actors \ {b} : Untouched(d)
    BY <1>1, <1>9, <1>14, <2>1, <2>4
       DEF Onward, Untouched, WordsKept, Running, OwnersKept
  <2>6. AnswerOwed(b)' /\ OwedAt(b)'
    <3>1. ~Awaited(b)'
      BY <1>5, <1>14 DEF Awaited, ServeInv, Shape
    <3>2. Only(b, "none", Nowhere)'
      BY <1>1, <1>8, <2>1, <2>4 DEF Only, ActorOps, OwnersKept
    <3> QED BY <3>1, <3>2, OwedByNone, OwedNowhere
  <2>7. DrainsSent(b)' /\ Announced(b)'
    BY <1>1, <1>8, <2>1, NothingPublished DEF ActorOps
  <2> QED BY <1>11, <1>12, <2>1, <2>2, <2>3, <2>5, <2>6, <2>7, Advance DEF ActorInv
<1> QED BY <1>2, <1>13, <1>14

-----------------------------------------------------------------------------
(* The owner's loop: commands of a steal *)

\* The source gives a runnable actor up, or refuses.
LEMMA HandleDetachServes ==
    ASSUME ServeInv, NEW s \in Shards, HandleDetach(s)
    PROVE  ServeInv'
<1> DEFINE c == Head(inbox[s])
           to == c.to
<1>1. /\ Running(s) /\ inbox[s] # <<>> /\ c.op = "Detach" /\ TakeCommand(s)
      /\ invocation' = invocation /\ reply' = reply /\ published' = published
      /\ failure' = failure /\ helpers' = helpers /\ owner' = owner
      /\ timers' = timers /\ capabilities' = capabilities /\ undrained' = undrained
  BY DEF HandleDetach, Received, Top, callerVars
<1>2. \/ /\ work_policy' = IdlePolicy
         /\ UNCHANGED <<control, routes, resident, runnable>>
      \/ \E a \in runnable[s] :
            /\ QueuedAt(a, s)
            /\ \/ /\ control' = [control EXCEPT ![a].scheduler = s]
                  /\ work_policy' = IdlePolicy
                  /\ UNCHANGED <<routes, resident, runnable>>
               \/ /\ control' = [control EXCEPT ![a].scheduler = to]
                  /\ TakeOut(s, a)
                  /\ work_policy' = [work_policy EXCEPT !.phase = "detached",
                                                        !.actor = a]
  BY DEF HandleDetach, DetachRefused, MoveRoute
<1>3. /\ c \in Commands
      /\ inbox' \in [Shards -> Seq(Commands)] /\ InboxSingle'
      /\ \A dest \in Shards : c = [op |-> "Detach", to |-> dest] => Asks(s, dest)
      /\ \A t \in Shards, op \in ActorOps, a \in Actors :
            Sent(t, op, a)' <=>
               Sent(t, op, a) /\ ~(t = s /\ c = [op |-> op, actor |-> a])
      /\ \A t, dest \in Shards :
            Asks(t, dest)' <=>
               Asks(t, dest) /\ ~(t = s /\ c = [op |-> "Detach", to |-> dest])
      /\ \A t \in Shards : t # s => inbox'[t] = inbox[t]
  BY <1>1, SentByTake DEF ServeInv, Shape
<1>4. to \in Shards /\ c = [op |-> "Detach", to |-> to] /\ Asks(s, to)
  <2> HIDE DEF c
  <2> QED BY <1>1, <1>3, CommandKinds
<1>5. /\ work_policy.phase = "detaching" /\ s = work_policy.from
      /\ to = work_policy.to /\ s # to
      /\ \A t, dest \in Shards : Asks(t, dest) => t = s /\ dest = to
      /\ \A t \in Shards, a \in Actors : ~Sent(t, "Import", a)
  BY <1>4 DEF ServeInv, PolicyAt
<1>6. /\ \A t \in Shards, op \in ActorOps, a \in Actors :
            Sent(t, op, a)' <=> Sent(t, op, a)
      /\ \A t, dest \in Shards : ~Asks(t, dest)'
  <2> HIDE DEF c, to
  <2>1. \A op \in ActorOps, a \in Actors : c # [op |-> op, actor |-> a]
    <3>1. \A op \in ActorOps, a \in Actors : [op |-> op, actor |-> a].op = op
      OBVIOUS
    <3> QED BY <1>1, <3>1 DEF ActorOps
  <2> QED BY <1>3, <1>4, <1>5, <2>1
<1>7. InboxGone'
  BY <1>1, <1>3 DEF ServeInv, InboxGone, Running
<1>8. \A t \in Shards, a \in Actors : ~Sent(t, "Import", a)'
  BY <1>5, <1>6 DEF ActorOps
<1>9. \A a \in Actors : ~Stealing(a)
  BY <1>5 DEF Stealing
<1>10. Onward
  BY <1>1 DEF Onward, Running
<1> HIDE DEF c, to
<1>11. ASSUME work_policy' = IdlePolicy, UNCHANGED <<routes, resident, runnable>>,
              control' = control
       PROVE  ServeInv'
  <2>1. PolicyAt'
    <3>1. work_policy'.phase = "idle"
      BY <1>11 DEF IdlePolicy
    <3> QED BY <1>6, <1>8, <3>1 DEF PolicyAt
  <2>2. Shape'
    BY <1>1, <1>3, <1>11, Sizes DEF ServeInv, Shape, IdlePolicy
  <2>3. \A a \in Actors : ~Stealing(a)'
    BY <1>11 DEF Stealing, IdlePolicy
  <2>4. \A a \in Actors : Untouched(a)
    BY <1>1, <1>6, <1>9, <1>11, <2>3 DEF Untouched
  <2> QED BY <1>3, <1>7, <1>10, <2>1, <2>2, <2>4, AdvanceAll
<1>12. ASSUME NEW a \in runnable[s], QueuedAt(a, s),
              control' = [control EXCEPT ![a].scheduler = s]
       PROVE  control' = control
  <2>1. a \in Actors /\ control[a] = [life |-> "Queued", scheduler |-> s]
    BY <1>12 DEF ServeInv, Shape, QueuedAt
  <2>2. [control[a] EXCEPT !.scheduler = s] = control[a]
    BY <2>1
  <2> QED BY <1>12, <2>1, <2>2 DEF ServeInv, Shape
<1>13. ASSUME NEW a \in runnable[s], QueuedAt(a, s),
              control' = [control EXCEPT ![a].scheduler = to], TakeOut(s, a),
              work_policy' = [work_policy EXCEPT !.phase = "detached", !.actor = a]
       PROVE  ServeInv'
  <2>1. a \in Actors /\ Has(a, "run", s)
    BY DEF ServeInv, Shape, Has
  <2>2. /\ Only(a, "run", s) /\ reply[a].kind = "None"
        /\ invocation[a].at \in {"waiting", "resuming"}
        /\ published[a] = "none" /\ a \notin helpers
        /\ \A t \in Shards : ~Sent(t, "Drain", a)
    BY <2>1, OwedUnpublished, Sizes DEF Tags
  <2>3. /\ work_policy'.phase = "detached" /\ work_policy'.actor = a
        /\ work_policy'.from = s /\ work_policy'.to = to
        /\ work_policy' \in [phase : {"idle", "detaching", "detached", "importing",
                                      "rejected", "restoring"},
                             by : 0 .. MaxActors, from : Places, to : Places,
                             actor : 0 .. MaxActors]
    <3>1. work_policy \in [phase : {"idle", "detaching", "detached", "importing",
                                    "rejected", "restoring"},
                           by : 0 .. MaxActors, from : Places, to : Places,
                           actor : 0 .. MaxActors]
      BY DEF ServeInv, Shape
    <3>2. a \in 0 .. MaxActors
      BY <2>1, Sizes
    <3> QED BY <1>5, <1>13, <3>1, <3>2
  <2>4. /\ runnable' = [runnable EXCEPT ![s] = @ \ {a}]
        /\ routes' = [routes EXCEPT ![s] = @ \ {a}]
        /\ resident' = [resident EXCEPT ![s] = @ \ {a}]
    BY <1>13 DEF TakeOut, Remove
  <2>5. /\ control'[a] = [life |-> "Queued", scheduler |-> to]
        /\ control' \in [Actors -> [life : {"None", "Queued", "Parked"},
                                    scheduler : Places]]
        /\ \A b \in Actors \ {a} : control'[b] = control[b]
    <3>1. /\ control \in [Actors -> [life : {"None", "Queued", "Parked"},
                                     scheduler : Places]]
          /\ control[a] = [life |-> "Queued", scheduler |-> s] /\ to \in Places
      BY <1>4, <1>13, Sizes DEF ServeInv, Shape, QueuedAt
    <3>2. [control[a] EXCEPT !.scheduler = to] = [life |-> "Queued", scheduler |-> to]
      BY <3>1
    <3>3. [life |-> "Queued", scheduler |-> to]
             \in [life : {"None", "Queued", "Parked"}, scheduler : Places]
      BY <3>1
    <3>4. control' = [control EXCEPT ![a] = [life |-> "Queued", scheduler |-> to]]
      BY <1>13, <3>2
    <3> QED BY <2>1, <3>1, <3>3, <3>4
  <2>6. /\ runnable' \in [Shards -> SUBSET Actors]
        /\ routes' \in [Shards -> SUBSET Actors]
        /\ resident' \in [Shards -> SUBSET Actors]
        /\ \A t \in Shards :
              /\ a \in runnable'[t] => a \in runnable[t] /\ t # s
              /\ a \in routes'[t] => a \in routes[t] /\ t # s
        /\ \A t \in Shards, b \in Actors \ {a} :
              /\ b \in runnable'[t] <=> b \in runnable[t]
              /\ b \in routes'[t] <=> b \in routes[t]
              /\ b \in resident'[t] <=> b \in resident[t]
    BY <2>4 DEF ServeInv, Shape
  <2>7. PolicyAt'
    BY <1>4, <1>5, <1>6, <1>8, <2>1, <2>3 DEF PolicyAt
  <2>8. Shape'
    BY <1>1, <1>3, <2>3, <2>5, <2>6 DEF ServeInv, Shape
  <2>9. Stealing(a)' /\ \A b \in Actors \ {a} : ~Stealing(b)'
    BY <2>3 DEF Stealing
  <2>10. \A b \in Actors \ {a} : Untouched(b)
    BY <1>1, <1>6, <1>9, <2>5, <2>6, <2>9 DEF Untouched
  <2>11. \A t \in Shards : a \notin routes'[t]
    BY <1>13, <2>1, <2>6 DEF ServeInv, ActorInv, RoutedAt, QueuedAt
  <2>12. AnswerOwed(a)' /\ Only(a, "steal", Nowhere)'
    <3>1. Awaited(a)' /\ Has(a, "steal", Nowhere)'
      BY <1>1, <2>2, <2>9 DEF Awaited, Awaits, At, Has
    <3>2. Only(a, "steal", Nowhere)'
      BY <1>1, <1>6, <2>1, <2>2, <2>6 DEF Only, ActorOps
    <3> QED BY <2>1, <3>1, <3>2, OwedByOne, Sizes DEF Tags
  <2>13. OwedAt(a)'
    BY <1>4, <2>3, <2>5, <2>11, <2>12 DEF Only, OwedAt, QueuedAt
  <2>14. RoutedAt(a)' /\ Directory(a)'
    BY <1>1, <1>4, <2>2, <2>5, <2>11 DEF RoutedAt, Directory, At
  <2>15. PublishedAt(a)'
    BY <1>1, <2>2 DEF PublishedAt, At
  <2>16. DrainsSent(a)' /\ Announced(a)'
    BY <1>1, <1>6, <2>1, <2>2, NothingPublished DEF ActorOps
  <2> QED BY <1>3, <1>7, <1>10, <2>1, <2>7, <2>8, <2>10, <2>12, <2>13, <2>14, <2>15,
             <2>16, Advance DEF ActorInv
<1> QED BY <1>2, <1>11, <1>12, <1>13

\* The destination of a steal, or the source of one rolled back, takes the
\* actor in, or rejects it.
LEMMA HandleImportServes ==
    ASSUME ServeInv, NEW s \in Shards, HandleImport(s)
    PROVE  ServeInv'
<1> DEFINE c == Head(inbox[s])
           restoring == work_policy.phase = "restoring"
<1>1. /\ Running(s) /\ inbox[s] # <<>> /\ c.op = "Import" /\ TakeCommand(s)
      /\ invocation' = invocation /\ control' = control /\ published' = published
      /\ failure' = failure /\ helpers' = helpers /\ owner' = owner
      /\ timers' = timers /\ capabilities' = capabilities /\ undrained' = undrained
  BY DEF HandleImport, Received, Top, callerVars, sharedVars
<1>2. /\ c \in Commands
      /\ inbox' \in [Shards -> Seq(Commands)] /\ InboxSingle'
      /\ \A op \in ActorOps, a \in Actors :
            c = [op |-> op, actor |-> a] => Sent(s, op, a)
      /\ \A t \in Shards, op \in ActorOps, a \in Actors :
            Sent(t, op, a)' <=>
               Sent(t, op, a) /\ ~(t = s /\ c = [op |-> op, actor |-> a])
      /\ \A t, dest \in Shards :
            Asks(t, dest)' <=>
               Asks(t, dest) /\ ~(t = s /\ c = [op |-> "Detach", to |-> dest])
      /\ \A t \in Shards : t # s => inbox'[t] = inbox[t]
  BY <1>1, SentByTake DEF ServeInv, Shape
<1>3. PICK a \in Actors : a = c.actor /\ c = [op |-> "Import", actor |-> a]
  <2> HIDE DEF c
  <2> QED BY <1>1, <1>2, CommandKinds DEF ActorOps
<1>4. \/ /\ a \notin routes[s]
         /\ routes' = Add(routes, s, a) /\ resident' = Add(resident, s, a)
         /\ runnable' = Add(runnable, s, a)
         /\ work_policy' = IdlePolicy /\ reply' = reply
      \/ /\ ~restoring /\ work_policy' = [work_policy EXCEPT !.phase = "rejected"]
         /\ UNCHANGED <<reply, routes, resident, runnable>>
      \/ /\ restoring /\ work_policy' = IdlePolicy
         /\ Answer(a, "Disconnected", s)
         /\ UNCHANGED <<routes, resident, runnable>>
  BY <1>3 DEF HandleImport
<1> HIDE DEF c
<1>5. Sent(s, "Import", a) /\ Has(a, "import", s)
  BY <1>2, <1>3 DEF ActorOps, Has
<1>6. /\ Only(a, "import", s) /\ reply[a].kind = "None"
      /\ invocation[a].at \in {"waiting", "resuming"}
      /\ published[a] = "none" /\ a \notin helpers
      /\ \A t \in Shards : ~Sent(t, "Drain", a)
  BY <1>5, OwedUnpublished, Sizes DEF Tags
<1>7. /\ ActorInv(a)
      /\ control[a] = [life |-> "Queued", scheduler |-> s]
      /\ \A t \in Shards : a \notin routes[t]
  <2>1. ActorInv(a) /\ QueuedAt(a, s) /\ a \notin routes[s]
    BY <1>5 DEF ServeInv, ActorInv, OwedAt
  <2> QED BY <2>1 DEF ActorInv, RoutedAt, QueuedAt
<1>8. /\ work_policy.actor = a /\ work_policy.phase \in {"importing", "restoring"}
      /\ ~restoring => s = work_policy.to
      /\ \A t \in Shards, b \in Actors : Sent(t, "Import", b) => t = s /\ b = a
      /\ \A t, dest \in Shards : ~Asks(t, dest)
  <2>1. /\ work_policy.actor = a
        /\ \/ work_policy.phase = "importing" /\ s = work_policy.to
           \/ work_policy.phase = "restoring" /\ s = work_policy.from
    BY <1>5 DEF ServeInv, PolicyAt
  <2>2. \A t, dest \in Shards : ~Asks(t, dest)
    BY <2>1 DEF ServeInv, PolicyAt
  <2>3. \A t \in Shards, b \in Actors : Sent(t, "Import", b) => t = s /\ b = a
    BY <2>1 DEF ServeInv, PolicyAt
  <2> QED BY <2>1, <2>2, <2>3
<1>9. /\ \A t \in Shards, b \in Actors : ~Sent(t, "Import", b)'
      /\ \A t, dest \in Shards : ~Asks(t, dest)'
      /\ \A t \in Shards, op \in {"Begin", "Drain"}, b \in Actors :
            Sent(t, op, b)' <=> Sent(t, op, b)
      /\ \A t \in Shards, op \in ActorOps, b \in Actors \ {a} :
            Sent(t, op, b)' <=> Sent(t, op, b)
  <2>1. \A op \in ActorOps, b \in Actors :
           c = [op |-> op, actor |-> b] => op = "Import" /\ b = a
    <3> SUFFICES ASSUME NEW op \in ActorOps, NEW b \in Actors,
                        c = [op |-> op, actor |-> b]
                 PROVE  op = "Import" /\ b = a
      OBVIOUS
    <3>1. c.op = op /\ c.actor = b
      OBVIOUS
    <3> QED BY <1>1, <1>3, <3>1
  <2>2. \A t \in Shards, b \in Actors : ~Sent(t, "Import", b)'
    BY <1>2, <1>3, <1>8 DEF ActorOps
  <2>3. \A t \in Shards, dest \in Shards : ~Asks(t, dest)'
    BY <1>2, <1>8
  <2>4. \A t \in Shards, op \in {"Begin", "Drain"}, b \in Actors :
            Sent(t, op, b)' <=> Sent(t, op, b)
    <3>1. \A op \in {"Begin", "Drain"} : op \in ActorOps /\ op # "Import"
      BY DEF ActorOps
    <3> QED BY <1>2, <2>1, <3>1
  <2>5. \A t \in Shards, op \in ActorOps, b \in Actors \ {a} :
            Sent(t, op, b)' <=> Sent(t, op, b)
    BY <1>2, <2>1
  <2> QED BY <2>2, <2>3, <2>4, <2>5
<1>10. InboxGone'
  BY <1>1, <1>2 DEF ServeInv, InboxGone, Running
<1>11. Onward /\ \A b \in Actors : ~Stealing(b)
  BY <1>1, <1>8 DEF Onward, Running, Stealing
<1>12. DrainsSent(a)' /\ Announced(a)'
  BY <1>1, <1>6, <1>9, NothingPublished
<1>13. Directory(a)' /\ PublishedAt(a)'
  BY <1>1, <1>6, <1>7 DEF ActorInv, Directory, PublishedAt, At
<1>14. CASE /\ routes' = Add(routes, s, a) /\ resident' = Add(resident, s, a)
            /\ runnable' = Add(runnable, s, a)
            /\ work_policy' = IdlePolicy /\ reply' = reply
  <2>1. /\ work_policy'.phase = "idle"
        /\ work_policy' \in [phase : {"idle", "detaching", "detached", "importing",
                                      "rejected", "restoring"},
                             by : 0 .. MaxActors, from : Places, to : Places,
                             actor : 0 .. MaxActors]
    BY <1>14, Sizes DEF IdlePolicy
  <2>2. PolicyAt'
    BY <1>9, <2>1 DEF PolicyAt
  <2>3. /\ runnable' \in [Shards -> SUBSET Actors]
        /\ routes' \in [Shards -> SUBSET Actors]
        /\ resident' \in [Shards -> SUBSET Actors]
        /\ \A t \in Shards :
              /\ a \in runnable'[t] <=> a \in runnable[t] \/ t = s
              /\ a \in routes'[t] <=> a \in routes[t] \/ t = s
              /\ t = s => a \in resident'[t]
        /\ \A t \in Shards, b \in Actors \ {a} :
              /\ b \in runnable'[t] <=> b \in runnable[t]
              /\ b \in routes'[t] <=> b \in routes[t]
              /\ b \in resident'[t] <=> b \in resident[t]
    BY <1>14 DEF Add, ServeInv, Shape
  <2>4. Shape'
    BY <1>1, <1>2, <1>14, <2>1, <2>3 DEF ServeInv, Shape
  <2>5. \A b \in Actors : ~Stealing(b)'
    BY <2>1 DEF Stealing
  <2>6. \A b \in Actors \ {a} : Untouched(b)
    BY <1>1, <1>9, <1>11, <1>14, <2>3, <2>5 DEF Untouched
  <2>7. AnswerOwed(a)' /\ Only(a, "run", s)'
    <3>1. Awaited(a)' /\ Has(a, "run", s)'
      BY <1>1, <1>6, <1>14, <2>3 DEF Awaited, Awaits, At, Has
    <3>2. Only(a, "run", s)'
      BY <1>1, <1>6, <1>9, <2>3, <2>5 DEF Only
    <3> QED BY <3>1, <3>2, OwedByOne, Sizes DEF Tags
  <2>8. OwedAt(a)'
    BY <1>1, <1>7, <2>3, <2>7 DEF Only, OwedAt, QueuedAt
  <2>9. RoutedAt(a)'
    BY <1>1, <1>7, <2>3 DEF RoutedAt
  <2> QED BY <1>2, <1>10, <1>11, <1>12, <1>13, <2>2, <2>4, <2>6, <2>7, <2>8, <2>9,
             Advance DEF ActorInv
<1>15. CASE /\ ~restoring /\ work_policy' = [work_policy EXCEPT !.phase = "rejected"]
            /\ UNCHANGED <<reply, routes, resident, runnable>>
  <2>1. /\ work_policy'.phase = "rejected" /\ work_policy'.actor = a
        /\ work_policy'.from = work_policy.from /\ work_policy'.to = work_policy.to
        /\ s = work_policy.to
        /\ work_policy' \in [phase : {"idle", "detaching", "detached", "importing",
                                      "rejected", "restoring"},
                             by : 0 .. MaxActors, from : Places, to : Places,
                             actor : 0 .. MaxActors]
    BY <1>8, <1>15 DEF ServeInv, Shape
  <2>2. PolicyAt'
    BY <1>8, <1>9, <2>1 DEF ServeInv, PolicyAt
  <2>3. Shape'
    BY <1>1, <1>2, <1>15, <2>1 DEF ServeInv, Shape
  <2>4. Stealing(a)' /\ \A b \in Actors \ {a} : ~Stealing(b)'
    BY <2>1 DEF Stealing
  <2>5. \A b \in Actors \ {a} : Untouched(b)
    BY <1>1, <1>9, <1>11, <1>15, <2>4 DEF Untouched
  <2>6. AnswerOwed(a)' /\ Only(a, "steal", Nowhere)'
    <3>1. Awaited(a)' /\ Has(a, "steal", Nowhere)'
      BY <1>1, <1>6, <1>15, <2>4 DEF Awaited, Awaits, At, Has
    <3>2. Only(a, "steal", Nowhere)'
      BY <1>1, <1>6, <1>9, <1>15 DEF Only
    <3> QED BY <3>1, <3>2, OwedByOne, Sizes DEF Tags
  <2>7. OwedAt(a)'
    BY <1>1, <1>7, <1>15, <2>1, <2>6 DEF Only, OwedAt, QueuedAt
  <2>8. RoutedAt(a)'
    BY <1>1, <1>7, <1>15 DEF RoutedAt
  <2> QED BY <1>2, <1>10, <1>11, <1>12, <1>13, <2>2, <2>3, <2>5, <2>6, <2>7, <2>8,
             Advance DEF ActorInv
<1>16. CASE /\ work_policy' = IdlePolicy /\ Answer(a, "Disconnected", s)
            /\ UNCHANGED <<routes, resident, runnable>>
  <2>1. /\ work_policy'.phase = "idle"
        /\ work_policy' \in [phase : {"idle", "detaching", "detached", "importing",
                                      "rejected", "restoring"},
                             by : 0 .. MaxActors, from : Places, to : Places,
                             actor : 0 .. MaxActors]
    BY <1>16, Sizes DEF IdlePolicy
  <2>2. PolicyAt'
    BY <1>9, <2>1 DEF PolicyAt
  <2>3. /\ reply' \in [Actors -> Replies] /\ reply'[a].kind = "Disconnected"
        /\ \A b \in Actors \ {a} : reply'[b] = reply[b]
    BY <1>16, Sizes DEF Answer, ServeInv, Shape, Replies
  <2>4. Shape'
    BY <1>1, <1>2, <1>16, <2>1, <2>3 DEF ServeInv, Shape
  <2>5. \A b \in Actors : ~Stealing(b)'
    BY <2>1 DEF Stealing
  <2>6. \A b \in Actors \ {a} : Untouched(b)
    BY <1>1, <1>9, <1>11, <1>16, <2>3, <2>5 DEF Untouched
  <2>7. AnswerOwed(a)' /\ OwedAt(a)'
    <3>1. ~Awaited(a)'
      BY <2>3 DEF Awaited
    <3>2. Only(a, "none", Nowhere)'
      BY <1>1, <1>6, <1>9, <1>16, <2>5 DEF Only
    <3> QED BY <3>1, <3>2, OwedByNone, OwedNowhere
  <2>8. RoutedAt(a)'
    BY <1>1, <1>7, <1>16 DEF RoutedAt
  <2> QED BY <1>2, <1>10, <1>11, <1>12, <1>13, <2>2, <2>4, <2>6, <2>7, <2>8,
             Advance DEF ActorInv
<1> QED BY <1>4, <1>14, <1>15, <1>16

-----------------------------------------------------------------------------
(* The owner's loop: slices *)

\* What Finish leaves in the queues of the owner and of the served actor.
FinishLeaves(s, a) ==
    /\ runnable' \in [Shards -> SUBSET Actors]
    /\ timers' \in [Shards -> SUBSET Actors]
    /\ capabilities' \in [Shards -> SUBSET Actors]
    /\ routes' \in [Shards -> SUBSET Actors]
    /\ resident' \in [Shards -> SUBSET Actors]
    /\ control' \in [Actors -> [life : {"None", "Queued", "Parked"},
                                scheduler : Places]]
    /\ reply' \in [Actors -> Replies]
    /\ \A t \in Shards, b \in Actors \ {a} :
          /\ b \in runnable'[t] <=> b \in runnable[t]
          /\ b \in timers'[t] <=> b \in timers[t]
          /\ b \in capabilities'[t] <=> b \in capabilities[t]
          /\ b \in routes'[t] <=> b \in routes[t]
          /\ b \in resident'[t] <=> b \in resident[t]
    /\ \A b \in Actors \ {a} : control'[b] = control[b] /\ reply'[b] = reply[b]
    /\ \A t \in Shards \ {s} : a \in routes'[t] <=> a \in routes[t]
    /\ \E queue \in {"none", "run", "timer", "capability"} :
          /\ \A t \in Shards :
                /\ a \in runnable'[t] <=> t = s /\ queue = "run"
                /\ a \in timers'[t] <=> t = s /\ queue = "timer"
                /\ a \in capabilities'[t] <=> t = s /\ queue = "capability"
          /\ queue = "none" =>
                /\ reply'[a].kind # "None"
                /\ \/ control'[a] = Unregistered /\ a \notin routes'[s]
                   \/ control'[a] = [life |-> "Parked", scheduler |-> s]
          /\ queue = "run" => control'[a] = [life |-> "Queued", scheduler |-> s]
          /\ queue \in {"timer", "capability"} =>
                control'[a] = [life |-> "Parked", scheduler |-> s]
          /\ queue # "none" => /\ reply'[a] = reply[a]
                               /\ a \in routes'[s] /\ a \in resident'[s]

\* The queues after a slice, whatever its outcome.
LEMMA FinishQueues ==
    ASSUME Shape, NEW s \in Shards, NEW a \in Actors, NEW outcome \in Outcomes(a),
           NEW ready, NEW armed, NEW asked,
           Finish(s, a, outcome, ready, armed, asked),
           ready = runnable[s] \ {a}, armed = timers[s] \ {a},
           asked = capabilities[s] \ {a},
           \A t \in Shards \ {s} : /\ a \notin runnable[t] /\ a \notin timers[t]
                                    /\ a \notin capabilities[t]
    PROVE  FinishLeaves(s, a)
<1> DEFINE ends == \/ outcome \in {"Complete", "Err", "Orphan", "Denied"}
                   \/ outcome = "Yield" /\ QueueFull(ready)
                   \/ outcome = "Timer" /\ QueueFull(armed)
           Joins(outcomes) == IF ~ends /\ outcome \in outcomes THEN {a} ELSE {}
<1>1. /\ runnable' = [runnable EXCEPT ![s] = (runnable[s] \ {a}) \cup Joins({"Yield"})]
      /\ timers' = [timers EXCEPT ![s] = (timers[s] \ {a}) \cup Joins({"Timer"})]
      /\ capabilities' = [capabilities EXCEPT ![s] =
                             (capabilities[s] \ {a})
                             \cup Joins({"Capability", "Resource"})]
      /\ IF ends
         THEN Settle(s, a, IF outcome = "Complete" THEN "Complete" ELSE "Err",
                     outcome = "Orphan")
         ELSE /\ Continue(s, a, IF outcome = "Yield" THEN "Queued" ELSE "Parked")
              /\ IF outcome = "Receive" THEN Answer(a, "Waiting", s)
                                        ELSE UNCHANGED reply
  BY DEF Finish
<1>2. outcome \in {"Complete", "Err", "Orphan", "Receive", "Timer", "Yield",
                   "Capability", "Resource", "Denied"}
  BY DEF Outcomes
<1>3. /\ runnable \in [Shards -> SUBSET Actors] /\ timers \in [Shards -> SUBSET Actors]
      /\ capabilities \in [Shards -> SUBSET Actors]
      /\ routes \in [Shards -> SUBSET Actors] /\ resident \in [Shards -> SUBSET Actors]
      /\ reply \in [Actors -> Replies] /\ s \in Places
      /\ control \in [Actors -> [life : {"None", "Queued", "Parked"},
                                 scheduler : Places]]
  BY Sizes DEF Shape
<1>4. ends => outcome \notin {"Receive", "Capability", "Resource"}
  OBVIOUS
<1>5. ~ends => outcome \in {"Receive", "Timer", "Yield", "Capability", "Resource"}
  BY <1>2
<1> HIDE DEF ends
<1>6. /\ runnable' \in [Shards -> SUBSET Actors]
      /\ \A t \in Shards : a \in runnable'[t] <=> t = s /\ ~ends /\ outcome = "Yield"
      /\ \A t \in Shards, b \in Actors \ {a} : b \in runnable'[t] <=> b \in runnable[t]
  BY <1>1, <1>3
<1>7. /\ timers' \in [Shards -> SUBSET Actors]
      /\ \A t \in Shards : a \in timers'[t] <=> t = s /\ ~ends /\ outcome = "Timer"
      /\ \A t \in Shards, b \in Actors \ {a} : b \in timers'[t] <=> b \in timers[t]
  BY <1>1, <1>3
<1>8. /\ capabilities' \in [Shards -> SUBSET Actors]
      /\ \A t \in Shards : a \in capabilities'[t]
                             <=> t = s /\ ~ends
                                 /\ outcome \in {"Capability", "Resource"}
      /\ \A t \in Shards, b \in Actors \ {a} :
            b \in capabilities'[t] <=> b \in capabilities[t]
  BY <1>1, <1>3
<1>9. CASE ends
  <2>1. /\ control' = [control EXCEPT ![a] = Unregistered]
        /\ routes' = [routes EXCEPT ![s] = @ \ {a}]
        /\ resident' = IF outcome = "Orphan" THEN [resident EXCEPT ![s] = @ \cup {a}]
                                             ELSE [resident EXCEPT ![s] = @ \ {a}]
        /\ reply' = [reply EXCEPT ![a] =
                       [kind |-> IF outcome = "Complete" THEN "Complete" ELSE "Err",
                        scheduler |-> s]]
    BY <1>1, <1>9 DEF Settle, Answer, Remove, Add
  <2>2. Unregistered \in [life : {"None", "Queued", "Parked"}, scheduler : Places]
    BY Sizes DEF Unregistered
  <2>3. /\ control' \in [Actors -> [life : {"None", "Queued", "Parked"},
                                    scheduler : Places]]
        /\ control'[a] = Unregistered
        /\ \A b \in Actors \ {a} : control'[b] = control[b]
    BY <1>3, <2>1, <2>2
  <2>4. /\ reply' \in [Actors -> Replies] /\ reply'[a].kind # "None"
        /\ \A b \in Actors \ {a} : reply'[b] = reply[b]
    <3> DEFINE r == [kind |-> IF outcome = "Complete" THEN "Complete" ELSE "Err",
                     scheduler |-> s]
    <3>1. r \in Replies /\ r.kind # "None"
      BY <1>3 DEF Replies
    <3>2. reply' = [reply EXCEPT ![a] = r]
      BY <2>1
    <3> HIDE DEF r
    <3> QED BY <1>3, <3>1, <3>2
  <2>5. /\ routes' \in [Shards -> SUBSET Actors] /\ a \notin routes'[s]
        /\ \A t \in Shards \ {s} : routes'[t] = routes[t]
        /\ \A t \in Shards, b \in Actors \ {a} : b \in routes'[t] <=> b \in routes[t]
    BY <1>3, <2>1
  <2>6. /\ resident' \in [Shards -> SUBSET Actors]
        /\ \A t \in Shards, b \in Actors \ {a} :
              b \in resident'[t] <=> b \in resident[t]
    BY <1>3, <2>1
  <2>7. \A t \in Shards : /\ a \notin runnable'[t] /\ a \notin timers'[t]
                          /\ a \notin capabilities'[t]
    BY <1>6, <1>7, <1>8, <1>9
  <2> QED BY <1>6, <1>7, <1>8, <2>3, <2>4, <2>5, <2>6, <2>7 DEF FinishLeaves
<1>10. CASE ~ends
  <2> DEFINE life == IF outcome = "Yield" THEN "Queued" ELSE "Parked"
  <2>1. /\ control' = [control EXCEPT ![a] = [life |-> life, scheduler |-> s]]
        /\ routes' = [routes EXCEPT ![s] = @ \cup {a}]
        /\ resident' = [resident EXCEPT ![s] = @ \cup {a}]
        /\ IF outcome = "Receive"
           THEN reply' = [reply EXCEPT ![a] = [kind |-> "Waiting", scheduler |-> s]]
           ELSE reply' = reply
    BY <1>1, <1>10 DEF Continue, Answer, Add
  <2>2. life \in {"None", "Queued", "Parked"}
    OBVIOUS
  <2>3. /\ control' \in [Actors -> [life : {"None", "Queued", "Parked"},
                                    scheduler : Places]]
        /\ control'[a] = [life |-> life, scheduler |-> s]
        /\ \A b \in Actors \ {a} : control'[b] = control[b]
    <3> HIDE DEF life
    <3> QED BY <1>3, <2>1, <2>2
  <2>4. /\ reply' \in [Actors -> Replies]
        /\ outcome = "Receive" => reply'[a].kind = "Waiting"
        /\ outcome # "Receive" => reply'[a] = reply[a]
        /\ \A b \in Actors \ {a} : reply'[b] = reply[b]
    BY <1>3, <2>1 DEF Replies
  <2>5. /\ routes' \in [Shards -> SUBSET Actors] /\ a \in routes'[s]
        /\ \A t \in Shards \ {s} : routes'[t] = routes[t]
        /\ \A t \in Shards, b \in Actors \ {a} : b \in routes'[t] <=> b \in routes[t]
    BY <1>3, <2>1
  <2>6. /\ resident' \in [Shards -> SUBSET Actors] /\ a \in resident'[s]
        /\ \A t \in Shards, b \in Actors \ {a} :
              b \in resident'[t] <=> b \in resident[t]
    BY <1>3, <2>1
  <2> DEFINE queue == IF outcome = "Yield" THEN "run"
                      ELSE IF outcome = "Timer" THEN "timer"
                      ELSE IF outcome = "Receive" THEN "none" ELSE "capability"
  <2>7. /\ queue \in {"none", "run", "timer", "capability"}
        /\ queue = "run" <=> outcome = "Yield"
        /\ queue = "timer" <=> outcome = "Timer"
        /\ queue = "none" <=> outcome = "Receive"
        /\ queue = "capability" <=> outcome \in {"Capability", "Resource"}
    BY <1>5, <1>10
  <2> HIDE DEF queue
  <2>8. \A t \in Shards : /\ a \in runnable'[t] <=> t = s /\ queue = "run"
                          /\ a \in timers'[t] <=> t = s /\ queue = "timer"
                          /\ a \in capabilities'[t] <=> t = s /\ queue = "capability"
    BY <1>6, <1>7, <1>8, <1>10, <2>7
  <2>9. /\ queue = "none" => control'[a] = [life |-> "Parked", scheduler |-> s]
        /\ queue = "run" => control'[a] = [life |-> "Queued", scheduler |-> s]
        /\ queue \in {"timer", "capability"} =>
              control'[a] = [life |-> "Parked", scheduler |-> s]
    BY <2>3, <2>7
  <2>10. /\ queue = "none" => reply'[a].kind # "None"
         /\ queue # "none" => reply'[a] = reply[a]
    BY <2>4, <2>7
  <2> QED BY <1>6, <1>7, <1>8, <2>3, <2>4, <2>5, <2>6, <2>7, <2>8, <2>9, <2>10
         DEF FinishLeaves
<1> QED BY <1>9, <1>10

\* Whatever was sent about an actor is taken, and the other commands are kept.
Withdrawn(a) ==
    /\ \A t \in Shards, op \in ActorOps, b \in Actors :
          Sent(t, op, b)' <=> Sent(t, op, b) /\ b # a
    /\ \A t, to \in Shards : Asks(t, to)' => Asks(t, to)

\* An owner serves an actor it has the lease of, and that nothing else holds.
LEMMA Served ==
    ASSUME ServeInv, NEW s \in Shards, NEW a \in Actors,
           NEW tag \in Tags \ {"steal"}, NEW p \in Places, Has(a, tag, p),
           tag # "mail" => p = s, control[a].scheduler = s,
           invocation[a].at \in {"waiting", "resuming"},
           NEW outcome \in Outcomes(a), NEW ready, NEW armed, NEW asked,
           Finish(s, a, outcome, ready, armed, asked),
           ready = runnable[s] \ {a}, armed = timers[s] \ {a},
           asked = capabilities[s] \ {a},
           published' = [published EXCEPT ![a] = "none"],
           inbox' \in [Shards -> Seq(Commands)], InboxSingle', InboxGone',
           Withdrawn(a)
    PROVE  ServeInv'
<1>1. /\ Only(a, tag, p) /\ reply[a].kind = "None" /\ ActorInv(a) /\ Shape
      /\ published \in [Actors -> {"none", "resumed", "waited", "detached"}]
  BY Sole DEF ServeInv, ActorInv, Shape
<1>2. /\ invocation' = invocation /\ failure' = failure /\ helpers' = helpers
      /\ owner' = owner /\ work_policy' = work_policy /\ undrained' = undrained
  BY DEF Finish, callerVars
<1>3. /\ published'[a] = "none" /\ \A b \in Actors \ {a} : published'[b] = published[b]
      /\ published' \in [Actors -> {"none", "resumed", "waited", "detached"}]
  BY <1>1
<1>4. \A t \in Shards \ {s} : /\ a \notin runnable[t] /\ a \notin timers[t]
                              /\ a \notin capabilities[t] /\ a \notin routes[t]
  BY <1>1 DEF Only, ActorInv, RoutedAt
<1>5. FinishLeaves(s, a)
  BY <1>1, <1>4, FinishQueues
<1>6. PICK queue \in {"none", "run", "timer", "capability"} :
        /\ \A t \in Shards :
              /\ a \in runnable'[t] <=> t = s /\ queue = "run"
              /\ a \in timers'[t] <=> t = s /\ queue = "timer"
              /\ a \in capabilities'[t] <=> t = s /\ queue = "capability"
        /\ queue = "none" =>
              /\ reply'[a].kind # "None"
              /\ \/ control'[a] = Unregistered /\ a \notin routes'[s]
                 \/ control'[a] = [life |-> "Parked", scheduler |-> s]
        /\ queue = "run" => control'[a] = [life |-> "Queued", scheduler |-> s]
        /\ queue \in {"timer", "capability"} =>
              control'[a] = [life |-> "Parked", scheduler |-> s]
        /\ queue # "none" => /\ reply'[a] = reply[a]
                             /\ a \in routes'[s] /\ a \in resident'[s]
  BY <1>5 DEF FinishLeaves
<1>7. Shape'
  BY <1>1, <1>2, <1>3, <1>5 DEF Shape, FinishLeaves
<1>8. PolicyAt'
  BY <1>2, PolicyKept DEF ServeInv, ActorOps, Withdrawn
<1>9. \A b \in Actors : Stealing(b)' <=> Stealing(b)
  BY <1>2 DEF Stealing
<1>10. Onward /\ \A b \in Actors \ {a} : Untouched(b)
  BY <1>2, <1>3, <1>5, <1>9 DEF Onward, Untouched, Running, FinishLeaves,
                                           Withdrawn
<1>11. Only(a, queue, s)'
  BY <1>1, <1>3, <1>6, <1>9 DEF Only, ActorOps, Withdrawn
<1>12. AnswerOwed(a)'
  <2>1. CASE queue = "none"
    <3>1. ~Awaited(a)'
      BY <1>6, <2>1 DEF Awaited
    <3>2. Only(a, "none", Nowhere)'
      BY <1>11, <2>1 DEF Only
    <3> QED BY <3>1, <3>2, OwedByNone
  <2>2. CASE queue # "none"
    <3>1. Awaited(a)'
      BY <1>1, <1>2, <1>6, <2>2 DEF Awaited, Awaits, At
    <3>2. Has(a, queue, s)' /\ queue \in Tags
      BY <1>6, <2>2 DEF Has, Tags
    <3> QED BY <1>11, <3>1, <3>2, OwedByOne, Sizes
  <2> QED BY <2>1, <2>2
<1>13. RoutedAt(a)' /\ Directory(a)'
  <2>1. control'[a].life # "None" => control'[a].scheduler = s
    BY <1>6 DEF Unregistered
  <2>2. a \in routes'[s] => control'[a].life # "None"
    BY <1>6
  <2>3. \A t \in Shards : a \in routes'[t] => t = s
    BY <1>4, <1>5 DEF FinishLeaves
  <2> QED BY <1>2, <2>1, <2>2, <2>3 DEF RoutedAt, Directory, At
<1>14. OwedAt(a)'
  BY <1>6, <1>11 DEF Only, OwedAt, QueuedAt, ParkedAt
<1>15. PublishedAt(a)'
  BY <1>2, <1>3 DEF PublishedAt, At
<1>16. DrainsSent(a)' /\ Announced(a)'
  <2>1. a \notin helpers
    BY <1>1 DEF ActorInv, DrainsSent, PublishedAt, At
  <2> QED BY <1>2, <1>3, <2>1, NothingPublished DEF ActorOps, Withdrawn
<1> QED BY <1>7, <1>8, <1>10, <1>12, <1>13, <1>14, <1>15, <1>16, Advance DEF ActorInv

\* An owner runs the first slice of a new actor.
LEMMA HandleBeginServes ==
    ASSUME ServeInv, NEW s \in Shards, HandleBegin(s)
    PROVE  ServeInv'
<1> DEFINE c == Head(inbox[s])
<1>1. /\ Running(s) /\ inbox[s] # <<>> /\ c.op = "Begin" /\ TakeCommand(s)
      /\ published' = published
  BY DEF HandleBegin, Received, Top
<1>2. /\ c \in Commands
      /\ inbox' \in [Shards -> Seq(Commands)] /\ InboxSingle'
      /\ \A op \in ActorOps, a \in Actors :
            c = [op |-> op, actor |-> a] => Sent(s, op, a)
      /\ \A t \in Shards, op \in ActorOps, a \in Actors :
            Sent(t, op, a)' <=>
               Sent(t, op, a) /\ ~(t = s /\ c = [op |-> op, actor |-> a])
      /\ \A t, dest \in Shards :
            Asks(t, dest)' <=>
               Asks(t, dest) /\ ~(t = s /\ c = [op |-> "Detach", to |-> dest])
      /\ \A t \in Shards : t # s => inbox'[t] = inbox[t]
  BY <1>1, SentByTake DEF ServeInv, Shape
<1>3. PICK a \in Actors : a = c.actor /\ c = [op |-> "Begin", actor |-> a]
  <2> HIDE DEF c
  <2> QED BY <1>1, <1>2, CommandKinds DEF ActorOps
<1>4. PICK outcome \in Outcomes(a) :
         Finish(s, a, outcome, runnable[s], timers[s], capabilities[s])
  BY <1>3 DEF HandleBegin
<1>5. QueuedAt(a, s)
  BY <1>3 DEF HandleBegin
<1> HIDE DEF c
<1>6. Sent(s, "Begin", a) /\ Has(a, "begin", s)
  BY <1>2, <1>3 DEF ActorOps, Has
<1>7. /\ Only(a, "begin", s) /\ invocation[a].at \in {"waiting", "resuming"}
      /\ published[a] = "none" /\ \A t \in Shards : ~Sent(t, "Drain", a)
  BY <1>6, OwedUnpublished, Sizes DEF Tags
<1>8. /\ runnable[s] = runnable[s] \ {a} /\ timers[s] = timers[s] \ {a}
      /\ capabilities[s] = capabilities[s] \ {a}
  BY <1>7 DEF Only
<1>9. \A t, to \in Shards : Asks(t, to)' => Asks(t, to)
  BY <1>2
<1>10. published' = [published EXCEPT ![a] = "none"]
  BY <1>1, <1>7 DEF ServeInv, Shape
<1>11. Withdrawn(a)
  <2> SUFFICES ASSUME NEW t \in Shards, NEW op \in ActorOps, NEW b \in Actors
               PROVE  Sent(t, op, b)' <=> Sent(t, op, b) /\ b # a
    BY <1>9 DEF Withdrawn
  <2>1. Sent(t, op, b)' <=>
           Sent(t, op, b) /\ ~(t = s /\ c = [op |-> op, actor |-> b])
    BY <1>2
  <2>2. CASE b # a
    <3>1. c # [op |-> op, actor |-> b]
      <4>1. [op |-> op, actor |-> b].actor = b
        OBVIOUS
      <4> QED BY <1>3, <2>2, <4>1
    <3> QED BY <2>1, <2>2, <3>1
  <2>3. CASE b = a
    <3>1. Sent(t, op, a) => t = s /\ op = "Begin"
      BY <1>7 DEF Only, ActorOps
    <3> QED BY <1>3, <2>1, <2>3, <3>1
  <2> QED BY <2>2, <2>3
<1>12. InboxGone'
  <2>1. owner' = owner
    BY <1>4 DEF Finish
  <2> QED BY <1>1, <1>2, <2>1 DEF ServeInv, InboxGone, Running
<1>13. control[a].scheduler = s
  BY <1>5 DEF QueuedAt
<1>14. "begin" \in Tags \ {"steal"} /\ s \in Places
  BY Sizes DEF Tags
<1> QED BY <1>2, <1>4, <1>6, <1>7, <1>8, <1>9, <1>10, <1>11, <1>12, <1>13, <1>14, Served

\* A slice of an actor an owner retains: nothing was sent about it.
LEMMA SliceServes ==
    ASSUME ServeInv, NEW s \in Shards, NEW a \in Actors,
           NEW tag \in {"run", "timer", "capability"}, Has(a, tag, s),
           control[a].scheduler = s,
           NEW outcome \in Outcomes(a), NEW ready, NEW armed, NEW asked,
           Finish(s, a, outcome, ready, armed, asked),
           ready = runnable[s] \ {a}, armed = timers[s] \ {a},
           asked = capabilities[s] \ {a},
           published' = published, inbox' = inbox
    PROVE  ServeInv'
<1>1. tag \in Tags \ {"steal"} /\ tag # "mail" /\ s \in Places
  BY Sizes DEF Tags
<1>2. /\ Only(a, tag, s) /\ invocation[a].at \in {"waiting", "resuming"}
      /\ published[a] = "none" /\ \A t \in Shards : ~Sent(t, "Drain", a)
  BY <1>1, OwedUnpublished
<1>3. owner' = owner
  BY DEF Finish
<1>4. /\ InboxSingle' /\ InboxGone'
      /\ \A t \in Shards, op \in ActorOps, b \in Actors :
            Sent(t, op, b)' <=> Sent(t, op, b)
      /\ \A t, to \in Shards : Asks(t, to)' <=> Asks(t, to)
  BY <1>3, InboxKept DEF ServeInv
<1>5. \A t \in Shards, op \in ActorOps : ~Sent(t, op, a)
  BY <1>2 DEF Only, ActorOps
<1>6. Withdrawn(a)
  BY <1>4, <1>5 DEF Withdrawn
<1>7. published' = [published EXCEPT ![a] = "none"]
  BY <1>2 DEF ServeInv, Shape
<1>8. inbox' \in [Shards -> Seq(Commands)]
  BY DEF ServeInv, Shape
<1> QED BY <1>1, <1>2, <1>4, <1>6, <1>7, <1>8, Served

\* An owner runs a slice of an actor it retains: one that is runnable, whose
\* timer is due, or whose capability completed.
LEMMA RetainedServes ==
    ASSUME ServeInv, NEW s \in Shards, NEW a \in Actors,
           ServiceRunnable(s, a) \/ FireTimer(s, a) \/ CompleteCapability(s, a)
    PROVE  ServeInv'
<1>1. published' = published /\ inbox' = inbox
  BY DEF ServiceRunnable, FireTimer, CompleteCapability
<1>2. ASSUME NEW tag \in {"run", "timer", "capability"}, Has(a, tag, s)
      PROVE  /\ tag # "run" => runnable[s] = runnable[s] \ {a}
             /\ tag # "timer" => timers[s] = timers[s] \ {a}
             /\ tag # "capability" => capabilities[s] = capabilities[s] \ {a}
  <2>1. Only(a, tag, s)
    BY <1>2, OwedUnpublished, Sizes DEF Tags
  <2> QED BY <2>1 DEF Only
<1>3. CASE ServiceRunnable(s, a)
  <2>1. /\ Has(a, "run", s) /\ control[a].scheduler = s
        /\ \E outcome \in Outcomes(a) :
              Finish(s, a, outcome, runnable[s] \ {a}, timers[s], capabilities[s])
    BY <1>3 DEF ServiceRunnable, Has, QueuedAt
  <2>2. timers[s] = timers[s] \ {a} /\ capabilities[s] = capabilities[s] \ {a}
    BY <1>2, <2>1
  <2>3. PICK outcome \in Outcomes(a) :
           Finish(s, a, outcome, runnable[s] \ {a}, timers[s], capabilities[s])
    BY <2>1
  <2> QED BY <1>1, <2>1, <2>2, <2>3, SliceServes
<1>4. CASE FireTimer(s, a)
  <2>1. /\ Has(a, "timer", s) /\ control[a].scheduler = s
        /\ \E outcome \in Outcomes(a) :
              Finish(s, a, outcome, runnable[s], timers[s] \ {a}, capabilities[s])
    BY <1>4 DEF FireTimer, Has, ParkedAt
  <2>2. runnable[s] = runnable[s] \ {a} /\ capabilities[s] = capabilities[s] \ {a}
    BY <1>2, <2>1
  <2>3. PICK outcome \in Outcomes(a) :
           Finish(s, a, outcome, runnable[s], timers[s] \ {a}, capabilities[s])
    BY <2>1
  <2> QED BY <1>1, <2>1, <2>2, <2>3, SliceServes
<1>5. CASE CompleteCapability(s, a)
  <2>1. /\ Has(a, "capability", s) /\ control[a].scheduler = s
        /\ \E outcome \in Outcomes(a) :
              Finish(s, a, outcome, runnable[s], timers[s], capabilities[s] \ {a})
    BY <1>5 DEF CompleteCapability, Has, ParkedAt
  <2>2. runnable[s] = runnable[s] \ {a} /\ timers[s] = timers[s] \ {a}
    BY <1>2, <2>1
  <2>3. PICK outcome \in Outcomes(a) :
           Finish(s, a, outcome, runnable[s], timers[s], capabilities[s] \ {a})
    BY <2>1
  <2> QED BY <1>1, <2>1, <2>2, <2>3, SliceServes
<1> QED BY <1>3, <1>4, <1>5

\* An owner drains a publication.
LEMMA HandleDrainServes ==
    ASSUME ServeInv, NEW s \in Shards, HandleDrain(s)
    PROVE  ServeInv'
<1> DEFINE c == Head(inbox[s])
<1>1. /\ Running(s) /\ inbox[s] # <<>> /\ c.op = "Drain" /\ TakeCommand(s)
  BY DEF HandleDrain, Received, Top
<1>2. /\ c \in Commands
      /\ inbox' \in [Shards -> Seq(Commands)] /\ InboxSingle'
      /\ \A op \in ActorOps, a \in Actors :
            c = [op |-> op, actor |-> a] => Sent(s, op, a)
      /\ \A t \in Shards, op \in ActorOps, a \in Actors :
            Sent(t, op, a)' <=>
               Sent(t, op, a) /\ ~(t = s /\ c = [op |-> op, actor |-> a])
      /\ \A t, dest \in Shards :
            Asks(t, dest)' <=>
               Asks(t, dest) /\ ~(t = s /\ c = [op |-> "Detach", to |-> dest])
      /\ \A t \in Shards : t # s => inbox'[t] = inbox[t]
  BY <1>1, SentByTake DEF ServeInv, Shape
<1>3. PICK a \in Actors : a = c.actor /\ c = [op |-> "Drain", actor |-> a]
  <2> HIDE DEF c
  <2> QED BY <1>1, <1>2, CommandKinds DEF ActorOps
<1>4. /\ QueuedAt(a, s) /\ published[a] # "none"
      /\ published' = [published EXCEPT ![a] = "none"]
      /\ \/ /\ published[a] = "resumed"
            /\ \E outcome \in Outcomes(a) :
                  Finish(s, a, outcome, runnable[s], timers[s], capabilities[s])
         \/ published[a] # "resumed" /\ Cancel(s, a)
  BY <1>3 DEF HandleDrain
<1> HIDE DEF c
<1>5. Sent(s, "Drain", a)
  BY <1>2, <1>3 DEF ActorOps
<1>6. /\ ActorInv(a) /\ s = invocation[a].route /\ a \notin helpers
      /\ published[a] \in {"resumed", "waited", "detached"}
      /\ published[a] = "resumed" => At(a, "resuming")
      /\ published[a] = "waited" => At(a, "cancelling")
      /\ published[a] = "detached" => At(a, "done")
      /\ \A t \in Shards : Sent(t, "Drain", a) => t = s
  <2>1. /\ ActorInv(a) /\ published[a] \in {"none", "resumed", "waited", "detached"}
    BY DEF ServeInv, Shape
  <2> QED BY <1>4, <1>5, <2>1 DEF ActorInv, DrainsSent, PublishedAt
<1>7. owner' = owner
  BY <1>4 DEF Finish, Cancel
<1>8. InboxGone'
  BY <1>1, <1>2, <1>7 DEF ServeInv, InboxGone, Running
<1>9. ASSUME NEW tag, NEW p, Only(a, tag, p), tag \in {"mail", "none"}
      PROVE  /\ Withdrawn(a)
             /\ runnable[s] = runnable[s] \ {a} /\ timers[s] = timers[s] \ {a}
             /\ capabilities[s] = capabilities[s] \ {a}
  <2>1. ASSUME NEW t \in Shards, NEW op \in ActorOps, NEW b \in Actors
        PROVE  Sent(t, op, b)' <=> Sent(t, op, b) /\ b # a
    <3>1. Sent(t, op, b)' <=>
             Sent(t, op, b) /\ ~(t = s /\ c = [op |-> op, actor |-> b])
      BY <1>2
    <3>2. CASE b # a
      <4>1. c # [op |-> op, actor |-> b]
        <5>1. [op |-> op, actor |-> b].actor = b
          OBVIOUS
        <5> QED BY <1>3, <3>2, <5>1
      <4> QED BY <3>1, <3>2, <4>1
    <3>3. CASE b = a
      <4>1. Sent(t, op, a) => t = s /\ op = "Drain"
        BY <1>6, <1>9 DEF Only, ActorOps
      <4> QED BY <1>3, <3>1, <3>3, <4>1
    <3> QED BY <3>2, <3>3
  <2>2. \A t, to \in Shards : Asks(t, to)' => Asks(t, to)
    BY <1>2
  <2>3. a \notin runnable[s] /\ a \notin timers[s] /\ a \notin capabilities[s]
    BY <1>9 DEF Only
  <2> QED BY <2>1, <2>2, <2>3 DEF Withdrawn
<1>10. CASE published[a] = "resumed"
  <2>1. Has(a, "mail", Nowhere)
    BY <1>6, <1>10 DEF Has, Awaits
  <2>2. Only(a, "mail", Nowhere)
    BY <1>6, <2>1, Sole, Sizes DEF ActorInv, Tags
  <2>3. /\ Withdrawn(a)
        /\ runnable[s] = runnable[s] \ {a} /\ timers[s] = timers[s] \ {a}
        /\ capabilities[s] = capabilities[s] \ {a}
    BY <1>9, <2>2
  <2>4. PICK outcome \in Outcomes(a) :
           Finish(s, a, outcome, runnable[s], timers[s], capabilities[s])
    BY <1>4, <1>10
  <2>5. /\ "mail" \in Tags \ {"steal"} /\ Nowhere \in Places
        /\ control[a].scheduler = s /\ invocation[a].at \in {"waiting", "resuming"}
    BY <1>4, <1>6, <1>10, Sizes DEF Tags, QueuedAt, At
  <2> QED BY <1>2, <1>4, <1>8, <2>1, <2>3, <2>4, <2>5, Served
<1>11. CASE published[a] # "resumed"
  <2>1. /\ control' = [control EXCEPT ![a] = Unregistered]
        /\ routes' = [routes EXCEPT ![s] = @ \ {a}]
        /\ resident' = [resident EXCEPT ![s] = @ \ {a}]
        /\ reply' = IF published[a] = "waited"
                    THEN [reply EXCEPT ![a] = [kind |-> "Cancelled", scheduler |-> s]]
                    ELSE reply
        /\ invocation' = invocation /\ failure' = failure /\ helpers' = helpers
        /\ runnable' = runnable /\ timers' = timers /\ capabilities' = capabilities
        /\ work_policy' = work_policy /\ undrained' = undrained
    BY <1>4, <1>11 DEF Cancel, Remove, callerVars
  <2>2. ~Awaits(a) /\ ~Awaits(a)'
    BY <1>6, <1>11, <2>1 DEF Awaits, At
  <2>3. Only(a, "none", Nowhere)
    BY <1>6, <2>2, NoneOwed DEF ActorInv, Awaited
  <2>4. Withdrawn(a)
    BY <1>9, <2>3
  <2>5. /\ control' \in [Actors -> [life : {"None", "Queued", "Parked"},
                                    scheduler : Places]]
        /\ control'[a].life = "None" /\ \A b \in Actors \ {a} : control'[b] = control[b]
    <3>1. /\ Unregistered \in [life : {"None", "Queued", "Parked"}, scheduler : Places]
          /\ Unregistered.life = "None"
      BY Sizes DEF Unregistered
    <3> QED BY <2>1, <3>1 DEF ServeInv, Shape
  <2>6. /\ routes' \in [Shards -> SUBSET Actors]
        /\ resident' \in [Shards -> SUBSET Actors]
        /\ \A t \in Shards : a \in routes'[t] => a \in routes[t] /\ t # s
        /\ \A t \in Shards, b \in Actors \ {a} :
              /\ b \in routes'[t] <=> b \in routes[t]
              /\ b \in resident'[t] <=> b \in resident[t]
    BY <2>1 DEF ServeInv, Shape
  <2>7. reply' \in [Actors -> Replies] /\ \A b \in Actors \ {a} : reply'[b] = reply[b]
    BY <2>1, Sizes DEF ServeInv, Shape, Replies
  <2>8. /\ published'[a] = "none"
        /\ published' \in [Actors -> {"none", "resumed", "waited", "detached"}]
        /\ \A b \in Actors \ {a} : published'[b] = published[b]
    BY <1>4 DEF ServeInv, Shape
  <2>9. Shape'
    BY <1>2, <1>7, <2>1, <2>5, <2>6, <2>7, <2>8 DEF ServeInv, Shape
  <2>10. PolicyAt'
    BY <2>1, <2>4, PolicyKept DEF ServeInv, ActorOps, Withdrawn
  <2>11. \A b \in Actors : Stealing(b)' <=> Stealing(b)
    BY <2>1 DEF Stealing
  <2>12. Onward /\ \A b \in Actors \ {a} : Untouched(b)
    BY <1>7, <2>1, <2>4, <2>5, <2>6, <2>7, <2>8, <2>11
       DEF Onward, Untouched, Running, Withdrawn
  <2>13. AnswerOwed(a)' /\ OwedAt(a)'
    <3>1. Only(a, "none", Nowhere)'
      BY <2>1, <2>2, <2>3, <2>4, <2>11 DEF Only, ActorOps, Withdrawn
    <3> QED BY <2>2, <3>1, OwedByNone, OwedNowhere DEF Awaited
  <2>14. RoutedAt(a)'
    BY <1>4, <1>6, <2>6 DEF RoutedAt, ActorInv, QueuedAt
  <2>15. Directory(a)' /\ PublishedAt(a)'
    BY <1>6, <1>11, <2>1, <2>5, <2>8 DEF Directory, PublishedAt, At
  <2>16. DrainsSent(a)' /\ Announced(a)'
    BY <1>6, <2>1, <2>4, <2>8, NothingPublished DEF ActorOps, Withdrawn
  <2> QED BY <1>2, <1>8, <2>9, <2>10, <2>12, <2>13, <2>14, <2>15, <2>16, Advance
          DEF ActorInv
<1> QED BY <1>10, <1>11

-----------------------------------------------------------------------------
(* An owner stops *)

\* A shutdown is sent to an owner.
LEMMA ShutdownServes ==
    ASSUME ServeInv, NEW s \in Shards, Shutdown(s)
    PROVE  ServeInv'
<1> DEFINE c == [op |-> "Shutdown"]
<1>1. /\ Running(s) /\ Send(s, c)
      /\ OwnersKept /\ invocation' = invocation /\ helpers' = helpers
      /\ reply' = reply /\ published' = published /\ control' = control
      /\ failure' = failure /\ work_policy' = work_policy
  BY DEF Shutdown, OwnersKept, sharedVars, callerVars
<1>2. /\ c \in Commands /\ c.op = "Shutdown" /\ c.op \notin ActorOps
      /\ \A t \in Shards : c # [op |-> "Detach", to |-> t]
  <2>1. \A t \in Shards : [op |-> "Detach", to |-> t].op = "Detach"
    OBVIOUS
  <2>2. c \in Commands /\ c.op = "Shutdown" /\ c.op \notin ActorOps
    BY DEF Commands, ActorOps
  <2> HIDE DEF c
  <2> QED BY <2>1, <2>2
<1> HIDE DEF c
<1>3. /\ inbox' \in [Shards -> Seq(Commands)] /\ InboxSingle'
      /\ \A t \in Shards, op \in ActorOps, b \in Actors :
            Sent(t, op, b)' <=> Sent(t, op, b) \/ (t = s /\ c.op = op /\ c.actor = b)
      /\ \A t, dest \in Shards :
            Asks(t, dest)' <=> Asks(t, dest)
                               \/ (t = s /\ c = [op |-> "Detach", to |-> dest])
      /\ \A t \in Shards : t # s => inbox'[t] = inbox[t]
  BY <1>1, <1>2, SentBySend DEF ServeInv, Shape
<1>4. /\ \A t \in Shards, op \in ActorOps, b \in Actors :
            Sent(t, op, b)' <=> Sent(t, op, b)
      /\ \A t, dest \in Shards : Asks(t, dest)' <=> Asks(t, dest)
  BY <1>2, <1>3
<1>5. PolicyAt'
  BY <1>1, <1>4, PolicyKept DEF ServeInv, ActorOps
<1>6. InboxGone'
  BY <1>1, <1>3 DEF ServeInv, InboxGone, Running, OwnersKept
<1>7. Shape'
  BY <1>1, <1>3 DEF ServeInv, Shape, OwnersKept
<1>8. \A b \in Actors : Stealing(b)' <=> Stealing(b)
  BY <1>1 DEF Stealing
<1>9. Onward /\ \A b \in Actors : Untouched(b)
  BY <1>1, <1>4, <1>8 DEF Onward, Untouched, Running, OwnersKept
<1> QED BY <1>3, <1>5, <1>6, <1>7, <1>9, AdvanceAll

\* An owner holds the reply channels of what it retains and of what it was sent.
LEMMA HoldsMeans ==
    ASSUME Shape, NEW s \in Shards, NEW b \in Actors
    PROVE  b \in Holds(s) <=> \/ b \in runnable[s] \/ b \in timers[s]
                              \/ b \in capabilities[s]
                              \/ Sent(s, "Begin", b) \/ Sent(s, "Import", b)
BY DEF Holds, Sent

\* The owner goes with its inbox and its queues: whoever waited there is told.
LEMMA OwnerStops ==
    ASSUME ServeInv, NEW s \in Shards, NEW state \in {"stopped", "panicked"},
           owner' = [owner EXCEPT ![s] = state],
           failure' \in BOOLEAN, failure => failure', ShardDropped(s),
           UNCHANGED <<invocation, published, helpers, work_policy, undrained>>,
           reply' \in [Actors -> Replies],
           \A b \in Actors : IF b \in Holds(s) THEN reply'[b].kind # "None"
                                              ELSE reply'[b] = reply[b],
           control' \in [Actors -> [life : {"None", "Queued", "Parked"},
                                   scheduler : Places]],
           \A b \in Actors : control'[b] # control[b] =>
              b \in runnable[s] \cup timers[s] /\ control'[b] = Unregistered
    PROVE  ServeInv'
<1>1. /\ inbox' = [inbox EXCEPT ![s] = <<>>]
      /\ routes' = [routes EXCEPT ![s] = {}] /\ resident' = [resident EXCEPT ![s] = {}]
      /\ runnable' = [runnable EXCEPT ![s] = {}] /\ timers' = [timers EXCEPT ![s] = {}]
      /\ capabilities' = [capabilities EXCEPT ![s] = {}]
  BY DEF ShardDropped
<1>2. /\ inbox' \in [Shards -> Seq(Commands)]
      /\ InboxSingle' /\ inbox'[s] = <<>>
      /\ \A t \in Shards, op \in ActorOps, b \in Actors :
            Sent(t, op, b)' <=> t # s /\ Sent(t, op, b)
      /\ \A t, to \in Shards : Asks(t, to)' <=> t # s /\ Asks(t, to)
      /\ \A t \in Shards : t # s => inbox'[t] = inbox[t]
  BY <1>1, SentByDrop DEF ServeInv, Shape
<1>3. /\ routes' \in [Shards -> SUBSET Actors]
      /\ resident' \in [Shards -> SUBSET Actors]
      /\ runnable' \in [Shards -> SUBSET Actors]
      /\ timers' \in [Shards -> SUBSET Actors]
      /\ capabilities' \in [Shards -> SUBSET Actors]
      /\ \A t \in Shards, b \in Actors :
            /\ b \in routes'[t] <=> t # s /\ b \in routes[t]
            /\ b \in resident'[t] <=> t # s /\ b \in resident[t]
            /\ b \in runnable'[t] <=> t # s /\ b \in runnable[t]
            /\ b \in timers'[t] <=> t # s /\ b \in timers[t]
            /\ b \in capabilities'[t] <=> t # s /\ b \in capabilities[t]
  BY <1>1 DEF ServeInv, Shape
<1>4. /\ owner' \in [Shards -> {"running", "stopped", "panicked"}] /\ ~Running(s)'
      /\ \A t \in Shards : t # s => (Running(t)' <=> Running(t))
  BY DEF ServeInv, Shape, Running
<1>5. Shape'
  BY <1>2, <1>3, <1>4 DEF ServeInv, Shape
<1>6. InboxGone'
  BY <1>2, <1>4 DEF ServeInv, InboxGone
<1>7. PolicyAt'
  BY <1>2, PolicyKept DEF ServeInv, ActorOps
<1>8. ASSUME NEW b \in Actors PROVE ActorInv(b)'
  <2>1. /\ ActorInv(b) /\ Shape
        /\ (Stealing(b)' <=> Stealing(b)) /\ (Awaits(b)' <=> Awaits(b))
    BY DEF ServeInv, Stealing, Awaits, At
  <2>2. CASE b \in Holds(s)
    <3>1. PICK tag \in {"begin", "import", "run", "timer", "capability"} :
             Has(b, tag, s)
      <4>1. \/ Has(b, "run", s) \/ Has(b, "timer", s) \/ Has(b, "capability", s)
            \/ Has(b, "begin", s) \/ Has(b, "import", s)
        BY <2>1, <2>2, HoldsMeans DEF Has
      <4> QED BY <4>1
    <3>2. /\ Only(b, tag, s) /\ published[b] = "none" /\ b \notin helpers
          /\ invocation[b].at \in {"waiting", "resuming"}
          /\ \A t \in Shards : ~Sent(t, "Drain", b)
      BY <3>1, OwedUnpublished, Sizes DEF Tags
    <3>3. control[b].scheduler = s
      <4>1. QueuedAt(b, s) \/ ParkedAt(b, s)
        BY <2>1, <2>2, HoldsMeans DEF ActorInv, OwedAt
      <4> QED BY <4>1 DEF QueuedAt, ParkedAt
    <3>4. \A t \in Shards : b \notin routes'[t]
      BY <1>3, <2>1, <3>3 DEF ActorInv, RoutedAt
    <3>5. AnswerOwed(b)' /\ OwedAt(b)'
      <4>1. ~Awaited(b)'
        BY <2>2 DEF Awaited
      <4>2. Only(b, "none", Nowhere)'
        BY <1>2, <1>3, <2>1, <3>1, <3>2 DEF Only, ActorOps
      <4> QED BY <4>1, <4>2, OwedByNone, OwedNowhere
    <3>6. RoutedAt(b)'
      BY <3>4 DEF RoutedAt
    <3>7. Directory(b)'
      BY <2>1, <3>2, <3>4 DEF ActorInv, Directory, At, Unregistered
    <3>8. PublishedAt(b)'
      BY <3>2 DEF PublishedAt, At
    <3>9. DrainsSent(b)' /\ Announced(b)'
      BY <1>2, <3>2, NothingPublished DEF ActorOps
    <3> QED BY <3>5, <3>6, <3>7, <3>8, <3>9 DEF ActorInv
  <2>3. CASE b \notin Holds(s)
    <3>1. /\ b \notin runnable[s] /\ b \notin timers[s] /\ b \notin capabilities[s]
          /\ ~Sent(s, "Begin", b) /\ ~Sent(s, "Import", b)
      BY <2>1, <2>3, HoldsMeans
    <3>2. control'[b] = control[b] /\ reply'[b] = reply[b]
      BY <2>3, <3>1
    <3>3. \A t \in Shards :
            /\ Sent(t, "Begin", b)' <=> Sent(t, "Begin", b)
            /\ Sent(t, "Import", b)' <=> Sent(t, "Import", b)
            /\ b \in runnable'[t] <=> b \in runnable[t]
            /\ b \in timers'[t] <=> b \in timers[t]
            /\ b \in capabilities'[t] <=> b \in capabilities[t]
      BY <1>2, <1>3, <3>1 DEF ActorOps
    <3>4. AnswerOwed(b)'
      <4>1. Awaited(b)' <=> Awaited(b)
        BY <2>1, <3>2 DEF Awaited
      <4>2. \A tag \in Tags, t \in Places : Has(b, tag, t)' <=> Has(b, tag, t)
        BY <2>1, <3>3 DEF Has
      <4> QED BY <2>1, <4>1, <4>2, OwedKept DEF ActorInv
    <3>5. RoutedAt(b)' /\ Directory(b)'
      BY <1>3, <2>1, <3>2, HomeIsShard DEF ActorInv, RoutedAt, Directory, At, Registered
    <3>6. OwedAt(b)'
      <4>1. \A t \in Shards :
              b \in runnable'[t] \cup timers'[t] \cup capabilities'[t] => t # s
        BY <1>3
      <4>2. \A t \in Shards : /\ b \in routes'[t] => b \in routes[t]
                              /\ t # s => (b \in routes'[t] <=> b \in routes[t])
                              /\ t # s => (b \in resident'[t] <=> b \in resident[t])
        BY <1>3
      <4>3. Stealing(b) => work_policy.to \in Shards
        BY DEF ServeInv, PolicyAt, Stealing
      <4> QED BY <2>1, <3>2, <3>3, <4>1, <4>2, <4>3
              DEF ActorInv, OwedAt, QueuedAt, ParkedAt
    <3>7. PublishedAt(b)'
      BY <2>1, <3>2 DEF ActorInv, PublishedAt, At, QueuedAt
    <3>8. DrainsSent(b)'
      BY <1>2, <2>1 DEF ActorInv, DrainsSent, At, ActorOps
    <3>9. Announced(b)'
      <4>1. published[b] # "none" => invocation[b].route \in Shards
        BY <2>1 DEF ActorInv, PublishedAt, QueuedAt, Directory
      <4> QED BY <1>2, <1>4, <2>1, <4>1 DEF ActorInv, Announced, At, ActorOps
    <3> QED BY <3>4, <3>5, <3>6, <3>7, <3>8, <3>9 DEF ActorInv
  <2> QED BY <2>2, <2>3
<1> QED BY <1>2, <1>5, <1>6, <1>7, <1>8 DEF ServeInv

\* An owner panics, and its commands are dropped with it.
LEMMA PanicServes ==
    ASSUME ServeInv, NEW s \in Shards, Panic(s)
    PROVE  ServeInv'
<1>1. /\ owner' = [owner EXCEPT ![s] = "panicked"] /\ failure' = TRUE
      /\ reply' = [a \in Actors |-> IF a \in Holds(s)
                                     THEN [kind |-> "Disconnected", scheduler |-> s]
                                     ELSE reply[a]]
      /\ ShardDropped(s)
      /\ UNCHANGED <<invocation, published, helpers, work_policy, undrained>>
      /\ control' = control
  BY DEF Panic, callerVars
<1>2. [kind |-> "Disconnected", scheduler |-> s] \in Replies
  BY Sizes DEF Replies
<1>3. reply' \in [Actors -> Replies]
  BY <1>1, <1>2 DEF ServeInv, Shape
<1>4. \A b \in Actors : IF b \in Holds(s) THEN reply'[b].kind # "None"
                                         ELSE reply'[b] = reply[b]
  BY <1>1
<1>5. control' \in [Actors -> [life : {"None", "Queued", "Parked"}, scheduler : Places]]
  BY <1>1 DEF ServeInv, Shape
<1>6. /\ failure' \in BOOLEAN /\ (failure => failure')
      /\ \A b \in Actors : control'[b] = control[b]
  BY <1>1
<1> QED BY <1>1, <1>3, <1>4, <1>5, <1>6, OwnerStops

\* An owner shuts down and answers what it retains.
LEMMA HandleShutdownServes ==
    ASSUME ServeInv, NEW s \in Shards, HandleShutdown(s)
    PROVE  ServeInv'
<1> DEFINE told == runnable[s] \cup timers[s] \cup capabilities[s]
<1>1. /\ owner' = [owner EXCEPT ![s] = "stopped"] /\ failure' = failure
      /\ control' = [a \in Actors |-> IF a \in Cancellable(s) THEN Unregistered
                                                               ELSE control[a]]
      /\ reply' = [a \in Actors |->
            IF a \in told THEN [kind |-> "Err", scheduler |-> s]
            ELSE IF a \in Holds(s) THEN [kind |-> "Disconnected", scheduler |-> s]
            ELSE reply[a]]
      /\ ShardDropped(s)
      /\ UNCHANGED <<invocation, published, helpers, work_policy, undrained>>
  BY DEF HandleShutdown, callerVars
<1>2. /\ [kind |-> "Disconnected", scheduler |-> s] \in Replies
      /\ [kind |-> "Err", scheduler |-> s] \in Replies
      /\ Unregistered \in [life : {"None", "Queued", "Parked"}, scheduler : Places]
  BY Sizes DEF Replies, Unregistered
<1>3. told \subseteq Holds(s)
  BY DEF Holds
<1> HIDE DEF told
<1>4. reply' \in [Actors -> Replies]
  BY <1>1, <1>2 DEF ServeInv, Shape
<1>5. \A b \in Actors : IF b \in Holds(s) THEN reply'[b].kind # "None"
                                         ELSE reply'[b] = reply[b]
  BY <1>1, <1>3
<1>6. control' \in [Actors -> [life : {"None", "Queued", "Parked"}, scheduler : Places]]
  BY <1>1, <1>2 DEF ServeInv, Shape
<1>7. \A b \in Actors : control'[b] # control[b] =>
         b \in runnable[s] \cup timers[s] /\ control'[b] = Unregistered
  BY <1>1 DEF Cancellable
<1>8. failure' \in BOOLEAN /\ (failure => failure')
  BY <1>1 DEF ServeInv, Shape
<1> QED BY <1>1, <1>4, <1>5, <1>6, <1>7, <1>8, OwnerStops

-----------------------------------------------------------------------------
(* The theorems *)

\* At first there is no request.
LEMMA InitServes ==
    ASSUME Init
    PROVE  ServeInv
<1>1. Shape
  <2>1. /\ [at |-> "new", route |-> Nowhere] \in [at : Phases, route : Places]
        /\ NoReply \in Replies
        /\ Unregistered \in [life : {"None", "Queued", "Parked"}, scheduler : Places]
        /\ IdlePolicy \in [phase : {"idle", "detaching", "detached", "importing",
                                    "rejected", "restoring"},
                           by : 0 .. MaxActors, from : Places, to : Places,
                           actor : 0 .. MaxActors]
    BY Sizes DEF Phases, Replies, NoReply, Unregistered, IdlePolicy
  <2>2. <<>> \in Seq(Commands)
    OBVIOUS
  <2> QED BY <2>1, <2>2 DEF Init, Shape
<1>2. /\ \A s \in Shards : inbox[s] = <<>> /\ DOMAIN inbox[s] = {}
      /\ work_policy.phase = "idle"
  BY DEF Init, IdlePolicy
<1>3. InboxSingle /\ InboxGone
  BY <1>2 DEF InboxSingle, InboxGone
<1>4. /\ \A s \in Shards, op \in ActorOps, a \in Actors : ~Sent(s, op, a)
      /\ \A s, to \in Shards : ~Asks(s, to)
  BY <1>2 DEF Sent, Asks
<1>5. PolicyAt
  BY <1>2, <1>4 DEF PolicyAt, ActorOps
<1>6. ASSUME NEW a \in Actors PROVE ActorInv(a)
  <2>1. /\ At(a, "new") /\ reply[a].kind = "None" /\ published[a] = "none"
        /\ control[a].life = "None" /\ helpers = {} /\ ~Stealing(a) /\ ~Awaits(a)
        /\ \A s \in Shards : /\ routes[s] = {} /\ runnable[s] = {} /\ timers[s] = {}
                              /\ capabilities[s] = {}
    BY DEF Init, At, NoReply, Unregistered, Stealing, Awaits, IdlePolicy
  <2>2. AnswerOwed(a)
    BY <1>4, <2>1 DEF AnswerOwed, AtMostOneOwed, Has, Awaited, ActorOps
  <2>3. RoutedAt(a) /\ Directory(a) /\ OwedAt(a)
    BY <1>4, <2>1 DEF RoutedAt, Directory, OwedAt, At, ActorOps
  <2>4. PublishedAt(a) /\ DrainsSent(a) /\ Announced(a)
    BY <1>4, <2>1 DEF PublishedAt, DrainsSent, Announced, At, ActorOps
  <2> QED BY <2>2, <2>3, <2>4 DEF ActorInv
<1> QED BY <1>1, <1>3, <1>5, <1>6 DEF ServeInv

\* Nothing happens.
LEMMA StutterServes ==
    ASSUME ServeInv, UNCHANGED vars
    PROVE  ServeInv'
<1>1. /\ UNCHANGED <<invocation, reply, control, published, helpers, failure, inbox,
                     work_policy>>
      /\ OwnersKept
  BY DEF vars, callerVars, sharedVars, ownerVars, OwnersKept
<1>2. /\ InboxSingle' /\ InboxGone'
      /\ \A t \in Shards, op \in ActorOps, b \in Actors :
            Sent(t, op, b)' <=> Sent(t, op, b)
      /\ \A t, to \in Shards : Asks(t, to)' <=> Asks(t, to)
  BY <1>1, InboxKept DEF ServeInv, OwnersKept
<1>3. PolicyAt'
  BY <1>1, <1>2, PolicyKept DEF ServeInv, ActorOps
<1>4. Shape'
  BY <1>1 DEF ServeInv, Shape, OwnersKept
<1>5. \A b \in Actors : Stealing(b)' <=> Stealing(b)
  BY <1>1 DEF Stealing
<1>6. Onward /\ \A b \in Actors : Untouched(b)
  BY <1>1, <1>2, <1>5 DEF Onward, Untouched, Running, OwnersKept
<1> QED BY <1>2, <1>3, <1>4, <1>6, AdvanceAll

\* Every step keeps the invariant.
LEMMA NextServes ==
    ASSUME ServeInv, [Next]_vars
    PROVE  ServeInv'
<1>1. ASSUME NEW a \in Actors, CallerStep(a) PROVE ServeInv'
  BY <1>1, RouteNewActorServes, RegisterServes, SendBeginServes, BeginRefusedServes,
     ReceiveServes, PublishWakeServes, SendDrainServes, PublicationFailsServes,
     DropInvocationServes, HelperSendsServes, StartStealServes DEF CallerStep
<1>2. ASSUME ThiefStep PROVE ServeInv'
  BY <1>2, SendImportServes, SendImportFailsServes, RollBackServes, StealLostServes
     DEF ThiefStep
<1>3. ASSUME NEW s \in Shards, OwnerStep(s) \/ Panic(s) \/ Shutdown(s) PROVE ServeInv'
  BY <1>3, HandleBeginServes, HandleDrainServes, HandleDetachServes, HandleImportServes,
     HandleShutdownServes, RetainedServes, PanicServes, ShutdownServes
     DEF OwnerStep, CommandStep
<1>4. ASSUME NEW s \in Shards, NEW a \in Actors, EventStep(s, a) PROVE ServeInv'
  BY <1>4, RetainedServes DEF EventStep
<1>5. CASE UNCHANGED vars
  BY <1>5, StutterServes
<1> QED BY <1>1, <1>2, <1>3, <1>4, <1>5 DEF Next

\* The inductive invariant holds in every state.
LEMMA Serves == Spec => []ServeInv
<1>1. Init => ServeInv
  BY InitServes
<1>2. ServeInv /\ [Next]_vars => ServeInv'
  BY NextServes
<1> QED BY <1>1, <1>2, PTL DEF Spec

\* Whatever owes an answer is one of the things Has names, and nothing else.
LEMMA OwedIsHas ==
    ASSUME NEW a \in Actors
    PROVE  \A x : x \in Owed(a) <=>
              \E tag \in Tags, s \in Places : x = <<s, tag>> /\ Has(a, tag, s)
BY Sizes DEF Owed, Has, Tags

\* A request that waits for its reply is owed it exactly once, by one command, one
\* publication, one queue or one envelope (begin_target_invocation, owner_loop.rs,
\* rebalance_generated_queues), for any number of shards, actors and faults.
THEOREM AnswersAreOwedOnce == Spec => []OwedOnce
<1>1. ASSUME ServeInv, NEW a \in Actors
      PROVE  Cardinality(Owed(a)) =
                IF Awaits(a) /\ reply[a].kind = "None" THEN 1 ELSE 0
  <2>1. AnswerOwed(a)
    BY <1>1 DEF ServeInv, ActorInv
  <2>2. CASE Awaited(a)
    <3>1. PICK tag \in Tags, s \in Places : Has(a, tag, s)
      BY <2>1, <2>2 DEF AnswerOwed
    <3>2. \A x : x \in Owed(a) <=> x = <<s, tag>>
      BY <2>1, <3>1, OwedIsHas DEF AnswerOwed, AtMostOneOwed
    <3>3. Owed(a) = {<<s, tag>>}
      BY <3>2
    <3>4. Cardinality({<<s, tag>>}) = 1
      BY FS_Singleton
    <3> QED BY <2>2, <3>3, <3>4 DEF Awaited
  <2>3. CASE ~Awaited(a)
    <3>1. \A x : x \notin Owed(a)
      BY <2>1, <2>3, OwedIsHas DEF AnswerOwed
    <3>2. Owed(a) = {}
      BY <3>1
    <3>3. Cardinality({}) = 0
      BY FS_EmptySet
    <3> QED BY <2>3, <3>2, <3>3 DEF Awaited
  <2> QED BY <2>2, <2>3
<1>2. ServeInv => OwedOnce
  BY <1>1 DEF OwedOnce
<1> QED BY <1>2, Serves, PTL

\* What an owner retains it can serve: the directory has the actor where and how the
\* owner acquires it, so that no branch of owner_loop.rs that panics with a corruption
\* is reached, through every steal, rollback, panic and shutdown.
THEOREM OwnersServeWhatTheyHold == Spec => []ServedWhereRouted
<1>1. ServeInv => ServedWhereRouted
  <2> SUFFICES ASSUME ServeInv, NEW s \in Shards, NEW a \in Actors
               PROVE  /\ a \in runnable[s] => QueuedAt(a, s)
                      /\ a \in timers[s] \cup capabilities[s] => ParkedAt(a, s)
                      /\ a \in runnable[s] \cup timers[s] \cup capabilities[s]
                            => a \in routes[s] /\ a \in resident[s]
                      /\ Sent(s, "Drain", a) => QueuedAt(a, s) /\ published[a] # "none"
                      /\ Sent(s, "Begin", a) => QueuedAt(a, s) /\ a \notin routes[s]
                      /\ Sent(s, "Import", a) => QueuedAt(a, s) /\ a \notin routes[s]
    BY DEF ServedWhereRouted
  <2>1. OwedAt(a) /\ DrainsSent(a) /\ PublishedAt(a)
    BY DEF ServeInv, ActorInv
  <2> QED BY <2>1 DEF OwedAt, DrainsSent, PublishedAt
<1> QED BY <1>1, Serves, PTL

\* A resumption or cancellation that was published reaches the owner of the actor until
\* a failure is latched: its request, a helper thread or the inbox has the Drain, unless
\* it is a drop whose publication was not recorded or whose helper was not spawned
\* (publish_wake, cancel_detached).
THEOREM DrainsAreOnTheirWay == Spec => []DrainOnItsWay
<1>1. ServeInv => DrainOnItsWay
  BY DEF ServeInv, ActorInv, Announced, DrainOnItsWay
<1> QED BY <1>1, Serves, PTL

-----------------------------------------------------------------------------
(* Type correctness: the counters, bounds and turns beside Shape *)

Counted ==
    /\ next_actor_route \in 0 .. MaxActors
    /\ active_actors \in [Shards -> 0 .. CounterModulus - 1]
    /\ turn \in [Shards -> {"command", "slice"}]
    /\ resource_owners \in [Shards -> SUBSET Actors]
    /\ slices \in [Actors -> Nat] /\ \A a \in Actors : slices[a] <= MaxSlices[a] + 1
    /\ booked \in [Actors -> Places] /\ undrained \subseteq Actors

\* fetch_add and fetch_sub keep a counter within its width.
LEMMA Charged ==
    ASSUME NEW active \in [Shards -> 0 .. CounterModulus - 1], NEW s
    PROVE  /\ Reserve(active, s) \in [Shards -> 0 .. CounterModulus - 1]
           /\ Release(active, s) \in [Shards -> 0 .. CounterModulus - 1]
<1>1. CounterModulus \in Nat /\ CounterModulus > 0
  BY SizeAssumption
<1>2. \A n \in 0 .. CounterModulus - 1 :
         /\ (n + 1) % CounterModulus \in 0 .. CounterModulus - 1
         /\ (n - 1) % CounterModulus \in 0 .. CounterModulus - 1
  BY <1>1
<1> QED BY <1>2 DEF Reserve, Release

\* The counters in the steps of a request: it reserves and releases one place.
LEMMA CallerCounts ==
    ASSUME Counted, NEW a \in Actors, CallerStep(a)
    PROVE  Counted'
<1>1. \/ UNCHANGED <<next_actor_route, active_actors, booked>>
      \/ /\ next_actor_route' = next_actor_route
         /\ \E s : active_actors' = Release(active_actors, s)
         /\ booked' \in {booked, [booked EXCEPT ![a] = Nowhere]}
      \/ /\ next_actor_route' = a
         /\ active_actors' = Reserve(active_actors, Home(a))
         /\ booked' = [booked EXCEPT ![a] = Home(a)]
  BY DEF CallerStep, RouteNewActor, Register, SendBegin, BeginRefused, ReceiveReply,
         PublishWake, SendDrain, DrainRefused, PublicationUnrecorded, PublicationFails,
         ReceiveResumed, ReceiveCancelled, DropInvocation, HelperSends, StartSteal, Ends,
         callerVars
<1>2. UNCHANGED <<turn, resource_owners, slices>>
  BY DEF CallerStep, RouteNewActor, Register, SendBegin, BeginRefused, ReceiveReply,
         PublishWake, SendDrain, DrainRefused, PublicationUnrecorded, PublicationFails,
         ReceiveResumed, ReceiveCancelled, DropInvocation, HelperSends, StartSteal,
         ownerVars
<1>3. active_actors' \in [Shards -> 0 .. CounterModulus - 1]
  BY <1>1, Charged DEF Counted
<1>4. next_actor_route' \in 0 .. MaxActors
  BY <1>1, Sizes DEF Counted
<1>5. booked' \in [Actors -> Places]
  BY <1>1, HomeIsShard, Sizes DEF Counted
<1>6. undrained' \in {undrained, undrained \cup {a}}
  BY DEF CallerStep, RouteNewActor, Register, SendBegin, BeginRefused, ReceiveReply,
         PublishWake, SendDrain, DrainRefused, PublicationUnrecorded, PublicationFails,
         ReceiveResumed, ReceiveCancelled, DropInvocation, HelperSends, StartSteal,
         callerVars
<1>7. undrained' \subseteq Actors
  BY <1>6 DEF Counted
<1> QED BY <1>2, <1>3, <1>4, <1>5, <1>7 DEF Counted

\* The counters in the steps of a steal, which moves a reservation.
LEMMA ThiefCounts ==
    ASSUME ServeInv, Counted, ThiefStep
    PROVE  Counted'
<1>1. \/ UNCHANGED <<active_actors, booked>>
      \/ \E from, to \in {work_policy.from, work_policy.to} :
            /\ active_actors' = Reserve(Release(active_actors, from), to)
            /\ booked' = [booked EXCEPT ![work_policy.actor] = to]
  BY DEF ThiefStep, SendImport, SendImportFails, RollBack, StealLost, MoveReservation
<1>2. UNCHANGED <<next_actor_route, turn, resource_owners, slices, undrained>>
  BY DEF ThiefStep, SendImport, SendImportFails, RollBack, StealLost, ownerVars
<1>3. active_actors' \in [Shards -> 0 .. CounterModulus - 1]
  BY <1>1, Charged DEF Counted
<1>4. work_policy.from \in Places /\ work_policy.to \in Places
  BY DEF ServeInv, Shape
<1>5. booked' \in [Actors -> Places]
  BY <1>1, <1>4 DEF Counted
<1> QED BY <1>2, <1>3, <1>5 DEF Counted

\* A slice counts itself, and leaves an actor's resources with its owner.
LEMMA FinishCounts ==
    ASSUME Counted, NEW s \in Shards, NEW a \in Actors, NEW outcome,
           NEW ready, NEW armed, NEW asked,
           Finish(s, a, outcome, ready, armed, asked),
           turn' \in [Shards -> {"command", "slice"}]
    PROVE  Counted'
<1>1. /\ slices' = [slices EXCEPT ![a] = IF @ > MaxSlices[a] THEN @ ELSE @ + 1]
      /\ UNCHANGED <<next_actor_route, active_actors, booked, undrained>>
      /\ \/ resource_owners' = [resource_owners EXCEPT ![s] = @ \ {a}]
         \/ resource_owners' = [resource_owners EXCEPT ![s] = @ \cup {a}]
         \/ resource_owners' = resource_owners
  BY DEF Finish, Settle, Add, Remove, callerVars
<1>2. resource_owners' \in [Shards -> SUBSET Actors]
  BY <1>1 DEF Counted
<1>3. /\ slices' \in [Actors -> Nat]
      /\ \A b \in Actors : slices'[b] <= MaxSlices[b] + 1
  <2> DEFINE spent == IF slices[a] > MaxSlices[a] THEN slices[a] ELSE slices[a] + 1
  <2>1. MaxSlices \in [Actors -> Nat] /\ slices \in [Actors -> Nat]
    BY SlicesAssumption DEF Counted
  <2>2. MaxSlices[a] \in Nat /\ slices[a] \in Nat /\ slices[a] <= MaxSlices[a] + 1
    BY <2>1 DEF Counted
  <2>3. spent \in Nat /\ spent <= MaxSlices[a] + 1
    BY <2>2
  <2>4. slices' = [slices EXCEPT ![a] = spent]
    BY <1>1
  <2> HIDE DEF spent
  <2> QED BY <2>1, <2>3, <2>4 DEF Counted
<1> QED BY <1>1, <1>2, <1>3 DEF Counted

\* The slices and turns in the steps of the owners.
LEMMA OwnerCounts ==
    ASSUME ServeInv, Counted, NEW s \in Shards,
           \/ OwnerStep(s) \/ Panic(s) \/ Shutdown(s)
           \/ \E a \in Actors : EventStep(s, a)
    PROVE  Counted'
<1>1. turn' \in [Shards -> {"command", "slice"}]
  BY DEF Counted, OwnerStep, CommandStep, HandleBegin, HandleDrain, HandleDetach,
         HandleImport, HandleShutdown, ServiceRunnable, EventStep, FireTimer,
         CompleteCapability, Panic, Shutdown, ShardDropped, AfterCommand
<1>2. ASSUME inbox[s] # <<>>, Head(inbox[s]).op \in ActorOps
      PROVE  Head(inbox[s]).actor \in Actors
  <2>1. inbox[s] \in Seq(Commands)
    BY DEF ServeInv, Shape
  <2>2. Head(inbox[s]) \in Commands
    BY <1>2, <2>1
  <2> QED BY <1>2, <2>2, CommandKinds
<1>3. CASE HandleBegin(s) \/ HandleDrain(s)
  <2> DEFINE a == Head(inbox[s]).actor
  <2>1. a \in Actors
    BY <1>2, <1>3 DEF HandleBegin, HandleDrain, Received, ActorOps
  <2>2. \/ \E outcome \in Outcomes(a) :
              Finish(s, a, outcome, runnable[s], timers[s], capabilities[s])
        \/ Cancel(s, a)
    BY <1>3 DEF HandleBegin, HandleDrain
  <2>3. CASE Cancel(s, a)
    <3>1. /\ resource_owners' = [resource_owners EXCEPT ![s] = @ \ {a}]
          /\ UNCHANGED <<next_actor_route, active_actors, booked, undrained, slices>>
      BY <2>3 DEF Cancel, Remove, callerVars
    <3> QED BY <1>1, <3>1 DEF Counted
  <2> HIDE DEF a
  <2>4. CASE \E outcome \in Outcomes(a) :
                Finish(s, a, outcome, runnable[s], timers[s], capabilities[s])
    BY <1>1, <2>1, <2>4, FinishCounts
  <2> QED BY <2>2, <2>3, <2>4
<1>4. ASSUME NEW a \in Actors,
             ServiceRunnable(s, a) \/ FireTimer(s, a) \/ CompleteCapability(s, a)
      PROVE  Counted'
  <2>1. \E outcome, ready, armed, asked : Finish(s, a, outcome, ready, armed, asked)
    BY <1>4 DEF ServiceRunnable, FireTimer, CompleteCapability
  <2> QED BY <1>1, <2>1, FinishCounts
<1>5. CASE HandleDetach(s) \/ HandleImport(s) \/ Shutdown(s)
  <2>1. UNCHANGED <<next_actor_route, active_actors, booked, undrained,
                    resource_owners, slices>>
    BY <1>5 DEF HandleDetach, HandleImport, Shutdown, callerVars
  <2> QED BY <1>1, <2>1 DEF Counted
<1>6. CASE HandleShutdown(s) \/ Panic(s)
  <2>1. /\ UNCHANGED <<next_actor_route, active_actors, booked, undrained, slices>>
        /\ resource_owners' = [resource_owners EXCEPT ![s] = {}]
    BY <1>6 DEF HandleShutdown, Panic, ShardDropped, callerVars
  <2> QED BY <1>1, <2>1 DEF Counted
<1> QED BY <1>3, <1>4, <1>5, <1>6 DEF OwnerStep, CommandStep, EventStep

\* The counters keep their width in every reachable state.
LEMMA CountsKept == Spec => []Counted
<1>1. Init => Counted
  <2>1. CounterModulus \in Nat /\ CounterModulus > 0 /\ 0 \in 0 .. CounterModulus - 1
    BY SizeAssumption
  <2> QED BY <2>1, Sizes, SlicesAssumption DEF Init, Counted
<1>2. ServeInv /\ Counted /\ [Next]_vars => Counted'
  <2> SUFFICES ASSUME ServeInv, Counted, [Next]_vars PROVE Counted'
    OBVIOUS
  <2>1. CASE UNCHANGED vars
    BY <2>1 DEF vars, callerVars, ownerVars, Counted
  <2>2. CASE Next
    BY <2>2, CallerCounts, ThiefCounts, OwnerCounts DEF Next
  <2> QED BY <2>1, <2>2
<1> QED BY <1>1, <1>2, Serves, PTL DEF Spec

\* Every variable keeps its type: reservations stay within the width of their counters,
\* and slices within the bound of their actor.
THEOREM HandlersTypeCorrect == Spec => []TypeOK
<1>1. ServeInv /\ Counted => TypeOK
  BY DEF ServeInv, Shape, Counted, TypeOK
<1> QED BY <1>1, Serves, CountsKept, PTL

-----------------------------------------------------------------------------
(* Reservations: what each counter stands for *)

Words == 0 .. CounterModulus - 1

\* Sets of requests can be counted, and are fewer than a counter can hold.
LEMMA Countable ==
    ASSUME NEW S \in SUBSET Actors
    PROVE  IsFiniteSet(S) /\ Cardinality(S) \in 0 .. MaxActors
<1>1. IsFiniteSet(Actors) /\ Cardinality(Actors) = MaxActors
  <2>1. MaxActors \in Nat /\ MaxActors > 0 /\ 1 \in Int /\ MaxActors \in Int
    BY Sizes
  <2>2. /\ IsFiniteSet(1 .. MaxActors)
        /\ Cardinality(1 .. MaxActors) = IF 1 > MaxActors THEN 0 ELSE MaxActors - 1 + 1
    BY <2>1, FS_Interval
  <2> QED BY <2>1, <2>2 DEF Actors
<1>2. IsFiniteSet(S) /\ Cardinality(S) <= Cardinality(Actors) /\ Cardinality(S) \in Nat
  BY <1>1, FS_Subset, FS_CardinalityType
<1> QED BY <1>1, <1>2, Sizes

\* A counter is what the requests in the books of its shard make, less what failed
\* requests gave back to it for another; once it wrapped, it is that again.
Squares(n, owed, books) ==
    n + owed = books \/ n + owed = books + CounterModulus

Balanced(s) ==
    Squares(active_actors[s], Cardinality(Overdrawn(s)), Cardinality(Booked(s)))

\* The counter after a reservation and after a release.
LEMMA Counting ==
    ASSUME NEW n \in Words, NEW owed \in 0 .. MaxActors, NEW books \in 0 .. MaxActors,
           Squares(n, owed, books)
    PROVE  /\ Squares((n + 1) % CounterModulus, owed, books + 1)
           /\ Squares((n - 1) % CounterModulus, owed, books - 1)
           /\ Squares((n - 1) % CounterModulus, owed + 1, books)
<1>1. /\ CounterModulus \in Nat /\ CounterModulus > MaxActors + 1
      /\ MaxActors \in Nat /\ n \in 0 .. CounterModulus - 1
  BY SizeAssumption, Sizes DEF Words
<1>2. Squares((n + 1) % CounterModulus, owed, books + 1)
  <2>1. CASE n = CounterModulus - 1
    <3>1. (n + 1) % CounterModulus = 0
      BY <1>1, <2>1
    <3>2. 0 + owed = books + 1
      BY <1>1, <2>1 DEF Squares
    <3> QED BY <3>1, <3>2 DEF Squares
  <2>2. CASE n # CounterModulus - 1
    <3>1. (n + 1) % CounterModulus = n + 1
      BY <1>1, <2>2
    <3>2. n + 1 + owed = books + 1 \/ n + 1 + owed = books + 1 + CounterModulus
      BY <1>1 DEF Squares
    <3> QED BY <3>1, <3>2 DEF Squares
  <2> QED BY <2>1, <2>2
<1>3. /\ Squares((n - 1) % CounterModulus, owed, books - 1)
      /\ Squares((n - 1) % CounterModulus, owed + 1, books)
  <2>1. CASE n = 0
    <3>1. (n - 1) % CounterModulus = CounterModulus - 1
      BY <1>1, <2>1
    <3>2. /\ CounterModulus - 1 + owed = books - 1 + CounterModulus
          /\ CounterModulus - 1 + (owed + 1) = books + CounterModulus
      BY <1>1, <2>1 DEF Squares
    <3> QED BY <3>1, <3>2 DEF Squares
  <2>2. CASE n # 0
    <3>1. (n - 1) % CounterModulus = n - 1
      BY <1>1, <2>2
    <3>2. \/ n - 1 + owed = books - 1 /\ n - 1 + (owed + 1) = books
          \/ /\ n - 1 + owed = books - 1 + CounterModulus
             /\ n - 1 + (owed + 1) = books + CounterModulus
      BY <1>1 DEF Squares
    <3> QED BY <3>1, <3>2 DEF Squares
  <2> QED BY <2>1, <2>2
<1> QED BY <1>2, <1>3

\* What differs by a multiple of the modulus is the same word.
LEMMA SameWord ==
    ASSUME NEW n \in Int, NEW k \in Int
    PROVE  (n + k * CounterModulus) % CounterModulus = n % CounterModulus
<1> DEFINE M == CounterModulus
           r == n % M
           t == (n + k * M) % M
<1>1. M \in Nat /\ M > 0
  BY SizeAssumption
<1>2. n \div M \in Int /\ (n + k * M) \div M \in Int
  BY <1>1
<1>3. /\ r \in 0 .. M - 1 /\ n = M * (n \div M) + r
      /\ t \in 0 .. M - 1 /\ n + k * M = M * ((n + k * M) \div M) + t
  BY <1>1
<1> DEFINE z == k + (n \div M) - ((n + k * M) \div M)
<1>4. z \in Int /\ t - r = M * z
  BY <1>1, <1>2, <1>3
<1> HIDE DEF M, r, t, z
<1>5. z = 0
  <2>1. CASE z >= 1
    <3>1. M * z >= M
      BY <1>1, <1>4, <2>1
    <3> QED BY <1>1, <1>3, <1>4, <3>1
  <2>2. CASE z <= -1
    <3>1. M * z <= -M
      BY <1>1, <1>4, <2>2
    <3> QED BY <1>1, <1>3, <1>4, <3>1
  <2> QED BY <1>4, <2>1, <2>2
<1>6. t = r
  BY <1>1, <1>3, <1>4, <1>5
<1> QED BY <1>6 DEF M, r, t

\* A counter that squares is right in its width.
LEMMA SquaresWord ==
    ASSUME NEW n \in Words, NEW owed \in 0 .. MaxActors, NEW books \in 0 .. MaxActors,
           Squares(n, owed, books)
    PROVE  (n + owed) % CounterModulus = books
<1>1. /\ CounterModulus \in Nat /\ CounterModulus > MaxActors + 1
      /\ MaxActors \in Nat /\ n \in 0 .. CounterModulus - 1
  BY SizeAssumption, Sizes DEF Words
<1>2. CASE n + owed = books
  BY <1>1, <1>2
<1>3. CASE n + owed = books + CounterModulus
  <2>1. /\ n + owed = books + 1 * CounterModulus
        /\ books \in Int /\ 1 \in Int /\ books % CounterModulus = books
    BY <1>1, <1>3
  <2> HIDE DEF Words
  <2>2. (books + 1 * CounterModulus) % CounterModulus = books % CounterModulus
    BY <2>1, SameWord
  <2> QED BY <2>1, <2>2
<1> QED BY <1>2, <1>3 DEF Squares

\* What is charged to a shard and what it is overdrawn by are requests.
LEMMA BooksCount ==
    ASSUME NEW s
    PROVE  /\ Booked(s) \in SUBSET Actors /\ IsFiniteSet(Booked(s))
           /\ Cardinality(Booked(s)) \in 0 .. MaxActors
           /\ Overdrawn(s) \in SUBSET Actors /\ IsFiniteSet(Overdrawn(s))
           /\ Cardinality(Overdrawn(s)) \in 0 .. MaxActors
<1>1. Booked(s) \in SUBSET Actors /\ Overdrawn(s) \in SUBSET Actors
  BY DEF Booked, Overdrawn
<1> QED BY <1>1, Countable

\* A shard that a step leaves alone stays balanced.
LEMMA BalanceStays ==
    ASSUME NEW s, Balanced(s), active_actors'[s] = active_actors[s],
           Booked(s)' = Booked(s), Overdrawn(s)' = Overdrawn(s)
    PROVE  Balanced(s)'
BY DEF Balanced

\* A request enters the books of a shard, which reserves a place for it.
LEMMA BalanceReserves ==
    ASSUME NEW s, Balanced(s), active_actors[s] \in Words, NEW a,
           active_actors'[s] = (active_actors[s] + 1) % CounterModulus,
           a \notin Booked(s), Booked(s)' = Booked(s) \cup {a},
           Overdrawn(s)' = Overdrawn(s)
    PROVE  Balanced(s)'
<1>1. Cardinality(Booked(s)') = Cardinality(Booked(s)) + 1
  BY BooksCount, FS_AddElement
<1>2. Squares((active_actors[s] + 1) % CounterModulus, Cardinality(Overdrawn(s)),
              Cardinality(Booked(s)) + 1)
  BY BooksCount, Counting DEF Balanced
<1> QED BY <1>1, <1>2 DEF Balanced

\* A request leaves the books of a shard, which releases its place.
LEMMA BalanceReleases ==
    ASSUME NEW s, Balanced(s), active_actors[s] \in Words, NEW a,
           active_actors'[s] = (active_actors[s] - 1) % CounterModulus,
           a \in Booked(s), Booked(s)' = Booked(s) \ {a},
           Overdrawn(s)' = Overdrawn(s)
    PROVE  Balanced(s)'
<1>1. Cardinality(Booked(s)') = Cardinality(Booked(s)) - 1
  BY BooksCount, FS_RemoveElement
<1>2. Squares((active_actors[s] - 1) % CounterModulus, Cardinality(Overdrawn(s)),
              Cardinality(Booked(s)) - 1)
  BY BooksCount, Counting DEF Balanced
<1> QED BY <1>1, <1>2 DEF Balanced

\* A request gives back to a shard what another is charged for.
LEMMA BalanceOverdraws ==
    ASSUME NEW s, Balanced(s), active_actors[s] \in Words, NEW a,
           active_actors'[s] = (active_actors[s] - 1) % CounterModulus,
           Booked(s)' = Booked(s),
           a \notin Overdrawn(s), Overdrawn(s)' = Overdrawn(s) \cup {a}
    PROVE  Balanced(s)'
<1>1. Cardinality(Overdrawn(s)') = Cardinality(Overdrawn(s)) + 1
  BY BooksCount, FS_AddElement
<1>2. Squares((active_actors[s] - 1) % CounterModulus, Cardinality(Overdrawn(s)) + 1,
              Cardinality(Booked(s)))
  BY BooksCount, Counting DEF Balanced
<1> QED BY <1>1, <1>2 DEF Balanced

\* A request that ends gives back what it is charged for, or overdraws the shard it
\* entered by.
LEMMA BalanceEnds ==
    ASSUME Shape, Counted, \A t \in Shards : Balanced(t),
           NEW a \in Actors, NEW s \in Shards, ~At(a, "done"), Ends(a, s),
           booked[a] \in Shards, booked[a] # s => Failed(a) /\ EntryOf(a) = s
    PROVE  \A t \in Shards : Balanced(t)'
<1>0. /\ invocation \in [Actors -> [at : Phases, route : Places]]
      /\ active_actors \in [Shards -> Words] /\ booked \in [Actors -> Places]
  BY DEF Shape, Counted, Words
<1>1. /\ invocation'[a].at = "done" /\ invocation'[a].route = invocation[a].route
      /\ \A b \in Actors \ {a} : invocation'[b] = invocation[b]
      /\ active_actors'[s] = (active_actors[s] - 1) % CounterModulus
      /\ \A t \in Shards \ {s} : active_actors'[t] = active_actors[t]
  BY <1>0 DEF Ends, Goes, Release
<1>2. EntryOf(a)' = EntryOf(a) /\ \A b \in Actors \ {a} : EntryOf(b)' = EntryOf(b)
  BY <1>1 DEF EntryOf
<1>3. ASSUME NEW t \in Shards PROVE Balanced(t)'
  <2>1. CASE booked[a] = s
    <3>1. booked' = [booked EXCEPT ![a] = Nowhere]
      BY <2>1 DEF Ends
    <3>2. s # Nowhere /\ t # Nowhere
      BY Sizes
    <3>3. Overdrawn(t)' = Overdrawn(t)
      BY <1>0, <1>1, <1>2, <3>1 DEF Overdrawn, At
    <3>4. Booked(t)' = IF t = s THEN Booked(t) \ {a} ELSE Booked(t)
      BY <1>0, <2>1, <3>1, <3>2 DEF Booked
    <3>5. CASE t = s
      <4>1. a \in Booked(s)
        BY <2>1 DEF Booked
      <4> QED BY <1>0, <1>1, <3>3, <3>4, <3>5, <4>1, BalanceReleases
    <3>6. CASE t # s
      BY <1>1, <3>3, <3>4, <3>6, BalanceStays
    <3> QED BY <3>5, <3>6
  <2>2. CASE booked[a] # s
    <3>1. booked' = booked
      BY <2>2 DEF Ends
    <3>2. booked[a] # Nowhere
      BY Sizes
    <3>3. Booked(t)' = Booked(t)
      BY <3>1 DEF Booked
    <3>4. Overdrawn(t)' = IF t = s THEN Overdrawn(t) \cup {a} ELSE Overdrawn(t)
      BY <1>1, <1>2, <2>2, <3>1, <3>2 DEF Overdrawn, At
    <3>5. CASE t = s
      <4>1. a \notin Overdrawn(s)
        BY DEF Overdrawn
      <4> QED BY <1>0, <1>1, <3>3, <3>4, <3>5, <4>1, BalanceOverdraws
    <3>6. CASE t # s
      BY <1>1, <3>3, <3>4, <3>6, BalanceStays
    <3> QED BY <3>5, <3>6
  <2> QED BY <2>1, <2>2
<1> QED BY <1>3

\* A reservation moves with its actor; so does what a failed request already gave
\* back where it moves from.
LEMMA BalanceMoves ==
    ASSUME Shape, Counted, \A t \in Shards : Balanced(t),
           NEW from \in Shards, NEW to \in Shards, from # to,
           MoveReservation(from, to), invocation' = invocation,
           NEW a \in Actors, a = work_policy.actor,
           \/ booked[a] = from
           \/ booked[a] = Nowhere /\ At(a, "done") /\ EntryOf(a) = from
    PROVE  \A t \in Shards : Balanced(t)'
<1>0. /\ active_actors \in [Shards -> Words] /\ booked \in [Actors -> Places]
      /\ Release(active_actors, from) \in [Shards -> Words]
  BY Charged DEF Counted, Words
<1>1. /\ active_actors'[from] = (active_actors[from] - 1) % CounterModulus
      /\ active_actors'[to] = (active_actors[to] + 1) % CounterModulus
      /\ \A t \in Shards \ {from, to} : active_actors'[t] = active_actors[t]
      /\ booked' = [booked EXCEPT ![a] = to]
  BY <1>0 DEF MoveReservation, Reserve, Release
<1>2. \A b \in Actors : (EntryOf(b)' = EntryOf(b)) /\ (At(b, "done")' <=> At(b, "done"))
  BY DEF EntryOf, At
<1>3. from # Nowhere /\ to # Nowhere /\ booked'[a] # Nowhere
  BY <1>0, <1>1, Sizes
<1>4. \A b \in Actors \ {a} : booked'[b] = booked[b]
  BY <1>0, <1>1
<1>5. /\ a \notin Booked(to) /\ Booked(to)' = Booked(to) \cup {a}
      /\ Overdrawn(to)' = Overdrawn(to)
  <2>1. a \notin Booked(to) /\ Booked(to)' = Booked(to) \cup {a}
    BY <1>0, <1>1, <1>3, <1>4 DEF Booked
  <2>2. Overdrawn(to)' = Overdrawn(to)
    BY <1>2, <1>3, <1>4 DEF Overdrawn
  <2> QED BY <2>1, <2>2
<1>6. Balanced(to)'
  BY <1>0, <1>1, <1>5, BalanceReserves
<1>7. Balanced(from)'
  <2>1. CASE booked[a] = from
    <3>1. a \in Booked(from) /\ Booked(from)' = Booked(from) \ {a}
      BY <1>0, <1>1, <1>3, <1>4, <2>1 DEF Booked
    <3>2. Overdrawn(from)' = Overdrawn(from)
      BY <1>2, <1>3, <1>4, <2>1 DEF Overdrawn
    <3> QED BY <1>0, <1>1, <3>1, <3>2, BalanceReleases
  <2>2. CASE booked[a] = Nowhere /\ At(a, "done") /\ EntryOf(a) = from
    <3>1. Booked(from)' = Booked(from)
      BY <1>0, <1>1, <1>3, <1>4, <2>2 DEF Booked
    <3>2. a \notin Overdrawn(from) /\ Overdrawn(from)' = Overdrawn(from) \cup {a}
      BY <1>2, <1>3, <1>4, <2>2 DEF Overdrawn
    <3> QED BY <1>0, <1>1, <3>1, <3>2, BalanceOverdraws
  <2> QED BY <2>1, <2>2
<1>8. ASSUME NEW t \in Shards \ {from, to} PROVE Balanced(t)'
  <2>1. Booked(t)' = Booked(t)
    BY <1>0, <1>1, <1>4, <1>8, Sizes DEF Booked
  <2>2. Overdrawn(t)' = Overdrawn(t)
    BY <1>2, <1>3, <1>4, <1>8 DEF Overdrawn
  <2> QED BY <1>1, <2>1, <2>2, BalanceStays
<1> QED BY <1>6, <1>7, <1>8

\* A step that moves no reservation and ends no request.
LEMMA AllBalanced ==
    ASSUME \A t \in Shards : Balanced(t), UNCHANGED <<active_actors, booked>>,
           \A b \in Actors : /\ At(b, "done")' <=> At(b, "done")
                             /\ At(b, "done") => invocation'[b] = invocation[b]
    PROVE  \A t \in Shards : Balanced(t)'
<1>1. \A t \in Shards : Booked(t)' = Booked(t) /\ Overdrawn(t)' = Overdrawn(t)
  BY DEF Booked, Overdrawn, EntryOf
<1> QED BY <1>1, BalanceStays

\* Owners, timers and workers change no request.
LEMMA OthersCall ==
    ASSUME \/ \E s \in Shards : OwnerStep(s) \/ Panic(s) \/ Shutdown(s)
           \/ \E s \in Shards, a \in Actors : EventStep(s, a)
    PROVE  UNCHANGED callerVars
<1>1. ASSUME NEW s \in Shards, OwnerStep(s) \/ Panic(s) \/ Shutdown(s)
      PROVE  UNCHANGED callerVars
  BY <1>1 DEF OwnerStep, CommandStep, HandleBegin, HandleDrain, HandleDetach,
              HandleImport, HandleShutdown, ServiceRunnable, Panic, Shutdown, Finish,
              Cancel
<1>2. ASSUME NEW s \in Shards, NEW a \in Actors, EventStep(s, a)
      PROVE  UNCHANGED callerVars
  BY <1>2 DEF EventStep, FireTimer, CompleteCapability, Finish
<1> QED BY <1>1, <1>2

\* Nor does a steal.
LEMMA ThiefCalls == ThiefStep => invocation' = invocation
BY DEF ThiefStep, SendImport, SendImportFails, RollBack, StealLost

\* A reply and the route of an invocation name a shard, which gives the charge back.
Named ==
    \A a \in Actors :
       /\ reply[a].kind # "None" => reply[a].scheduler \in Shards
       /\ invocation[a].at \in {"holding", "publishing", "resuming", "cancelling"}
             => invocation[a].route \in Shards

\* Routes of replies and requests in the steps of a request.
LEMMA CallerNames ==
    ASSUME ServeInv, Named, NEW a \in Actors, CallerStep(a)
    PROVE  Named'
<1>0. /\ invocation \in [Actors -> [at : Phases, route : Places]]
      /\ reply \in [Actors -> Replies]
  BY DEF ServeInv, Shape
<1>1. \/ reply' = reply
      \/ reply' = [reply EXCEPT ![a] = NoReply]
  BY DEF CallerStep, RouteNewActor, Register, SendBegin, BeginRefused, ReceiveReply,
         PublishWake, SendDrain, DrainRefused, PublicationUnrecorded, PublicationFails,
         ReceiveResumed, ReceiveCancelled, DropInvocation, HelperSends, StartSteal,
         ownerVars
<1>2. \/ invocation' = invocation
      \/ \E phase \in {"routed", "registered", "waiting", "done"} : Goes(a, phase)
      \/ /\ invocation[a].at \in {"holding", "publishing"}
         /\ \E phase : Goes(a, phase)
      \/ /\ invocation' = [invocation EXCEPT ![a] =
               [at |-> "holding", route |-> reply[a].scheduler]]
         /\ reply[a].kind = "Waiting"
  BY DEF CallerStep, RouteNewActor, Register, SendBegin, BeginRefused, ReceiveReply,
         PublishWake, SendDrain, DrainRefused, PublicationUnrecorded, PublicationFails,
         ReceiveResumed, ReceiveCancelled, DropInvocation, HelperSends, StartSteal, Ends,
         At, callerVars
<1>3. \A b \in Actors : reply'[b].kind # "None" => reply'[b].scheduler \in Shards
  BY <1>0, <1>1 DEF Named, NoReply
<1>4. ASSUME NEW b \in Actors,
             invocation'[b].at \in {"holding", "publishing", "resuming", "cancelling"}
      PROVE  invocation'[b].route \in Shards
  BY <1>0, <1>2, <1>4 DEF Named, Goes
<1> QED BY <1>3, <1>4 DEF Named

\* A step that answers requests from a shard, if any, and moves none.
LEMMA NamesStay ==
    ASSUME Named, invocation' = invocation,
           \A a \in Actors : reply'[a] = reply[a] \/ reply'[a].scheduler \in Shards
    PROVE  Named'
BY DEF Named

\* An answer carries the shard that gives it.
LEMMA AnswersName ==
    ASSUME ServeInv, NEW s \in Shards, NEW a, NEW kind, Answer(a, kind, s)
    PROVE  \A b \in Actors : reply'[b] = reply[b] \/ reply'[b].scheduler \in Shards
BY DEF Answer, ServeInv, Shape

\* Routes of replies and requests in all other steps.
LEMMA OthersName ==
    ASSUME ServeInv, Named,
           \/ ThiefStep
           \/ \E s \in Shards : OwnerStep(s) \/ Panic(s) \/ Shutdown(s)
           \/ \E s \in Shards, a \in Actors : EventStep(s, a)
    PROVE  Named'
<1>1. invocation' = invocation
  BY OthersCall, ThiefCalls DEF callerVars
<1>2. CASE ThiefStep
  <2>1. \/ reply' = reply
        \/ Answer(work_policy.actor, "Disconnected", work_policy.from)
           /\ work_policy.phase # "idle"
    BY <1>2 DEF ThiefStep, SendImport, SendImportFails, RollBack, StealLost
  <2>2. work_policy.phase # "idle" => work_policy.from \in Shards
    BY DEF ServeInv, PolicyAt
  <2> QED BY <1>1, <2>1, <2>2, AnswersName, NamesStay
<1>3. ASSUME NEW s \in Shards, Panic(s) \/ HandleShutdown(s)
      PROVE  Named'
  <2>1. \A a \in Actors : reply'[a] = reply[a] \/ reply'[a].scheduler \in Shards
    BY <1>3 DEF Panic, HandleShutdown
  <2> QED BY <1>1, <2>1, NamesStay
<1>4. ASSUME NEW s \in Shards, NEW a, NEW outcome, NEW ready, NEW armed, NEW asked,
             Finish(s, a, outcome, ready, armed, asked)
      PROVE  Named'
  <2>1. reply' = reply \/ \E kind : Answer(a, kind, s)
    BY <1>4 DEF Finish, Settle
  <2> QED BY <1>1, <2>1, AnswersName, NamesStay
<1>5. ASSUME NEW s \in Shards, NEW a, Cancel(s, a)
      PROVE  Named'
  <2>1. reply' = reply \/ Answer(a, "Cancelled", s)
    BY <1>5 DEF Cancel, Answer
  <2> QED BY <1>1, <2>1, AnswersName, NamesStay
<1>6. ASSUME NEW s \in Shards, HandleDetach(s) \/ HandleImport(s) \/ Shutdown(s)
      PROVE  Named'
  <2>1. reply' = reply \/ Answer(Head(inbox[s]).actor, "Disconnected", s)
    BY <1>6 DEF HandleDetach, HandleImport, Shutdown
  <2> QED BY <1>1, <2>1, AnswersName, NamesStay
<1>7. ASSUME NEW s \in Shards, HandleBegin(s) \/ HandleDrain(s)
      PROVE  Named'
  BY <1>4, <1>5, <1>7 DEF HandleBegin, HandleDrain
<1>8. ASSUME NEW s \in Shards, NEW a \in Actors,
             ServiceRunnable(s, a) \/ FireTimer(s, a) \/ CompleteCapability(s, a)
      PROVE  Named'
  BY <1>4, <1>8 DEF ServiceRunnable, FireTimer, CompleteCapability
<1> QED
  BY <1>2, <1>3, <1>6, <1>7, <1>8 DEF OwnerStep, CommandStep, EventStep

\* A request under way.
Live(a) == invocation[a].at \notin {"new", "done"}

Answers == {"None", "Complete", "Waiting"}

\* A request that did not fail, with an actor in the directory.
Settled(a) == Live(a) /\ reply[a].kind \in Answers /\ control[a].life # "None"

\* The shard that is charged for such a request: where the directory has its actor,
\* but the source of a steal until the envelope is sent.
Keeper(a) ==
    IF work_policy.phase = "detached" /\ work_policy.actor = a
    THEN work_policy.from ELSE control[a].scheduler

\* Which shard a request is charged to.
BookedAt(a) ==
    /\ At(a, "new") => booked[a] = Nowhere
    /\ invocation[a].at \in {"routed", "registered"} => booked[a] = Home(a)
    /\ Live(a) => booked[a] \in Shards
    /\ Settled(a) => booked[a] = Keeper(a)
    /\ Live(a) /\ reply[a].kind \in {"Complete", "Waiting"} =>
          booked[a] = reply[a].scheduler
    /\ invocation[a].at \in {"holding", "publishing", "cancelling"} =>
          booked[a] = invocation[a].route
    /\ invocation[a].at \in {"new", "routed", "registered", "waiting"} =>
          invocation[a].route = Nowhere

\* An envelope that was sent is in the inbox of the destination, or was lost with
\* it: then its request failed, and may have ended.
EnvelopeAt ==
    LET a == work_policy.actor
        to == work_policy.to IN
    work_policy.phase = "importing" =>
       \/ Sent(to, "Import", a)
       \/ invocation[a].at \in {"waiting", "resuming"} /\ Failed(a) /\ booked[a] = to
       \/ At(a, "done") /\ booked[a] = to
       \/ At(a, "done") /\ booked[a] = Nowhere /\ EntryOf(a) = to

Books ==
    /\ \A a \in Actors : BookedAt(a)
    /\ EnvelopeAt
    /\ \A s \in Shards : Balanced(s)

\* A request that a step does not charge anew, when its actor stays or leaves the
\* directory and its reply stays or tells of a failure.
LEMMA BookedStays ==
    ASSUME NEW b, BookedAt(b), invocation'[b] = invocation[b], booked'[b] = booked[b],
           \/ reply'[b] = reply[b]
           \/ reply'[b].kind \notin Answers,
           \/ control'[b].life = "None"
           \/ control'[b] = control[b] /\ Keeper(b)' = Keeper(b)
    PROVE  BookedAt(b)'
BY DEF BookedAt, Settled, Live, At, Answers, Keeper

\* An actor that nothing owes an answer is in no envelope.
LEMMA KeeperIsDirectory ==
    ASSUME NEW a \in Actors, ~Stealing(a)
    PROVE  Keeper(a) = control[a].scheduler
BY DEF Stealing, Keeper

\* What a step of a request's thread leaves alone for the books.
LEMMA CallerTouches ==
    ASSUME ServeInv, Counted, NEW a \in Actors, CallerStep(a)
    PROVE  /\ \A b \in Actors \ {a} : /\ invocation'[b] = invocation[b]
                                      /\ booked'[b] = booked[b]
                                      /\ reply'[b] = reply[b]
                                      /\ control'[b] = control[b]
           /\ \/ work_policy' = work_policy
              \/ /\ work_policy = IdlePolicy /\ work_policy'.phase = "detaching"
                 /\ UNCHANGED <<callerVars, reply, control>>
           /\ \A t \in Shards, b \in Actors : Sent(t, "Import", b) => Sent(t, "Import", b)'
<1>0. /\ invocation \in [Actors -> [at : Phases, route : Places]]
      /\ reply \in [Actors -> Replies]
      /\ control \in [Actors -> [life : {"None", "Queued", "Parked"}, scheduler : Places]]
      /\ inbox \in [Shards -> Seq(Commands)]
  BY DEF ServeInv, Shape
<1>1. \A b \in Actors \ {a} : invocation'[b] = invocation[b]
  BY <1>0 DEF CallerStep, RouteNewActor, Register, SendBegin, BeginRefused, ReceiveReply,
         PublishWake, SendDrain, DrainRefused, PublicationUnrecorded, PublicationFails,
         ReceiveResumed, ReceiveCancelled, DropInvocation, HelperSends, StartSteal, Ends,
         Goes, callerVars
<1>2. \A b \in Actors \ {a} : booked'[b] = booked[b]
  <2>1. booked' = booked \/ \E p : booked' = [booked EXCEPT ![a] = p]
    BY DEF CallerStep, RouteNewActor, Register, SendBegin, BeginRefused, ReceiveReply,
         PublishWake, SendDrain, DrainRefused, PublicationUnrecorded, PublicationFails,
         ReceiveResumed, ReceiveCancelled, DropInvocation, HelperSends, StartSteal, Ends,
         callerVars
  <2> QED BY <2>1 DEF Counted
<1>3. \A b \in Actors \ {a} : reply'[b] = reply[b]
  BY <1>0 DEF CallerStep, RouteNewActor, Register, SendBegin, BeginRefused, ReceiveReply,
         PublishWake, SendDrain, DrainRefused, PublicationUnrecorded, PublicationFails,
         ReceiveResumed, ReceiveCancelled, DropInvocation, HelperSends, StartSteal
<1>4. \A b \in Actors \ {a} : control'[b] = control[b]
  <2>1. CASE Register(a) \/ BeginRefused(a)
    BY <1>0, <2>1 DEF Register, BeginRefused
  <2>2. CASE PublishWake(a) \/ DropInvocation(a)
    BY <1>0, <2>2 DEF PublishWake, DropInvocation, Publish
  <2>3. CASE ~(Register(a) \/ BeginRefused(a) \/ PublishWake(a) \/ DropInvocation(a))
    <3>1. control' = control
      BY <2>3 DEF CallerStep, RouteNewActor, SendBegin, ReceiveReply, SendDrain,
         DrainRefused, PublicationUnrecorded, PublicationFails, ReceiveResumed,
         ReceiveCancelled, HelperSends, StartSteal, sharedVars
    <3> QED BY <3>1
  <2> QED BY <2>1, <2>2, <2>3
<1>5. \/ work_policy' = work_policy
      \/ /\ work_policy = IdlePolicy /\ work_policy'.phase = "detaching"
         /\ UNCHANGED <<callerVars, reply, control>>
  <2>1. CASE \E from, to \in Shards : StartSteal(a, from, to)
    BY <2>1 DEF StartSteal, sharedVars
  <2>2. CASE ~\E from, to \in Shards : StartSteal(a, from, to)
    <3>1. work_policy' = work_policy
      BY <2>2 DEF CallerStep, RouteNewActor, Register, SendBegin, BeginRefused,
         ReceiveReply, PublishWake, SendDrain, DrainRefused, PublicationUnrecorded,
         PublicationFails, ReceiveResumed, ReceiveCancelled, DropInvocation, HelperSends
    <3> QED BY <3>1
  <2> QED BY <2>1, <2>2
<1>6. \/ inbox' = inbox
      \/ \E s, c : inbox' = [inbox EXCEPT ![s] = Append(@, c)]
  BY DEF CallerStep, RouteNewActor, Register, SendBegin, BeginRefused, ReceiveReply,
         PublishWake, SendDrain, DrainRefused, PublicationUnrecorded, PublicationFails,
         ReceiveResumed, ReceiveCancelled, DropInvocation, HelperSends, StartSteal,
         Send, ownerVars
<1>7. ASSUME NEW t \in Shards, NEW b \in Actors, Sent(t, "Import", b)
      PROVE  Sent(t, "Import", b)'
  <2>1. PICK i \in DOMAIN inbox[t] : inbox[t][i].op = "Import" /\ inbox[t][i].actor = b
    BY <1>7 DEF Sent
  <2>2. i \in DOMAIN inbox'[t] /\ inbox'[t][i] = inbox[t][i]
    <3>1. inbox'[t] = inbox[t] \/ \E c : inbox'[t] = Append(inbox[t], c)
      BY <1>0, <1>6
    <3>2. inbox[t] \in Seq(Commands) /\ i \in 1 .. Len(inbox[t])
      BY <1>0
    <3> QED BY <3>1, <3>2
  <2> QED BY <2>1, <2>2 DEF Sent
<1> QED BY <1>1, <1>2, <1>3, <1>4, <1>5, <1>7

\* A request that is done gives back what it is charged for, unless it failed: then
\* it gives back to the shard it entered by.
LEMMA CallerEnds ==
    ASSUME ServeInv, Counted, Named, NEW a \in Actors, BookedAt(a), NEW s,
           \/ BeginRefused(a) /\ s = Home(a)
           \/ /\ ReceiveReply(a) \/ ReceiveResumed(a)
              /\ reply[a].kind = "Complete" /\ s = reply[a].scheduler
           \/ ReceiveReply(a) /\ Failed(a) /\ s = Home(a)
           \/ ReceiveResumed(a) /\ Failed(a) /\ s = invocation[a].route
           \/ /\ \/ ReceiveCancelled(a) \/ DropInvocation(a) \/ DrainRefused(a)
                 \/ PublicationUnrecorded(a)
              /\ s = invocation[a].route
    PROVE  /\ Ends(a, s) /\ Live(a) /\ s \in Shards /\ booked[a] \in Shards
           /\ booked[a] = s \/ Failed(a)
           /\ Failed(a) => EntryOf(a) = s
<1>0. /\ invocation[a].at \notin {"new", "routed", "registered", "waiting"}
            => invocation[a].at \in {"holding", "publishing", "resuming", "cancelling", "done"}
      /\ Home(a) \in Shards /\ ActorInv(a) /\ Nowhere \notin Shards
  BY HomeIsShard, Sizes DEF ServeInv, Shape, Phases
<1>1. CASE BeginRefused(a) /\ s = Home(a)
  <2>1. At(a, "registered") /\ Ends(a, s)
    BY <1>1 DEF BeginRefused
  <2>2. reply[a].kind = "None"
    BY <1>0, <2>1 DEF ActorInv, PublishedAt, At
  <2> QED BY <1>0, <1>1, <2>1, <2>2 DEF BookedAt, Live, At, Failed
<1>2. CASE /\ ReceiveReply(a) \/ ReceiveResumed(a)
           /\ reply[a].kind = "Complete" /\ s = reply[a].scheduler
  <2>1. (At(a, "waiting") \/ At(a, "resuming")) /\ Ends(a, s)
    BY <1>2 DEF ReceiveReply, ReceiveResumed
  <2> QED BY <1>0, <1>2, <2>1 DEF BookedAt, Live, At, Failed
<1>3. CASE ReceiveReply(a) /\ Failed(a) /\ s = Home(a)
  <2>1. At(a, "waiting") /\ Ends(a, s)
    BY <1>3 DEF ReceiveReply, Failed
  <2> QED BY <1>0, <1>3, <2>1 DEF BookedAt, Live, At, EntryOf
<1>4. CASE ReceiveResumed(a) /\ Failed(a) /\ s = invocation[a].route
  <2>1. At(a, "resuming") /\ Ends(a, s)
    BY <1>4 DEF ReceiveResumed, Failed
  <2> QED BY <1>0, <1>4, <2>1 DEF BookedAt, Live, At, EntryOf, Named
<1>5. CASE /\ \/ ReceiveCancelled(a) \/ DropInvocation(a) \/ DrainRefused(a)
              \/ PublicationUnrecorded(a)
           /\ s = invocation[a].route
  <2>1. invocation[a].at \in {"cancelling", "holding", "publishing"} /\ Ends(a, s)
    BY <1>5 DEF ReceiveCancelled, DropInvocation, DrainRefused, PublicationUnrecorded,
                PublicationFails, At
  <2> QED BY <1>0, <1>5, <2>1 DEF BookedAt, Live, EntryOf, Named
<1> QED BY <1>1, <1>2, <1>3, <1>4, <1>5

\* The steps of a request: it takes a place, is done, or keeps what it is charged for.
LEMMA CallerKinds ==
    ASSUME NEW a \in Actors, CallerStep(a)
    PROVE  \/ RouteNewActor(a)
           \/ \E s : \/ BeginRefused(a) /\ s = Home(a)
                     \/ /\ ReceiveReply(a) \/ ReceiveResumed(a)
                        /\ reply[a].kind = "Complete" /\ s = reply[a].scheduler
                     \/ ReceiveReply(a) /\ Failed(a) /\ s = Home(a)
                     \/ ReceiveResumed(a) /\ Failed(a) /\ s = invocation[a].route
                     \/ /\ \/ ReceiveCancelled(a) \/ DropInvocation(a)
                           \/ DrainRefused(a) \/ PublicationUnrecorded(a)
                        /\ s = invocation[a].route
           \/ /\ ReceiveReply(a) \/ ReceiveResumed(a)
              /\ reply[a].kind = "Waiting"
              /\ invocation' = [invocation EXCEPT ![a] =
                                   [at |-> "holding", route |-> reply[a].scheduler]]
              /\ UNCHANGED <<active_actors, booked>>
              /\ reply' = [reply EXCEPT ![a] = NoReply]
           \/ Register(a) \/ SendBegin(a) \/ PublishWake(a) \/ SendDrain(a)
           \/ UNCHANGED <<callerVars, reply, control>>
<1>1. CASE ReceiveReply(a)
  BY <1>1 DEF ReceiveReply, Failed
<1>2. CASE ReceiveResumed(a)
  BY <1>2 DEF ReceiveResumed, Failed
<1>3. CASE HelperSends(a) \/ \E from, to \in Shards : StartSteal(a, from, to)
  BY <1>3 DEF HelperSends, StartSteal, sharedVars
<1>4. CASE \/ BeginRefused(a) \/ ReceiveCancelled(a) \/ DropInvocation(a)
           \/ DrainRefused(a) \/ PublicationUnrecorded(a)
  BY <1>4
<1>5. CASE \/ RouteNewActor(a) \/ Register(a) \/ SendBegin(a) \/ PublishWake(a)
           \/ SendDrain(a)
  BY <1>5
<1> QED BY <1>1, <1>2, <1>3, <1>4, <1>5 DEF CallerStep

\* The books balance after the step of a request.
LEMMA CallerBalances ==
    ASSUME ServeInv, Counted, Named, Books, NEW a \in Actors, CallerStep(a)
    PROVE  \A t \in Shards : Balanced(t)'
<1>0. /\ Shape /\ BookedAt(a) /\ \A t \in Shards : Balanced(t)
      /\ invocation \in [Actors -> [at : Phases, route : Places]]
  BY DEF ServeInv, Shape, Books
<1>1. CASE RouteNewActor(a)
  <2>0. Home(a) \in Shards /\ Nowhere \notin Shards
    BY HomeIsShard, Sizes
  <2>1. /\ active_actors \in [Shards -> Words] /\ booked \in [Actors -> Places]
        /\ active_actors' = Reserve(active_actors, Home(a))
        /\ booked' = [booked EXCEPT ![a] = Home(a)] /\ booked[a] = Nowhere
        /\ invocation' = [invocation EXCEPT ![a].at = "routed"] /\ At(a, "new")
    BY <1>0, <1>1 DEF RouteNewActor, Goes, Counted, Words, BookedAt
  <2>2. ASSUME NEW t \in Shards PROVE Balanced(t)'
    <3>1. Overdrawn(t)' = Overdrawn(t)
      <4>1. /\ ~At(a, "done") /\ ~At(a, "done")'
            /\ \A b \in Actors \ {a} : /\ invocation'[b] = invocation[b]
                                       /\ booked'[b] = booked[b]
        BY <1>0, <2>1 DEF At
      <4> QED BY <4>1 DEF Overdrawn, At, EntryOf
    <3>2. Booked(t)' = IF t = Home(a) THEN Booked(t) \cup {a} ELSE Booked(t)
      BY <2>0, <2>1 DEF Booked
    <3>3. CASE t = Home(a)
      <4>1. a \notin Booked(t)
        BY <2>0, <2>1 DEF Booked
      <4>2. active_actors'[t] = (active_actors[t] + 1) % CounterModulus
        BY <2>1, <3>3 DEF Reserve
      <4> QED BY <1>0, <2>1, <3>1, <3>2, <3>3, <4>1, <4>2, BalanceReserves
    <3>4. CASE t # Home(a)
      <4>1. active_actors'[t] = active_actors[t]
        BY <2>1, <3>4 DEF Reserve
      <4> QED BY <1>0, <3>1, <3>2, <3>4, <4>1, BalanceStays
    <3> QED BY <3>3, <3>4
  <2> QED BY <2>2
<1>2. ASSUME NEW s, Ends(a, s), Live(a), s \in Shards, booked[a] \in Shards,
             booked[a] = s \/ Failed(a), Failed(a) => EntryOf(a) = s
      PROVE  \A t \in Shards : Balanced(t)'
  BY <1>0, <1>2, BalanceEnds DEF Live, At
<1>3. CASE /\ UNCHANGED <<active_actors, booked>> /\ Live(a)
           /\ \E next : next.at # "done" /\ invocation' = [invocation EXCEPT ![a] = next]
  <2>1. ~At(a, "done") /\ ~At(a, "done")'
    BY <1>0, <1>3 DEF Live, At
  <2>2. \A b \in Actors \ {a} : invocation'[b] = invocation[b]
    BY <1>0, <1>3
  <2> QED BY <1>0, <1>3, <2>1, <2>2, AllBalanced DEF At
<1>4. CASE Register(a) \/ SendBegin(a) \/ PublishWake(a) \/ SendDrain(a)
  <2>1. UNCHANGED <<active_actors, booked>> /\ ~At(a, "done")
    BY <1>4 DEF Register, SendBegin, PublishWake, SendDrain, At
  <2>2. \E phase : phase # "done" /\ Goes(a, phase)
    BY <1>4 DEF Register, SendBegin, PublishWake, SendDrain
  <2>3. ~At(a, "done")' /\ \A b \in Actors \ {a} : invocation'[b] = invocation[b]
    BY <1>0, <2>2 DEF Goes, At
  <2> QED BY <1>0, <2>1, <2>3, AllBalanced DEF At
<1>5. CASE UNCHANGED callerVars
  BY <1>0, <1>5, AllBalanced DEF callerVars, At
<1>6. CASE /\ ReceiveReply(a) \/ ReceiveResumed(a)
           /\ invocation' = [invocation EXCEPT ![a] =
                                [at |-> "holding", route |-> reply[a].scheduler]]
           /\ UNCHANGED <<active_actors, booked>>
  <2>1. Live(a)
    BY <1>6 DEF ReceiveReply, ReceiveResumed, Live, At
  <2> QED BY <1>3, <1>6, <2>1
<1> QED BY <1>0, <1>1, <1>2, <1>4, <1>5, <1>6, CallerKinds, CallerEnds

\* The steps of a request leave every request in the books where it was.
LEMMA CallerBooked ==
    ASSUME ServeInv, Counted, Named, Books, NEW a \in Actors, CallerStep(a)
    PROVE  \A b \in Actors : BookedAt(b)'
<1>0. /\ invocation \in [Actors -> [at : Phases, route : Places]]
      /\ reply \in [Actors -> Replies]
      /\ control \in [Actors -> [life : {"None", "Queued", "Parked"}, scheduler : Places]]
      /\ booked \in [Actors -> Places]
      /\ BookedAt(a) /\ ActorInv(a) /\ Home(a) \in Shards
  BY HomeIsShard DEF ServeInv, Shape, Books, Counted
<1>1. /\ \A b \in Actors \ {a} : /\ invocation'[b] = invocation[b]
                                 /\ booked'[b] = booked[b]
                                 /\ reply'[b] = reply[b]
                                 /\ control'[b] = control[b]
      /\ \/ work_policy' = work_policy
         \/ /\ work_policy = IdlePolicy /\ work_policy'.phase = "detaching"
            /\ UNCHANGED <<callerVars, reply, control>>
  BY CallerTouches
<1>2. \A b \in Actors : control'[b].scheduler = control[b].scheduler =>
                           Keeper(b)' = Keeper(b)
  BY <1>1 DEF Keeper, IdlePolicy
<1>3. ASSUME NEW b \in Actors \ {a} PROVE BookedAt(b)'
  BY <1>1, <1>2, BookedStays DEF Books
<1>4. BookedAt(a)'
  <2>1. CASE RouteNewActor(a)
    <3>1. /\ invocation'[a].at = "routed" /\ invocation'[a].route = invocation[a].route
          /\ At(a, "new") /\ booked'[a] = Home(a)
          /\ reply' = reply /\ control' = control
      BY <1>0, <2>1 DEF RouteNewActor, Goes, sharedVars
    <3>2. reply[a].kind = "None" /\ control[a].life = "None" /\ invocation[a].route = Nowhere
      BY <1>0, <3>1 DEF ActorInv, PublishedAt, Directory, BookedAt, At
    <3> QED BY <1>0, <3>1, <3>2 DEF BookedAt, Settled, Live, At
  <2>2. ASSUME NEW s, Ends(a, s) PROVE BookedAt(a)'
    <3>1. invocation'[a].at = "done"
      BY <1>0, <2>2 DEF Ends, Goes
    <3> QED BY <3>1 DEF BookedAt, Settled, Live, At
  <2>3. CASE /\ ReceiveReply(a) \/ ReceiveResumed(a)
             /\ reply[a].kind = "Waiting"
             /\ invocation' = [invocation EXCEPT ![a] =
                                  [at |-> "holding", route |-> reply[a].scheduler]]
             /\ UNCHANGED <<active_actors, booked>>
             /\ reply' = [reply EXCEPT ![a] = NoReply]
    <3>1. /\ control' = control /\ Live(a)
      BY <2>3 DEF ReceiveReply, ReceiveResumed, sharedVars, Live, At
    <3>2. /\ invocation'[a].at = "holding" /\ invocation'[a].route = reply[a].scheduler
          /\ reply'[a].kind = "None" /\ booked'[a] = booked[a]
      BY <1>0, <2>3 DEF NoReply
    <3>3. /\ booked[a] = reply[a].scheduler /\ booked[a] \in Shards
          /\ Settled(a)' => booked[a] = Keeper(a)
      BY <1>0, <2>3, <3>1 DEF BookedAt, Settled, Answers
    <3> QED BY <1>2, <3>1, <3>2, <3>3 DEF BookedAt, Live, At
  <2>4. CASE Register(a)
    <3>1. /\ invocation'[a].at = "registered" /\ invocation'[a].route = invocation[a].route
          /\ At(a, "routed") /\ booked' = booked /\ reply' = reply
          /\ control'[a] = Registered(a) /\ work_policy' = work_policy
      BY <1>0, <2>4 DEF Register, Goes
    <3>2. reply[a].kind = "None" /\ invocation[a].route = Nowhere /\ booked[a] = Home(a)
      BY <1>0, <3>1 DEF ActorInv, PublishedAt, BookedAt, At
    <3>3. ~Stealing(a)
      <4>1. ~Awaited(a)
        BY <3>1 DEF Awaited, Awaits, At
      <4> QED BY <1>0, <4>1, NoneOwed DEF ActorInv, Only
    <3>4. Keeper(a)' = Home(a)
      BY <3>1, <3>3 DEF Keeper, Stealing, Registered
    <3> QED BY <1>0, <3>1, <3>2, <3>4 DEF BookedAt, Settled, Live, At
  <2>5. CASE SendBegin(a) \/ SendDrain(a)
    <3>1. /\ invocation'[a].route = invocation[a].route
          /\ \/ At(a, "registered") /\ invocation'[a].at = "waiting"
             \/ At(a, "publishing") /\ invocation'[a].at \in {"resuming", "cancelling"}
          /\ booked' = booked /\ reply' = reply /\ control' = control
      BY <1>0, <2>5 DEF SendBegin, SendDrain, Goes, sharedVars
    <3>2. Live(a) /\ reply[a].kind = "None"
      BY <1>0, <3>1 DEF Live, ActorInv, PublishedAt, At
    <3>3. /\ invocation'[a].at = "waiting" => invocation[a].route = Nowhere
          /\ invocation'[a].at # "waiting" => booked[a] = invocation[a].route
          /\ booked[a] \in Shards
          /\ Settled(a)' => booked[a] = Keeper(a)
      BY <1>0, <3>1, <3>2 DEF BookedAt, Settled, Answers, At
    <3> QED BY <1>2, <3>1, <3>2, <3>3 DEF BookedAt, Live, At
  <2>6. CASE PublishWake(a)
    <3>1. /\ invocation'[a].route = invocation[a].route
          /\ At(a, "holding") /\ invocation'[a].at = "publishing"
          /\ booked' = booked /\ reply' = reply
          /\ control[a].life = "Parked" /\ control'[a].scheduler = control[a].scheduler
      BY <1>0, <2>6 DEF PublishWake, Publish, ParkedAt, Goes
    <3>2. Live(a) /\ reply[a].kind = "None"
      BY <1>0, <3>1 DEF Live, ActorInv, PublishedAt, At
    <3>3. booked[a] = invocation[a].route /\ booked[a] \in Shards /\ booked[a] = Keeper(a)
      BY <1>0, <3>1, <3>2 DEF BookedAt, Settled, Answers, At
    <3> QED BY <1>2, <3>1, <3>2, <3>3 DEF BookedAt, Live, At
  <2>7. CASE UNCHANGED <<callerVars, reply, control>>
    <3>1. invocation' = invocation /\ booked' = booked
      BY <2>7 DEF callerVars
    <3> QED BY <1>0, <1>2, <2>7, <3>1, BookedStays
  <2> QED BY <1>0, <2>1, <2>2, <2>3, <2>4, <2>5, <2>6, <2>7, CallerKinds, CallerEnds
<1> QED BY <1>3, <1>4

\* They leave an envelope that was sent where it is.
LEMMA CallerEnvelope ==
    ASSUME ServeInv, Counted, Named, Books, NEW a \in Actors, CallerStep(a)
    PROVE  EnvelopeAt'
<1> SUFFICES ASSUME work_policy'.phase = "importing" PROVE EnvelopeAt'
  BY DEF EnvelopeAt
<1>0. /\ invocation \in [Actors -> [at : Phases, route : Places]]
      /\ reply \in [Actors -> Replies] /\ booked \in [Actors -> Places]
      /\ BookedAt(a)
  BY DEF ServeInv, Shape, Books, Counted
<1>1. /\ work_policy' = work_policy
      /\ \A c \in Actors \ {a} : /\ invocation'[c] = invocation[c]
                                 /\ booked'[c] = booked[c]
                                 /\ reply'[c] = reply[c]
      /\ \A t \in Shards, c \in Actors : Sent(t, "Import", c) => Sent(t, "Import", c)'
  BY CallerTouches
<1>2. PICK b \in Actors, to \in Shards : b = work_policy.actor /\ to = work_policy.to
  BY <1>1 DEF ServeInv, PolicyAt
<1>3. \/ Sent(to, "Import", b)
      \/ invocation[b].at \in {"waiting", "resuming"} /\ Failed(b) /\ booked[b] = to
      \/ At(b, "done") /\ booked[b] = to
      \/ At(b, "done") /\ booked[b] = Nowhere /\ EntryOf(b) = to
  BY <1>1, <1>2 DEF Books, EnvelopeAt
<1> SUFFICES \/ Sent(to, "Import", b)'
             \/ invocation'[b].at \in {"waiting", "resuming"} /\ Failed(b)' /\ booked'[b] = to
             \/ At(b, "done")' /\ booked'[b] = to
             \/ At(b, "done")' /\ booked'[b] = Nowhere /\ EntryOf(b)' = to
  BY <1>1, <1>2 DEF EnvelopeAt
<1>4. CASE Sent(to, "Import", b)
  BY <1>1, <1>2, <1>4
<1>5. CASE b # a
  <2>1. /\ invocation'[b] = invocation[b] /\ booked'[b] = booked[b] /\ reply'[b] = reply[b]
    BY <1>1, <1>2, <1>5
  <2> QED BY <1>3, <1>4, <2>1 DEF Failed, At, EntryOf
<1>6. CASE b = a /\ UNCHANGED <<callerVars, reply, control>>
  <2>1. invocation' = invocation /\ booked' = booked /\ reply' = reply
    BY <1>6 DEF callerVars
  <2> QED BY <1>3, <1>4, <2>1 DEF Failed, At, EntryOf
<1>7. CASE b = a /\ At(a, "done")
  <2>1. UNCHANGED <<callerVars, reply, control>>
    <3>1. HelperSends(a) \/ \E from, to_ \in Shards : StartSteal(a, from, to_)
      BY <1>7 DEF CallerStep, RouteNewActor, Register, SendBegin, BeginRefused,
         ReceiveReply, PublishWake, SendDrain, DrainRefused, PublicationUnrecorded,
         ReceiveResumed, ReceiveCancelled, DropInvocation, At
    <3> QED BY <3>1 DEF HelperSends, StartSteal, sharedVars
  <2> QED BY <1>6, <1>7, <2>1
<1>8. CASE /\ b = a /\ invocation[a].at \in {"waiting", "resuming"}
           /\ Failed(a) /\ booked[a] = to
  <2>1. ASSUME NEW s, Ends(a, s), EntryOf(a) = s
        PROVE  /\ At(a, "done")' /\ EntryOf(a)' = s
               /\ booked'[a] = to \/ (booked'[a] = Nowhere /\ to = s)
    <3>1. invocation'[a].at = "done" /\ invocation'[a].route = invocation[a].route
      BY <1>0, <2>1 DEF Ends, Goes
    <3>2. booked'[a] = to \/ (booked'[a] = Nowhere /\ to = s)
      BY <1>0, <1>8, <2>1 DEF Ends
    <3> QED BY <2>1, <3>1, <3>2 DEF At, EntryOf
  <2>2. \/ \E s : Ends(a, s) /\ EntryOf(a) = s
        \/ UNCHANGED <<callerVars, reply, control>>
    <3>1. /\ ~RouteNewActor(a) /\ ~Register(a) /\ ~SendBegin(a) /\ ~PublishWake(a)
          /\ ~SendDrain(a) /\ reply[a].kind # "Waiting"
      BY <1>8 DEF RouteNewActor, Register, SendBegin, PublishWake, SendDrain, At, Failed
    <3> QED BY <1>0, <1>8, <3>1, CallerKinds, CallerEnds
  <2>3. CASE UNCHANGED <<callerVars, reply, control>>
    BY <1>6, <1>8, <2>3
  <2>4. ASSUME NEW s, Ends(a, s), EntryOf(a) = s
        PROVE  \/ At(b, "done")' /\ booked'[b] = to
               \/ At(b, "done")' /\ booked'[b] = Nowhere /\ EntryOf(b)' = to
    BY <1>8, <2>1, <2>4
  <2> QED BY <2>2, <2>3, <2>4
<1> QED BY <1>3, <1>4, <1>5, <1>7, <1>8

\* An actor in the hands of a thief: it is charged to the shard it is taken from, and
\* to the destination once the envelope is under way.
LEMMA StolenBooked ==
    ASSUME ServeInv, Books, NEW a \in Actors, a = work_policy.actor,
           work_policy.phase \in {"detached", "rejected"}
    PROVE  /\ invocation[a].at \in {"waiting", "resuming"} /\ reply[a].kind = "None"
           /\ QueuedAt(a, work_policy.to)
           /\ booked[a] = IF work_policy.phase = "detached" THEN work_policy.from
                                                            ELSE work_policy.to
<1>1. Stealing(a) /\ Has(a, "steal", Nowhere) /\ "steal" \in Tags \ {"mail"}
  BY DEF Stealing, Has, Tags
<1>2. invocation[a].at \in {"waiting", "resuming"} /\ reply[a].kind = "None"
  BY <1>1, OwedUnpublished, Sizes
<1>3. QueuedAt(a, work_policy.to)
  BY <1>1 DEF ServeInv, ActorInv, OwedAt
<1>4. booked[a] = Keeper(a)
  BY <1>2, <1>3 DEF Books, BookedAt, Settled, Live, Answers, QueuedAt
<1> QED BY <1>2, <1>3, <1>4 DEF Keeper, QueuedAt

\* A request whose reservation moves is in the books where it moves to.
LEMMA BookedMoves ==
    ASSUME NEW a \in Actors, BookedAt(a), booked \in [Actors -> Places],
           invocation' = invocation, invocation[a].at \in {"waiting", "resuming", "done"},
           NEW to \in Shards, booked' = [booked EXCEPT ![a] = to],
           \/ reply'[a].kind \notin Answers
           \/ reply'[a].kind = "None" /\ Keeper(a)' = to
    PROVE  BookedAt(a)'
<1>1. booked'[a] = to
  OBVIOUS
<1> QED BY <1>1 DEF BookedAt, Settled, Live, At, Answers

\* The steps of a steal keep the books.
LEMMA ThiefBooks ==
    ASSUME ServeInv, Counted, Books, ThiefStep
    PROVE  Books'
<1> SUFFICES ASSUME NEW a, NEW from, NEW to, a = work_policy.actor,
                    from = work_policy.from, to = work_policy.to
             PROVE  Books'
  OBVIOUS
<1>0. /\ reply \in [Actors -> Replies] /\ inbox \in [Shards -> Seq(Commands)]
      /\ control \in [Actors -> [life : {"None", "Queued", "Parked"}, scheduler : Places]]
      /\ booked \in [Actors -> Places] /\ invocation' = invocation
      /\ Shape /\ \A s \in Shards : Balanced(s)
      /\ \A b \in Actors : BookedAt(b)
      /\ work_policy \in [phase : {"idle", "detaching", "detached", "importing",
                                 "rejected", "restoring"},
                        by : 0 .. MaxActors, from : Places, to : Places,
                        actor : 0 .. MaxActors]
  BY ThiefCalls DEF ServeInv, Shape, Counted, Books
<1>1. /\ work_policy.phase # "idle" => from \in Shards /\ to \in Shards /\ from # to
      /\ work_policy.phase \notin {"idle", "detaching"} => a \in Actors
  BY DEF ServeInv, PolicyAt
<1>2. CASE SendImport \/ SendImportFails
  <2>1. /\ work_policy.phase = "detached" /\ MoveReservation(from, to)
        /\ reply' = reply /\ control' = control
        /\ \/ /\ work_policy'.phase = "importing"
              /\ Send(to, [op |-> "Import", actor |-> a])
           \/ work_policy'.phase = "rejected"
        /\ work_policy'.actor = a /\ work_policy'.to = to
    BY <1>0, <1>2 DEF SendImport, SendImportFails, sharedVars
  <2>2. /\ a \in Actors /\ from \in Shards /\ to \in Shards /\ from # to
        /\ invocation[a].at \in {"waiting", "resuming"} /\ reply[a].kind = "None"
        /\ control[a].scheduler = to /\ booked[a] = from
    BY <1>1, <2>1, StolenBooked DEF QueuedAt
  <2>3. \A s \in Shards : Balanced(s)'
    BY <1>0, <2>1, <2>2, BalanceMoves
  <2>4. booked' = [booked EXCEPT ![a] = to]
    BY <2>1 DEF MoveReservation
  <2>5. BookedAt(a)'
    <3>1. Keeper(a)' = to
      BY <2>1, <2>2 DEF Keeper
    <3> QED BY <1>0, <2>1, <2>2, <2>4, <3>1, BookedMoves
  <2>6. ASSUME NEW b \in Actors \ {a} PROVE BookedAt(b)'
    <3>1. Keeper(b)' = Keeper(b) /\ booked'[b] = booked[b]
      BY <1>0, <2>1, <2>4 DEF Keeper
    <3> QED BY <1>0, <2>1, <3>1, BookedStays
  <2>7. EnvelopeAt'
    <3>1. work_policy'.phase = "importing" => Sent(to, "Import", a)'
      <4> SUFFICES ASSUME work_policy'.phase = "importing" PROVE Sent(to, "Import", a)'
        OBVIOUS
      <4>1. Send(to, [op |-> "Import", actor |-> a])
        BY <2>1
      <4>2. inbox'[to] = Append(inbox[to], [op |-> "Import", actor |-> a])
        BY <1>0, <2>2, <4>1 DEF Send
      <4>3. inbox[to] \in Seq(Commands)
        BY <1>0, <2>2
      <4>4. /\ Len(inbox[to]) + 1 \in DOMAIN inbox'[to]
            /\ inbox'[to][Len(inbox[to]) + 1] = [op |-> "Import", actor |-> a]
        BY <4>2, <4>3
      <4> QED BY <4>3, <4>4 DEF Sent
    <3> QED BY <2>1, <3>1 DEF EnvelopeAt
  <2> QED BY <2>3, <2>5, <2>6, <2>7 DEF Books
<1>3. CASE RollBack
  <2>1. /\ work_policy.phase = "rejected" /\ MoveReservation(to, from)
        /\ control' = [control EXCEPT ![a].scheduler = from]
        /\ \/ work_policy'.phase = "restoring" /\ reply' = reply
           \/ /\ work_policy'.phase = "idle"
              /\ reply' = [reply EXCEPT ![a] = [kind |-> "Disconnected", scheduler |-> from]]
    BY <1>0, <1>3 DEF RollBack, MoveRoute, Answer, IdlePolicy
  <2>2. /\ a \in Actors /\ from \in Shards /\ to \in Shards /\ from # to
        /\ invocation[a].at \in {"waiting", "resuming"} /\ reply[a].kind = "None"
        /\ booked[a] = to
    BY <1>1, <2>1, StolenBooked
  <2>3. \A s \in Shards : Balanced(s)'
    BY <1>0, <2>1, <2>2, BalanceMoves
  <2>4. booked' = [booked EXCEPT ![a] = from]
    BY <2>1 DEF MoveReservation
  <2>5. BookedAt(a)'
    <3>1. Keeper(a)' = from
      BY <1>0, <2>1, <2>2 DEF Keeper
    <3>2. \/ reply'[a].kind = "None"
          \/ reply'[a].kind \notin Answers
      BY <1>0, <2>1, <2>2 DEF Answers
    <3> QED BY <1>0, <2>2, <2>4, <3>1, <3>2, BookedMoves
  <2>6. ASSUME NEW b \in Actors \ {a} PROVE BookedAt(b)'
    <3>1. /\ control'[b] = control[b] /\ reply'[b] = reply[b] /\ booked'[b] = booked[b]
          /\ invocation'[b] = invocation[b]
      BY <1>0, <2>1, <2>4
    <3>2. Keeper(b)' = Keeper(b)
      BY <2>1, <3>1 DEF Keeper
    <3> QED BY <1>0, <3>1, <3>2, BookedStays
  <2>7. EnvelopeAt'
    BY <2>1 DEF EnvelopeAt
  <2> QED BY <2>3, <2>5, <2>6, <2>7 DEF Books
<1>4. CASE StealLost
  <2>1. /\ work_policy.phase \in Asking /\ work_policy' = IdlePolicy
        /\ reply' = reply /\ control' = control
        /\ work_policy.phase = "importing" =>
              MoveReservation(to, from) /\ ~Running(to)
        /\ work_policy.phase # "importing" => UNCHANGED <<active_actors, booked>>
    BY <1>4 DEF StealLost, sharedVars
  <2>2. EnvelopeAt'
    BY <2>1 DEF EnvelopeAt, IdlePolicy
  <2>3. \A b \in Actors : Keeper(b)' = Keeper(b)
    BY <2>1 DEF Keeper, IdlePolicy, Asking
  <2>4. CASE work_policy.phase # "importing"
    <3>1. \A s \in Shards : Balanced(s)'
      BY <1>0, <2>1, <2>4, AllBalanced DEF At
    <3>2. \A b \in Actors : BookedAt(b)'
      BY <1>0, <2>1, <2>3, <2>4, BookedStays
    <3> QED BY <2>2, <3>1, <3>2 DEF Books
  <2>5. CASE work_policy.phase = "importing"
    <3>1. a \in Actors /\ from \in Shards /\ to \in Shards /\ from # to
      BY <1>1, <2>5
    <3>2. inbox[to] = <<>>
      BY <2>1, <2>5, <3>1 DEF ServeInv, InboxGone
    <3>3. ~Sent(to, "Import", a)
      BY <3>2 DEF Sent
    <3>4. \/ invocation[a].at \in {"waiting", "resuming"} /\ Failed(a) /\ booked[a] = to
          \/ At(a, "done") /\ booked[a] = to
          \/ At(a, "done") /\ booked[a] = Nowhere /\ EntryOf(a) = to
      BY <2>5, <3>3 DEF Books, EnvelopeAt
    <3>5. MoveReservation(to, from)
      BY <2>1, <2>5
    <3>6. \A s \in Shards : Balanced(s)'
      <4>1. booked[a] = to \/ (booked[a] = Nowhere /\ At(a, "done") /\ EntryOf(a) = to)
        BY <3>4
      <4> QED BY <1>0, <3>1, <3>5, <4>1, BalanceMoves
    <3>7. booked' = [booked EXCEPT ![a] = from]
      BY <3>5 DEF MoveReservation
    <3>8. BookedAt(a)'
      <4>1. CASE At(a, "done")
        BY <1>0, <4>1 DEF BookedAt, Settled, Live, At
      <4>2. CASE invocation[a].at \in {"waiting", "resuming"} /\ Failed(a)
        <5>1. reply'[a].kind \notin Answers
          BY <2>1, <4>2 DEF Failed, Answers
        <5> QED BY <1>0, <3>1, <3>7, <4>2, <5>1, BookedMoves
      <4> QED BY <3>4, <4>1, <4>2
    <3>9. ASSUME NEW b \in Actors \ {a} PROVE BookedAt(b)'
      <4>1. booked'[b] = booked[b]
        BY <1>0, <3>7
      <4> QED BY <1>0, <2>1, <2>3, <4>1, BookedStays
    <3> QED BY <2>2, <3>6, <3>8, <3>9 DEF Books
  <2> QED BY <2>4, <2>5
<1> QED BY <1>2, <1>3, <1>4 DEF ThiefStep

\* A request an owner serves is in the books of that owner, and stays there.
LEMMA FinishBooked ==
    ASSUME ServeInv, Books, NEW s \in Shards, NEW a \in Actors,
           NEW tag \in Tags \ {"steal", "import"}, NEW p \in Places, Has(a, tag, p),
           control[a].life # "None", control[a].scheduler = s,
           NEW outcome, NEW ready, NEW armed, NEW asked,
           Finish(s, a, outcome, ready, armed, asked),
           \A t \in Shards, b \in Actors :
              Sent(t, "Import", b) => Sent(t, "Import", b)'
    PROVE  (\A b \in Actors : BookedAt(b)') /\ EnvelopeAt'
<1>1. /\ reply \in [Actors -> Replies]
      /\ control \in [Actors -> [life : {"None", "Queued", "Parked"}, scheduler : Places]]
      /\ \A b \in Actors : BookedAt(b)
  BY DEF ServeInv, Shape, Books
<1>2. /\ invocation' = invocation /\ booked' = booked /\ work_policy' = work_policy
      /\ \/ reply' = reply
         \/ \E kind : reply' = [reply EXCEPT ![a] = [kind |-> kind, scheduler |-> s]]
      /\ \E word : /\ control' = [control EXCEPT ![a] = word]
                   /\ word.life = "None" \/ word.scheduler = s
  <2>1. UNCHANGED <<invocation, booked, work_policy>>
    BY DEF Finish, callerVars
  <2>2. \/ reply' = reply
        \/ \E kind : reply' = [reply EXCEPT ![a] = [kind |-> kind, scheduler |-> s]]
    BY DEF Finish, Settle, Answer
  <2>3. \/ control' = [control EXCEPT ![a] = Unregistered]
        \/ \E life : control' = [control EXCEPT ![a] = [life |-> life, scheduler |-> s]]
    BY DEF Finish, Settle, Continue
  <2>4. Unregistered.life = "None"
    BY DEF Unregistered
  <2>5. \A life : [life |-> life, scheduler |-> s].scheduler = s
    OBVIOUS
  <2> QED BY <2>1, <2>2, <2>3, <2>4, <2>5
<1>3. /\ Awaits(a) /\ reply[a].kind = "None" /\ Only(a, tag, p)
      /\ ~Stealing(a) /\ \A t \in Shards : ~Sent(t, "Import", a)
  <2>1. Awaits(a) /\ reply[a].kind = "None" /\ Only(a, tag, p)
    BY Sole DEF ServeInv, ActorInv
  <2> QED BY <2>1 DEF Only
<1>4. invocation[a].at \in {"waiting", "resuming", "publishing"}
  BY <1>3 DEF Awaits, At
<1>5. Keeper(a) = s /\ \A b \in Actors \ {a} : Keeper(b)' = Keeper(b)
  BY <1>1, <1>2, <1>3, KeeperIsDirectory DEF Keeper
<1>6. booked[a] = s
  BY <1>1, <1>3, <1>4, <1>5 DEF BookedAt, Settled, Live, Answers
<1>7. ASSUME NEW b \in Actors \ {a} PROVE BookedAt(b)'
  <2>1. control'[b] = control[b] /\ reply'[b] = reply[b]
    BY <1>1, <1>2
  <2> QED BY <1>1, <1>2, <1>5, <2>1, BookedStays
<1>8. BookedAt(a)'
  <2>1. /\ control'[a].life = "None" \/ control'[a].scheduler = s
        /\ reply'[a].kind = "None" \/ reply'[a].scheduler = s
    BY <1>1, <1>2, <1>3
  <2>2. Settled(a)' => Keeper(a)' = s
    <3>1. ~Stealing(a)'
      BY <1>2, <1>3 DEF Stealing
    <3> QED BY <2>1, <3>1 DEF Settled, Keeper, Stealing
  <2> QED BY <1>1, <1>2, <1>4, <1>6, <2>1, <2>2 DEF BookedAt, Live, At
<1>9. EnvelopeAt'
  <2> SUFFICES ASSUME work_policy.phase = "importing" PROVE EnvelopeAt'
    BY <1>2 DEF EnvelopeAt
  <2>1. work_policy.actor \in Actors /\ work_policy.to \in Shards
    BY DEF ServeInv, PolicyAt
  <2>2. work_policy.actor # a
    BY <1>3, <1>4, <2>1 DEF Books, EnvelopeAt, At, Failed
  <2>3. reply'[work_policy.actor] = reply[work_policy.actor]
    BY <1>1, <1>2, <2>1, <2>2
  <2> QED BY <1>2, <2>1, <2>3 DEF Books, EnvelopeAt, At, Failed, EntryOf
<1> QED BY <1>7, <1>8, <1>9

\* The slices of the actors an owner retains.
LEMMA RetainedBooked ==
    ASSUME ServeInv, Books, NEW s \in Shards, NEW a \in Actors,
           ServiceRunnable(s, a) \/ FireTimer(s, a) \/ CompleteCapability(s, a)
    PROVE  (\A b \in Actors : BookedAt(b)') /\ EnvelopeAt'
<1>1. \A t \in Shards, b \in Actors : Sent(t, "Import", b) => Sent(t, "Import", b)'
  <2>1. inbox' = inbox
    BY DEF ServiceRunnable, FireTimer, CompleteCapability
  <2> QED BY <2>1 DEF Sent
<1>2. PICK tag \in {"run", "timer", "capability"} : Has(a, tag, s)
  BY DEF ServiceRunnable, FireTimer, CompleteCapability, Has
<1>3. control[a].life # "None" /\ control[a].scheduler = s
  BY DEF ServiceRunnable, FireTimer, CompleteCapability, QueuedAt, ParkedAt
<1>4. PICK outcome, ready, armed, asked : Finish(s, a, outcome, ready, armed, asked)
  BY DEF ServiceRunnable, FireTimer, CompleteCapability
<1>5. tag \in Tags \ {"steal", "import"} /\ s \in Places
  BY Sizes DEF Tags
<1> QED BY <1>1, <1>2, <1>3, <1>4, <1>5, FinishBooked

\* What an owner knows of the command about an actor that it takes.
LEMMA CommandTaken ==
    ASSUME ServeInv, NEW s \in Shards, NEW op \in ActorOps, Received(s, op),
           TakeCommand(s)
    PROVE  /\ Head(inbox[s]).actor \in Actors /\ Sent(s, op, Head(inbox[s]).actor)
           /\ \A t \in Shards, b \in Actors : op # "Import" /\ Sent(t, "Import", b)
                 => Sent(t, "Import", b)'
<1> DEFINE c == Head(inbox[s])
<1>1. inbox[s] # <<>> /\ c.op = op
  BY DEF Received
<1>2. /\ c \in Commands
      /\ \A kind \in ActorOps, a \in Actors :
            c = [op |-> kind, actor |-> a] => Sent(s, kind, a)
      /\ \A t \in Shards, kind \in ActorOps, a \in Actors :
            Sent(t, kind, a)' <=>
               Sent(t, kind, a) /\ ~(t = s /\ c = [op |-> kind, actor |-> a])
  BY <1>1, SentByTake DEF ServeInv, Shape
<1> HIDE DEF c
<1>3. c.actor \in Actors /\ c = [op |-> op, actor |-> c.actor]
  BY <1>1, <1>2, CommandKinds
<1>4. Sent(s, op, c.actor)
  BY <1>2, <1>3
<1>5. ASSUME NEW t \in Shards, NEW b \in Actors, op # "Import", Sent(t, "Import", b)
      PROVE  Sent(t, "Import", b)'
  <2>1. c # [op |-> "Import", actor |-> b]
    <3>1. [op |-> "Import", actor |-> b].op = "Import"
      OBVIOUS
    <3> QED BY <1>1, <1>5, <3>1
  <2> QED BY <1>2, <1>5, <2>1 DEF ActorOps
<1> QED BY <1>3, <1>4, <1>5 DEF c

\* An owner begins an actor or drains its publication.
LEMMA CommandBooked ==
    ASSUME ServeInv, Books, NEW s \in Shards, HandleBegin(s) \/ HandleDrain(s)
    PROVE  (\A b \in Actors : BookedAt(b)') /\ EnvelopeAt'
<1>1. CASE HandleBegin(s)
  <2>1. PICK a : a = Head(inbox[s]).actor
    OBVIOUS
  <2>2. /\ Received(s, "Begin") /\ TakeCommand(s) /\ QueuedAt(a, s)
        /\ \E outcome : Finish(s, a, outcome, runnable[s], timers[s], capabilities[s])
    BY <1>1, <2>1 DEF HandleBegin
  <2>3. /\ a \in Actors /\ Sent(s, "Begin", a)
        /\ \A t \in Shards, b \in Actors : Sent(t, "Import", b) => Sent(t, "Import", b)'
    BY <2>1, <2>2, CommandTaken DEF ActorOps
  <2>4. Has(a, "begin", s) /\ "begin" \in Tags \ {"steal", "import"} /\ s \in Places
    BY <2>3, Sizes DEF Has, Tags
  <2> QED BY <2>2, <2>3, <2>4, FinishBooked DEF QueuedAt
<1>2. CASE HandleDrain(s)
  <2>1. PICK a : a = Head(inbox[s]).actor
    OBVIOUS
  <2>2. /\ Received(s, "Drain") /\ TakeCommand(s) /\ QueuedAt(a, s) /\ published[a] # "none"
        /\ \/ /\ published[a] = "resumed"
              /\ \E outcome : Finish(s, a, outcome, runnable[s], timers[s], capabilities[s])
           \/ published[a] # "resumed" /\ Cancel(s, a)
    BY <1>2, <2>1 DEF HandleDrain
  <2>3. /\ a \in Actors /\ Sent(s, "Drain", a)
        /\ \A t \in Shards, b \in Actors : Sent(t, "Import", b) => Sent(t, "Import", b)'
    BY <2>1, <2>2, CommandTaken DEF ActorOps
  <2>4. ActorInv(a) /\ published[a] \in {"none", "resumed", "waited", "detached"}
    BY <2>3 DEF ServeInv, Shape
  <2>5. CASE /\ published[a] = "resumed"
             /\ \E outcome : Finish(s, a, outcome, runnable[s], timers[s], capabilities[s])
    <3>1. At(a, "resuming")
      BY <2>3, <2>4, <2>5 DEF ActorInv, DrainsSent
    <3>2. Has(a, "mail", Nowhere) /\ "mail" \in Tags \ {"steal", "import"}
      BY <2>5, <3>1 DEF Has, Awaits, Tags
    <3> QED BY <2>2, <2>3, <2>5, <3>2, FinishBooked, Sizes DEF QueuedAt
  <2>6. CASE published[a] # "resumed" /\ Cancel(s, a)
    <3>1. /\ invocation' = invocation /\ booked' = booked /\ work_policy' = work_policy
          /\ control' = [control EXCEPT ![a] = Unregistered]
          /\ \/ reply' = reply
             \/ /\ published[a] = "waited"
                /\ reply' = [reply EXCEPT ![a] = [kind |-> "Cancelled", scheduler |-> s]]
      BY <2>6 DEF Cancel, callerVars
    <3>2. /\ invocation[a].at \in {"cancelling", "done"}
      BY <2>2, <2>3, <2>4, <2>6 DEF ActorInv, DrainsSent, PublishedAt, At
    <3>3. /\ control \in [Actors -> [life : {"None", "Queued", "Parked"},
                                     scheduler : Places]]
          /\ reply \in [Actors -> Replies]
      BY DEF ServeInv, Shape
    <3>4. /\ control'[a].life = "None"
          /\ \A b \in Actors \ {a} : control'[b] = control[b] /\ reply'[b] = reply[b]
          /\ reply'[a] = reply[a] \/ reply'[a].kind \notin Answers
      BY <2>3, <3>1, <3>3 DEF Unregistered, Answers
    <3>5. \A b \in Actors \ {a} : Keeper(b)' = Keeper(b)
      BY <3>1, <3>4 DEF Keeper
    <3>6. \A b \in Actors : BookedAt(b)'
      BY <3>1, <3>4, <3>5, BookedStays DEF Books
    <3>7. EnvelopeAt'
      <4> SUFFICES ASSUME work_policy.phase = "importing" PROVE EnvelopeAt'
        BY <3>1 DEF EnvelopeAt
      <4>1. work_policy.actor \in Actors /\ work_policy.to \in Shards
        BY DEF ServeInv, PolicyAt
      <4>2. work_policy.actor # a => reply'[work_policy.actor] = reply[work_policy.actor]
        BY <3>4, <4>1
      <4> QED BY <2>3, <3>1, <3>2, <4>1, <4>2 DEF Books, EnvelopeAt, At, Failed, EntryOf
    <3> QED BY <3>6, <3>7
  <2> QED BY <2>2, <2>5, <2>6
<1> QED BY <1>1, <1>2

\* An owner gives an actor up to a thief, or takes it in.
LEMMA StealBooked ==
    ASSUME ServeInv, Books, NEW s \in Shards, HandleDetach(s) \/ HandleImport(s)
    PROVE  (\A b \in Actors : BookedAt(b)') /\ EnvelopeAt'
<1>0. /\ control \in [Actors -> [life : {"None", "Queued", "Parked"}, scheduler : Places]]
      /\ reply \in [Actors -> Replies] /\ runnable \in [Shards -> SUBSET Actors]
      /\ \A b \in Actors : BookedAt(b)
      /\ work_policy \in [phase : {"idle", "detaching", "detached", "importing",
                                 "rejected", "restoring"},
                        by : 0 .. MaxActors, from : Places, to : Places,
                        actor : 0 .. MaxActors]
  BY DEF ServeInv, Shape, Books
<1>1. CASE HandleDetach(s)
  <2>1. /\ Running(s) /\ inbox[s] # <<>> /\ Head(inbox[s]).op = "Detach"
        /\ TakeCommand(s)
        /\ invocation' = invocation /\ booked' = booked /\ reply' = reply
    BY <1>1 DEF HandleDetach, Received, Top, callerVars
  <2>2. PICK to : to = Head(inbox[s]).to
    OBVIOUS
  <2>3. to \in Shards /\ Asks(s, to)
    <3> DEFINE c == Head(inbox[s])
    <3>1. /\ c \in Commands /\ c.op = "Detach"
          /\ \A dest \in Shards : c = [op |-> "Detach", to |-> dest] => Asks(s, dest)
      BY <2>1, SentByTake DEF ServeInv, Shape
    <3>2. to = c.to
      BY <2>2
    <3> HIDE DEF c
    <3>3. c.to \in Shards /\ c = [op |-> "Detach", to |-> c.to]
      BY <3>1, CommandKinds
    <3> QED BY <3>1, <3>2, <3>3
  <2>4. work_policy.phase = "detaching" /\ s = work_policy.from
    BY <2>3 DEF ServeInv, PolicyAt
  <2>5. CASE work_policy' = IdlePolicy /\ control' = control
    <3>1. \A b \in Actors : Keeper(b)' = Keeper(b)
      BY <2>4, <2>5 DEF Keeper, IdlePolicy
    <3> QED BY <1>0, <2>1, <2>5, <3>1, BookedStays DEF EnvelopeAt, IdlePolicy
  <2>6. ASSUME NEW a \in runnable[s], QueuedAt(a, s),
               control' = [control EXCEPT ![a].scheduler = to],
               work_policy' = [work_policy EXCEPT !.phase = "detached", !.actor = a]
        PROVE  (\A b \in Actors : BookedAt(b)') /\ EnvelopeAt'
    <3>1. /\ a \in Actors /\ work_policy'.phase = "detached" /\ work_policy'.actor = a
          /\ work_policy'.from = s
          /\ control'[a].life = control[a].life
          /\ \A b \in Actors \ {a} : control'[b] = control[b]
      BY <1>0, <2>4, <2>6
    <3>2. Keeper(a) = s /\ Keeper(a)' = s
      BY <2>4, <2>6, <3>1 DEF Keeper, QueuedAt
    <3>3. \A b \in Actors \ {a} : Keeper(b)' = Keeper(b)
      BY <2>4, <3>1 DEF Keeper
    <3>4. BookedAt(a)'
      <4>1. BookedAt(a)
        BY <1>0, <3>1
      <4> QED BY <2>1, <3>1, <3>2, <4>1 DEF BookedAt, Settled, Live, At
    <3>5. ASSUME NEW b \in Actors \ {a} PROVE BookedAt(b)'
      BY <1>0, <2>1, <3>1, <3>3, BookedStays
    <3>6. EnvelopeAt'
      BY <3>1 DEF EnvelopeAt
    <3> QED BY <3>4, <3>5, <3>6
  <2>7. \/ work_policy' = IdlePolicy /\ control' = control
        \/ \E a \in runnable[s] :
              /\ QueuedAt(a, s)
              /\ \/ /\ control' = [control EXCEPT ![a].scheduler = s]
                    /\ work_policy' = IdlePolicy
                 \/ /\ control' = [control EXCEPT ![a].scheduler = to]
                    /\ work_policy' = [work_policy EXCEPT !.phase = "detached",
                                                          !.actor = a]
    BY <1>1, <2>2 DEF HandleDetach, DetachRefused, MoveRoute
  <2>8. ASSUME NEW a \in runnable[s], QueuedAt(a, s),
               control' = [control EXCEPT ![a].scheduler = s]
        PROVE  control' = control
    <3>1. a \in Actors /\ control[a].scheduler = s
      BY <1>0, <2>8 DEF QueuedAt
    <3>2. [control[a] EXCEPT !.scheduler = s] = control[a]
      BY <1>0, <3>1
    <3> QED BY <1>0, <2>8, <3>1, <3>2
  <2> QED BY <2>5, <2>6, <2>7, <2>8
<1>2. CASE HandleImport(s)
  <2>1. PICK a : a = Head(inbox[s]).actor
    OBVIOUS
  <2>2. /\ Received(s, "Import") /\ TakeCommand(s)
        /\ invocation' = invocation /\ booked' = booked /\ control' = control
        /\ \/ reply' = reply
           \/ reply' = [reply EXCEPT ![a] = [kind |-> "Disconnected", scheduler |-> s]]
        /\ work_policy' = IdlePolicy \/ work_policy'.phase = "rejected"
    BY <1>0, <1>2, <2>1 DEF HandleImport, Answer, callerVars, sharedVars
  <2>3. a \in Actors /\ Sent(s, "Import", a)
    BY <2>1, <2>2, CommandTaken DEF ActorOps
  <2>4. work_policy.phase \in {"importing", "restoring"}
    BY <2>3 DEF ServeInv, PolicyAt
  <2>5. \A b \in Actors : Keeper(b)' = Keeper(b)
    BY <2>2, <2>4 DEF Keeper, IdlePolicy
  <2>6. \A b \in Actors : reply'[b] = reply[b] \/ reply'[b].kind \notin Answers
    BY <1>0, <2>2 DEF Answers
  <2>7. EnvelopeAt'
    BY <2>2 DEF EnvelopeAt, IdlePolicy
  <2> QED BY <1>0, <2>2, <2>5, <2>6, <2>7, BookedStays
<1> QED BY <1>1, <1>2

\* An owner stops, and the requests it holds fail: an envelope it was sent goes with it.
LEMMA StopBooked ==
    ASSUME ServeInv, Books, NEW s \in Shards, Panic(s) \/ HandleShutdown(s)
    PROVE  (\A b \in Actors : BookedAt(b)') /\ EnvelopeAt'
<1>0. /\ \A b \in Actors : BookedAt(b)
      /\ reply \in [Actors -> Replies] /\ Shape
  BY DEF ServeInv, Shape, Books
<1>1. /\ invocation' = invocation /\ booked' = booked /\ work_policy' = work_policy
      /\ inbox' = [inbox EXCEPT ![s] = <<>>]
      /\ \A b \in Actors : control'[b] = control[b] \/ control'[b].life = "None"
  BY DEF Panic, HandleShutdown, ShardDropped, callerVars, Unregistered
<1>2. \A b \in Actors : /\ \/ reply'[b] = reply[b]
                           \/ reply'[b].kind \in {"Err", "Disconnected"}
                        /\ b \in Holds(s) => reply'[b].kind \in {"Err", "Disconnected"}
  BY DEF Panic, HandleShutdown, Holds
<1>3. \A b \in Actors : control'[b] = control[b] => Keeper(b)' = Keeper(b)
  BY <1>1 DEF Keeper
<1>4. \A b \in Actors : BookedAt(b)'
  BY <1>0, <1>1, <1>2, <1>3, BookedStays DEF Answers
<1>5. EnvelopeAt'
  <2> SUFFICES ASSUME work_policy.phase = "importing" PROVE EnvelopeAt'
    BY <1>1 DEF EnvelopeAt
  <2>1. PICK a \in Actors, to \in Shards : a = work_policy.actor /\ to = work_policy.to
    BY DEF ServeInv, PolicyAt
  <2> SUFFICES \/ Sent(to, "Import", a)'
               \/ /\ invocation[a].at \in {"waiting", "resuming"} /\ booked[a] = to
                  /\ reply'[a].kind \in {"Err", "Disconnected"}
               \/ At(a, "done") /\ booked[a] = to
               \/ At(a, "done") /\ booked[a] = Nowhere /\ EntryOf(a) = to
    BY <1>1, <2>1 DEF EnvelopeAt, At, EntryOf, Failed
  <2>2. CASE Sent(to, "Import", a)
    <3>1. CASE to # s
      <4>1. inbox'[to] = inbox[to]
        BY <1>1, <3>1 DEF ServeInv, Shape
      <4> QED BY <2>2, <4>1 DEF Sent
    <3>2. CASE to = s
      <4>1. reply'[a].kind \in {"Err", "Disconnected"}
        BY <1>0, <1>2, <2>2, <3>2, HoldsMeans
      <4>2. Has(a, "import", to) /\ "import" \in Tags \ {"mail"} /\ to \in Places
        BY <2>2, Sizes DEF Has, Tags
      <4>3. invocation[a].at \in {"waiting", "resuming"} /\ reply[a].kind = "None"
        BY <4>2, OwedUnpublished
      <4>4. QueuedAt(a, to)
        BY <2>2 DEF ServeInv, ActorInv, OwedAt
      <4>5. booked[a] = to
        BY <1>0, <4>3, <4>4 DEF BookedAt, Settled, Live, Answers, Keeper, QueuedAt
      <4> QED BY <4>1, <4>3, <4>5
    <3> QED BY <3>1, <3>2
  <2>3. CASE ~Sent(to, "Import", a)
    BY <1>2, <2>1, <2>3 DEF Books, EnvelopeAt, Failed
  <2> QED BY <2>2, <2>3
<1> QED BY <1>4, <1>5

\* Every step keeps the books.
LEMMA NextBooks ==
    ASSUME ServeInv, Counted, Named, Books, [Next]_vars
    PROVE  Books'
<1>1. ASSUME NEW a \in Actors, CallerStep(a) PROVE Books'
  BY <1>1, CallerBooked, CallerEnvelope, CallerBalances DEF Books
<1>2. ASSUME ThiefStep PROVE Books'
  BY <1>2, ThiefBooks
<1>3. ASSUME UNCHANGED callerVars PROVE \A s \in Shards : Balanced(s)'
  BY <1>3, AllBalanced DEF Books, callerVars, At
<1>4. ASSUME NEW s \in Shards, Shutdown(s) \/ UNCHANGED vars
      PROVE  (\A b \in Actors : BookedAt(b)') /\ EnvelopeAt'
  <2>1. /\ UNCHANGED <<invocation, booked, reply, control, work_policy>>
        /\ \/ inbox' = inbox
           \/ Send(s, [op |-> "Shutdown"])
    BY <1>4 DEF Shutdown, vars, callerVars, sharedVars, ownerVars
  <2>2. ASSUME NEW t \in Shards, NEW b \in Actors, Sent(t, "Import", b)
        PROVE  Sent(t, "Import", b)'
    <3>1. PICK i \in DOMAIN inbox[t] :
             inbox[t][i].op = "Import" /\ inbox[t][i].actor = b
      BY <2>2 DEF Sent
    <3>2. inbox[t] \in Seq(Commands)
      BY DEF ServeInv, Shape
    <3>3. \/ inbox'[t] = inbox[t]
          \/ inbox'[t] = Append(inbox[t], [op |-> "Shutdown"])
      BY <2>1 DEF Send, ServeInv, Shape
    <3>4. i \in DOMAIN inbox'[t] /\ inbox'[t][i] = inbox[t][i]
      BY <3>2, <3>3
    <3> QED BY <3>1, <3>4 DEF Sent
  <2>3. \A b \in Actors : BookedAt(b)'
    BY <2>1, BookedStays DEF Books, Keeper
  <2>4. EnvelopeAt'
    <3>1. work_policy.phase = "importing" =>
             work_policy.actor \in Actors /\ work_policy.to \in Shards
      BY DEF ServeInv, PolicyAt
    <3> QED BY <2>1, <2>2, <3>1 DEF Books, EnvelopeAt, At, Failed, EntryOf
  <2> QED BY <2>3, <2>4
<1>5. ASSUME NEW s \in Shards, OwnerStep(s) \/ Panic(s) \/ Shutdown(s) PROVE Books'
  <2>1. (\A b \in Actors : BookedAt(b)') /\ EnvelopeAt'
    BY <1>4, <1>5, RetainedBooked, CommandBooked, StealBooked, StopBooked
       DEF OwnerStep, CommandStep
  <2>2. UNCHANGED callerVars
    BY <1>5, OthersCall
  <2> QED BY <1>3, <2>1, <2>2 DEF Books
<1>6. ASSUME NEW s \in Shards, NEW a \in Actors, EventStep(s, a) PROVE Books'
  <2>1. (\A b \in Actors : BookedAt(b)') /\ EnvelopeAt'
    BY <1>6, RetainedBooked DEF EventStep
  <2>2. UNCHANGED callerVars
    BY <1>6, OthersCall
  <2> QED BY <1>3, <2>1, <2>2 DEF Books
<1>7. CASE UNCHANGED vars
  <2>1. PICK s \in Shards : TRUE
    BY Sizes DEF Shards
  <2> QED BY <1>3, <1>4, <1>7, <2>1 DEF Books, vars
<1> QED BY <1>1, <1>2, <1>5, <1>6, <1>7 DEF Next

\* Every shard is charged, in the width of its counter, for the requests in its books,
\* less what failed requests whose actors were stolen gave back to it, and has in its
\* books the requests it serves (move_actor_reservation, release_actor_route,
\* begin_target_invocation), for any number of shards, actors and faults.
THEOREM ReservationsAreExact == Spec => []ReservationsExact
<1>1. Init => Books
  <2> SUFFICES ASSUME Init PROVE Books
    OBVIOUS
  <2>1. \A a \in Actors : BookedAt(a)
    BY DEF Init, BookedAt, Settled, Live, At
  <2>2. EnvelopeAt
    BY DEF Init, EnvelopeAt, IdlePolicy
  <2>3. ASSUME NEW s \in Shards PROVE Balanced(s)
    <3>1. Booked(s) = {} /\ Overdrawn(s) = {}
      BY Sizes DEF Init, Booked, Overdrawn
    <3> QED BY <3>1, FS_EmptySet DEF Init, Balanced, Squares
  <2> QED BY <2>1, <2>2, <2>3 DEF Books
<1>2. ServeInv /\ Counted /\ Named /\ Books /\ [Next]_vars => Books'
  BY NextBooks
<1>3. Init => Named
  BY DEF Init, Named, NoReply
<1>4. ServeInv /\ Named /\ [Next]_vars => Named'
  <2> SUFFICES ASSUME ServeInv, Named, [Next]_vars PROVE Named'
    OBVIOUS
  <2>1. CASE UNCHANGED vars
    BY <2>1, NamesStay DEF vars, callerVars
  <2> QED BY <2>1, CallerNames, OthersName DEF Next
<1>5. ServeInv /\ Counted /\ Books => ReservationsExact
  <2> SUFFICES ASSUME ServeInv, Counted, Books, NEW s \in Shards
               PROVE  /\ (active_actors[s] + Cardinality(Overdrawn(s))) % CounterModulus
                            = Cardinality(Booked(s))
                      /\ \A a \in runnable[s] \cup timers[s] \cup capabilities[s] :
                            booked[a] = s
    BY DEF ReservationsExact
  <2>1. (active_actors[s] + Cardinality(Overdrawn(s))) % CounterModulus
           = Cardinality(Booked(s))
    BY BooksCount, SquaresWord DEF Books, Balanced, Counted, Words
  <2>2. ASSUME NEW a \in runnable[s] \cup timers[s] \cup capabilities[s]
        PROVE  booked[a] = s
    <3>1. a \in Actors /\ ActorInv(a) /\ BookedAt(a)
      BY DEF ServeInv, Shape, Books
    <3>2. PICK tag \in {"run", "timer", "capability"} : Has(a, tag, s)
      BY DEF Has
    <3>3. tag \in Tags \ {"mail", "steal"} /\ s \in Places
      BY Sizes DEF Tags
    <3>4. /\ Only(a, tag, s) /\ reply[a].kind = "None"
          /\ invocation[a].at \in {"waiting", "resuming"}
      BY <3>1, <3>2, <3>3, OwedUnpublished
    <3>5. control[a].life # "None" /\ control[a].scheduler = s
      <4>1. OwedAt(a)
        BY <3>1 DEF ActorInv
      <4>2. QueuedAt(a, s) \/ ParkedAt(a, s)
        BY <2>2, <4>1 DEF OwedAt
      <4> QED BY <4>2 DEF QueuedAt, ParkedAt
    <3>6. ~Stealing(a)
      BY <3>3, <3>4 DEF Only
    <3>7. Keeper(a) = s
      BY <3>1, <3>5, <3>6, KeeperIsDirectory
    <3> QED BY <3>1, <3>4, <3>5, <3>7 DEF BookedAt, Settled, Live, Answers
  <2> QED BY <2>1, <2>2
<1> QED BY <1>1, <1>2, <1>3, <1>4, <1>5, CountsKept, Serves, PTL DEF Spec

=============================================================================
