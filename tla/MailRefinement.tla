--------------------------- MODULE MailRefinement ---------------------------
(***************************************************************************)
(* FixedSchedulerControl implements ActorMail.  An actor's state is its    *)
(* word's lifecycle while the directory holds its cell; queued and         *)
(* yielding are both ready.  Generations, tickets, admission counters, wake*)
(* states and the steps of a call are not visible.                         *)
(***************************************************************************)
EXTENDS FixedSchedulerControl

StateOf(lifecycle) ==
    IF lifecycle \in {"Queued", "Yielding"} THEN "ready"
    ELSE IF lifecycle = "Executing" THEN "running"
    ELSE IF lifecycle = "Parked" THEN "asleep"
    ELSE IF lifecycle = "Migrating" THEN "moving"
    ELSE "ended"

Message == [from : Producers, n : 1 .. MaxPublish]

\* The reserved sequence number of a fragment is not part of the message.
MessageOf(fragment) == [from |-> fragment.from, n |-> fragment.n]

Stripped(fragments) == [k \in 1 .. Len(fragments) |-> MessageOf(fragments[k])]

actorState == [slot \in Slots |->
    IF Occupied(slot) THEN StateOf(word[slot].lifecycle) ELSE "absent"]

actorRunner == [slot \in Slots |-> word[slot].owner]

actorMail == [slot \in Slots |-> Stripped(queue[slot])]

actorReceived == [slot \in Slots |-> Stripped(delivered[slot])]

Mail == INSTANCE ActorMail WITH
    Actors <- Slots, Nobody <- NoOwner, Messages <- Message,
    state <- actorState, runner <- actorRunner,
    mail <- actorMail, received <- actorReceived

\* The lock-free control plane behaves like actors with bounded mailboxes: one
\* scheduler runs an actor, only the running actor receives, in the order in
\* which the pushes took effect and each message once, and an actor is never
\* removed or moved while it runs, however publications, drains, parks,
\* requeues, migrations and reclamations interleave.
ImplementsMail == Mail!Safe

\* With threads that finish their calls, nobody sleeps on mail for ever either.
ImplementsMailSpec == Mail!Spec

=============================================================================
