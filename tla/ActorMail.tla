------------------------------ MODULE ActorMail ------------------------------
(***************************************************************************)
(* What the control plane of the fixed schedulers promises, with none of   *)
(* its locks, words, generations, tickets and wake states: actors that run *)
(* on one scheduler at a time, sleep, move and end, and mailboxes that are *)
(* bounded queues only the running actor takes from.  MailRefinement shows *)
(* that FixedSchedulerControl implements it.                               *)
(***************************************************************************)
EXTENDS Naturals, Sequences

CONSTANTS Actors, Schedulers, Nobody, Messages, Capacity

VARIABLES
    state,      \* what an actor does
    runner,     \* the scheduler that runs it
    mail,       \* messages sent and not yet received
    received    \* messages received, in order

vars == <<state, runner, mail, received>>

Init ==
    /\ state = [i \in Actors |-> "absent"]
    /\ runner = [i \in Actors |-> Nobody]
    /\ mail = [i \in Actors |-> <<>>]
    /\ received = [i \in Actors |-> <<>>]

Becomes(i, from, to) ==
    /\ state[i] \in from
    /\ \E next \in to : state' = [state EXCEPT ![i] = next]

\* A new actor begins with an empty mailbox.
Appear(i) ==
    /\ Becomes(i, {"absent"}, {"ready"})
    /\ mail' = [mail EXCEPT ![i] = <<>>]
    /\ received' = [received EXCEPT ![i] = <<>>]
    /\ UNCHANGED runner

\* Anyone may send to an actor that exists, also to one that is ending.
Send(i) ==
    /\ state[i] # "absent"
    /\ Len(mail[i]) < Capacity
    /\ \E m \in Messages : mail' = [mail EXCEPT ![i] = Append(@, m)]
    /\ UNCHANGED <<state, runner, received>>

Run(i, s) ==
    /\ runner[i] = Nobody
    /\ Becomes(i, {"ready"}, {"running"})
    /\ runner' = [runner EXCEPT ![i] = s]
    /\ UNCHANGED <<mail, received>>

\* Mail is received by the actor that runs, oldest first, once.
Receive(i) ==
    /\ state[i] = "running"
    /\ mail[i] # <<>>
    /\ received' = [received EXCEPT ![i] = Append(@, Head(mail[i]))]
    /\ mail' = [mail EXCEPT ![i] = Tail(@)]
    /\ UNCHANGED <<state, runner>>

Stop(i) ==
    /\ Becomes(i, {"running"}, {"ready", "asleep", "ended"})
    /\ runner' = [runner EXCEPT ![i] = Nobody]
    /\ UNCHANGED <<mail, received>>

Wake(i) ==
    /\ Becomes(i, {"asleep"}, {"ready"})
    /\ UNCHANGED <<runner, mail, received>>

\* An actor that does not run may move to another scheduler.
Leave(i) ==
    /\ Becomes(i, {"ready", "asleep"}, {"moving"})
    /\ UNCHANGED <<runner, mail, received>>

Arrive(i) ==
    /\ Becomes(i, {"moving"}, {"ready", "asleep"})
    /\ UNCHANGED <<runner, mail, received>>

\* Actors go, with the mail they have not read; never while they run.
Vanish(gone) ==
    /\ \A i \in gone : state[i] \notin {"absent", "running"}
    /\ state' = [i \in Actors |-> IF i \in gone THEN "absent" ELSE state[i]]
    /\ mail' = [i \in Actors |-> IF i \in gone THEN <<>> ELSE mail[i]]
    /\ received' = [i \in Actors |-> IF i \in gone THEN <<>> ELSE received[i]]
    /\ UNCHANGED runner

Next ==
    \/ \E i \in Actors :
          \/ Appear(i) \/ Send(i) \/ Receive(i) \/ Stop(i) \/ Wake(i)
          \/ Leave(i) \/ Arrive(i)
          \/ \E s \in Schedulers : Run(i, s)
    \/ \E gone \in (SUBSET Actors) \ {{}} : Vanish(gone)

Safe == Init /\ [][Next]_vars

Oversleeps(i) == state[i] = "asleep" /\ mail[i] # <<>>

\* An actor does not sleep on mail for ever.
MailWakes == \A i \in Actors : Oversleeps(i) ~> ~Oversleeps(i)

Spec == Safe /\ MailWakes

=============================================================================
