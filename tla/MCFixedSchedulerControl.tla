---------------------- MODULE MCFixedSchedulerControl ----------------------
(* Instances of FixedSchedulerControl for TLC. *)
EXTENDS MailRefinement, TLC

CONSTANTS p1, p2, s1, s2

OneProducer == {p1}
TwoProducers == {p1, p2}
OneScheduler == {s1}
TwoSchedulers == {s1, s2}

\* Schedulers are interchangeable.
SchedulerSymmetry == Permutations(TwoSchedulers)
=============================================================================
