--------------------------- MODULE MCIncarnations ---------------------------
(* The specs and budgets of the run of Incarnations. *)
EXTENDS Incarnations

Trainer == [name |-> "pytorch", image |-> TRUE, port |-> Unset]
Containers == {
    <<>>, <<Trainer>>,
    <<[Trainer EXCEPT !.image = FALSE]>>,
    <<[Trainer EXCEPT !.port = 22222]>>,
    <<[Trainer EXCEPT !.name = "sidecar"]>>,
    <<[Trainer EXCEPT !.name = "sidecar"], Trainer>>,
    <<[Trainer EXCEPT !.name = "sidecar", !.port = 33333], Trainer>>}

Specs == {NilSpec} \cup
    [replicas : {Unset, 0, 1, 2}, restart : {Unset, "ExitCode"}, containers : Containers]

\* A job with a spec under each of two names.
With(first, r, second, q) ==
    [n \in Names |-> IF n = first THEN r ELSE IF n = second THEN q ELSE Absent]

Written ==
    [clean : {Unset, "All"}, ttl : BOOLEAN,
     types : {With(first, r, second, q) : first \in {"Master", "master"},
                second \in {"Worker", "worker", "MASTER", "Chief"},
                r \in Specs, q \in Specs \cup {Absent}}]

OneMaster(containers) ==
    With("Master", [replicas |-> 1, restart |-> "Never", containers |-> containers],
         "Worker", Absent)

GoodSpec == [clean |-> "All", ttl |-> TRUE,
             types |-> OneMaster(<<[Trainer EXCEPT !.port = 22222]>>)]
BadSpec == [GoodSpec EXCEPT !.types = OneMaster(<<>>)]

Incident(create, invalid, edit, error, crash, relist) ==
    [create |-> create, invalid |-> invalid, edit |-> edit, error |-> error,
     crash |-> crash, relist |-> relist]

\* In all but the last scenario jobs are created; that one is about the specs only.
SomeScenarios ==
    [specs : {{GoodSpec, BadSpec}},
     incidents : {Incident(2, 0, 0, 0, 0, 1), Incident(2, 1, 0, 0, 0, 0),
                  Incident(1, 1, 1, 0, 0, 0), Incident(1, 0, 0, 1, 1, 0)}] \cup
    {[specs |-> Written, incidents |-> Incident(0, 0, 0, 0, 0, 0)]}
=============================================================================
