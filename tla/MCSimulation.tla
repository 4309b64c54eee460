----------------------------- MODULE MCSimulation -----------------------------
(***************************************************************************)
(* Small instances of RecordReader, and so of Simulation.              *)
(***************************************************************************)
EXTENDS RecordReader

CONSTANTS MaxNow, w1, w2, a0, a1

(* Contenders share the policy of the job.                                  *)
KindTmc      == [n \in Node |-> "tmc"]
KindAdaptive == [n \in Node |-> "adaptive"]

IndexOf  == [n \in Node |-> IF n = w1 THEN 0 ELSE 1]
CwMaxOne == [n \in Node |-> 1]

Profile  == [kappa |-> 2, beta |-> 1, m |-> 1, b_init |-> 1]
Other    == [kappa |-> 3, beta |-> 2, m |-> 1, b_init |-> 1]
Only     == {Profile}
Both     == {Profile, Other}
OnlyArm  == [a \in Arms |-> Profile]
BothArms == [a \in Arms |-> IF a = a0 THEN Profile ELSE Other]

Job(phases, join, lifetime, rounds, period) ==
    [saturated |-> FALSE, phases |-> phases, join |-> join, lifetime |-> lifetime,
     rounds |-> rounds, period |-> period, busy |-> 2]

Phase(duration, wifi, nru) == [duration |-> duration, wifi |-> wifi, nru |-> nru]
TwoPhases == Job(<<Phase(2, 1, 0), Phase(1, 1, 1)>>, 0, 0, 6, 2)
Windows   == Job(<<>>, 1, 1, 4, 0)
Gaps      == Job(<<>>, 2, 1, 4, 0)
Full      == [Job(<<>>, 0, 0, 4, 6) EXCEPT !.saturated = TRUE]

AllJobs   == {TwoPhases, Windows, Gaps, Full}
Returns   == Job(<<Phase(2, 1, 1), Phase(1, 1, 0), Phase(1, 1, 1)>>, 0, 0, 4, 6)
Adaptives == {[TwoPhases EXCEPT !.period = 6], Returns}
OnePhase  == {Job(<<Phase(2, 1, 1)>>, 0, 0, 4, 0)}

(* The loop runs alone and never waits: it takes its next step.  Time has a *)
(* bound that the jobs of these runs do not reach, or they would not end.   *)
Within == now' <= MaxNow

MCReadSpec ==
    ReadInit /\ [][ReadNext /\ Within]_readVars /\ WF_readVars(ReadNext /\ Within)

JobEnds == <>Ended
=============================================================================
