------------------------------ MODULE MCWarmstart ------------------------------
(***************************************************************************)
(* Small instances of Warmstart.                                           *)
(***************************************************************************)
EXTENDS Warmstart

Plain(id) ==
    [id |-> id, wifi |-> 1, nru |-> 1, legacy |-> 0, traffic |-> "saturated", rate |-> 0,
     interval |-> 0, duration |-> 0, join |-> 0, lifetime |-> 0,
     phases |-> <<>>, repetitions |-> 1]

Phase(id, wifi, nru) == [id |-> id, duration |-> 2, wifi |-> wifi, nru |-> nru]

Phased(id, phases) ==
    [Plain(id) EXCEPT !.traffic = "poisson", !.rate = 1, !.phases = phases, !.repetitions = 2]

TwoPhases == Phased(2, <<Phase(1, 1, 0), Phase(2, 1, 1)>>)

(* Each accepted list of scenarios, and one for each reason to refuse.      *)
Scenarios ==
    {<<[Plain(1) EXCEPT !.legacy = 1]>>, <<Plain(1), TwoPhases>>, <<TwoPhases>>,
     <<>>, <<Plain(1), [TwoPhases EXCEPT !.id = 1]>>,
     <<[Plain(1) EXCEPT !.wifi = 0, !.nru = 0]>>, <<[Plain(1) EXCEPT !.rate = 1]>>,
     <<[Plain(1) EXCEPT !.interval = 1]>>, <<[Plain(1) EXCEPT !.lifetime = 1]>>,
     <<[Plain(1) EXCEPT !.repetitions = 2]>>, <<Phased(2, <<Phase(1, 1, 0), Phase(1, 1, 1)>>)>>,
     <<Phased(2, <<Phase(1, 2, 0)>>)>>, <<Phased(2, <<Phase(1, 0, 0)>>)>>}

AllMatrices ==
    [rounds     : {1, 8},
     seeds      : {<<1, 2>>, <<2, 1>>, <<1>>, <<1, 1>>},
     policies   : {<<"pretrain_arm">>, <<"adaptive_db_lbt">>, <<"tmc_db_lbt", "adaptive_db_lbt">>},
     conditions : {<<>>, <<"frozen_online", "state_only">>},
     arms       : {<<>>, <<0, 1>>, <<1, 0>>},
     scenarios  : Scenarios]

(* The order of the run ids has nothing to do with that of the loops; two   *)
(* conditions of the phases and seed 2 collide.                             *)
Mixed(j) ==
    (7 * j.seed + 5 * j.scenario.id + 3 * (j.arm + 1)) % 11

RunIdOf(j) ==
    Mixed(j) + (IF j.policy = "tmc_db_lbt" THEN 11 ELSE 0)
        + (IF j.ablation = "state_only" /\ ~(j.seed = 2 /\ j.scenario.id = 2) THEN 22 ELSE 0)

Sample(j, node, sequence) ==
    [seed |-> j.seed, arm |-> j.arm, node |-> <<RunId(j), node>>, sequence |-> sequence]

(* Three samples of two contenders, as they may stand in a record.          *)
Whole(j, utility, taken) == [complete |-> TRUE, utility |-> utility, samples |-> taken]

SecondFirst(j) == <<Sample(j, 2, 0), Sample(j, 1, 0), Sample(j, 1, 1)>>
SecondLater(j) == <<Sample(j, 1, 0), Sample(j, 2, 0), Sample(j, 1, 1)>>

(* The larger ones are further apart, and the mean of two need not be one.  *)
Floats == (0 .. 8) \cup {2 * i : i \in 5 .. 10}

Good(j) == IF j.scenario.id = 1 THEN 3 ELSE 20

(* Records of other writers: with a gap, a repetition, samples of another   *)
(* arm, or none.                                                            *)
RecordsOf(j) ==
    {Whole(j, 0, SecondFirst(j)), Whole(j, Good(j), SecondLater(j)),
     [Whole(j, 0, SecondFirst(j)) EXCEPT !.complete = FALSE]}
        \cup {Whole(j, 0, s) : s \in
                {<<>>, <<Sample(j, 1, 0), Sample(j, 1, 2)>>, <<Sample(j, 1, 0), Sample(j, 1, 0)>>,
                 <<[Sample(j, 1, 0) EXCEPT !.arm = 1 - @]>>}}

MCWarmSpec == WarmSpec
=============================================================================
