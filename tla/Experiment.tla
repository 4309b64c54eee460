------------------------------ MODULE Experiment -------------------------------
(***************************************************************************)
(* Matrices and jobs of dblbt_fcn.experiment: what the validators accept,  *)
(* how a matrix expands into jobs, and the identities of jobs, of pairs of *)
(* jobs and of random streams.  A hash is told by what it hashes; the run  *)
(* identity, 16 digits of one, may collide.                                *)
(***************************************************************************)
EXTENDS Integers, FiniteSets, Sequences, SequencesExt

CONSTANTS
    Arm,              \* range(24)
    MinPhaseRounds,   \* the shortest phase: 32
    RunId(_)          \* JobSpec.run_id

ASSUME ExperimentAssumption == Arm \subseteq Nat /\ Arm # {} /\ MinPhaseRounds \in Nat \ {0}

(* A field that is None: no rate, interval, lifetime; no arm, no condition.  *)
Absent0  == 0
NoArmId  == -1
NoName   == "none"

-----------------------------------------------------------------------------
(* Validation *)

Together(a, b) == a = Absent0 <=> b = Absent0

PhaseIsValid(s, p) ==
    /\ p.duration >= MinPhaseRounds
    /\ p.wifi + p.nru > 0 /\ p.wifi <= s.wifi /\ p.nru <= s.nru

Ids(s) == [i \in DOMAIN s |-> s[i].id]

ScenarioIsValid(s) ==
    /\ s.wifi + s.nru + s.legacy > 0
    /\ s.traffic = "poisson" <=> s.rate # Absent0
    /\ Together(s.interval, s.duration) /\ Together(s.join, s.lifetime)
    /\ IF s.phases = <<>> THEN s.repetitions = 1
       ELSE /\ s.traffic = "poisson" /\ s.legacy = 0 /\ s.join = Absent0
            /\ IsInjective(Ids(s.phases))
            /\ \A i \in DOMAIN s.phases : PhaseIsValid(s, s.phases[i])

(* One factor at a time: arms belong to pretraining, conditions to the      *)
(* adaptive policy.                                                         *)
FactorsAreValid(m) ==
    /\ m.arms # <<>> => m.conditions = <<>> /\ m.policies = <<"pretrain_arm">>
    /\ "pretrain_arm" \in ToSet(m.policies) => m.arms # <<>>
    /\ m.conditions # <<>> => m.policies = <<"adaptive_db_lbt">>

SequencesAreValid(m) ==
    /\ m.seeds # <<>> /\ IsInjective(m.seeds)
    /\ m.policies # <<>> /\ IsInjective(m.policies)
    /\ IsInjective(m.conditions)
    /\ ToSet(m.arms) \subseteq Arm /\ IsInjective(m.arms)
    /\ m.scenarios # <<>> /\ IsInjective(Ids(m.scenarios))

MatrixIsValid(m) ==
    /\ m.rounds >= 1 /\ SequencesAreValid(m) /\ FactorsAreValid(m)
    /\ \A i \in DOMAIN m.scenarios : ScenarioIsValid(m.scenarios[i])

ScheduledRounds(s) ==
    s.repetitions * FoldSeq(LAMBDA p, rounds : rounds + p.duration, 0, s.phases)

FitsSchedule(s, rounds) == s.phases # <<>> => rounds = ScheduledRounds(s)

JobIsValid(j) ==
    /\ j.arm = NoArmId \/ j.ablation = NoName
    /\ j.arm # NoArmId <=> j.policy = "pretrain_arm"
    /\ j.ablation # NoName => j.policy = "adaptive_db_lbt"
    /\ FitsSchedule(j.scenario, j.rounds)

-----------------------------------------------------------------------------
(* Expansion *)

OrNone(s, none) == IF s = <<>> THEN <<none>> ELSE s

JobOf(m, x) ==
    [rounds |-> m.rounds, scenario |-> m.scenarios[x[1]], seed |-> m.seeds[x[2]],
     policy |-> m.policies[x[3]], arm |-> OrNone(m.arms, NoArmId)[x[4]],
     ablation |-> OrNone(m.conditions, NoName)[x[5]]]

(* The nested loops of expand_matrix.                                       *)
Indices(m) ==
    (DOMAIN m.scenarios) \X (DOMAIN m.seeds) \X (DOMAIN m.policies)
        \X (DOMAIN OrNone(m.arms, NoArmId)) \X (DOMAIN OrNone(m.conditions, NoName))

Jobs(m) == {JobOf(m, x) : x \in Indices(m)}

(* No job is invalid, twice there, or taken for another.                    *)
Expands(m) ==
    /\ \A j \in Jobs(m) : JobIsValid(j)
    /\ Cardinality(Jobs(m)) = Cardinality(Indices(m))
    /\ Cardinality({RunId(j) : j \in Jobs(m)}) = Cardinality(Jobs(m))

(* Sorted by run id.                                                        *)
ExpandMatrix(m) ==
    [i \in 1 .. Cardinality(Jobs(m)) |->
        CHOOSE j \in Jobs(m) : Cardinality({k \in Jobs(m) : RunId(k) < RunId(j)}) = i - 1]

-----------------------------------------------------------------------------
(* Paired streams *)

(* Mutant: a pair is told by the policy, too.                            *)
PolicyKey(j) == <<j.scenario, j.seed, j.policy>>

PairKey(j) == <<j.scenario, j.seed>>

Nodes(s) ==
    ({"wifi"} \X (0 .. s.wifi - 1)) \cup ({"nru"} \X (0 .. s.nru - 1))
        \cup ({"legacy"} \X (0 .. s.legacy - 1))

ArrivalStreams(s) ==
    IF s.traffic = "saturated" THEN {}
    ELSE IF s.phases = <<>> THEN {<<"arrivals", 0>>}
    ELSE {<<"arrivals", i>> : i \in DOMAIN s.phases}

(* The contenders that draw a perturbation of their interruptions: those of *)
(* an adaptive controller, which legacy ones are not.                       *)
AdaptivePolicies == {"adaptive_db_lbt", "fixed_oracle", "pretrain_arm"}

Perturbed(j) == {n \in Nodes(j.scenario) : j.policy \in AdaptivePolicies /\ n[1] # "legacy"}

(* derive_stream_seed for every node and every use of it.                   *)
StreamSeeds(j) ==
    {<<PairKey(j), n, stream>> :
        n \in Nodes(j.scenario),
        stream \in {<<"initial_backoff", 0>>, <<"backoff", 0>>} \cup ArrivalStreams(j.scenario)}
    \cup {<<PairKey(j), n, <<"interruption_perturbation", 0>>>> : n \in Perturbed(j)}
=============================================================================
