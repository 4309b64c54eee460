------------------------------- MODULE Warmstart -------------------------------
(***************************************************************************)
(* What build_pretraining computes before it publishes: it expands a       *)
(* matrix of one job per arm, seed and scenario, reads the records of all  *)
(* jobs, trains a LinUCB agent on their local samples, and fits the arm of *)
(* the fixed oracle.  The agent is then saved and deployed.                *)
(*                                                                         *)
(* The state of an arm is the sequence of its updates: sums of floating    *)
(* point numbers depend on the order of their terms.                       *)
(***************************************************************************)
EXTENDS Experiment

CONSTANTS
    Matrices,             \* the matrices somebody may ask for
    PretrainingSeeds,     \* PRETRAINING_SEEDS
    Contents(_),          \* what the record of a job may hold when it is read
    Float, Spacing,       \* the floating point numbers, and their widest gap
    Grid, OldGrid,        \* action_grid_hash: of this code, of another
    Contender,            \* the contenders of a job that deploys the agent
    Nothing

ASSUME WarmstartAssumption ==
    /\ PretrainingSeeds # {} /\ IsFiniteSet(PretrainingSeeds)
    /\ Grid # OldGrid /\ IsFiniteSet(Arm)

(* Floating point numbers in units of their finest difference: finitely     *)
(* many, unevenly spaced.                                                   *)
ASSUME FloatAssumption ==
    /\ Float \subseteq Int /\ IsFiniteSet(Float) /\ Float # {} /\ Spacing \in Nat
    /\ \A f \in Float : \/ \A g \in Float : g <= f
                        \/ \E g \in Float : f < g /\ g <= f + Spacing

(* The fields of a matrix that load_matrix reads are tuples.                *)
ASSUME MatrixAssumption == \A m \in Matrices :
    /\ m.seeds \in Seq(Nat) /\ m.arms \in Seq(ToSet(m.arms))
    /\ m.policies \in Seq(ToSet(m.policies)) /\ m.conditions \in Seq(ToSet(m.conditions))
    /\ m.scenarios \in Seq(ToSet(m.scenarios))

(* A local sample: node is the run id of its job and the contender's name.  *)
LocalSample == [seed : Nat, arm : Nat, node : Nat \X Nat, sequence : Nat]

ASSUME ContentsAssumption == \A m \in Matrices : MatrixIsValid(m) => \A j \in Jobs(m) :
    /\ RunId(j) \in Nat
    /\ j.arm # NoArmId =>
          Contents(j) \subseteq [complete : BOOLEAN, utility : Float, samples : Seq(LocalSample)]

VARIABLES
    matrix, stage,
    queue,                \* the jobs not read yet, in the order of their run ids
    given,                \* history: given[j] is what the record of j held
    samples,              \* local samples, in the order they were read
    utilities,            \* by_seed_arm_scenario: <<seed, arm, scenario id, utility>>
    agent,                \* agent[a]: the updates of arm a
    oracle,               \* the arm of the fixed oracle, or NoArmId
    file,                 \* the model file
    deployed              \* deployed[n]: the agent a contender starts with, or Nothing

warmVars ==
    <<matrix, stage, queue, given, samples, utilities, agent, oracle, file, deployed>>

Untrained == [a \in Arm |-> <<>>]

-----------------------------------------------------------------------------
(* The matrix *)

IsPretraining(m) ==
    /\ m.policies = <<"pretrain_arm">> /\ m.conditions = <<>>
    /\ ToSet(m.seeds) = PretrainingSeeds
    /\ ToSet(m.arms) = Arm /\ \A i, k \in DOMAIN m.arms : i < k => m.arms[i] < m.arms[k]

Ends(label) == stage' = label

Load ==
    /\ stage = "matrix"
    /\ IF MatrixIsValid(matrix) THEN Ends("expand") ELSE Ends("rejected")
    /\ UNCHANGED <<matrix, queue, given, samples, utilities, agent, oracle, file, deployed>>

Expand ==
    /\ stage = "expand"
    /\ IF Expands(matrix)
       THEN /\ queue' = ExpandMatrix(matrix)
            /\ IF IsPretraining(matrix) THEN Ends("read") ELSE Ends("expanded")
       ELSE queue' = <<>> /\ Ends("raised")
    /\ UNCHANGED <<matrix, given, samples, utilities, agent, oracle, file, deployed>>

-----------------------------------------------------------------------------
(* _load_pretraining_inputs *)

BelongsTo(s, j) == s.seed = j.seed /\ s.arm = j.arm /\ s.node[1] = RunId(j)

(* A record is complete, of this job, and not empty.                        *)
IsUsable(c, j) ==
    /\ c.complete /\ c.samples # <<>>
    /\ \A i \in DOMAIN c.samples : BelongsTo(c.samples[i], j)

ReadJob ==
    /\ stage = "read" /\ queue # <<>>
    /\ LET j == Head(queue)
       IN  \E c \in Contents(j) :
              /\ given' = [k \in DOMAIN given \cup {j} |-> IF k = j THEN c ELSE given[k]]
              /\ queue' = Tail(queue)
              /\ IF IsUsable(c, j)
                 THEN /\ samples' = samples \o c.samples
                      /\ utilities' = utilities \cup {<<j.seed, j.arm, j.scenario.id, c.utility>>}
                      /\ UNCHANGED stage
                 ELSE Ends("refused") /\ UNCHANGED <<samples, utilities>>
    /\ UNCHANGED <<matrix, agent, oracle, file, deployed>>

(* The samples of one contender, by their places.                           *)
PlacesOf(s) == {i \in DOMAIN samples : samples[i].seed = s.seed /\ samples[i].node = s.node}

(* From zero, without gaps and without repetition.                          *)
IsContinuous(places) == {samples[i].sequence : i \in places} = 0 .. Cardinality(places) - 1

ScenariosOf(seed, a) == {u[3] : u \in {v \in utilities : v[1] = seed /\ v[2] = a}}

InputsAreWhole ==
    /\ \A i \in DOMAIN samples : IsContinuous(PlacesOf(samples[i]))
    /\ \A seed \in PretrainingSeeds, a \in Arm :
          ScenariosOf(seed, a) = ToSet(Ids(matrix.scenarios))

(* pretrain_linucb sorts the samples before it learns the first.            *)
Precedes(s, t) ==
    \/ s.seed < t.seed
    \/ s.seed = t.seed /\ s.node[1] < t.node[1]
    \/ s.seed = t.seed /\ s.node[1] = t.node[1] /\ s.node[2] < t.node[2]
    \/ s.seed = t.seed /\ s.node = t.node /\ s.sequence < t.sequence

(* Mutant: the sort has no node in its key; equals stay as they were read. *)
WithoutNode(s) ==
    LET Earlier(i, k) == \/ s[i].seed < s[k].seed
                         \/ s[i].seed = s[k].seed /\ s[i].sequence < s[k].sequence
        Sooner(i, k)  == Earlier(i, k) \/ (~Earlier(k, i) /\ i < k)
    IN  [i \in DOMAIN s |->
            s[CHOOSE k \in DOMAIN s : Cardinality({l \in DOMAIN s : Sooner(l, k)}) = i - 1]]

Canonical(s) == [i \in DOMAIN s |->
    s[CHOOSE k \in DOMAIN s : Cardinality({l \in DOMAIN s : Precedes(s[l], s[k])}) = i - 1]]

EndRead ==
    /\ stage = "read" /\ queue = <<>>
    /\ IF InputsAreWhole
       THEN samples' = Canonical(samples) /\ Ends("learn")
       ELSE Ends("refused") /\ UNCHANGED samples
    /\ UNCHANGED <<matrix, queue, given, utilities, agent, oracle, file, deployed>>

-----------------------------------------------------------------------------
(* Training *)

(* LinUCB.update: one arm, one sample.                                      *)
Updated(state, s) == [state EXCEPT ![s.arm] = Append(@, s)]

Learn ==
    /\ stage = "learn" /\ samples # <<>>
    /\ agent' = Updated(agent, Head(samples))
    /\ samples' = Tail(samples)
    /\ UNCHANGED <<matrix, stage, queue, given, utilities, oracle, file, deployed>>

Total(weight, S) == FoldSet(LAMBDA x, total : total + weight[x], 0, S)

Distance(x, y) == IF x <= y THEN y - x ELSE x - y

(* The floating point number next to total / n, one of two that are as near. *)
Mean(total, n) ==
    CHOOSE f \in Float : \A g \in Float : Distance(n * f, total) <= Distance(n * g, total)

(* The mean over the scenarios, and the mean of those over the seeds.       *)
SeedUtility(seed, a) ==
    Mean(Total([u \in utilities |-> u[4]], {u \in utilities : u[1] = seed /\ u[2] = a}),
         Cardinality(ScenariosOf(seed, a)))

Utility(a) ==
    Mean(Total([seed \in PretrainingSeeds |-> SeedUtility(seed, a)], PretrainingSeeds),
         Cardinality(PretrainingSeeds))

(* Mutant: the last of equal arms.                                       *)
LastOfBest == CHOOSE a \in Arm : \A b \in Arm :
    Utility(a) > Utility(b) \/ (Utility(a) = Utility(b) /\ a >= b)

FixedOracle == CHOOSE a \in Arm : \A b \in Arm :
    Utility(a) > Utility(b) \/ (Utility(a) = Utility(b) /\ a <= b)

FitOracle ==
    /\ stage = "learn" /\ samples = <<>>
    /\ oracle' = FixedOracle
    /\ Ends("trained")
    /\ UNCHANGED <<matrix, queue, given, samples, utilities, agent, file, deployed>>

-----------------------------------------------------------------------------
(* LinUCB.save, LinUCB.load and the contenders' clones *)

Archive(state) == [schema |-> 1, grid |-> Grid, sound |-> TRUE, state |-> state]

(* The fields, shapes and finite, symmetric, positive definite matrices; a  *)
(* model of another action grid is none.                                    *)
IsLoadable(f) == f # Nothing /\ f.schema = 1 /\ f.sound /\ f.grid = Grid

(* Written beside the file, read back, compared, and moved into place.      *)
Save ==
    /\ stage = "trained"
    /\ \/ file' = Archive(agent) /\ Ends("saved")
       \/ Ends("failed") /\ UNCHANGED file
    /\ UNCHANGED <<matrix, queue, given, samples, utilities, agent, oracle, deployed>>

Deploy ==
    /\ \A n \in Contender : deployed[n] = Nothing
    /\ IsLoadable(file)
    /\ deployed' = [n \in Contender |-> file.state]
    /\ UNCHANGED <<matrix, stage, queue, given, samples, utilities, agent, oracle, file>>

-----------------------------------------------------------------------------
(* Specification *)

WarmInit ==
    /\ matrix \in Matrices
    /\ stage = "matrix"
    /\ queue = <<>> /\ given = <<>> /\ samples = <<>> /\ utilities = {}
    /\ agent = Untrained /\ oracle = NoArmId
    /\ file \in {Nothing, [Archive(Untrained) EXCEPT !.grid = OldGrid]}
    /\ deployed = [n \in Contender |-> Nothing]

WarmNext == Load \/ Expand \/ ReadJob \/ EndRead \/ Learn \/ FitOracle \/ Save \/ Deploy

WarmSpec == WarmInit /\ [][WarmNext]_warmVars

-----------------------------------------------------------------------------
(* Properties *)

(* A matrix that is accepted is a paired experiment: it expands, but for a  *)
(* phase schedule of another length or a collision of run ids, and each     *)
(* pair of scenario and seed is run under every policy, arm and condition,  *)
(* with random streams of no other pair and the same under each, but that   *)
(* adaptive contenders have one more, for the perturbation of what they     *)
(* overhear (expand_matrix, derive_stream_seed).                            *)
Factors(j) == <<j.policy, j.arm, j.ablation>>

IsPerturbation(stream) == stream[3][1] = "interruption_perturbation"

AcceptedIsPaired ==
    /\ stage = "raised" =>
          \/ \E i \in DOMAIN matrix.scenarios : ~FitsSchedule(matrix.scenarios[i], matrix.rounds)
          \/ \E j, k \in Jobs(matrix) : j # k /\ RunId(j) = RunId(k)
    /\ stage = "expanded" =>
          \A j, k \in ToSet(queue) :
              /\ IF j.scenario = k.scenario /\ j.seed = k.seed
                 THEN \A stream \in StreamSeeds(j) \ StreamSeeds(k) :
                         /\ IsPerturbation(stream)
                         /\ j.policy \in AdaptivePolicies /\ k.policy \notin AdaptivePolicies
                 ELSE StreamSeeds(j) \cap StreamSeeds(k) = {}
              /\ \E l \in ToSet(queue) :
                    l.scenario = j.scenario /\ l.seed = j.seed /\ Factors(l) = Factors(k)

(* The trained agent is a function of the set of samples in the records,    *)
(* whatever order they stand in there and are read in: each arm has learned *)
(* those taken while it was in force, each once, one seed after the other,  *)
(* in a seed one job, in a job one contender, and of a contender in the     *)
(* order it took them, none left out.  What was refused is not learned at   *)
(* all, and only what was learned is deployed (pretrain_linucb).            *)
GivenSamples == UNION {ToSet(given[j].samples) : j \in DOMAIN given}

SortKey(s) == <<s.seed, s.node[1], s.node[2], s.sequence>>

IsLess(p, q) == \E d \in 1 .. 4 : p[d] < q[d] /\ \A e \in 1 .. d - 1 : p[e] = q[e]

IsInOrder(s, S) ==
    /\ ToSet(s) = S
    /\ \A i, k \in DOMAIN s : i < k => IsLess(SortKey(s[i]), SortKey(s[k]))

LearnsTheRecords ==
    /\ stage \in {"matrix", "expand", "rejected", "raised", "expanded", "read", "refused"} =>
          agent = Untrained
    /\ stage \in {"trained", "saved", "failed"} =>
          /\ \A a \in Arm : IsInOrder(agent[a], {s \in GivenSamples : s.arm = a})
          /\ \A s \in GivenSamples : \A q \in 0 .. s.sequence :
                \E t \in GivenSamples : t.node = s.node /\ t.sequence = q
    /\ \A n \in Contender : deployed[n] # Nothing => deployed[n] = agent

(* The two roundings of the oracle's utilities cost little: the exact mean  *)
(* over all records of no arm exceeds that of the oracle by more than twice *)
(* the spacing of the numbers, and an arm of a lower number that is as good *)
(* in every seed is never passed over (_load_pretraining_inputs,            *)
(* fit_fixed_oracle).                                                       *)
TotalOf(seed, a) ==
    Total([j \in DOMAIN given |-> given[j].utility],
          {j \in DOMAIN given : j.seed = seed /\ j.arm = a})

ExactTotal(a) == Total([seed \in PretrainingSeeds |-> TotalOf(seed, a)], PretrainingSeeds)

Records(m) == Cardinality(PretrainingSeeds) * Len(m.scenarios)

OracleIsBest ==
    stage \in {"trained", "saved", "failed"} =>
        \A a \in Arm :
            /\ ExactTotal(a) <= ExactTotal(oracle) + 2 * Spacing * Records(matrix)
            /\ (\A seed \in PretrainingSeeds : TotalOf(seed, a) >= TotalOf(seed, oracle)) =>
                  oracle <= a
=============================================================================
