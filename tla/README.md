# A verification project for distributed-linucb-dblbt

TLA+ specifications of the event simulator of `src/src/dblbt_fcn`, the TLC
configurations that check them on small instances, and theorems about them that
the TLA+ proof system checks for every value of the constants. Paths below are
relative to `src/src/dblbt_fcn` unless they begin with `scripts/` or `ns3/`.

## The system

The program compares medium access policies of Wi-Fi and NR-U contenders on a
shared channel. A *job* is one scenario, policy and seed; a *matrix* is a set of
jobs. A job runs in one process: a loop advances a channel one contention round
at a time and writes one row per round. Adaptive contenders carry an agent that
selects a recovery profile (an *arm*) at decision boundaries. A sweep runs the
jobs of a matrix in a process pool; each job ends as a compressed record, a
marker and a manifest on disk, and a rerun resumes from what is complete.

| part | state | operations | talks to |
|---|---|---|---|
| policies, `policies.py`, and the channel's contention state, `channel.py` | per contender: countdown, membership, retries, interruptions, flags, window, profile | `step`, `apply_background_busy`, `set_backlogged`, `set_active`, `set_recovery_profile` | called by controller and loop |
| channel clock, `channel.py` | `now_us`, last successes, access delays, the round's result | the same, and the owner's idle tick | |
| adaptive controller, `adaptive.py`, `observation.py` | per adaptive contender: current arm, attempt and interval accounting | `step`, `set_backlogged`, `set_active`, `apply_background_busy`, decisions | owns the channel's operations for adaptive contenders; writes profiles |
| simulation loop, `simulation.py`, `traffic.py`, `nonideal.py` | queues, phases, interference times, pending arrivals, previous decisions | one generator, a row per round | calls controller for adaptive contenders, channel for others |
| record reader, `records.py`, `audit.py` | none | validation of each row against the job | reads what the loop wrote |
| job artifacts, `experiment.py`, `io.py`, `run_job` in `simulation.py` | five kinds of files, one lock file | lock, validate, clear, write, publish | several processes on one directory |
| sweep, `workflows.py` | pending jobs, futures in flight, results | resume, submit, validate, cancel | processes that call `run_job` |
| matrices and jobs, `experiment.py` | none: frozen records | validate, expand, name and seed jobs | everything that runs a matrix |
| pretraining, `workflows.py`, `training.py` | model and oracle files | publish both, roll back | reads job records |
| agents, `linucb.py` | matrices per arm, pending context | select, update, save, load | called by the controller |
| statistics, figures, reports | none | tables to tables | |
| ns-3 patches and validation, `ns3/`, `scripts/run_ns3_validation.sh`, `ns3_validation.py`, `cross_validation.py` | databases, manifests, child processes | run matrix, resume, compare | |

What is hard in it:

* contention state that several operations change between two draws: rounds,
  external busy periods, queues that empty and fill, profiles that are replaced;
* two copies of one fact kept by different code: the backlogged flag and the
  queue depth, the arm and the profile, the phase the writer remembers and the
  phase the reader computes;
* intervals that are cut while contenders leave and come back, whose parts must
  add up to the time that passed;
* processes that share a directory, take a lock in two separate regions, and
  may raise or be killed between any two file operations;
* loops that must end: idle time, interference that advances the clock it chases,
  reruns after faults;
* a shell script that runs a matrix in the background, is killed beside its children, and
  believes the files it finds when it is started again.

`PROJECT.json` lists these as hazards, each at its line with the properties aimed
at it.

## The modules

| module | models | composed of |
|---|---|---|
| `Contention` | policies and contention state | |
| `RoundRobin` | the promise of deterministic backoff: once settled, everybody in turn | |
| `Channel` | the clock and the result of a round | extends `Contention` |
| `AdaptiveController` | accounting and arms of adaptive contenders | extends `Channel` |
| `Simulation` | the loop that owns controller and channel | extends `AdaptiveController` |
| `RecordReader` | what the loop writes of a round, the agents' updates, and all that reads rows back | extends `Simulation` |
| `JobArtifacts` | `run_job` by several processes on one directory | |
| `JobStore` | the promise of `run_job`: an atomic store of completed jobs | |
| `Sweep` | `run_sweep` and its pool, by several invocations on one directory | |
| `Experiment` | scenarios, matrices and jobs: validators, `expand_matrix`, run ids and seeds | |
| `Warmstart` | from the training matrix to model and oracle arm | extends `Experiment` |
| `Pretraining` | the publication of model and oracle, and a job that reads both | |
| `Ns3Matrix` | the packet-level script, its background jobs, audit and reduction | |
| `MC*` | constants and bounds of the runs | extend the above |
| `*Proofs` | theorems | extend the above and `TLAPS` |

**Contention.** One variable per field of `Node` and its policy that later
behaviour depends on. `Round` is `Channel.step`: the smallest countdown of the
eligible contenders passes, those that reach it send and are rearmed under their
policy, the others record an interruption if their policy counts it. What a
random generator returns is any value of the range it draws from (`Draws`).
`SetBacklogged`, `SetActive`, `SetRecoveryProfile` and `ApplyBackgroundBusy` are the
methods of the same names. A call with the value already in force is a stutter.

**Channel** adds the clock to each operation and the checks that raise as guards
on times. `IdleTick` is what the loop does to `now_us` itself.

**AdaptiveController** keeps per adaptive contender the record `observed`, which is
`_AdaptiveNodeState` with its interval. `Synchronized` is
`_transition_eligibility`, `RecordsAttempt` is `_record_attempt`. The agent's
choice is any arm. Two history variables remember under which arm a countdown
was drawn. `AccountsFit` contains the conditions under which `AttemptRecord` and the
reward of an interval are accepted by their own validators.

**Simulation** is the body of `simulate_job_records`, cut where the loop calls
into controller or channel: a `stage` variable is its program counter. The calls
of `set_active` and `set_backlogged` happen one contender at a time, in the order
of the list of nodes (`First`). The errors the loop raises are stages in which it
stops, or, for errors that would need broken bookkeeping, guards whose failure
`NeverRaises` rules out.

**RecordReader** refines three steps of the loop: `Contends` gives each deciding agent its
update and notes the decision, `Yields` writes the row (`RowValue`) with its training samples and
lets the reader take it. `Accepts` is every check that `_validate_row`, `_validate_decision`,
`_validate_training_sample`, `_iter_rows`, `aggregate_rows` and `_load_pretraining_inputs` make of the
parts the model keeps; `ExpectedPhase`, `ExpectedChange` and `ExpectedActive` compute from the number of
a row what the loop reached step by step. In the code the reader comes after the writer; it depends on
rows alone, so reading each at once is the same. `Replays` is what a reader would take an
agent to have learned. A context is told by the round of its decision.

**JobArtifacts** has one action per file system operation of `run_job`, for any
number of processes; the lock excludes while it is held and is gone with its
process. An exception may come at any label, in a handler too; a kill leaves the
file being written torn. A rename is atomic.

**Sweep** has, per invocation, the stage of `run_sweep` with its local variables and, per
job, the process that runs it: `Expect`, `Configure` and `Resume` are the loops over the
matrix before the pool; `Open`, `Wait`, `Take`, `Refuse`, `Cancel`, `Raise` and `Return` are
the pool's loop and its two ends. `Wait` takes every future that is done at that moment,
`Take` and `Refuse` go through them in the order of run ids. A worker loads, hashes,
compares (`Load`, `Hash`, `Enter`, `Mismatch`) and runs the job, of which the module keeps
what other invocations can see: `Clear` and `Publish` with the lock free in between, a
lock that is somebody else's (`Blocked`), a job completed under another provenance
(`Collides`). Processes survive a killed parent; a dead process breaks its pool.

**Experiment** has the validators of `ScenarioSpec`, `MatrixSpec` and `JobSpec` as predicates with one
conjunct per check, and `expand_matrix` with the order of its loops, its duplicates and its run-id
collisions. A run id is a function of the job that may collide; the seeds of the random streams are
told by what they hash. All jobs of a pair derive the same streams, except that the adaptive contenders of
adaptive policies have one more, for the perturbation of their interruptions (`Perturbed`).

**Warmstart** is the body of `build_pretraining` up to the publication: `Load` and `Expand` validate and
expand the matrix, `ReadJob` takes one record after the other (a record may hold anything a foreign
writer left, `Contents`), `EndRead` checks the whole and sorts, `Learn` applies one sample,
`FitOracle` chooses the arm, `Save` and `Deploy` are `LinUCB.save`, `load` and the clones. An arm's matrices
are the sequence of its updates, since sums of floating point numbers depend on their order. Sorting is
written as what it returns: the element at a place is the one with so many before it. Utilities are
`Float`s, in units of the finest difference of two; the code adds them exactly, as fractions, and rounds
twice, once per seed and arm (`SeedUtility`) and once over the seeds (`Utility`). `Mean` is that rounding: the
nearest of the finitely many numbers, either of two as near.

**Pretraining** has one action per file operation of the publication and one per read of
a `fixed_oracle` job (`load_oracle_arm`, two hashes, the same again in `run_job`). The
contents are told apart by the training result they belong to. `replaced` is a history
variable that counts how often the oracle was replaced while a job reads.

**Ns3Matrix** is `run_ns3_validation.sh` with the stage `all` and what `ns3_validation.py` does for it.
`shell` is the script: the smoke jobs in the foreground, the gate, the formal jobs in the background
behind `DBLBT_NS3_WORKERS` (`Launch`, `Reap`), the audit, and the reduction, which reads the databases
again (`ReadMetrics`) and replaces three files (`WriteReduction`). `child` holds the processes: skip,
simulate, copy the database, validate, hash, write the manifest, each a step. `PassesForComplete` is
`job_is_complete` as its callers use it, within a condition; `CompleteJob` is the same function where
errexit is in force, which is only the end of the smoke gate. `Kill` ends the shell and its foreground
job and leaves the background jobs to run beside the next invocation (`Generation`); `Crash` ends all.
A database is the version of the inputs it was made under with the tables that are not in order.
`Change` locks other inputs whenever no script is running. Orphans of the old inputs go on: they keep the
hashes they were started with, and may still put a database of theirs, or its manifest, between two steps of a
script that works for the new ones. The status of an orphan is nobody's.

## The runs

| run | instance | shows |
|---|---|---|
| `Channel` | an adaptive NRU and a primary Wi-Fi contender, two profiles; slot 1, transmission 3, synchronisation 3 | valid recovery state, interruptions paid, a converged channel rotates; exclusive successes, honest delays, synchronised NRU data |
| `ContentionTurns` | adaptive, primary and TMC, saturated | the channel implements `RoundRobin` with fairness of its rounds; nobody's countdown stands still for longer than another contender can draw random zeros |
| `SimJobs` | two TMC contenders and four jobs: two phases twice with interference as long as its period, join windows that wrap around, windows with a gap, saturated traffic | queues and time agree, every row is accepted, somebody is active, each job ends |
| `SimAdaptive` | two adaptive contenders, an agent that learns or a pretraining job, two schedules of phases, interference | the loop implements the controller's owner; accounts fit the time, arms get their own rewards, no arrival is lost, rows are accepted, record and samples explain the agents |
| `SimOnePhase` | one phase, repeated | finding: the reader rejects the row |
| `Job` | three processes, one of another provenance, reruns of one for ever, up to three exceptions, kills or starts of the others | a manifest has its record; completed jobs are preserved; failures are cleared; implements `JobStore`; the job completes |
| `Sweep` | two invocations, one with three jobs and one with two of them (one depends on the model, the other does not), two workers, a model replaced, two disturbances, the second of which may be the other sweep | the pool is full and forgets nothing; no process outlives a sweep that ended; who returns has seen every job complete, for one agent; reruns complete the matrix |
| `Warmstart` | 13 lists of scenarios with rounds, seeds, policies, arms and ablations that are accepted or refused each for one reason; records whose two contenders stand in different orders, with utilities that round, gaps, repetitions, foreign arms, nothing | accepted matrices are paired experiments; the agent is the same in whatever order samples are read; no arm is better than the oracle by more than the roundings, and ties go to the first |
| `Pretraining` | two publishers, a reader, three training results, up to three faults or starts of the second publisher | exceptions roll back; a torn pair is refused; a rerun repairs it |
| `PretrainingInterrupted` | the same | finding: an interrupt tears the pair |
| `Ns3` | two smoke and three formal jobs, two workers, two versions of which one has tables out of order, up to two failures, kills, crashes or changes of the inputs, beside orphans | no child is lost; what is published can be relied on; repeated invocations complete the matrix |
| `Ns3Skips` | the same with two formal jobs | finding: a stale manifest counts as complete |

Bounds. Countdowns and counters are bounded in the MC modules (`MaxRetries`,
`MaxInterruptions`, `MaxNow`): enough for every branch of the recovery cycle, two
full cycles of retries, a wrap of the NRU synchronisation and several decision
intervals. A job has finitely many rounds, so stopping at a bound is what the
program does too, and these runs do not check deadlock; `Warmstart` computes once and stops.
The simulation runs have
the job's own rounds (four or six, two repetitions of the schedule), a queue of two
packets, an idle limit of one or two ticks; `MaxNow` is out of their reach. Their phases last one and
two rounds where the validators ask for 32 or more, their queue holds 2 packets where the
code's holds 64: the loop compares rounds and depths only with each other. `Warmstart` asks for phases
of two rounds likewise (`MinPhaseRounds`). In `Job` the
faults are bounded (`MaxFaults`), the reruns are not. In `Sweep`, `Pretraining` and `Ns3` too: two faults reach a
replacement of the model, or a kill that leaves workers behind, before a second sweep that runs beside a rerun of
the first on the two jobs they share (the second sweep is the last disturbance, which keeps the run small; so does a start with one of the two models, which nothing tells apart), and three jobs on two workers
a wait that returns one future or two; three faults reach two overlapping publications with an
interrupt, and the three replacements of the oracle that `AcceptedIsConsistent` excludes; two faults
reach a killed shell with orphans and a failing job, or orphans of one version that replace databases which a script for
the other has audited. In `ContentionTurns` six interruptions and three retries let one
contender run through its random attempts and its deterministic ones while another is passed over the whole time. The
numbers of `Warmstart` are 0 to 8 and the even ones from 10 to 20: the mean of two large ones need not be one,
and in some behaviours the arm of the highest exact mean is not the oracle.

Fairness. A job is one sequential program: weak fairness of its next step
(`SimJobs`, `ContentionTurns`). In `Job` each process that
is running takes its next step and an operator reruns the job; nothing is assumed
about when faults happen, only that they end. `Sweep`, `Pretraining` and `Ns3` assume the same: every
process that can take a step does (in `Ns3`, the jobs of each shell: one of them moves as long as one can), and
the operator repeats one invocation. `Ns3`'s `Completes` speaks of
inputs under which every simulation is sound, and excepts the job that `Ns3Skips` finds skipped for ever, the one
whose manifest does not match a valid database (`Stuck`).

## The proofs

`tlapm` checks every theorem to its last leaf; the assumptions are those named in
the modules (finite sets of contenders, positive timing parameters within the
validators' limits, profiles within their ranges, finite matrices, finitely many floating point numbers with
gaps of at most `Spacing`, smoke jobs with files of their own),
which TLC evaluates on every run.

* **ChannelProofs.** Of contention: type correctness; `RecoveryInv`, inductive, strengthens the
  conjuncts of `RecoveryState`: what flag, retries and interruptions say of each other
  must hold also between a collision and the next draw. From it the step property that
  interruptions are paid. That a converged channel rotates follows from counting
  who is ahead of whom; with it the saturated channel implements `RoundRobin`. Of the clock:
  exclusiveness is inductive with the fact that no success ends
  after the present; access delays with the number of rounds since a success. That NRU data starts on a
  boundary (`SynchronisedStarts`) is division with remainder by a variable: the reservation is the
  complement of the offset, so adding it gives a multiple.
* **AdaptiveProofs.** `AccountingInv` ties each observation to the clock (`Accounted`),
  to the arm and to the history of draws. One lemma per accounting operator,
  then one per operation.
* **SimulationProofs.** Every step of the loop is one of the controller's or leaves it
  alone (`LoopRefinement`), so everything proved of controller and channel holds of
  each job. `QueueInv` adds to the agreement of queues and flags that a queue waits for
  its `set_backlogged` only in the two stages that sample arrivals, and that senders were
  backlogged; `DecidedInv` says which contenders have decided at which stage. `ReplayInv` is about
  writer, agents and reader together: the three hold the same context of every contender, apart from the
  decision of the row being written, and what an agent learned is what the reader replayed and
  that decision. Thence `ReplayedAgents` and `EarlierSamples`.

  A row is read back because two invariants describe the writer's stages. `ScheduleInv` says which phase
  and which members the loop has reached in terms of the number of the row alone; it rests on what
  the recursive sum `PhaseEnds` computes, which is proved by induction over the length of the schedule,
  and on the division that maps a round to its cycle. `RecordInv` says that counts, times, senders and
  decisions collected for the row under way fit each other. `RowsAreAccepted` then goes through the reader's
  checks one by one. It has two hypotheses, which are limits of the program: `OnePhaseOnce` excludes the
  jobs of the finding `SimOnePhase` (`RepeatedPhaseIsRefused` proves that each of those is refused), and
  `RoomForData` a timing, accepted by the validators, whose Wi-Fi acknowledgement takes the whole transmission: a
  success then carries no data, and the reader asks for some. `NobodyOnlyInGaps` multiplies the constants: in each round
  that is no gap the windows of join interval and lifetime leave somebody in.
* **JobProofs.** `JobInv` says of each label what its process may rely on although
  others run; the store refinement, preservation and clearing of failures follow.
* **PretrainingProofs.** The rollback from an invariant about the one publisher that works
  undisturbed (`RollInv`); the jobs' checks from one that counts replacements (`Remembers`): a hash
  that is not of the artifact loaded first takes one, to load that one again another, and to
  find the hash confirmed a third.
* **SweepProofs.** `SweepInv` says of each stage of an invocation how its local variables fit the
  futures and what is kept on disk: pending jobs are those not resumed, submitted, or collected, and a job counted
  as done is kept under the expected execution as long as its provenance depends on no model that may
  still be replaced. What was found complete before the pool opened is a history variable
  (`skipped`), so that a return accounts for each job of the matrix: as found, or as the result of a worker, under the
  execution that was expected. Full pool, no process that outlives its sweep, one agent and whole returns follow,
  for every number of invocations, jobs and workers.
* **Ns3Proofs.** Processes of different versions work on the same files, so `Ns3Inv` says of a process only what it
  has seen under the version it was started for, and of a file only that some version wrote it (`ChildFits`,
  `StoreSound`). What passes the strict validator was written under the version it is validated for; hence
  what the audit took is what that version makes, and what the reduction read instead of it is of another version
  (`Read`). With it the accounting of children.
* **WarmstartProofs.** Before the invariant, what the definitions compute for arguments of any size: a sum over a
  finite set does not depend on the order in which it is taken or on what its terms are indexed by
  (`Reindexed`), a strict order gives every place to one element (`Ranks`), so `ExpandMatrix` holds each job
  once and `Canonical` sorts. `WarmInv` follows the stages: the queue and the records read divide the jobs,
  samples and utilities are those of the records, and while the agent learns, all that is left comes after all
  that was learned. So each arm has learned its samples in strict order, and of two sequences in strict order with the same
  elements the first differing place would hold an element that one of them lacks (`AgentIsAFunction`). For the oracle:
  sums of smaller terms are smaller (`SumsCompare`), a rounded mean lies within half the spacing of the exact one
  (`MeanIsNear`) and rounding keeps order (`MeanIsMonotone`); and each record read is the one of its
  seed, arm and scenario, so the utilities the oracle saw are those of the records.

Assumptions of a proof are in the module that declares the constants. Beside types they say: a scenario has a
contender and the arms are finitely many (`Simulation`, `Warmstart`), a matrix consists of tuples, and a
record that is parsed holds samples whose fields have their types (`ContentsAssumption`); whether these
samples are of the job, continuous or repeated is not assumed.

Induction over sizes and lengths, for which the library's theorems take a predicate that no installed prover
instantiates, is done through sets: `SetInduction` and `SubsetInduction` follow from the least element
of a set of numbers.

Only model-checked: liveness (`JobEnds`, `Completes`, `Resumes`, `Repairs`, the fairness of
`TakesTurns`), which the prover does not do, and `NobodyStarves`, a bound on a history variable of the run: while a contender's countdown
stands still, another one draws random zeros, of which it can draw no more than its policy has attempts without a
deterministic backoff. It covers contenders that never send, whose interruptions are what moves them on. A round that sends
a TMC contender back to its initial range is not counted, since that range has no deterministic part and may
be drawn from again and again. Every other invariant and every action property of a passing run is
stated by a theorem. The type invariants of
`Contention` and `Channel` are conjuncts of that of the controller (`ControllerTypeOK`); those of all modules with
proofs are proved, no run repeats them.

## Findings

`SimOnePhase`: the loop marks a change point when the phase index changes
(`simulation.py:313`), the reader expects one in the first round of every phase
(`records.py:322`). For a scenario of one phase that is repeated, which the
validators accept, the two differ from the second repetition on and
the reader rejects the row. The job is published as complete nevertheless, since `run_job` and the sweep do not read rows back;
who reads or reduces its record later is refused.

`PretrainingInterrupted`: `build_pretraining` promises to "atomically publish model and
Oracle arm" (`workflows.py:549`) and rolls back on `BaseException`, but notes each replacement in
a statement of its own (`workflows.py:604`, `606`). A `KeyboardInterrupt` that arrives during a
replacement is raised between the two, and the handler leaves one file new and the other
old. The pair is not harmful: a `fixed_oracle` job refuses it and the next pretraining repairs it
(run `Pretraining`).

`Ns3Skips`: `job_is_complete` (`scripts/run_ns3_validation.sh:383`) compares manifest and database in a
Python command whose failure is meant to end the function by errexit. Bash ignores errexit in a
condition, and every caller but one uses the function there (lines 445, 580). A job that was killed between
its new database and its manifest therefore counts as complete, against what
`tests/test_ns3_validation_runner.py:410` expects of the function, and is never run again; the audit refuses the
matrix each time. What is published stays right (`EvidenceIsHonest`).

`EvidenceIsHonest` has two limits that no document rules out, both made by orphans of older inputs. A manifest may name a
database that an orphan copied over the one just validated: the two name different versions, and the audit refuses them.
And a database may be replaced between its audit and the reduction, which reads it again: the summary then lists a hash that is not
of the rows. The rows are of another version than the one the summary names, never of the same.

`AcceptedIsConsistent` marks a limit that no document rules out: each file is read several times, and
a job during which the oracle is replaced three times (and the model with it) may take each read for the same
file. With fewer replacements every mixture is refused.

## Not modelled

Floating point (contexts, rewards, LinUCB's linear algebra, statistics, regime discovery) is outside
both tools; agents are a nondeterministic choice. Random streams: every draw is
possible; seeds only as far as matrices pair them. Text formats: YAML and JSON syntax, field types,
identifiers. The ablation `frozen_online`, whose agents do not learn. The staging of the controller's queue inputs (no
caller passes an invalid one). Of the script, its single stages, the choice of a scratch directory and the build; of
the audit, the schemas of its tables (a table is in order or is not).
Power loss and file systems without atomic rename. Plotting, reporting,
the command line. The ns-3 patches are C++ within a simulator that is not in the repository.
The statuses and reasons of all parts are in `PROJECT.json`.

## Plan

1. Pure algorithms against reference definitions: nearest-rank percentiles, the pairing of seeds in
   `stats.py`, LinUCB's tie-break.
2. The recovery state of the ns-3 access manager, as far as the patches show it, against `Contention`.
3. Proofs: what makes the liveness properties true and can be said of steps, as a measure that falls
   (`JobEnds`) or a step that stays possible until it is taken (`Completes`).
