------------------------------ MODULE Simulation ------------------------------
(***************************************************************************)
(* simulate_job_records of simulation.py: the loop that runs one job on a  *)
(* channel.  It schedules who takes part, lets time pass while every queue *)
(* is empty, replays periodic interference, advances a round, keeps the    *)
(* queues, and yields one row per round (RecordReader reads them back).     *)
(* Every step of it is a step of the controller and its channel, or none.  *)
(*                                                                         *)
(* Arrivals, drawn from a Poisson process, are a nondeterministic choice.  *)
(***************************************************************************)
EXTENDS AdaptiveController, Sequences

CONSTANTS
    Index,            \* the place of each contender in the list of nodes
    Jobs,             \* the schedules and traffic a job may have
    QueueCapacity,    \* _QUEUE_CAPACITY
    MaxIdleTicks,     \* _MAX_IDLE_TICKS
    MaxArrivals       \* bound: the most packets that arrive in one interval

(* No join windows are join and lifetime of 0, no interference a period of  *)
(* 0, no phases an empty sequence.                                          *)
JobSpec ==
    [saturated : BOOLEAN,
     phases    : Seq([duration : Nat \ {0}, wifi : Nat, nru : Nat]),
     join      : Nat, lifetime : Nat,
     rounds    : Nat \ {0},
     period    : Nat, busy : BusyDurations]

(* The round of a cycle in which each phase ends.                           *)
PhaseEnds(phases) ==
    LET end[i \in 0 .. Len(phases)] ==
            IF i = 0 THEN 0 ELSE end[i - 1] + phases[i].duration
    IN  end

(* Phases exclude saturated traffic and join windows and are repeated as a  *)
(* whole.                                                                   *)
ValidPhases(j) ==
    /\ ~j.saturated /\ j.join = 0
    /\ \A i \in 1 .. Len(j.phases) :
          /\ j.phases[i].wifi + j.phases[i].nru > 0
          /\ j.phases[i].wifi <= Cardinality(Node \ Nru)
          /\ j.phases[i].nru <= Cardinality(Nru)
    /\ j.rounds % PhaseEnds(j.phases)[Len(j.phases)] = 0

ASSUME IndexAssumption ==
    /\ Index \in [Node -> 0 .. Cardinality(Node) - 1]
    /\ \A n, k \in Node : Index[n] = Index[k] => n = k

(* A scenario without contenders is refused.                                *)
ASSUME JobSpecAssumption ==
    /\ Node # {}
    /\ \A j \in Jobs :
          /\ j \in JobSpec
          /\ j.join = 0 <=> j.lifetime = 0
          /\ j.phases # <<>> => ValidPhases(j)
    /\ QueueCapacity \in Nat \ {0} /\ MaxIdleTicks \in Nat /\ MaxArrivals \in Nat

VARIABLES
    job,              \* which of the jobs it is
    stage,            \* where the loop is
    round,            \* round_id
    depth,            \* queue_depths
    waking,           \* queues that filled up and are still to be backlogged
    pending,          \* pending_arrivals, of the adaptive contenders
    unrecorded,       \* _AdaptiveNodeState.pending_arrivals
    currentPhase,     \* current_phase_index
    nextBusy,         \* next_busy_start
    boundary,         \* boundary_us
    sampledAt,        \* traffic_sample_at_us
    idleTicks,        \* idle_ticks
    decided,          \* the keys of previous_decision_context
    row,              \* what the row of this round says of its schedule
    readEnd,          \* the end of the row before it
    uncounted,        \* history: arrivals that no AttemptRecord counts yet
    sampledUs         \* history: the time arrivals were sampled for

queueVars   == <<depth, waking, pending, unrecorded, uncounted>>
timeVars    == <<nextBusy, boundary, sampledAt, sampledUs, idleTicks>>
recordVars  == <<currentPhase, decided, row, readEnd>>
loopVars    == <<ctrlVars, stage, round, queueVars, timeVars, recordVars>>
simVars     == <<loopVars, job>>

Saturated    == job.saturated
Phases       == job.phases
JoinInterval == job.join
Lifetime     == job.lifetime
Rounds       == job.rounds

-----------------------------------------------------------------------------
(* Who takes part *)

PhaseEnd == PhaseEnds(Phases)

CycleRound(r) == r % PhaseEnd[Len(Phases)]

PhaseAt(r) ==
    CHOOSE i \in 1 .. Len(Phases) :
        PhaseEnd[i - 1] <= CycleRound(r) /\ CycleRound(r) < PhaseEnd[i]

PhaseRound(r) == CycleRound(r) - PhaseEnd[PhaseAt(r) - 1]

(* The first contenders of each technology take part in a phase.            *)
InPhase(n, i) ==
    IF n \in Nru
    THEN Cardinality({k \in Nru : Index[k] < Index[n]}) < Phases[i].nru
    ELSE Cardinality({k \in Node \ Nru : Index[k] < Index[n]}) < Phases[i].wifi

(* Mutant: a contender joins a round late.                               *)
InLateWindow(n, r) ==
    LET cycle == (Cardinality(Node) - 1) * JoinInterval + Lifetime
        start == Index[n] * JoinInterval
    IN  start < r % cycle /\ r % cycle < start + Lifetime

(* They join one after the other, live as long, and start over.             *)
InWindow(n, r) ==
    LET cycle == (Cardinality(Node) - 1) * JoinInterval + Lifetime
        start == Index[n] * JoinInterval
    IN  start <= r % cycle /\ r % cycle < start + Lifetime

(* Mutant: the schedule only moves forwards.                             *)
ChangesForwards == Phases # <<>> /\ PhaseAt(round) > currentPhase

ChangePoint == Phases # <<>> /\ PhaseAt(round) # currentPhase

(* What set_active is called with; contenders that stay are not touched.    *)
ShouldBeActive(n) ==
    IF row.change THEN InPhase(n, row.phase)
    ELSE IF JoinInterval # 0 THEN InWindow(n, round)
    ELSE active[n]

First(nodes) == CHOOSE n \in nodes : \A k \in nodes : Index[n] <= Index[k]

Misplaced == {n \in Node : active[n] # ShouldBeActive(n)}

OpenRound ==
    /\ stage = "open" /\ round < Rounds
    /\ stage' = "activate"
    /\ idleTicks' = 0
    /\ row' = [row EXCEPT !.change = ChangePoint,
                          !.phase = IF Phases = <<>> THEN 0 ELSE PhaseAt(round),
                          !.phaseRound = IF Phases = <<>> THEN 0 ELSE PhaseRound(round)]
    /\ currentPhase' = IF ChangePoint THEN PhaseAt(round) ELSE currentPhase
    /\ UNCHANGED <<ctrlVars, round, queueVars, nextBusy, boundary, sampledAt,
                   sampledUs, decided, readEnd>>

Activate ==
    /\ stage = "activate" /\ Misplaced # {}
    /\ LET n == First(Misplaced) IN ControllerSetActive(n, ShouldBeActive(n))
    /\ UNCHANGED <<stage, round, queueVars, timeVars, recordVars>>

Activated ==
    /\ stage = "activate" /\ Misplaced = {}
    /\ stage' = "idle"
    /\ UNCHANGED <<ctrlVars, round, queueVars, timeVars, recordVars>>

-----------------------------------------------------------------------------
(* Arrivals *)

(* A queue that was empty is to be backlogged.                              *)
Wakes(arrivals) == {n \in Node : arrivals[n] > 0 /\ depth[n] = 0}

Enqueued(n, arrivals) ==
    IF depth[n] + arrivals <= QueueCapacity THEN depth[n] + arrivals ELSE QueueCapacity

(* Mutant: what the controller was told is told again.                   *)
StaysPending == pending

NoneArePending == [n \in Adaptive |-> 0]

(* Mutant: the time is taken before the clock moves.                     *)
SampleTimeBefore == now

SampleTime == now'

(* sample_arrivals up to the present time.                                  *)
SampleArrivals(elapsed) ==
    /\ \E arrivals \in [Node -> 0 .. MaxArrivals] :
          /\ \A n \in Node : Saturated \/ ~active[n] => arrivals[n] = 0
          /\ depth' = [n \in Node |-> Enqueued(n, arrivals[n])]
          /\ waking' = Wakes(arrivals)
          /\ pending' = [n \in Adaptive |-> pending[n] + arrivals[n]]
          /\ uncounted' = [n \in Adaptive |-> uncounted[n] + arrivals[n]]
    /\ sampledAt' = SampleTime
    /\ sampledUs' = sampledUs + elapsed
    /\ UNCHANGED unrecorded

(* Mutant: the controller is not told.                                   *)
BacklogsOnChannel(n) ==
    SetBacklogged(n) /\ UNCHANGED <<clock, arm, observed, armAtDraw, staleAttempts>>

Backlogs(n) == ControllerSetBacklogged(n)

(* Its calls of set_backlogged, which ignores a contender backlogged already. *)
Wake ==
    /\ waking # {}
    /\ LET n == First(waking)
       IN  /\ IF backlogged[n] THEN UNCHANGED ctrlVars
              ELSE Backlogs(n)
           /\ waking' = waking \ {n}
    /\ UNCHANGED <<stage, round, depth, pending, unrecorded, uncounted, timeVars,
                   recordVars>>

-----------------------------------------------------------------------------
(* Up to the round *)

Idle ==
    /\ stage = "idle" /\ waking = {} /\ idleTicks < MaxIdleTicks
    /\ ControllerIdle
    /\ SampleArrivals(TxUs)
    /\ idleTicks' = idleTicks + 1
    /\ UNCHANGED <<stage, round, nextBusy, boundary, recordVars>>

(* The RuntimeErrors of the idle loop.                                      *)
NobodyActive ==
    /\ stage = "idle" /\ waking = {} /\ \A n \in Node : ~active[n]
    /\ stage' = "nobody_active"
    /\ UNCHANGED <<ctrlVars, round, queueVars, timeVars, recordVars>>

IdleTooLong ==
    /\ stage = "idle" /\ waking = {} /\ Eligible = {} /\ \E n \in Node : active[n]
    /\ idleTicks >= MaxIdleTicks
    /\ stage' = "idle_limit"
    /\ UNCHANGED <<ctrlVars, round, queueVars, timeVars, recordVars>>

IdleEnds ==
    /\ stage = "idle" /\ waking = {} /\ Eligible # {}
    /\ boundary' = now
    /\ stage' = "busy"
    /\ UNCHANGED <<ctrlVars, round, queueVars, nextBusy, sampledAt, sampledUs,
                   idleTicks, recordVars>>

(* Mutant: busy periods that begin during a busy period are due as well. *)
DueAtOnce == job.period # 0 /\ nextBusy <= now

(* A busy period is due that began before this round's contention did.      *)
BusyIsDue == job.period # 0 /\ nextBusy <= boundary

Interfere ==
    /\ stage = "busy" /\ BusyIsDue
    /\ ControllerBusy(job.busy)
    /\ nextBusy' = nextBusy + job.period
    /\ UNCHANGED <<stage, round, queueVars, boundary, sampledAt, sampledUs, idleTicks,
                   recordVars>>

-----------------------------------------------------------------------------
(* The round *)

(* Decisions of this round, and those of them that reward an earlier one.   *)
Decisions == {n \in Adaptive : Decides(n, RoundEnd)}

(* Mutant: the first decision is rewarded already.                       *)
RewardedFirst == {n \in Decisions : AfterRound(n, RoundEnd).attempts > 0}

Rewarded == {n \in Decisions : arm[n] # NoArm /\ AfterRound(n, RoundEnd).attempts > 0}

Contend ==
    /\ stage = "busy" /\ ~BusyIsDue
    /\ ControllerStep
    /\ row' = [row EXCEPT !.active = {n \in Node : active[n]},
                          !.backlogged = Eligible,
                          !.decisions = Decisions,
                          !.rewarded = Rewarded]
    /\ unrecorded' = [n \in Adaptive |->
          IF n \in Expiring THEN 0 ELSE unrecorded[n] + pending[n]]
    /\ uncounted' = [n \in Adaptive |->
          IF n \in Expiring THEN uncounted[n] - (unrecorded[n] + pending[n])
          ELSE uncounted[n]]
    /\ pending' = NoneArePending
    /\ stage' = "dequeue"
    /\ UNCHANGED <<round, depth, waking, timeVars, currentPhase, decided, readEnd>>

Success == Cardinality(senders) = 1

(* Mutant: the last packet is taken for one more.                        *)
HasOneLeft(n) == depth[n] > 0

HasMore(n) == depth[n] > 1

(* A success takes a packet from its sender's queue.                        *)
Dequeue ==
    /\ stage = "dequeue"
    /\ IF Success /\ ~Saturated
       THEN LET s == First(senders)
            IN  /\ depth[s] > 0
                /\ depth' = [depth EXCEPT ![s] = @ - 1]
                /\ IF HasMore(s) THEN UNCHANGED ctrlVars
                   ELSE ControllerClearBacklogged(s)
       ELSE UNCHANGED <<ctrlVars, depth>>
    /\ stage' = "sample"
    /\ UNCHANGED <<round, waking, pending, unrecorded, uncounted, timeVars, recordVars>>

Sample ==
    /\ stage = "sample"
    /\ UNCHANGED ctrlVars
    /\ SampleArrivals(now - sampledAt)
    /\ stage' = "yield"
    /\ UNCHANGED <<round, nextBusy, boundary, idleTicks, recordVars>>

(* The row is yielded, and read back one day.                               *)
Yield ==
    /\ stage = "yield" /\ waking = {}
    /\ row.rewarded \subseteq decided
    /\ decided' = decided \cup row.decisions
    /\ readEnd' = now
    /\ round' = round + 1
    /\ stage' = "open"
    /\ UNCHANGED <<ctrlVars, queueVars, timeVars, currentPhase, row>>

-----------------------------------------------------------------------------
(* Specification *)

SimInit ==
    /\ job \in Jobs
    /\ ControllerInit
    /\ active = [n \in Node |-> JoinInterval = 0 /\ Phases = <<>>]
    /\ backlogged = [n \in Node |-> Saturated]
    /\ stage = "open" /\ round = 0
    /\ depth = [n \in Node |-> IF Saturated THEN 1 ELSE 0]
    /\ waking = {}
    /\ pending = [n \in Adaptive |-> 0]
    /\ unrecorded = [n \in Adaptive |-> 0]
    /\ uncounted = [n \in Adaptive |-> 0]
    /\ nextBusy = 0 /\ boundary = 0 /\ sampledAt = 0 /\ sampledUs = 0 /\ idleTicks = 0
    /\ currentPhase = 0 /\ decided = {} /\ readEnd = 0
    /\ row = [change |-> FALSE, phase |-> 0, phaseRound |-> 0, active |-> {},
              backlogged |-> {}, decisions |-> {}, rewarded |-> {}]

SimNext ==
    /\ \/ OpenRound \/ Activate \/ Activated
       \/ Wake \/ Idle \/ NobodyActive \/ IdleTooLong \/ IdleEnds
       \/ Interfere \/ Contend \/ Dequeue \/ Sample \/ Yield
    /\ UNCHANGED job

SimSpec == SimInit /\ [][SimNext]_simVars

-----------------------------------------------------------------------------
(* Properties *)

(* A contender is backlogged exactly while its queue holds a packet, but    *)
(* for the moment between an arrival and its set_backlogged: a Poisson      *)
(* sender always has the packet it succeeds with, a full or an inactive     *)
(* queue is not forgotten, and an empty one does not contend.               *)
QueueMatchesBacklog ==
    \A n \in Node : backlogged[n] <=> depth[n] > 0 /\ n \notin waking

(* The loop's RuntimeErrors about its own bookkeeping do not occur: a       *)
(* successful Poisson sender has a packet, and a rewarded decision has an   *)
(* earlier one to attribute the training sample to.                         *)
NeverRaises ==
    /\ stage = "dequeue" /\ Success /\ ~Saturated => depth[First(senders)] > 0
    /\ stage = "yield" => row.rewarded \subseteq decided

(* Somebody is active in every round of a job, before and after the windows *)
(* wrap around, unless the scenario lets a contender leave before the next  *)
(* one joins.                                                               *)
SomebodyActive == stage = "nobody_active" => JoinInterval > Lifetime

(* Arrivals are sampled over adjoining intervals that cover the time of the *)
(* job once, idle time and interference included.                           *)
TimeSampledOnce ==
    /\ sampledUs = sampledAt
    /\ stage \in {"open", "activate", "idle", "yield"} => sampledAt = now

(* Every arrival at an adaptive contender is in exactly one AttemptRecord   *)
(* or is still to be recorded in one, although it is handed from the loop   *)
(* to the controller and waits there for the contender's next attempt.      *)
ArrivalsRecordedOnce ==
    \A n \in Adaptive : uncounted[n] = pending[n] + unrecorded[n]

(* The loop drives the controller and its channel as their owner may, so    *)
(* every property of theirs is one of each job.                             *)
DrivesController == ControllerSpec

(* A job ends: with a row for each of its rounds, or with the error that    *)
(* says why not.                                                            *)
Ended == round = Rounds \/ stage \in {"nobody_active", "idle_limit"}

=============================================================================
