---------------------------- MODULE SimulationProofs ----------------------------
(***************************************************************************)
(* Theorems about the simulation loop and its record: the loop drives the  *)
(* controller and its channel only as their specifications allow, so that  *)
(* what is proved of them holds of every job; it never loses track of a    *)
(* queue; it keeps to its schedule, so that somebody is always active; and *)
(* no row of it is refused by the reader, which computes from the number   *)
(* of the row what the loop reached step by step.                          *)
(***************************************************************************)
EXTENDS RecordReader, AdaptiveProofs, SequenceTheorems

(* The loop visits a contender of the set it works through.                 *)
LEMMA FirstIsOne ==
  ASSUME NEW nodes \in SUBSET Node, nodes # {}
  PROVE  First(nodes) \in nodes
<1> DEFINE T == {Index[n] : n \in nodes}
<1>1. T \subseteq Nat /\ T # {}
  BY IndexAssumption, NodeAssumption, FS_CardinalityType
<1>2. PICK x \in T : \A y \in T : x <= y
  <2> HIDE DEF T
  <2> QED BY <1>1, LeastNumber
<1>3. PICK n \in nodes : \A k \in nodes : Index[n] <= Index[k]
  BY <1>2
<1> QED
  BY <1>3, Zenon DEF First

-----------------------------------------------------------------------------
(* The loop is an owner of the controller *)

OwnerInv == ControllerTypeOK /\ AccountingInv /\ waking \subseteq Node /\ job \in Jobs

LEMMA ControllerStepped ==
  ASSUME OwnerInv, [SimNext]_simVars
  PROVE  [ControllerNext]_ctrlVars
<1>a. active \in [Node -> BOOLEAN] /\ senders \subseteq Node
  BY DEF OwnerInv, ControllerTypeOK, ChannelTypeOK, TypeOK
<1>1. CASE UNCHANGED ctrlVars
  BY <1>1
<1>2. CASE Idle
  BY <1>2 DEF Idle, ControllerNext
<1>3. CASE Interfere
  BY <1>3, JobSpecAssumption DEF Interfere, ControllerNext, OwnerInv, JobSpec
<1>4. CASE Contend
  BY <1>4 DEF Contend, ControllerNext
<1>5. CASE Activate
  <2> DEFINE n == First(Misplaced)
  <2>1. n \in Node
    BY <1>5, FirstIsOne DEF Activate, Misplaced
  <2>2. ControllerSetActive(n, ShouldBeActive(n))
    BY <1>5 DEF Activate
  <2> HIDE DEF n
  <2>3. ShouldBeActive(n) \in BOOLEAN
    <3>1. active[n] \in BOOLEAN
      BY <1>a, <2>1
    <3>2. InPhase(n, row.phase) \in BOOLEAN
      <4>1. \A a, b : (a < b) \in BOOLEAN
        OBVIOUS
      <4> QED
        BY <4>1, Zenon DEF InPhase
    <3>3. InWindow(n, round) \in BOOLEAN
      BY Zenon DEF InWindow
    <3> QED
      BY <3>1, <3>2, <3>3, Zenon DEF ShouldBeActive
  <2> QED
    BY <2>1, <2>2, <2>3 DEF ControllerNext, ControllerChange
<1>6. CASE Wake
  <2> DEFINE n == First(waking)
  <2>1. n \in Node
    BY <1>6, FirstIsOne DEF Wake, OwnerInv
  <2>2. ControllerSetBacklogged(n) \/ UNCHANGED ctrlVars
    BY <1>6 DEF Wake, Backlogs
  <2> HIDE DEF n
  <2> QED
    BY <2>1, <2>2 DEF ControllerNext, ControllerChange
<1>7. CASE Dequeue
  <2> DEFINE n == First(senders)
  <2>1. Success => n \in Node
    BY <1>a, FirstIsOne, FS_EmptySet DEF Success
  <2>2. (Success /\ ControllerClearBacklogged(n)) \/ UNCHANGED ctrlVars
    BY <1>7 DEF Dequeue
  <2> HIDE DEF n
  <2> QED
    BY <2>1, <2>2 DEF ControllerNext, ControllerChange
<1> QED
  BY <1>1, <1>2, <1>3, <1>4, <1>5, <1>6, <1>7
     DEF SimNext, simVars, loopVars, OpenRound, Activated, NobodyActive, IdleTooLong, IdleEnds,
         Sample, Yield

LEMMA OwnerInitially == SimInit => OwnerInv
  BY InitAccounting DEF SimInit, OwnerInv

LEMMA OwnerStep ==
  ASSUME OwnerInv, [SimNext]_simVars
  PROVE  OwnerInv'
<1>1. ControllerTypeOK' /\ AccountingInv'
  BY ControllerStepped, AccountingStep DEF OwnerInv
<1>2. waking' \subseteq Node /\ job' \in Jobs
  BY DEF OwnerInv, SimNext, simVars, loopVars, queueVars, OpenRound, Activate, Activated, Wake, Idle,
         NobodyActive, IdleTooLong, IdleEnds, Interfere, Contend, Dequeue, Sample, Yield,
         SampleArrivals, Wakes
<1> QED
  BY <1>1, <1>2 DEF OwnerInv

LEMMA Owner == SimSpec => []OwnerInv
  BY OwnerInitially, OwnerStep, PTL DEF SimSpec

(* What the controller and the channel promise their owner holds of every   *)
(* job: the loop never takes a step of theirs behind their back.            *)
THEOREM LoopRefinement == SimSpec => DrivesController
<1>1. SimInit => ControllerInit
  BY DEF SimInit
<1> QED
  BY <1>1, Owner, ControllerStepped, PTL DEF SimSpec, DrivesController, ControllerSpec

-----------------------------------------------------------------------------
(* Queues *)

QueueInv ==
    /\ depth \in [Node -> Nat]
    /\ QueueMatchesBacklog
    /\ \A n \in waking : depth[n] > 0
    /\ waking # {} => stage \in {"idle", "yield"}
    /\ stage = "dequeue" => \A n \in senders : backlogged[n]

(* An arrival makes a queue wait for its set_backlogged, or finds it        *)
(* backlogged already.                                                      *)
LEMMA SampledQueues ==
  ASSUME OwnerInv, QueueInv, waking = {}, NEW elapsed, SampleArrivals(elapsed),
         UNCHANGED backlogged
  PROVE  /\ depth' \in [Node -> Nat]
         /\ QueueMatchesBacklog'
         /\ \A n \in waking' : depth'[n] > 0
<1>1. PICK arrivals \in [Node -> 0 .. MaxArrivals] :
         depth' = [n \in Node |-> Enqueued(n, arrivals[n])] /\ waking' = Wakes(arrivals)
  BY DEF SampleArrivals
<1>2. ASSUME NEW n \in Node
      PROVE  /\ Enqueued(n, arrivals[n]) \in Nat
             /\ Enqueued(n, arrivals[n]) > 0 <=> arrivals[n] > 0 \/ depth[n] > 0
  BY JobSpecAssumption DEF Enqueued, QueueInv
<1>3. depth' \in [Node -> Nat]
  BY <1>1, <1>2
<1>4. \A n \in waking' : depth'[n] > 0
  BY <1>1, <1>2 DEF Wakes
<1>5. ASSUME NEW n \in Node
      PROVE  backlogged'[n] <=> depth'[n] > 0 /\ n \notin waking'
  <2>1. backlogged[n] <=> depth[n] > 0
    BY DEF QueueInv, QueueMatchesBacklog
  <2>2. depth[n] \in Nat /\ arrivals[n] \in Nat
    BY JobSpecAssumption DEF QueueInv
  <2>3. n \in waking' <=> arrivals[n] > 0 /\ depth[n] = 0
    BY <1>1 DEF Wakes
  <2>4. depth'[n] > 0 <=> arrivals[n] > 0 \/ depth[n] > 0
    BY <1>1, <1>2
  <2> QED
    BY <2>1, <2>2, <2>3, <2>4
<1> QED
  BY <1>3, <1>4, <1>5 DEF QueueMatchesBacklog

LEMMA QueueInitially == SimInit => QueueInv
  BY DEF SimInit, QueueInv, QueueMatchesBacklog

LEMMA QueueStep ==
  ASSUME OwnerInv, QueueInv, [SimNext]_simVars
  PROVE  QueueInv'
<1>t. /\ backlogged \in [Node -> BOOLEAN] /\ senders \subseteq Node
      /\ waking \subseteq Node
  BY DEF OwnerInv, ControllerTypeOK, ChannelTypeOK, TypeOK
<1>1. CASE UNCHANGED <<depth, waking, backlogged>> /\ waking = {} /\ stage' # "dequeue"
  BY <1>1 DEF QueueInv, QueueMatchesBacklog
<1>2. CASE UNCHANGED simVars
  BY <1>2 DEF QueueInv, QueueMatchesBacklog, simVars, loopVars, queueVars, ctrlVars, chanVars, vars,
              countdown, membership
<1>3. CASE OpenRound \/ Activated \/ IdleTooLong \/ IdleEnds \/ Interfere
  BY <1>1, <1>3 DEF OpenRound, Activated, IdleTooLong, IdleEnds, Interfere, QueueInv,
     queueVars, ctrlVars, chanVars, vars, membership, ControllerBusy, ChannelBusy,
     ApplyBackgroundBusy
<1>4. CASE NobodyActive
  BY <1>1, <1>4 DEF NobodyActive, queueVars, ctrlVars, chanVars, vars, membership
<1>5. CASE Activate
  <2>1. UNCHANGED <<depth, waking, stage>> /\ waking = {} /\ stage' # "dequeue"
    BY <1>5 DEF Activate, queueVars, QueueInv
  <2>2. UNCHANGED backlogged
    BY <1>5 DEF Activate, ControllerSetActive, SetActive
  <2> QED
    BY <1>1, <2>1, <2>2
<1>6. CASE Wake
  <2> DEFINE n == First(waking)
  <2>1. n \in waking
    BY <1>6, <1>t, FirstIsOne DEF Wake
  <2>2. /\ backlogged' = [backlogged EXCEPT ![n] = TRUE]
        /\ waking' = waking \ {n} /\ UNCHANGED <<depth, stage>>
    BY <1>6, <1>t DEF Wake, Backlogs, ControllerSetBacklogged, SetBacklogged, ctrlVars,
       chanVars, vars, membership
  <2>3. stage # "dequeue"
    BY <2>1 DEF QueueInv
  <2> HIDE DEF n
  <2> QED
    BY <2>1, <2>2, <2>3, <1>t DEF QueueInv, QueueMatchesBacklog
<1>7. CASE Idle
  <2>1. UNCHANGED backlogged /\ waking = {} /\ stage = "idle" /\ stage' = "idle"
    BY <1>7 DEF Idle, ControllerIdle, IdleTick, vars, membership
  <2> QED
    BY <1>7, <2>1, SampledQueues DEF Idle, QueueInv
<1>8. CASE Contend
  <2>1. /\ UNCHANGED <<depth, waking, backlogged>> /\ senders' = Expiring
        /\ stage = "busy" /\ stage' = "dequeue"
    BY <1>8 DEF Contend, ControllerStep, ChannelRound, Round, membership
  <2>2. \A n \in Expiring : backlogged[n]
    BY DEF Expiring, Eligible
  <2> QED
    BY <2>1, <2>2 DEF QueueInv, QueueMatchesBacklog
<1>9. CASE Dequeue
  <2> DEFINE s == First(senders)
  <2>0. waking = {} /\ UNCHANGED waking /\ stage = "dequeue" /\ stage' = "sample"
    BY <1>9 DEF Dequeue, QueueInv
  <2>1. CASE Success /\ ~Saturated
    <3>1. s \in senders
      BY <1>t, <2>1, FirstIsOne, FS_EmptySet DEF Success
    <3>2. s \in Node /\ depth[s] \in Nat /\ depth[s] > 0
      BY <1>9, <1>t, <2>1, <3>1 DEF Dequeue, QueueInv
    <3>3. depth' = [depth EXCEPT ![s] = @ - 1]
      BY <1>9, <2>1 DEF Dequeue
    <3>4. backlogged' = IF depth[s] > 1 THEN backlogged
                        ELSE [backlogged EXCEPT ![s] = FALSE]
      <4>1. CASE HasMore(s)
        BY <1>9, <2>1, <4>1 DEF Dequeue, HasMore, ctrlVars, chanVars, vars, membership
      <4>2. CASE ~HasMore(s)
        BY <1>9, <2>1, <4>2 DEF Dequeue, HasMore, ControllerClearBacklogged, ClearBacklogged
      <4> QED
        BY <4>1, <4>2 DEF HasMore
    <3> HIDE DEF s
    <3>5. depth' \in [Node -> Nat] /\ backlogged' \in [Node -> BOOLEAN]
      BY <1>t, <3>2, <3>3, <3>4 DEF QueueInv
    <3>6. ASSUME NEW n \in Node
          PROVE  backlogged'[n] <=> depth'[n] > 0
      <4>1. backlogged[n] <=> depth[n] > 0
        BY <2>0 DEF QueueInv, QueueMatchesBacklog
      <4>2. CASE n # s
        BY <1>t, <3>2, <3>3, <3>4, <4>1, <4>2 DEF QueueInv
      <4>3. CASE n = s /\ depth[s] > 1
        BY <3>2, <3>3, <3>4, <4>1, <4>3 DEF QueueInv
      <4>4. CASE n = s /\ ~(depth[s] > 1)
        <5>1. depth'[s] = 0
          BY <3>2, <3>3, <4>4 DEF QueueInv
        <5>2. backlogged'[s] = FALSE
          BY <1>t, <3>2, <3>4, <4>4
        <5> QED
          BY <4>4, <5>1, <5>2
      <4> QED
        BY <4>2, <4>3, <4>4
    <3> QED
      BY <2>0, <3>5, <3>6 DEF QueueInv, QueueMatchesBacklog
  <2>2. CASE ~(Success /\ ~Saturated)
    BY <1>1, <1>9, <2>0, <2>2 DEF Dequeue, ctrlVars, chanVars, vars, membership
  <2> QED
    BY <2>1, <2>2
<1>10. CASE Sample
  <2>1. UNCHANGED backlogged /\ waking = {} /\ stage' = "yield"
    BY <1>10 DEF Sample, ctrlVars, chanVars, vars, membership, QueueInv
  <2> QED
    BY <1>10, <2>1, SampledQueues DEF Sample, QueueInv
<1>11. CASE Yield
  BY <1>1, <1>11 DEF Yield, queueVars, ctrlVars, chanVars, vars, membership
<1> QED
  BY <1>2, <1>3, <1>4, <1>5, <1>6, <1>7, <1>8, <1>9, <1>10, <1>11 DEF SimNext

LEMMA Queues == SimSpec => [](OwnerInv /\ QueueInv)
<1>1. OwnerInv /\ QueueInv /\ [SimNext]_simVars => QueueInv'
  BY QueueStep
<1> QED
  BY <1>1, Owner, QueueInitially, PTL DEF SimSpec

(* The channel's backlogged flags are those of the queues in every job:     *)
(* set_active, set_backlogged and the dequeue of a success keep them in     *)
(* step whatever the arrivals and the schedule.                             *)
THEOREM BackloggedQueues == SimSpec => []QueueMatchesBacklog
  BY Queues, PTL DEF QueueInv

-----------------------------------------------------------------------------
(* Time *)

TimeInv == TimeSampledOnce /\ sampledAt \in Nat

LEMMA TimeStep ==
  ASSUME OwnerInv, OwnerInv', TimeInv, [SimNext]_simVars
  PROVE  TimeInv'
<1>t. now \in Nat /\ now' \in Nat
  BY DEF OwnerInv, ControllerTypeOK, ChannelTypeOK
<1>1. CASE UNCHANGED <<now, sampledAt, sampledUs, stage>>
  BY <1>1 DEF TimeInv, TimeSampledOnce
<1>2. CASE UNCHANGED simVars \/ Activate
  BY <1>1, <1>2 DEF simVars, loopVars, ctrlVars, chanVars, clock, timeVars, Activate,
     ControllerSetActive, Accounts
<1>3. CASE OpenRound \/ Activated \/ NobodyActive \/ IdleTooLong \/ IdleEnds \/ Yield
  BY <1>3 DEF TimeInv, TimeSampledOnce, OpenRound, Activated, NobodyActive, IdleTooLong,
     IdleEnds, Yield, ctrlVars, chanVars, clock, timeVars
<1>4. CASE Wake
  <2>1. UNCHANGED <<now, sampledAt, sampledUs, stage>>
    BY <1>4 DEF Wake, Backlogs, ControllerSetBacklogged, Accounts, ctrlVars, chanVars, clock,
       timeVars
  <2> QED
    BY <1>1, <2>1
<1>5. CASE Idle
  <2>1. /\ now' = now + TxUs /\ sampledAt' = now' /\ sampledUs' = sampledUs + TxUs
        /\ stage = "idle"
    BY <1>5 DEF Idle, ControllerIdle, IdleTick, SampleArrivals, SampleTime
  <2> QED
    BY <1>t, <2>1 DEF TimeInv, TimeSampledOnce
<1>6. CASE Interfere \/ Contend
  BY <1>6 DEF Interfere, Contend, TimeInv, TimeSampledOnce, timeVars
<1>7. CASE Dequeue
  BY <1>7 DEF Dequeue, TimeInv, TimeSampledOnce, timeVars
<1>8. CASE Sample
  <2>1. now' = now /\ sampledAt' = now /\ sampledUs' = sampledUs + (now - sampledAt)
    BY <1>8 DEF Sample, SampleArrivals, SampleTime, ctrlVars, chanVars, clock
  <2> QED
    BY <1>t, <2>1 DEF TimeInv, TimeSampledOnce
<1> QED
  BY <1>2, <1>3, <1>4, <1>5, <1>6, <1>7, <1>8 DEF SimNext

(* Idle time, interference and rounds are all sampled for arrivals, once.   *)
THEOREM SampledTime == SimSpec => []TimeSampledOnce
<1>1. SimInit => TimeInv
  BY DEF SimInit, TimeInv, TimeSampledOnce, ControllerInit, ChannelInit
<1>2. OwnerInv /\ OwnerInv' /\ TimeInv /\ [SimNext]_simVars => TimeInv'
  BY TimeStep
<1>3. TimeInv => TimeSampledOnce
  BY DEF TimeInv
<1> QED
  BY <1>1, <1>2, <1>3, Owner, PTL DEF SimSpec

-----------------------------------------------------------------------------
(* Arrivals of adaptive contenders *)

ArrivalsInv ==
    /\ pending \in [Adaptive -> Nat] /\ unrecorded \in [Adaptive -> Nat]
    /\ uncounted \in [Adaptive -> Nat]
    /\ ArrivalsRecordedOnce

LEMMA SampledArrivals ==
  ASSUME ArrivalsInv, NEW elapsed, SampleArrivals(elapsed)
  PROVE  ArrivalsInv'
<1>1. PICK arrivals \in [Node -> 0 .. MaxArrivals] :
         /\ pending' = [n \in Adaptive |-> pending[n] + arrivals[n]]
         /\ uncounted' = [n \in Adaptive |-> uncounted[n] + arrivals[n]]
  BY DEF SampleArrivals
<1>2. UNCHANGED unrecorded
  BY DEF SampleArrivals
<1>3. ASSUME NEW n \in Adaptive PROVE arrivals[n] \in Nat
  BY JobSpecAssumption, AdaptiveNodes
<1>4. /\ pending' \in [Adaptive -> Nat] /\ unrecorded' \in [Adaptive -> Nat]
      /\ uncounted' \in [Adaptive -> Nat]
  BY <1>1, <1>2, <1>3 DEF ArrivalsInv
<1>5. ASSUME NEW n \in Adaptive
      PROVE  uncounted'[n] = pending'[n] + unrecorded'[n]
  <2>1. uncounted[n] = pending[n] + unrecorded[n] /\ pending[n] \in Nat
        /\ unrecorded[n] \in Nat
    BY DEF ArrivalsInv, ArrivalsRecordedOnce
  <2>2. /\ pending'[n] = pending[n] + arrivals[n]
        /\ uncounted'[n] = uncounted[n] + arrivals[n]
        /\ unrecorded'[n] = unrecorded[n]
    BY <1>1, <1>2
  <2> QED
    BY <1>3, <2>1, <2>2
<1> QED
  BY <1>4, <1>5 DEF ArrivalsInv, ArrivalsRecordedOnce

LEMMA ArrivalsStep ==
  ASSUME ArrivalsInv, [SimNext]_simVars
  PROVE  ArrivalsInv'
<1>1. CASE UNCHANGED <<pending, unrecorded, uncounted>>
  BY <1>1 DEF ArrivalsInv, ArrivalsRecordedOnce
<1>2. CASE Idle \/ Sample
  BY <1>2, SampledArrivals DEF Idle, Sample
<1>3. CASE Contend
  <2>1. /\ pending' = [n \in Adaptive |-> 0]
        /\ unrecorded' = [n \in Adaptive |->
              IF n \in Expiring THEN 0 ELSE unrecorded[n] + pending[n]]
        /\ uncounted' = [n \in Adaptive |->
              IF n \in Expiring THEN uncounted[n] - (unrecorded[n] + pending[n])
              ELSE uncounted[n]]
    BY <1>3 DEF Contend, NoneArePending
  <2> QED
    BY <2>1 DEF ArrivalsInv, ArrivalsRecordedOnce
<1> QED
  BY <1>1, <1>2, <1>3
     DEF SimNext, simVars, loopVars, queueVars, OpenRound, Activate, Activated, Wake, NobodyActive,
         IdleTooLong, IdleEnds, Interfere, Dequeue, Yield

(* No arrival is lost or recorded twice on its way to an AttemptRecord.     *)
THEOREM RecordedArrivals == SimSpec => []ArrivalsRecordedOnce
<1>1. SimInit => ArrivalsInv
  BY DEF SimInit, ArrivalsInv, ArrivalsRecordedOnce
<1>2. ArrivalsInv /\ [SimNext]_simVars => ArrivalsInv'
  BY ArrivalsStep
<1>3. ArrivalsInv => ArrivalsRecordedOnce
  BY DEF ArrivalsInv
<1> QED
  BY <1>1, <1>2, <1>3, PTL DEF SimSpec

-----------------------------------------------------------------------------
(* Decisions *)

(* An agent in force has decided in an earlier round or in this one.        *)
DecidedInv ==
    /\ row = [change |-> row.change, phase |-> row.phase, phaseRound |-> row.phaseRound,
              active |-> row.active, backlogged |-> row.backlogged,
              decisions |-> row.decisions, rewarded |-> row.rewarded]
    /\ \A n \in Adaptive : arm[n] # NoArm =>
          \/ n \in decided
          \/ stage \in {"dequeue", "sample", "yield"} /\ n \in row.decisions
    /\ stage \in {"dequeue", "sample", "yield"} => row.rewarded \subseteq decided

LEMMA DecidedStep ==
  ASSUME DecidedInv, [SimNext]_simVars
  PROVE  DecidedInv'
<1>1. CASE UNCHANGED <<arm, decided, row, stage>>
  BY <1>1 DEF DecidedInv
<1>2. CASE UNCHANGED simVars
  BY <1>1, <1>2 DEF simVars, loopVars, ctrlVars, recordVars
<1>3. CASE Activate
  BY <1>1, <1>3 DEF Activate, ControllerSetActive, Accounts, recordVars
<1>4. CASE Wake
  <2>1. UNCHANGED <<arm, decided, row, stage>>
    BY <1>4 DEF Wake, Backlogs, ControllerSetBacklogged, Accounts, ctrlVars, recordVars
  <2> QED
    BY <1>1, <2>1
<1>5. CASE Idle \/ Interfere
  BY <1>1, <1>5 DEF Idle, Interfere, ControllerIdle, ControllerBusy, recordVars
<1>6. CASE OpenRound
  <2>1. UNCHANGED <<arm, decided>> /\ stage = "open" /\ stage' = "activate"
    BY <1>6 DEF OpenRound, ctrlVars
  <2>2. PICK c, p, r : row' = [row EXCEPT !.change = c, !.phase = p, !.phaseRound = r]
    BY <1>6 DEF OpenRound
  <2> QED
    BY <2>1, <2>2 DEF DecidedInv
<1>7. CASE Activated \/ NobodyActive \/ IdleTooLong \/ IdleEnds
  BY <1>7 DEF Activated, NobodyActive, IdleTooLong, IdleEnds, DecidedInv, ctrlVars, recordVars
<1>8. CASE Contend
  <2>1. UNCHANGED decided /\ stage = "busy" /\ stage' = "dequeue"
    BY <1>8 DEF Contend
  <2>2. PICK a, b : row' = [row EXCEPT !.active = a, !.backlogged = b,
                                       !.decisions = Decisions, !.rewarded = Rewarded]
    BY <1>8 DEF Contend
  <2>3. \A n \in Adaptive : arm'[n] # NoArm => n \in Decisions \/ arm[n] # NoArm
    <3>1. PICK choice \in [Adaptive -> Arms] : arm' = [n \in Adaptive |->
                IF Decides(n, RoundEnd) THEN choice[n] ELSE arm[n]]
      BY <1>8 DEF Contend, ControllerStep
    <3> QED
      BY <3>1, Zenon DEF Decisions
  <2>4. \A n \in Rewarded : n \in Adaptive /\ arm[n] # NoArm
    BY Zenon DEF Rewarded, Decisions
  <2>5. /\ row'.decisions = Decisions /\ row'.rewarded = Rewarded
        /\ row' = [change |-> row'.change, phase |-> row'.phase,
                   phaseRound |-> row'.phaseRound, active |-> row'.active,
                   backlogged |-> row'.backlogged,
                   decisions |-> row'.decisions, rewarded |-> row'.rewarded]
    BY <2>2 DEF DecidedInv
  <2> QED
    BY <2>1, <2>3, <2>4, <2>5 DEF DecidedInv
<1>9. CASE Dequeue
  <2>1. UNCHANGED <<arm, decided, row>> /\ stage = "dequeue" /\ stage' = "sample"
    BY <1>9 DEF Dequeue, ctrlVars, recordVars, ControllerClearBacklogged, Accounts
  <2> QED
    BY <2>1 DEF DecidedInv
<1>10. CASE Sample
  BY <1>10 DEF Sample, ctrlVars, recordVars, DecidedInv
<1>11. CASE Yield
  <2>1. /\ UNCHANGED <<arm, row>> /\ decided' = decided \cup row.decisions
        /\ stage = "yield" /\ stage' = "open"
    BY <1>11 DEF Yield, ctrlVars
  <2> QED
    BY <2>1 DEF DecidedInv
<1> QED
  BY <1>2, <1>3, <1>4, <1>5, <1>6, <1>7, <1>8, <1>9, <1>10, <1>11 DEF SimNext

(* A job never stops on the loop's own bookkeeping: its queues and its      *)
(* decisions are there when it looks them up.                               *)
THEOREM NoRaises == SimSpec => []NeverRaises
<1>1. SimInit => DecidedInv
  BY DEF SimInit, DecidedInv, ControllerInit
<1>2. DecidedInv /\ [SimNext]_simVars => DecidedInv'
  BY DecidedStep
<1>3. ASSUME OwnerInv, QueueInv, DecidedInv
      PROVE  NeverRaises
  <2>1. ASSUME stage = "dequeue", Success PROVE depth[First(senders)] > 0
    <3>1. senders \subseteq Node
      BY <1>3 DEF OwnerInv, ControllerTypeOK, ChannelTypeOK, TypeOK
    <3>2. First(senders) \in senders
      BY <2>1, <3>1, FirstIsOne, FS_EmptySet DEF Success
    <3> QED
      BY <1>3, <2>1, <3>1, <3>2 DEF QueueInv, QueueMatchesBacklog
  <2> QED
    BY <1>3, <2>1 DEF NeverRaises, DecidedInv
<1> QED
  BY <1>1, <1>2, <1>3, Queues, PTL DEF SimSpec

-----------------------------------------------------------------------------
(* Phases and windows *)

(* Induction, for a set in place of a predicate.                            *)
LEMMA SetInduction ==
  ASSUME NEW S, 0 \in S, \A n \in Nat : n \in S => n + 1 \in S
  PROVE  \A n \in Nat : n \in S
<1> DEFINE T == {n \in Nat : n \notin S}
<1> SUFFICES ASSUME T # {} PROVE FALSE
  OBVIOUS
<1>1. PICK n \in T : \A m \in T : n <= m
  BY LeastNumber
<1>2. n - 1 \in Nat /\ n - 1 \notin T
  BY <1>1
<1> QED
  BY <1>2

-----------------------------------------------------------------------------
(* The phases of a cycle *)

PhaseSeq == Seq([duration : Nat \ {0}, wifi : Nat, nru : Nat])

LEMMA PhaseEndsDef ==
  ASSUME NEW phases \in PhaseSeq
  PROVE  PhaseEnds(phases) = [i \in 0 .. Len(phases) |->
            IF i = 0 THEN 0 ELSE PhaseEnds(phases)[i - 1] + phases[i].duration]
<1> DEFINE Ends(n) == \E end : end = [i \in 0 .. n |->
                    IF i = 0 THEN 0 ELSE end[i - 1] + phases[i].duration]
           Defined == {n \in Nat : Ends(n)}
<1>1. Ends(0)
  <2> DEFINE f == [i \in 0 .. 0 |-> 0]
  <2>1. f = [i \in 0 .. 0 |-> IF i = 0 THEN 0 ELSE f[i - 1] + phases[i].duration]
    OBVIOUS
  <2> HIDE DEF f
  <2> QED BY <2>1
<1>2. ASSUME NEW n \in Nat, Ends(n) PROVE Ends(n + 1)
  <2>1. PICK e : e = [i \in 0 .. n |->
                    IF i = 0 THEN 0 ELSE e[i - 1] + phases[i].duration]
    BY <1>2
  <2> DEFINE f == [i \in 0 .. n + 1 |->
                      IF i \in 0 .. n THEN e[i] ELSE e[n] + phases[n + 1].duration]
  <2>2. f = [i \in 0 .. n + 1 |-> IF i = 0 THEN 0 ELSE f[i - 1] + phases[i].duration]
    <3> SUFFICES ASSUME NEW i \in 0 .. n + 1
                 PROVE  f[i] = IF i = 0 THEN 0 ELSE f[i - 1] + phases[i].duration
      OBVIOUS
    <3>1. CASE i = n + 1
      BY <3>1
    <3>2. CASE i = 0
      <4>1. f[0] = e[0]
        OBVIOUS
      <4>2. e[0] = 0
        BY <2>1
      <4> QED
        BY <3>2, <4>1, <4>2
    <3>3. CASE i \in 1 .. n
      <4>1. i - 1 \in 0 .. n /\ i \in 0 .. n /\ i # 0
        BY <3>3
      <4>2. e[i] = e[i - 1] + phases[i].duration
        BY <2>1, <4>1
      <4>3. f[i] = e[i] /\ f[i - 1] = e[i - 1]
        BY <4>1
      <4> QED
        BY <4>1, <4>2, <4>3
    <3> QED BY <3>1, <3>2, <3>3
  <2> HIDE DEF f
  <2> QED BY <2>2
<1>3. \A n \in Nat : n \in Defined
  <2>1. 0 \in Defined
    BY <1>1
  <2>2. \A n \in Nat : n \in Defined => n + 1 \in Defined
    <3> SUFFICES ASSUME NEW n \in Nat, Ends(n) PROVE Ends(n + 1)
      BY DEF Defined
    <3> QED BY <1>2
  <2> HIDE DEF Defined
  <2> QED BY <2>1, <2>2, SetInduction
<1>4. Len(phases) \in Nat
  BY DEF PhaseSeq
<1>5. Ends(Len(phases))
  <2> HIDE DEF Ends
  <2> QED
    BY <1>3, <1>4
<1> QED
  BY <1>5 DEF PhaseEnds

LEMMA PhasesTyped ==
  ASSUME job \in Jobs
  PROVE  /\ Phases \in PhaseSeq /\ Len(Phases) \in Nat
         /\ \A i \in 1 .. Len(Phases) : Phases[i].duration \in Nat \ {0}
         /\ Phases # <<>> => Len(Phases) # 0
         /\ Rounds \in Nat \ {0} /\ JoinInterval \in Nat /\ Lifetime \in Nat
         /\ JoinInterval = 0 <=> Lifetime = 0
<1>1. job \in JobSpec /\ (job.join = 0 <=> job.lifetime = 0)
  BY JobSpecAssumption
<1>2. Phases \in PhaseSeq
  BY <1>1 DEF JobSpec, Phases, PhaseSeq
<1>3. \A i \in 1 .. Len(Phases) : Phases[i] \in [duration : Nat \ {0}, wifi : Nat, nru : Nat]
  BY <1>2, ElementOfSeq DEF PhaseSeq
<1> QED
  BY <1>1, <1>2, <1>3 DEF JobSpec, PhaseSeq, Rounds, JoinInterval, Lifetime

(* Phases end one after the other.                                          *)
LEMMA PhaseEndsGrow ==
  ASSUME job \in Jobs
  PROVE  /\ PhaseEnd[0] = 0
         /\ \A i \in 0 .. Len(Phases) : PhaseEnd[i] \in Nat
         /\ \A i \in 1 .. Len(Phases) : PhaseEnd[i] = PhaseEnd[i - 1] + Phases[i].duration
         /\ \A i, k \in 0 .. Len(Phases) : i < k => PhaseEnd[i] < PhaseEnd[k]
<1> DEFINE L == Len(Phases)
<1>1. PhaseEnd = [i \in 0 .. L |-> IF i = 0 THEN 0 ELSE PhaseEnd[i - 1] + Phases[i].duration]
  BY PhasesTyped, PhaseEndsDef DEF PhaseEnd
<1>2. L \in Nat /\ \A i \in 1 .. L : Phases[i].duration \in Nat \ {0}
  BY PhasesTyped
<1> HIDE DEF L
<1>3. PhaseEnd[0] = 0
  BY <1>1, <1>2
<1>4. \A i \in 1 .. L : PhaseEnd[i] = PhaseEnd[i - 1] + Phases[i].duration
  <2> SUFFICES ASSUME NEW i \in 1 .. L
               PROVE  PhaseEnd[i] = PhaseEnd[i - 1] + Phases[i].duration
    OBVIOUS
  <2>1. i \in 0 .. L /\ i # 0
    BY <1>2
  <2> QED
    BY <1>1, <2>1
<1>5. \A n \in Nat : n \in {k \in Nat : k <= L => PhaseEnd[k] \in Nat}
  <2> DEFINE S == {k \in Nat : k <= L => PhaseEnd[k] \in Nat}
  <2>1. 0 \in S
    BY <1>3
  <2>2. ASSUME NEW n \in Nat, n \in S PROVE n + 1 \in S
    <3>1. CASE n + 1 <= L
      BY <1>2, <1>4, <2>2, <3>1
    <3>2. CASE ~(n + 1 <= L)
      BY <3>2
    <3> QED BY <3>1, <3>2
  <2> HIDE DEF S
  <2>3. \A n \in Nat : n \in S
    BY <2>1, <2>2, SetInduction
  <2> QED
    BY <2>3 DEF S
<1>6. \A i \in 0 .. L : PhaseEnd[i] \in Nat
  BY <1>2, <1>5
<1>7. \A i \in 0 .. L : \A n \in Nat :
         n \in {k \in Nat : i + 1 + k <= L => PhaseEnd[i] < PhaseEnd[i + 1 + k]}
  <2> TAKE i \in 0 .. L
  <2> DEFINE S == {k \in Nat : i + 1 + k <= L => PhaseEnd[i] < PhaseEnd[i + 1 + k]}
  <2>1. 0 \in S
    <3>1. CASE i + 1 <= L
      <4>1. i + 1 \in 1 .. L /\ i + 1 - 1 = i
        BY <1>2, <3>1
      <4>2. PhaseEnd[i + 1] = PhaseEnd[i] + Phases[i + 1].duration
        BY <1>4, <4>1
      <4> QED
        BY <1>2, <1>6, <4>1, <4>2
    <3> QED
      BY <1>2, <3>1
  <2>2. ASSUME NEW n \in Nat, n \in S PROVE n + 1 \in S
    <3>1. CASE i + 1 + (n + 1) <= L
      <4> DEFINE k == i + 1 + n
      <4>1. k + 1 \in 1 .. L /\ k + 1 - 1 = k /\ k \in 0 .. L /\ i + 1 + (n + 1) = k + 1
        BY <1>2, <3>1
      <4>2. PhaseEnd[i] < PhaseEnd[k]
        BY <1>2, <2>2, <3>1
      <4> HIDE DEF k
      <4>3. PhaseEnd[k + 1] = PhaseEnd[k] + Phases[k + 1].duration
        BY <1>4, <4>1
      <4>4. PhaseEnd[i] < PhaseEnd[k + 1]
        BY <1>2, <1>6, <4>1, <4>2, <4>3
      <4> QED
        BY <4>1, <4>4
    <3>2. CASE ~(i + 1 + (n + 1) <= L)
      BY <3>2
    <3> QED BY <3>1, <3>2
  <2> HIDE DEF S
  <2>3. \A n \in Nat : n \in S
    BY <2>1, <2>2, SetInduction
  <2> QED
    BY <2>3 DEF S
<1>8. ASSUME NEW i \in 0 .. L, NEW k \in 0 .. L, i < k PROVE PhaseEnd[i] < PhaseEnd[k]
  <2>1. k - i - 1 \in Nat /\ i + 1 + (k - i - 1) = k /\ k <= L
    BY <1>2, <1>8
  <2>2. PhaseEnd[i] < PhaseEnd[i + 1 + (k - i - 1)]
    BY <1>7, <2>1
  <2> QED
    BY <2>1, <2>2
<1> QED
  BY <1>3, <1>4, <1>6, <1>8 DEF L

Cycle == PhaseEnd[Len(Phases)]

LEMMA CycleType ==
  ASSUME job \in Jobs, Phases # <<>>
  PROVE  /\ Len(Phases) \in Nat \ {0}
         /\ Cycle \in Nat \ {0}
         /\ \A r \in Nat : CycleRound(r) = r % Cycle /\ CycleRound(r) \in 0 .. Cycle - 1
<1>1. Len(Phases) \in Nat \ {0}
  BY PhasesTyped
<1>2. Cycle \in Nat \ {0}
  <2>1. PhaseEnd[0] = 0 /\ PhaseEnd[0] < PhaseEnd[Len(Phases)] /\ PhaseEnd[Len(Phases)] \in Nat
    BY <1>1, PhaseEndsGrow
  <2> QED
    BY <2>1 DEF Cycle
<1>3. \A r : CycleRound(r) = r % Cycle
  BY DEF CycleRound, Cycle
<1> QED
  BY <1>1, <1>2, <1>3

InPhaseOf(i, c) == PhaseEnd[i - 1] <= c /\ c < PhaseEnd[i]

(* Every round of a cycle is in one phase.                                  *)
LEMMA OnePhaseEach ==
  ASSUME job \in Jobs, Phases # <<>>, NEW c \in 0 .. Cycle - 1
  PROVE  /\ \E i \in 1 .. Len(Phases) : InPhaseOf(i, c)
         /\ \A i, k \in 1 .. Len(Phases) : InPhaseOf(i, c) /\ InPhaseOf(k, c) => i = k
<1> DEFINE L == Len(Phases)
           T == {i \in 1 .. L : c < PhaseEnd[i]}
<1>1. L \in Nat \ {0} /\ Cycle \in Nat \ {0}
  BY CycleType
<1>2. /\ PhaseEnd[0] = 0
      /\ \A i \in 0 .. L : PhaseEnd[i] \in Nat
      /\ \A i, k \in 0 .. L : i < k => PhaseEnd[i] < PhaseEnd[k]
  BY PhaseEndsGrow
<1>3. L \in T /\ T \subseteq Nat
  BY <1>1 DEF Cycle
<1>4. PICK i \in T : \A k \in T : i <= k
  BY <1>3, LeastNumber
<1>5. i - 1 \notin T /\ i \in 1 .. L
  BY <1>1, <1>4
<1>6. PhaseEnd[i - 1] <= c
  <2>1. CASE i = 1
    BY <1>1, <1>2, <2>1
  <2>2. CASE i # 1
    <3>1. i - 1 \in 1 .. L /\ PhaseEnd[i - 1] \in Nat
      BY <1>1, <1>2, <1>5, <2>2
    <3> QED
      BY <1>1, <1>5, <3>1
  <2> QED BY <2>1, <2>2
<1>7. \E k \in 1 .. L : InPhaseOf(k, c)
  BY <1>4, <1>5, <1>6 DEF InPhaseOf
<1>8. ASSUME NEW k \in 1 .. L, NEW m \in 1 .. L, InPhaseOf(k, c), InPhaseOf(m, c), k < m
      PROVE  FALSE
  <2>1. k \in 0 .. L /\ m - 1 \in 0 .. L /\ (k < m - 1 \/ k = m - 1)
    BY <1>1, <1>8
  <2>2. PhaseEnd[k] <= PhaseEnd[m - 1] /\ PhaseEnd[k] \in Nat /\ PhaseEnd[m - 1] \in Nat
    BY <1>2, <2>1
  <2>3. PhaseEnd[m - 1] <= c /\ c < PhaseEnd[k]
    BY <1>8 DEF InPhaseOf
  <2> QED
    BY <1>1, <2>2, <2>3
<1>9. ASSUME NEW k \in 1 .. L, NEW m \in 1 .. L, InPhaseOf(k, c), InPhaseOf(m, c)
      PROVE  k = m
  <2>1. k < m \/ m < k \/ k = m
    BY <1>1
  <2> QED
    BY <1>8, <1>9, <2>1
<1> QED
  BY <1>7, <1>9

LEMMA PhaseAtIs ==
  ASSUME job \in Jobs, Phases # <<>>, NEW r \in Nat
  PROVE  /\ PhaseAt(r) \in 1 .. Len(Phases)
         /\ InPhaseOf(PhaseAt(r), CycleRound(r))
         /\ \A i \in 1 .. Len(Phases) : InPhaseOf(i, CycleRound(r)) => i = PhaseAt(r)
<1>1. CycleRound(r) \in 0 .. Cycle - 1
  BY CycleType
<1>2. \E i \in 1 .. Len(Phases) : InPhaseOf(i, CycleRound(r))
  BY <1>1, OnePhaseEach
<1>3. PhaseAt(r) = CHOOSE i \in 1 .. Len(Phases) : InPhaseOf(i, CycleRound(r))
  BY DEF PhaseAt, InPhaseOf
<1>4. PhaseAt(r) \in 1 .. Len(Phases) /\ InPhaseOf(PhaseAt(r), CycleRound(r))
  BY <1>2, <1>3
<1> QED
  BY <1>1, <1>4, OnePhaseEach

(* The round before has the place before in the cycle.                      *)
LEMMA PlaceBefore ==
  ASSUME NEW r \in Nat \ {0}, NEW k \in Nat \ {0}
  PROVE  (r - 1) % k = IF r % k = 0 THEN k - 1 ELSE (r % k) - 1
<1>1. r \div k \in Nat /\ r = k * (r \div k) + (r % k) /\ r % k \in 0 .. k - 1
  OBVIOUS
<1>2. /\ (r - 1) \div k \in Nat /\ r - 1 = k * ((r - 1) \div k) + ((r - 1) % k)
      /\ (r - 1) % k \in 0 .. k - 1
  OBVIOUS
<1> DEFINE q == r \div k
           p == (r - 1) \div k
           x == r % k
           y == (r - 1) % k
<1>3. q \in Nat /\ p \in Nat /\ x \in 0 .. k - 1 /\ y \in 0 .. k - 1 /\ k * q + x = k * p + y + 1
  BY <1>1, <1>2
<1> HIDE DEF q, p, x, y
<1>4. q = p \/ q = p + 1 \/ q <= p - 1 \/ q >= p + 2
  BY <1>3
<1>5. CASE q = p
  <2>1. k * q = k * p /\ k * p \in Nat
    BY <1>3, <1>5
  <2>2. x = y + 1 /\ x # 0 /\ y = x - 1
    BY <1>3, <2>1
  <2> QED
    BY <2>2 DEF x, y
<1>6. CASE q = p + 1
  <2>1. k * q = k * p + k /\ k * p \in Nat
    BY <1>3, <1>6
  <2>2. x = 0 /\ y = k - 1
    BY <1>3, <2>1
  <2> QED
    BY <2>2 DEF x, y
<1>7. CASE q <= p - 1
  <2>1. PICK d \in Nat : p = q + 1 + d
    BY <1>3, <1>7
  <2>2. k * p = k * q + k + k * d /\ k * d \in Nat /\ k * q \in Nat
    BY <1>3, <2>1
  <2> QED
    BY <1>3, <2>2
<1>8. CASE q >= p + 2
  <2>1. PICK d \in Nat : q = p + 2 + d
    BY <1>3, <1>8
  <2>2. k * q = k * p + k + k + k * d /\ k * d \in Nat /\ k * p \in Nat
    BY <1>3, <2>1
  <2> QED
    BY <1>3, <2>2
<1> QED
  BY <1>4, <1>5, <1>6, <1>7, <1>8

(* The number of a row tells where the phases change, if there are several. *)
LEMMA ChangesAtPhaseStarts ==
  ASSUME job \in Jobs, Phases # <<>>, NEW r \in Nat \ {0}, Len(Phases) # 1
  PROVE  PhaseRound(r) = 0 <=> PhaseAt(r) # PhaseAt(r - 1)
<1> DEFINE L == Len(Phases)
           c == CycleRound(r)
           b == CycleRound(r - 1)
           p == PhaseAt(r)
<1>1. /\ L \in Nat /\ L >= 2 /\ Cycle \in Nat \ {0} /\ r - 1 \in Nat
      /\ c \in 0 .. Cycle - 1 /\ b \in 0 .. Cycle - 1
      /\ b = IF c = 0 THEN Cycle - 1 ELSE c - 1
  <2>1. L \in Nat \ {0} /\ Cycle \in Nat \ {0} /\ r - 1 \in Nat
    BY CycleType
  <2>2. /\ c = r % Cycle /\ c \in 0 .. Cycle - 1
        /\ b = (r - 1) % Cycle /\ b \in 0 .. Cycle - 1
    BY <2>1, CycleType
  <2>3. (r - 1) % Cycle = IF r % Cycle = 0 THEN Cycle - 1 ELSE (r % Cycle) - 1
    BY <2>1, PlaceBefore
  <2>4. L # 1
    OBVIOUS
  <2> HIDE DEF c, b, L
  <2> QED
    BY <2>1, <2>2, <2>3, <2>4
<1>2. /\ PhaseEnd[0] = 0
      /\ \A i \in 0 .. L : PhaseEnd[i] \in Nat
      /\ \A i, k \in 0 .. L : i < k => PhaseEnd[i] < PhaseEnd[k]
  BY PhaseEndsGrow
<1>3. p \in 1 .. L /\ InPhaseOf(p, c) /\ \A i \in 1 .. L : InPhaseOf(i, c) => i = p
  BY PhaseAtIs
<1>4. /\ PhaseAt(r - 1) \in 1 .. L /\ InPhaseOf(PhaseAt(r - 1), b)
      /\ \A i \in 1 .. L : InPhaseOf(i, b) => i = PhaseAt(r - 1)
  BY <1>1, PhaseAtIs
<1>5. PhaseRound(r) = c - PhaseEnd[p - 1]
  BY DEF PhaseRound
<1>6. Cycle = PhaseEnd[L]
  BY DEF Cycle
<1> HIDE DEF L, c, b, p
<1>7. p - 1 \in 0 .. L /\ PhaseEnd[p - 1] \in Nat /\ PhaseEnd[p] \in Nat
  BY <1>1, <1>2, <1>3
<1>8. CASE c = 0
  <2>1. InPhaseOf(1, c)
    BY <1>1, <1>2, <1>8 DEF InPhaseOf
  <2>2. p = 1
    BY <1>1, <1>3, <2>1
  <2>3. InPhaseOf(L, b)
    <3>1. PhaseEnd[L - 1] < PhaseEnd[L] /\ PhaseEnd[L - 1] \in Nat /\ PhaseEnd[L] \in Nat
      BY <1>1, <1>2
    <3> QED
      BY <1>1, <1>6, <1>8, <3>1 DEF InPhaseOf
  <2>4. PhaseAt(r - 1) = L
    BY <1>1, <1>4, <2>3
  <2> QED
    BY <1>1, <1>2, <1>5, <1>8, <2>2, <2>4 DEF p
<1>9. CASE c # 0 /\ c = PhaseEnd[p - 1]
  <2>1. ~InPhaseOf(p, b)
    BY <1>1, <1>7, <1>9 DEF InPhaseOf
  <2>2. p # PhaseAt(r - 1)
    BY <1>4, <2>1
  <2> QED
    BY <1>5, <1>7, <1>9, <2>2 DEF p
<1>10. CASE c # 0 /\ c # PhaseEnd[p - 1]
  <2>1. InPhaseOf(p, b)
    BY <1>1, <1>3, <1>7, <1>10 DEF InPhaseOf
  <2>2. p = PhaseAt(r - 1)
    BY <1>3, <1>4, <2>1
  <2> QED
    BY <1>1, <1>5, <1>7, <1>10, <2>2 DEF p
<1> QED
  BY <1>8, <1>9, <1>10

-----------------------------------------------------------------------------
(* The schedule *)

(* Who is to be active in a round, told from its number.                    *)
Target(n, r) ==
    IF Phases # <<>> THEN InPhase(n, PhaseAt(r))
    ELSE IF JoinInterval # 0 THEN InWindow(n, r)
    ELSE TRUE

Changed(r) == Phases # <<>> /\ (r = 0 \/ PhaseAt(r) # PhaseAt(r - 1))

RoundFits ==
    /\ round \in Nat /\ round <= Rounds
    /\ stage # "open" => round < Rounds

(* The loop is at the phase of its latest round; the row says which.        *)
PhaseFits ==
    /\ Phases = <<>> => ~row.change
    /\ Phases # <<>> =>
          currentPhase = IF stage # "open" THEN PhaseAt(round)
                         ELSE IF round = 0 THEN 0 ELSE PhaseAt(round - 1)
    /\ Phases # <<>> /\ stage # "open" =>
          /\ row.phase = PhaseAt(round) /\ row.phaseRound = PhaseRound(round)
          /\ row.change <=> Changed(round)

(* Those are active who are to be, once the round has set them active.      *)
MembersFit ==
    \A n \in Node :
        /\ stage \notin {"open", "activate"} => (active[n] <=> Target(n, round))
        /\ stage = "activate" => (ShouldBeActive(n) <=> Target(n, round))
        /\ stage = "open" =>
              IF round = 0 THEN Phases = <<>> /\ JoinInterval = 0 => active[n]
              ELSE active[n] <=> Target(n, round - 1)

RowFields ==
    [change : BOOLEAN, phase : Nat, phaseRound : Nat, active : SUBSET Node,
     backlogged : SUBSET Node, decisions : SUBSET Node, rewarded : SUBSET Node]

ScheduleInv == row \in RowFields /\ RoundFits /\ PhaseFits /\ MembersFit

(* The schedule of a job does not change.                                   *)
LEMMA ScheduleStays ==
  ASSUME UNCHANGED job
  PROVE  /\ UNCHANGED <<Phases, JoinInterval, Lifetime, Rounds>>
         /\ \A r : PhaseAt(r)' = PhaseAt(r) /\ PhaseRound(r)' = PhaseRound(r)
         /\ \A r : Changed(r)' = Changed(r)
         /\ \A n, i : InPhase(n, i)' = InPhase(n, i)
         /\ \A n, r : InWindow(n, r)' = InWindow(n, r)
         /\ \A n, r : Target(n, r)' = Target(n, r)
<1>1. UNCHANGED <<Phases, JoinInterval, Lifetime, Rounds>>
  BY DEF Phases, JoinInterval, Lifetime, Rounds
<1>2. PhaseEnd' = PhaseEnd
  BY <1>1 DEF PhaseEnd
<1>3. \A r : CycleRound(r)' = CycleRound(r)
  BY <1>1, <1>2 DEF CycleRound
<1>4. \A r : PhaseAt(r)' = PhaseAt(r)
  BY <1>1, <1>2, <1>3 DEF PhaseAt
<1>5. \A r : PhaseRound(r)' = PhaseRound(r)
  BY <1>2, <1>3, <1>4 DEF PhaseRound
<1>6. \A r : Changed(r)' = Changed(r)
  BY <1>1, <1>4 DEF Changed
<1>7. \A n, i : InPhase(n, i)' = InPhase(n, i)
  BY <1>1 DEF InPhase
<1>8. \A n, r : InWindow(n, r)' = InWindow(n, r)
  BY <1>1 DEF InWindow
<1>9. \A n, r : Target(n, r)' = Target(n, r)
  BY <1>1, <1>4, <1>7, <1>8 DEF Target
<1> QED
  BY <1>1, <1>4, <1>5, <1>6, <1>7, <1>8, <1>9

ScheduleStands ==
    UNCHANGED <<job, round, currentPhase, row.change, row.phase, row.phaseRound, active>>

LEMMA ScheduleInitially == SimInit => ScheduleInv
<1> SUFFICES ASSUME SimInit PROVE ScheduleInv
  OBVIOUS
<1>1. job \in Jobs /\ round = 0 /\ stage = "open" /\ currentPhase = 0
  BY DEF SimInit
<1>2. /\ row \in RowFields /\ ~row.change
  BY DEF SimInit, RowFields
<1>3. RoundFits
  BY <1>1, PhasesTyped DEF RoundFits
<1>4. PhaseFits
  BY <1>1, <1>2 DEF PhaseFits
<1>5. MembersFit
  BY <1>1 DEF MembersFit, SimInit
<1> QED
  BY <1>2, <1>3, <1>4, <1>5 DEF ScheduleInv

(* Between the activation of a round and its row the schedule stands still. *)
LEMMA WithinRound ==
  ASSUME ScheduleInv, ScheduleStands, row' \in RowFields,
         stage \notin {"open", "activate"}, stage' \notin {"open", "activate"}
  PROVE  ScheduleInv'
<1>1. /\ UNCHANGED <<Phases, Rounds, JoinInterval>>
      /\ PhaseAt(round)' = PhaseAt(round) /\ PhaseRound(round)' = PhaseRound(round)
      /\ Changed(round)' = Changed(round)
      /\ \A n : Target(n, round)' = Target(n, round)
  BY ScheduleStays DEF ScheduleStands
<1> QED
  BY <1>1 DEF ScheduleInv, RoundFits, PhaseFits, MembersFit, ScheduleStands

LEMMA OpenSchedule ==
  ASSUME OwnerInv, ScheduleInv, OpenRound, UNCHANGED job
  PROVE  ScheduleInv'
<1> USE ScheduleStays
<1>1. /\ stage = "open" /\ stage' = "activate" /\ round < Rounds /\ UNCHANGED <<round, active>>
      /\ row' = [row EXCEPT !.change = ChangePoint,
                            !.phase = IF Phases = <<>> THEN 0 ELSE PhaseAt(round),
                            !.phaseRound = IF Phases = <<>> THEN 0 ELSE PhaseRound(round)]
      /\ currentPhase' = IF ChangePoint THEN PhaseAt(round) ELSE currentPhase
  BY DEF OpenRound, ctrlVars, chanVars, vars, membership
<1>2. /\ row \in RowFields /\ round \in Nat /\ job \in Jobs
      /\ Phases # <<>> => currentPhase = IF round = 0 THEN 0 ELSE PhaseAt(round - 1)
  BY <1>1 DEF ScheduleInv, RoundFits, PhaseFits, OwnerInv
<1>3. Phases # <<>> => PhaseAt(round) \in Nat \ {0} /\ PhaseRound(round) \in Nat
  <2> SUFFICES ASSUME Phases # <<>>
               PROVE  PhaseAt(round) \in Nat \ {0} /\ PhaseRound(round) \in Nat
    OBVIOUS
  <2> DEFINE p == PhaseAt(round)
             c == CycleRound(round)
  <2>1. p \in 1 .. Len(Phases) /\ InPhaseOf(p, c) /\ c \in Nat /\ Len(Phases) \in Nat
    <3>1. Len(Phases) \in Nat \ {0} /\ Cycle \in Nat \ {0} /\ c \in 0 .. Cycle - 1
      BY <1>2, CycleType
    <3>2. p \in 1 .. Len(Phases) /\ InPhaseOf(p, c)
      BY <1>2, PhaseAtIs
    <3> HIDE DEF p, c
    <3> QED
      BY <3>1, <3>2
  <2>2. PhaseRound(round) = c - PhaseEnd[p - 1]
    BY DEF PhaseRound
  <2>3. p - 1 \in 0 .. Len(Phases) /\ \A i \in 0 .. Len(Phases) : PhaseEnd[i] \in Nat
    BY <1>2, <2>1, PhaseEndsGrow
  <2> HIDE DEF p, c
  <2>4. PhaseEnd[p - 1] \in Nat /\ PhaseEnd[p - 1] <= c
    BY <2>1, <2>3 DEF InPhaseOf
  <2>5. PhaseRound(round) \in Nat
    BY <2>1, <2>2, <2>4
  <2> QED
    BY <2>1, <2>5 DEF p
<1>4. ChangePoint = Changed(round)
  BY <1>2, <1>3 DEF ChangePoint, Changed
<1>5. /\ row'.change = ChangePoint
      /\ Phases # <<>> => row'.phase = PhaseAt(round) /\ row'.phaseRound = PhaseRound(round)
  BY <1>1, <1>2 DEF RowFields
<1>6. row' \in RowFields
  <2>1. ChangePoint \in BOOLEAN
    BY DEF ChangePoint
  <2>2. (IF Phases = <<>> THEN 0 ELSE PhaseAt(round)) \in Nat
    BY <1>3
  <2>3. (IF Phases = <<>> THEN 0 ELSE PhaseRound(round)) \in Nat
    BY <1>3
  <2> QED
    BY <1>1, <1>2, <2>1, <2>2, <2>3 DEF RowFields
<1>7. /\ UNCHANGED <<Phases, Rounds, JoinInterval>> /\ PhaseAt(round)' = PhaseAt(round)
      /\ PhaseRound(round)' = PhaseRound(round) /\ Changed(round)' = Changed(round)
  BY <1>1
<1>8. RoundFits'
  BY <1>1, <1>7 DEF ScheduleInv, RoundFits
<1>9. PhaseFits'
  <2>1. Phases # <<>> => currentPhase' = PhaseAt(round)
    BY <1>1 DEF ChangePoint
  <2> QED
    BY <1>1, <1>4, <1>5, <1>7, <2>1 DEF PhaseFits, Changed
<1>10. MembersFit'
  <2> SUFFICES ASSUME NEW n \in Node PROVE ShouldBeActive(n)' <=> Target(n, round)'
    BY <1>1 DEF MembersFit
  <2>1. /\ Target(n, round)' = Target(n, round)
        /\ InWindow(n, round)' = InWindow(n, round)
        /\ \A i : InPhase(n, i)' = InPhase(n, i)
    BY <1>1
  <2>2. ShouldBeActive(n)' = IF ChangePoint THEN InPhase(n, row'.phase)
                             ELSE IF JoinInterval # 0 THEN InWindow(n, round) ELSE active[n]
    BY <1>1, <1>5, <1>7, <2>1 DEF ShouldBeActive
  <2>3. CASE ChangePoint
    BY <1>5, <2>1, <2>2, <2>3 DEF Target, ChangePoint
  <2>4. CASE ~ChangePoint /\ Phases # <<>>
    <3>1. JoinInterval = 0
      BY <1>2, <2>4, JobSpecAssumption DEF Phases, JoinInterval, ValidPhases
    <3>2. round # 0 /\ PhaseAt(round) = PhaseAt(round - 1)
      BY <1>4, <2>4 DEF Changed
    <3>3. active[n] <=> Target(n, round - 1)
      BY <1>1, <3>2 DEF ScheduleInv, MembersFit
    <3> QED
      BY <2>1, <2>2, <2>4, <3>1, <3>2, <3>3 DEF Target
  <2>5. CASE ~ChangePoint /\ Phases = <<>> /\ JoinInterval # 0
    BY <2>1, <2>2, <2>5 DEF Target
  <2>6. CASE ~ChangePoint /\ Phases = <<>> /\ JoinInterval = 0
    <3>1. active[n]
      BY <1>1, <2>6 DEF ScheduleInv, MembersFit, Target
    <3> QED
      BY <2>1, <2>2, <2>6, <3>1 DEF Target
  <2> QED
    BY <2>3, <2>4, <2>5, <2>6
<1> QED
  BY <1>6, <1>8, <1>9, <1>10 DEF ScheduleInv

LEMMA ActivateSchedule ==
  ASSUME OwnerInv, ScheduleInv, Activate \/ Activated, UNCHANGED job
  PROVE  ScheduleInv'
<1>1. /\ UNCHANGED <<round, currentPhase, row>> /\ stage = "activate"
      /\ UNCHANGED <<Phases, Rounds, JoinInterval>> /\ PhaseAt(round)' = PhaseAt(round)
      /\ PhaseRound(round)' = PhaseRound(round) /\ Changed(round)' = Changed(round)
      /\ \A n : Target(n, round)' = Target(n, round)
      /\ \A n : InWindow(n, round)' = InWindow(n, round)
      /\ \A n, i : InPhase(n, i)' = InPhase(n, i)
  BY ScheduleStays DEF Activate, Activated, recordVars
<1>2. stage' \in {"activate", "idle"}
  BY DEF Activate, Activated
<1>3. row' \in RowFields /\ RoundFits' /\ PhaseFits'
  BY <1>1, <1>2 DEF ScheduleInv, RoundFits, PhaseFits
<1>4. \A n \in Node : ShouldBeActive(n) <=> Target(n, round)
  BY <1>1 DEF ScheduleInv, MembersFit
<1>5. CASE Activated
  <2>1. stage' = "idle" /\ UNCHANGED active /\ \A n \in Node : active[n] = ShouldBeActive(n)
    BY <1>5 DEF Activated, Misplaced, ctrlVars, chanVars, vars, membership
  <2> QED
    BY <1>1, <1>3, <1>4, <2>1 DEF ScheduleInv, MembersFit
<1>6. CASE Activate
  <2> DEFINE s == First(Misplaced)
  <2>1. s \in Node
    BY <1>6, FirstIsOne DEF Activate, Misplaced
  <2>2. active' = [active EXCEPT ![s] = ShouldBeActive(s)] /\ stage' = "activate"
    BY <1>1, <1>6 DEF Activate, ControllerSetActive, SetActive
  <2>3. active \in [Node -> BOOLEAN]
    BY DEF OwnerInv, ControllerTypeOK, ChannelTypeOK, TypeOK
  <2> HIDE DEF s
  <2>4. \A n \in Node : active'[n] = IF n = s THEN ShouldBeActive(n) ELSE active[n]
    BY <2>2, <2>3
  <2>5. \A n \in Node : ShouldBeActive(n)' = IF row.change THEN InPhase(n, row.phase)
                                              ELSE IF JoinInterval # 0 THEN InWindow(n, round)
                                              ELSE active'[n]
    BY <1>1 DEF ShouldBeActive
  <2>6. \A n \in Node : ShouldBeActive(n)' = ShouldBeActive(n)
    BY <2>4, <2>5 DEF ShouldBeActive
  <2> QED
    BY <1>1, <1>3, <1>4, <2>2, <2>6 DEF ScheduleInv, MembersFit
<1> QED
  BY <1>5, <1>6

LEMMA YieldSchedule ==
  ASSUME OwnerInv, ScheduleInv, Yield, UNCHANGED job
  PROVE  ScheduleInv'
<1>1. /\ stage = "yield" /\ stage' = "open" /\ round' = round + 1
      /\ UNCHANGED <<row, currentPhase, active>>
  BY DEF Yield, ctrlVars, chanVars, vars, membership
<1>2. round \in Nat /\ round < Rounds /\ round' # 0 /\ round' - 1 = round
  BY <1>1 DEF ScheduleInv, RoundFits
<1>3. /\ UNCHANGED <<Phases, Rounds, JoinInterval>> /\ PhaseAt(round - 1)' = PhaseAt(round)
      /\ \A n : Target(n, round - 1)' = Target(n, round)
  <2>1. UNCHANGED <<Phases, Rounds, JoinInterval>>
    BY ScheduleStays
  <2>2. /\ PhaseAt(round - 1)' = PhaseAt(round)
        /\ \A n : Target(n, round - 1)' = Target(n, round)
    BY <1>2, ScheduleStays
  <2> QED
    BY <2>1, <2>2
<1>4. row' \in RowFields /\ RoundFits'
  <2>1. Rounds \in Nat
    BY PhasesTyped DEF OwnerInv
  <2> QED
    BY <1>1, <1>2, <1>3, <2>1 DEF ScheduleInv, RoundFits
<1>5. PhaseFits'
  BY <1>1, <1>2, <1>3 DEF ScheduleInv, PhaseFits
<1>6. MembersFit'
  BY <1>1, <1>2, <1>3 DEF ScheduleInv, MembersFit
<1> QED
  BY <1>4, <1>5, <1>6 DEF ScheduleInv

LEMMA ScheduleStep ==
  ASSUME OwnerInv, QueueInv, ScheduleInv, [SimNext]_simVars
  PROVE  ScheduleInv'
<1>t. row \in RowFields
  BY DEF ScheduleInv
<1>1. CASE UNCHANGED simVars
  <2>1. UNCHANGED <<job, round, currentPhase, row, active, stage>>
    BY <1>1 DEF simVars, loopVars, recordVars, ctrlVars, chanVars, vars, membership
  <2>2. CASE stage \notin {"open", "activate"}
    BY <1>t, <2>1, <2>2, WithinRound DEF ScheduleStands
  <2>3. /\ UNCHANGED <<Phases, Rounds, JoinInterval>> /\ PhaseAt(round)' = PhaseAt(round)
        /\ PhaseAt(round - 1)' = PhaseAt(round - 1)
        /\ PhaseRound(round)' = PhaseRound(round) /\ Changed(round)' = Changed(round)
        /\ \A n : Target(n, round)' = Target(n, round)
        /\ \A n : Target(n, round - 1)' = Target(n, round - 1)
        /\ \A n : InWindow(n, round)' = InWindow(n, round)
        /\ \A n, i : InPhase(n, i)' = InPhase(n, i)
    BY <2>1, ScheduleStays
  <2>4. RoundFits' /\ PhaseFits'
    BY <2>1, <2>3 DEF ScheduleInv, RoundFits, PhaseFits
  <2>5. \A n : ShouldBeActive(n)' = ShouldBeActive(n)
    BY <2>1, <2>3 DEF ShouldBeActive
  <2>6. MembersFit'
    BY <2>1, <2>3, <2>5 DEF ScheduleInv, MembersFit
  <2> QED
    BY <1>t, <2>1, <2>4, <2>6 DEF ScheduleInv
<1>2. CASE SimNext
  <2> USE <1>2 DEF SimNext
  <2>1. CASE OpenRound
    BY <2>1, OpenSchedule
  <2>2. CASE Activate \/ Activated
    BY <2>2, ActivateSchedule
  <2>3. CASE Yield
    BY <2>3, YieldSchedule
  <2>4. CASE Wake \/ Idle \/ NobodyActive \/ IdleTooLong \/ IdleEnds \/ Interfere \/ Dequeue
             \/ Sample
    <3>1. UNCHANGED <<job, round, recordVars>>
      BY <2>4 DEF Wake, Idle, NobodyActive, IdleTooLong, IdleEnds, Interfere, Dequeue, Sample
    <3>2. UNCHANGED active
      BY <2>4 DEF Wake, Idle, NobodyActive, IdleTooLong, IdleEnds, Interfere, Dequeue, Sample,
         Backlogs, ControllerSetBacklogged, SetBacklogged, ControllerIdle, IdleTick, ControllerBusy,
         ChannelBusy, ApplyBackgroundBusy, ControllerClearBacklogged, ClearBacklogged, ctrlVars,
         chanVars, vars, membership
    <3>3. CASE ~Wake
      <4>1. stage \notin {"open", "activate"} /\ stage' \notin {"open", "activate"}
        BY <2>4, <3>3 DEF Idle, NobodyActive, IdleTooLong, IdleEnds, Interfere, Dequeue, Sample
      <4> QED
        BY <1>t, <3>1, <3>2, <4>1, WithinRound DEF ScheduleStands, recordVars
    <3>4. CASE Wake
      <4>1. stage' = stage /\ stage \in {"idle", "yield"}
        BY <3>4 DEF Wake, QueueInv
      <4> QED
        BY <1>t, <3>1, <3>2, <4>1, WithinRound DEF ScheduleStands, recordVars
    <3> QED
      BY <3>3, <3>4
  <2>5. CASE Contend
    <3>1. /\ stage = "busy" /\ stage' = "dequeue"
          /\ UNCHANGED <<job, round, currentPhase, active>>
          /\ row' = [row EXCEPT !.active = {n \in Node : active[n]}, !.backlogged = Eligible,
                                !.decisions = Decisions, !.rewarded = Rewarded]
      BY <2>5 DEF Contend, ControllerStep, ChannelRound, Round, membership
    <3>2. Eligible \subseteq Node /\ Decisions \subseteq Node /\ Rewarded \subseteq Node
      BY AdaptiveNodes DEF Eligible, Decisions, Rewarded
    <3>3. /\ row' \in RowFields
          /\ UNCHANGED <<row.change, row.phase, row.phaseRound>>
      BY <1>t, <3>1, <3>2 DEF RowFields
    <3> QED
      BY <3>1, <3>3, WithinRound DEF ScheduleStands
  <2> QED
    BY <2>1, <2>2, <2>3, <2>4, <2>5
<1> QED
  BY <1>1, <1>2

LEMMA Schedule == SimSpec => [](OwnerInv /\ QueueInv /\ ScheduleInv)
<1>1. OwnerInv /\ QueueInv /\ ScheduleInv /\ [SimNext]_simVars => ScheduleInv'
  BY ScheduleStep
<1> QED
  BY <1>1, Queues, ScheduleInitially, PTL DEF SimSpec

(* The contenders fill the places in the list of nodes.                     *)
LEMMA EveryPlaceIsTaken ==
  /\ Cardinality(Node) \in Nat \ {0}
  /\ \A i \in 0 .. Cardinality(Node) - 1 : \E n \in Node : Index[n] = i
<1> DEFINE N == Cardinality(Node)
           T == 0 .. N - 1
<1>1. N \in Nat \ {0}
  BY NodeAssumption, JobSpecAssumption, FS_CardinalityType, FS_EmptySet
<1>2. IsFiniteSet(T) /\ Cardinality(T) = N
  <2>1. IsFiniteSet(0 .. N - 1) /\ Cardinality(0 .. N - 1) = IF 0 > N - 1 THEN 0 ELSE N - 1 - 0 + 1
    <3>1. 0 \in Int /\ N - 1 \in Int
      BY <1>1
    <3> HIDE DEF N
    <3> QED
      BY <3>1, FS_Interval
  <2> QED
    BY <1>1, <2>1
<1>3. Index \in Injection(Node, T)
  BY IndexAssumption DEF Injection, IsInjective
<1>4. Index \in Surjection(Node, T)
  BY <1>2, <1>3, FS_Injection
<1> QED
  BY <1>1, <1>4 DEF Surjection

(* A job without gaps has a window open in every round.                     *)
LEMMA WindowsOverlap ==
  ASSUME job \in Jobs, JoinInterval # 0, JoinInterval <= Lifetime, NEW r \in Nat
  PROVE  \E n \in Node : InWindow(n, r)
<1> DEFINE N == Cardinality(Node)
           J == JoinInterval
           L == Lifetime
           x == r % ((N - 1) * J + L)
           q == x \div J
<1>1. N \in Nat \ {0} /\ J \in Nat \ {0} /\ L \in Nat \ {0} /\ J <= L
  BY EveryPlaceIsTaken, PhasesTyped
<1>2. PICK m \in Nat : m = (N - 1) * J
  <2> HIDE DEF N, J
  <2> QED
    BY <1>1
<1>3. x = r % (m + L) /\ x \in 0 .. m + L - 1
  <2> HIDE DEF N, J, L
  <2> QED
    BY <1>1, <1>2
<1>4. q \in Nat /\ x = J * q + (x % J) /\ x % J \in 0 .. J - 1
  <2> HIDE DEF x, J
  <2> QED
    BY <1>1, <1>3
<1> HIDE DEF x, q
<1>5. \A n : InWindow(n, r) <=> Index[n] * J <= x /\ x < Index[n] * J + L
  BY DEF InWindow, x
<1> HIDE DEF N, J, L
<1>6. CASE q <= N - 1
  <2>1. PICK n \in Node : Index[n] = q
    BY <1>1, <1>4, <1>6, EveryPlaceIsTaken DEF N
  <2>2. q * J = J * q /\ J * q \in Nat
    BY <1>1, <1>4
  <2>3. J * q <= x /\ x < J * q + L
    BY <1>1, <1>3, <1>4, <2>2
  <2> QED
    BY <1>5, <2>1, <2>2, <2>3
<1>7. CASE ~(q <= N - 1)
  <2>1. PICK n \in Node : Index[n] = N - 1
    BY <1>1, EveryPlaceIsTaken DEF N
  <2>2. PICK d \in Nat : q = N - 1 + d
    BY <1>1, <1>4, <1>7
  <2>3. J * q = J * (N - 1) + J * d /\ J * d \in Nat /\ J * (N - 1) = m
    BY <1>1, <1>2, <2>2
  <2>4. m <= x /\ x < m + L
    BY <1>1, <1>2, <1>3, <1>4, <2>3
  <2> QED
    BY <1>2, <1>5, <2>1, <2>4
<1> QED
  BY <1>6, <1>7

(* A phase has a contender: the first of a technology that it counts.       *)
LEMMA PhaseHasContender ==
  ASSUME job \in Jobs, Phases # <<>>, NEW i \in 1 .. Len(Phases)
  PROVE  \E n \in Node : InPhase(n, i)
<1>1. ValidPhases(job) /\ job \in JobSpec
  BY JobSpecAssumption DEF Phases
<1>2. /\ Phases[i].wifi \in Nat /\ Phases[i].nru \in Nat
      /\ Phases[i].wifi + Phases[i].nru > 0
      /\ Phases[i].wifi <= Cardinality(Node \ Nru) /\ Phases[i].nru <= Cardinality(Nru)
  <2>1. Phases[i] \in [duration : Nat \ {0}, wifi : Nat, nru : Nat]
    BY PhasesTyped, ElementOfSeq DEF PhaseSeq
  <2> QED
    BY <1>1, <2>1 DEF ValidPhases, Phases
<1>3. Nru \subseteq Node /\ IsFiniteSet(Nru) /\ IsFiniteSet(Node \ Nru)
  BY TimingAssumption, NodeAssumption, FS_Subset
<1>4. ASSUME NEW S \in SUBSET Node, IsFiniteSet(S), NEW c \in Nat \ {0}, c <= Cardinality(S)
      PROVE  \E n \in S : Cardinality({k \in S : Index[k] < Index[n]}) < c
  <2>1. S # {}
    BY <1>4, FS_EmptySet
  <2> DEFINE T == {Index[n] : n \in S}
  <2>2. T \subseteq Nat /\ T # {}
    BY <2>1, IndexAssumption, EveryPlaceIsTaken
  <2>3. PICK x \in T : \A y \in T : x <= y
    <3> HIDE DEF T
    <3> QED BY <2>2, LeastNumber
  <2>4. PICK n \in S : Index[n] = x
    OBVIOUS
  <2>5. {k \in S : Index[k] < Index[n]} = {}
    <3> SUFFICES ASSUME NEW k \in S, Index[k] < Index[n] PROVE FALSE
      OBVIOUS
    <3>1. Index[k] \in Nat /\ Index[n] \in Nat /\ Index[n] <= Index[k]
      BY <2>2, <2>3, <2>4
    <3> QED
      BY <3>1
  <2>6. Cardinality({}) = 0
    BY FS_EmptySet
  <2>7. \A X : X = {} => Cardinality(X) < c
    BY <2>6
  <2>8. Cardinality({k \in S : Index[k] < Index[n]}) < c
    BY <2>5, <2>7, Zenon
  <2> QED
    BY <2>8
<1>5. CASE Phases[i].nru # 0
  <2>1. PICK n \in Nru : Cardinality({k \in Nru : Index[k] < Index[n]}) < Phases[i].nru
    BY <1>2, <1>3, <1>4, <1>5
  <2> QED
    BY <1>3, <2>1 DEF InPhase
<1>6. CASE Phases[i].wifi # 0
  <2>1. PICK n \in Node \ Nru :
           Cardinality({k \in Node \ Nru : Index[k] < Index[n]}) < Phases[i].wifi
    BY <1>2, <1>3, <1>4, <1>6
  <2> QED
    BY <2>1 DEF InPhase
<1>7. Phases[i].nru # 0 \/ Phases[i].wifi # 0
  BY <1>2
<1> QED
  BY <1>5, <1>6, <1>7

LEMMA TargetHasContender ==
  ASSUME job \in Jobs, NEW r \in Nat, JoinInterval <= Lifetime
  PROVE  \E n \in Node : Target(n, r)
<1>1. CASE Phases # <<>>
  <2>1. PhaseAt(r) \in 1 .. Len(Phases)
    BY <1>1, PhaseAtIs
  <2>2. PICK n \in Node : InPhase(n, PhaseAt(r))
    BY <1>1, <2>1, PhaseHasContender
  <2> QED
    BY <1>1, <2>2 DEF Target
<1>2. CASE Phases = <<>> /\ JoinInterval # 0
  BY <1>2, WindowsOverlap DEF Target
<1>3. CASE Phases = <<>> /\ JoinInterval = 0
  BY <1>3, JobSpecAssumption DEF Target
<1> QED
  BY <1>1, <1>2, <1>3

(* Whatever the phases, the windows and the number of contenders, somebody  *)
(* is active in every round of a job whose lifetime is at least its join    *)
(* interval: the loop reaches "no active node" only over a gap that the     *)
(* scenario itself leaves.                                                  *)
THEOREM NobodyOnlyInGaps == SimSpec => []SomebodyActive
<1> DEFINE Nobody == stage = "nobody_active" => \A n \in Node : ~active[n]
<1>1. SimInit => Nobody
  BY DEF SimInit
<1>2. Nobody /\ [SimNext]_simVars => Nobody'
  <2> SUFFICES ASSUME Nobody, [SimNext]_simVars, stage' = "nobody_active"
               PROVE  \A n \in Node : ~active'[n]
    OBVIOUS
  <2>1. CASE stage = "nobody_active"
    BY <2>1 DEF SimNext, OpenRound, Activate, Activated, Wake, Idle, NobodyActive, IdleTooLong,
       IdleEnds, Interfere, Contend, Dequeue, Sample, Yield, simVars, loopVars, ctrlVars, chanVars,
       vars, membership, Backlogs, ControllerSetBacklogged, SetBacklogged
  <2>2. CASE stage # "nobody_active"
    BY <2>2 DEF SimNext, OpenRound, Activate, Activated, Wake, Idle, NobodyActive, IdleTooLong,
       IdleEnds, Interfere, Contend, Dequeue, Sample, Yield, simVars, loopVars, ctrlVars, chanVars,
       vars, membership
  <2> QED
    BY <2>1, <2>2
<1>3. OwnerInv /\ ScheduleInv /\ Nobody => SomebodyActive
  <2> SUFFICES ASSUME OwnerInv, ScheduleInv, Nobody, stage = "nobody_active",
                      ~(JoinInterval > Lifetime)
               PROVE  FALSE
    BY DEF SomebodyActive
  <2>1. job \in Jobs /\ round \in Nat /\ JoinInterval <= Lifetime
    BY PhasesTyped DEF OwnerInv, ScheduleInv, RoundFits
  <2>2. \A n \in Node : active[n] <=> Target(n, round)
    BY DEF ScheduleInv, MembersFit
  <2> QED
    BY <2>1, <2>2, TargetHasContender
<1> HIDE DEF Nobody
<1> QED
  BY <1>1, <1>2, <1>3, Schedule, PTL DEF SimSpec

-----------------------------------------------------------------------------
(* What the record says of the agents *)

Credit == [context : Nat, arm : Arms \cup {NoArm}]

(* A decision belongs to the round that is being written.                   *)
DecisionsFit ==
    /\ stage \notin {"dequeue", "sample", "yield"} => DOMAIN decisions = {}
    /\ DOMAIN decisions \subseteq Adaptive
    /\ \A n \in DOMAIN decisions :
          /\ decisions[n].round = contentionRound
          /\ contentionRound % DecisionInterval = 0
          /\ decisions[n].previous \in Arms \cup {NoArm}
          /\ decisions[n].rewarded => decisions[n].previous # NoArm

(* Writer, agents and reader agree on the decision before.                  *)
ContextsFit ==
    \A n \in Adaptive :
        /\ contexts[n] = reader.contexts[n] /\ contexts[n] \in Nat
        /\ contexts[n] % DecisionInterval = 0
        /\ contexts[n] <= contentionRound
        /\ n \in DOMAIN decisions => contexts[n] < contentionRound
        /\ agents[n].context = IF n \in DOMAIN decisions THEN contentionRound ELSE contexts[n]
        /\ reader.loaded[n] = sequences[n]

LearnedFits ==
    \A n \in Adaptive :
        /\ reader.replayed[n] \in Seq(Credit)
        /\ agents[n].learned = reader.replayed[n] \o Replays(RowValue, n)

ReplayInv == DecisionsFit /\ ContextsFit /\ LearnedFits

LEMMA ReaderSimulates == ReadSpec => SimSpec
<1>1. ReadInit => SimInit
  BY DEF ReadInit
<1>2. [ReadNext]_readVars => [SimNext]_simVars
  BY DEF ReadNext, readVars, Contends, Yields, Elsewhere, SimNext
<1> QED
  BY <1>1, <1>2, PTL DEF ReadSpec, SimSpec

LEMMA RowDecisions == RowValue.decisions = decisions
  BY DEF RowValue

LEMMA ReplaysOf ==
  ASSUME NEW n
  PROVE  Replays(RowValue, n) =
            IF n \in DOMAIN decisions /\ decisions[n].rewarded /\ Online
            THEN <<[context |-> reader.contexts[n], arm |-> decisions[n].previous]>>
            ELSE <<>>
  BY RowDecisions DEF Replays

LEMMA NextReplaysOf ==
  ASSUME NEW n, UNCHANGED policy
  PROVE  Replays(RowValue, n)' =
            IF n \in DOMAIN decisions' /\ decisions'[n].rewarded /\ Online
            THEN <<[context |-> reader'.contexts[n], arm |-> decisions'[n].previous]>>
            ELSE <<>>
<1>1. RowValue'.decisions = decisions'
  BY DEF RowValue
<1> QED
  BY <1>1 DEF Replays, Online

(* Nothing but a round changes the number of rounds.                        *)
LEMMA RoundsStay == Elsewhere \/ Yields => UNCHANGED contentionRound
  BY DEF Elsewhere, Yields, OpenRound, Activate, Activated, Wake, Idle, NobodyActive, IdleTooLong,
     IdleEnds, Interfere, Dequeue, Sample, Yield, ctrlVars, chanVars, clock, Accounts,
     ControllerSetActive, Backlogs, ControllerSetBacklogged, ControllerClearBacklogged,
     ControllerIdle, IdleTick, ControllerBusy, ChannelBusy

LEMMA ReplayInitially == ReadInit => ReplayInv
<1> SUFFICES ASSUME ReadInit PROVE ReplayInv
  OBVIOUS
<1>1. /\ DOMAIN decisions = {} /\ contentionRound = 0 /\ DecisionInterval \in Nat \ {0}
      /\ \A n \in Adaptive : /\ contexts[n] = 0 /\ reader.contexts[n] = 0
                             /\ reader.loaded[n] = 0 /\ sequences[n] = 0
                             /\ agents[n].context = 0 /\ agents[n].learned = <<>>
                             /\ reader.replayed[n] = <<>>
  BY ControllerAssumption DEF ReadInit, SimInit, ControllerInit, ChannelInit
<1>2. \A n \in Adaptive : Replays(RowValue, n) = <<>>
  BY <1>1, ReplaysOf
<1>3. <<>> \in Seq(Credit) /\ <<>> \o <<>> = <<>>
  BY EmptySeq
<1>4. DecisionsFit /\ ContextsFit
  BY <1>1 DEF DecisionsFit, ContextsFit
<1> QED
  BY <1>1, <1>2, <1>3, <1>4 DEF ReplayInv, LearnedFits

LEMMA ContendsReplays ==
  ASSUME OwnerInv, ReplayInv, Contends, UNCHANGED policy
  PROVE  ReplayInv'
<1>1. /\ DOMAIN decisions = {} /\ DOMAIN decisions' = Decisions /\ Decisions \subseteq Adaptive
      /\ stage' = "dequeue"
  BY DEF ReplayInv, DecisionsFit, Contends, Contend, Decisions
<1>2. /\ contentionRound \in Nat /\ contentionRound' = contentionRound + 1
      /\ arm \in [Adaptive -> Arms \cup {NoArm}]
  BY DEF OwnerInv, ControllerTypeOK, ChannelTypeOK, Contends, Contend, ControllerStep, ChannelRound
<1>3. \A n \in Decisions : /\ decisions'[n] = RecordOf(n)
                           /\ contentionRound' % DecisionInterval = 0
  BY <1>2 DEF Contends, Decisions, Decides, AtBoundary
<1>4. \A n \in Adaptive : /\ contexts'[n] = contexts[n] /\ reader'.contexts[n] = reader.contexts[n]
                          /\ reader'.loaded[n] = reader.loaded[n] /\ sequences'[n] = sequences[n]
                          /\ reader'.replayed[n] = reader.replayed[n]
  BY DEF Contends
<1>5. \A n \in Decisions : /\ decisions'[n].round = contentionRound'
                           /\ decisions'[n].previous = arm[n] /\ arm[n] \in Arms \cup {NoArm}
                           /\ decisions'[n].rewarded = (n \in Rewarded)
                           /\ n \in Rewarded => arm[n] # NoArm
  BY <1>1, <1>2, <1>3 DEF RecordOf, Rewarded
<1>6. DecisionsFit'
  BY <1>1, <1>3, <1>5 DEF DecisionsFit
<1>7. \A n \in Adaptive : agents'[n] = IF n \in Decisions THEN Decided(n) ELSE agents[n]
  BY DEF Contends
<1>8. ContextsFit'
  <2> SUFFICES ASSUME NEW n \in Adaptive
               PROVE  /\ contexts'[n] = reader'.contexts[n] /\ contexts'[n] \in Nat
                      /\ contexts'[n] % DecisionInterval = 0
                      /\ contexts'[n] < contentionRound'
                      /\ agents'[n].context =
                            IF n \in Decisions THEN contentionRound' ELSE contexts'[n]
                      /\ reader'.loaded[n] = sequences'[n]
    BY <1>1, <1>2 DEF ContextsFit
  <2>1. /\ contexts[n] = reader.contexts[n] /\ contexts[n] \in Nat
        /\ contexts[n] % DecisionInterval = 0 /\ contexts[n] <= contentionRound
        /\ agents[n].context = contexts[n] /\ reader.loaded[n] = sequences[n]
    BY <1>1 DEF ContextsFit, ReplayInv
  <2>2. agents'[n].context = IF n \in Decisions THEN contentionRound' ELSE agents[n].context
    <3>1. CASE n \in Decisions
      <4>1. agents'[n] = Decided(n)
        BY <1>7, <3>1
      <4>2. Decided(n).context = contentionRound + 1
        BY DEF Decided
      <4> QED
        BY <1>2, <3>1, <4>1, <4>2
    <3>2. CASE n \notin Decisions
      BY <1>7, <3>2
    <3> QED
      BY <3>1, <3>2
  <2> QED
    BY <1>2, <1>4, <2>1, <2>2
<1>9. LearnedFits'
  <2> SUFFICES ASSUME NEW n \in Adaptive
               PROVE  /\ reader'.replayed[n] \in Seq(Credit)
                      /\ agents'[n].learned = reader'.replayed[n] \o Replays(RowValue, n)'
    BY DEF LearnedFits
  <2> DEFINE old == reader.replayed[n]
             new == [context |-> contexts[n], arm |-> arm[n]]
  <2>1. /\ old \in Seq(Credit) /\ agents[n].learned = old \o Replays(RowValue, n)
        /\ agents[n].context = contexts[n] /\ contexts[n] \in Nat
        /\ contexts[n] = reader.contexts[n]
    BY <1>1 DEF ReplayInv, LearnedFits, ContextsFit
  <2>2. Replays(RowValue, n) = <<>> /\ agents[n].learned = old
    <3>1. Replays(RowValue, n) = <<>>
      BY <1>1, ReplaysOf
    <3> QED
      BY <2>1, <3>1
  <2>3. new \in Credit
    BY <1>2, <2>1 DEF Credit
  <2>4. Replays(RowValue, n)' = IF n \in Decisions /\ n \in Rewarded /\ Online
                                THEN <<new>> ELSE <<>>
    <3>1. Replays(RowValue, n)' =
            IF n \in DOMAIN decisions' /\ decisions'[n].rewarded /\ Online
            THEN <<[context |-> reader'.contexts[n], arm |-> decisions'[n].previous]>>
            ELSE <<>>
      BY NextReplaysOf
    <3> QED
      BY <1>1, <1>4, <1>5, <2>1, <3>1
  <2>5. agents'[n].learned = IF n \in Decisions /\ n \in Rewarded /\ Online
                             THEN Append(old, new) ELSE old
    <3>1. Credits(n) = new
      BY <2>1 DEF Credits
    <3>2. Decided(n).learned = IF Online /\ n \in Rewarded THEN Append(old, new) ELSE old
      BY <2>2, <3>1 DEF Decided
    <3>3. CASE n \in Decisions
      <4>1. agents'[n] = Decided(n)
        BY <1>7, <3>3
      <4> QED
        BY <3>2, <3>3, <4>1
    <3>4. CASE n \notin Decisions
      <4>1. agents'[n] = agents[n]
        BY <1>7, <3>4
      <4> QED
        BY <2>2, <3>4, <4>1
    <3> QED
      BY <3>3, <3>4
  <2> HIDE DEF old, new
  <2>6. Append(old, new) = old \o <<new>> /\ old \o <<>> = old
    BY <2>1, <2>3
  <2> QED
    BY <1>4, <2>1, <2>4, <2>5, <2>6 DEF old
<1> QED
  BY <1>6, <1>8, <1>9 DEF ReplayInv

LEMMA YieldsReplays ==
  ASSUME OwnerInv, ReplayInv, Yields, UNCHANGED policy
  PROVE  ReplayInv'
<1>1. DOMAIN decisions' = {} /\ UNCHANGED <<agents, contentionRound>> /\ contentionRound \in Nat
  BY RoundsStay DEF Yields, OwnerInv, ControllerTypeOK, ChannelTypeOK
<1>2. DecisionsFit'
  BY <1>1 DEF DecisionsFit
<1>3. \A n \in Adaptive :
        /\ contexts'[n] = IF n \in DOMAIN decisions THEN decisions[n].round ELSE contexts[n]
        /\ reader'.contexts[n] = IF n \in DOMAIN decisions THEN decisions[n].round
                                 ELSE reader.contexts[n]
        /\ reader'.replayed[n] = reader.replayed[n] \o Replays(RowValue, n)
  BY RowDecisions DEF Yields, ContextsAfter, Read
<1>4. \A n \in Adaptive : reader'.loaded[n] = IF n \in Sampled THEN reader.loaded[n] + 1
                                              ELSE reader.loaded[n]
  <2>1. DOMAIN RowValue.samples = Sampled
    BY DEF RowValue, Samples
  <2> QED
    BY <2>1 DEF Yields, Read
<1>5. ContextsFit'
  BY <1>1, <1>3, <1>4 DEF ContextsFit, DecisionsFit, ReplayInv, Yields
<1>6. LearnedFits'
  <2> SUFFICES ASSUME NEW n \in Adaptive
               PROVE  /\ reader'.replayed[n] \in Seq(Credit)
                      /\ agents'[n].learned = reader'.replayed[n] \o Replays(RowValue, n)'
    BY DEF LearnedFits
  <2>1. /\ reader.replayed[n] \in Seq(Credit) /\ Replays(RowValue, n) \in Seq(Credit)
    <3>1. n \in DOMAIN decisions => decisions[n].previous \in Arms \cup {NoArm}
      BY DEF ReplayInv, DecisionsFit
    <3>2. reader.contexts[n] \in Nat
      BY DEF ReplayInv, ContextsFit
    <3>3. ASSUME n \in DOMAIN decisions, decisions[n].rewarded
          PROVE  [context |-> reader.contexts[n], arm |-> decisions[n].previous] \in Credit
      BY <3>1, <3>2, <3>3 DEF Credit
    <3>4. \/ Replays(RowValue, n) = <<>>
          \/ /\ n \in DOMAIN decisions /\ decisions[n].rewarded
             /\ Replays(RowValue, n) =
                  <<[context |-> reader.contexts[n], arm |-> decisions[n].previous]>>
      BY ReplaysOf
    <3>5. <<>> \in Seq(Credit) /\ \A c \in Credit : <<c>> \in Seq(Credit)
      BY EmptySeq
    <3>6. Replays(RowValue, n) \in Seq(Credit)
      BY <3>3, <3>4, <3>5, Zenon
    <3>7. reader.replayed[n] \in Seq(Credit)
      BY DEF ReplayInv, LearnedFits
    <3> QED
      BY <3>6, <3>7
  <2>2. reader'.replayed[n] \in Seq(Credit) /\ agents'[n].learned = reader'.replayed[n]
    <3>1. reader'.replayed[n] = reader.replayed[n] \o Replays(RowValue, n)
      BY <1>3
    <3>2. agents'[n].learned = reader.replayed[n] \o Replays(RowValue, n)
      BY <1>1 DEF ReplayInv, LearnedFits
    <3>3. reader.replayed[n] \o Replays(RowValue, n) \in Seq(Credit)
      BY <2>1, ConcatProperties
    <3> QED
      BY <3>1, <3>2, <3>3
  <2>3. Replays(RowValue, n)' = <<>>
    BY <1>1, NextReplaysOf
  <2> QED
    BY <2>2, <2>3
<1> QED
  BY <1>2, <1>5, <1>6 DEF ReplayInv

LEMMA ElsewhereReplays ==
  ASSUME ReplayInv, Elsewhere \/ UNCHANGED readVars, UNCHANGED policy
  PROVE  ReplayInv'
<1>1. UNCHANGED <<agents, decisions, contexts, sequences, reader, contentionRound, policy>>
  BY RoundsStay DEF Elsewhere, journal, readVars, simVars, loopVars, ctrlVars, chanVars, clock
<1>2. stage' \notin {"dequeue", "sample", "yield"} => stage \notin {"dequeue", "sample", "yield"}
  BY DEF Elsewhere, OpenRound, Activate, Activated, Wake, Idle, NobodyActive, IdleTooLong,
     IdleEnds, Interfere, Dequeue, Sample, readVars, simVars, loopVars
<1>3. DecisionsFit' /\ ContextsFit'
  BY <1>1, <1>2 DEF ReplayInv, DecisionsFit, ContextsFit
<1>4. \A n \in Adaptive : Replays(RowValue, n)' = Replays(RowValue, n)
  <2> SUFFICES ASSUME NEW n \in Adaptive
               PROVE  Replays(RowValue, n)' = Replays(RowValue, n)
    OBVIOUS
  <2> QED
    BY <1>1, ReplaysOf, NextReplaysOf
<1>5. LearnedFits'
  BY <1>1, <1>4 DEF ReplayInv, LearnedFits
<1> QED
  BY <1>3, <1>5 DEF ReplayInv

LEMMA ReplayInvariant == ReadSpec => []ReplayInv
<1>1. OwnerInv /\ ReplayInv /\ [ReadNext]_readVars => ReplayInv'
  BY ContendsReplays, YieldsReplays, ElsewhereReplays DEF ReadNext, readVars
<1> QED
  BY <1>1, ReplayInitially, ReaderSimulates, Owner, PTL DEF ReadSpec

(* Multiples of the decision interval are an interval apart.                *)
LEMMA IntervalsApart ==
  ASSUME NEW k \in Nat \ {0}, NEW a \in Nat, NEW b \in Nat, a % k = 0, b % k = 0, a < b
  PROVE  a + k <= b
<1>1. PICK q \in Nat : a = k * q
  <2>1. a \div k \in Nat
    OBVIOUS
  <2>2. a = k * (a \div k) + (a % k)
    OBVIOUS
  <2>3. a = k * (a \div k)
    BY <2>1, <2>2
  <2> QED
    BY <2>1, <2>3, Zenon
<1>2. PICK r \in Nat : b = k * r
  <2>1. b \div k \in Nat
    OBVIOUS
  <2>2. b = k * (b \div k) + (b % k)
    OBVIOUS
  <2>3. b = k * (b \div k)
    BY <2>1, <2>2
  <2> QED
    BY <2>1, <2>3, Zenon
<1>3. q < r
  <2> SUFFICES ASSUME r <= q PROVE FALSE
    OBVIOUS
  <2>1. PICK d \in Nat : q = r + d
    OBVIOUS
  <2>2. k * q = k * r + k * d /\ k * d >= 0
    BY <2>1
  <2> QED
    BY <1>1, <1>2, <2>2
<1>4. PICK d \in Nat : r = q + 1 + d
  BY <1>3
<1>5. k * r = k * q + k + k * d /\ k * d >= 0
  BY <1>4
<1> QED
  BY <1>1, <1>2, <1>5

(* Whoever replays the decisions of a record learns what each agent of the  *)
(* job learned, for any contenders, arms, decision interval and schedules.  *)
THEOREM ReplayedAgents == ReadSpec => []AgentsReplay
<1>1. ReplayInv => AgentsReplay
  <2> SUFFICES ASSUME ReplayInv, NEW n \in Adaptive, DOMAIN decisions = {}
               PROVE  Replays(RowValue, n) = <<>>
    BY DEF ReplayInv, LearnedFits, AgentsReplay
  <2> QED
    BY ReplaysOf
<1> QED
  BY <1>1, ReplayInvariant, PTL

(* A training sample of a record names an earlier decision of its own       *)
(* contender, at least a decision interval before the one that rewards it.  *)
THEOREM EarlierSamples == ReadSpec => []SamplesPrecedeRewards
<1>1. ReplayInv /\ OwnerInv => SamplesPrecedeRewards
  <2> SUFFICES ASSUME ReplayInv, OwnerInv, NEW n \in Adaptive
               PROVE  /\ reader.contexts[n] <= contentionRound /\ reader.loaded[n] = sequences[n]
                      /\ n \in Sampled =>
                            /\ contexts[n] + DecisionInterval <= decisions[n].round
                            /\ contexts[n] % DecisionInterval = 0
                            /\ decisions[n].previous # NoArm
    BY DEF SamplesPrecedeRewards
  <2>1. /\ contexts[n] = reader.contexts[n] /\ contexts[n] <= contentionRound
        /\ contexts[n] \in Nat /\ contexts[n] % DecisionInterval = 0
        /\ n \in DOMAIN decisions => contexts[n] < contentionRound
        /\ reader.loaded[n] = sequences[n]
    BY DEF ReplayInv, ContextsFit
  <2>2. ASSUME n \in Sampled
        PROVE  /\ n \in DOMAIN decisions /\ decisions[n].round = contentionRound
               /\ contentionRound % DecisionInterval = 0 /\ decisions[n].previous # NoArm
    BY <2>2 DEF ReplayInv, DecisionsFit, Sampled, RewardedNodes
  <2>3. contentionRound \in Nat /\ DecisionInterval \in Nat \ {0}
    BY ControllerAssumption DEF OwnerInv, ControllerTypeOK, ChannelTypeOK
  <2> QED
    BY <2>1, <2>2, <2>3, IntervalsApart
<1> QED
  BY <1>1, ReplayInvariant, ReaderSimulates, Owner, PTL

-----------------------------------------------------------------------------
(* The row that is being written *)

Writing == stage \in {"dequeue", "sample", "yield"}

CountsFit == reader.rows = round /\ contentionRound = IF Writing THEN round + 1 ELSE round

(* The round of the row lies after the rows before it and before now.       *)
TimesFit ==
    /\ reader.end \in Nat /\ reader.effective \in Nat
    /\ reader.effective <= reader.end /\ reader.end <= now
    /\ Writing =>
          /\ reader.end <= result.start /\ result.start < now
          /\ result.start + result.effective <= now

(* An acknowledgement leaves time for data.                                 *)
RoomForData == Nru = Node \/ WifiAckUs < TxUs

SendersFit ==
    Writing =>
        /\ senders # {} /\ senders \subseteq row.backlogged /\ row.backlogged \subseteq row.active
        /\ row.active = {n \in Node : active[n]}
        /\ RoomForData /\ Success => result.effective > 0
        /\ ~Success => result.reservation = 0 /\ result.effective = 0

(* A contender with an arm decided before; a fixed arm is the required one. *)
ArmsFit ==
    /\ policy \in Policies
    /\ DOMAIN decisions \subseteq row.active
    /\ \A n \in DOMAIN decisions :
          /\ decisions[n].arm \in Arms
          /\ decisions[n].previous # NoArm => contexts[n] > 0
          /\ policy \in OneArmed =>
                decisions[n].arm = RequiredArm /\ decisions[n].previous \in {NoArm, RequiredArm}
    /\ \A n \in Adaptive :
          /\ policy \in OneArmed => arm[n] \in {NoArm, RequiredArm}
          /\ n \notin DOMAIN decisions /\ arm[n] # NoArm => contexts[n] > 0

RecordInv == CountsFit /\ TimesFit /\ SendersFit /\ ArmsFit

(* Outside the contention and the row itself, the row is left alone.        *)
LEMMA RowStands ==
  ASSUME OwnerInv, OwnerInv', QueueInv, row \in RowFields, Elsewhere
  PROVE  /\ UNCHANGED <<arm, contentionRound, round, decisions, contexts, reader, row.active>>
         /\ now <= now'
         /\ Writing' <=> Writing
         /\ Writing => UNCHANGED <<now, result, senders, active, row>>
<1>t. now \in Nat /\ now' \in Nat /\ \A d \in BusyDurations : d \in Nat
  BY TimingAssumption DEF OwnerInv, ControllerTypeOK, ChannelTypeOK
<1>1. UNCHANGED <<contentionRound, decisions, contexts, reader>>
  BY RoundsStay DEF Elsewhere, journal
<1>2. UNCHANGED <<arm, round>>
  BY DEF Elsewhere, OpenRound, Activate, Activated, Wake, Idle, NobodyActive, IdleTooLong, IdleEnds,
     Interfere, Dequeue, Sample, ctrlVars, ControllerSetActive, Backlogs, ControllerSetBacklogged,
     Accounts, ControllerIdle, ControllerBusy, ControllerClearBacklogged
<1>3. UNCHANGED row.active
  BY DEF Elsewhere, OpenRound, Activate, Activated, Wake, Idle, NobodyActive, IdleTooLong, IdleEnds,
     Interfere, Dequeue, Sample, recordVars, RowFields
<1>4. CASE Wake \/ Dequeue \/ Sample
  <2>1. UNCHANGED <<now, result, row>>
    BY <1>4 DEF Wake, Dequeue, Sample, ctrlVars, chanVars, clock, Backlogs, Accounts,
       ControllerSetBacklogged, ControllerClearBacklogged, recordVars
  <2>2. UNCHANGED <<senders, active>>
    BY <1>4 DEF Wake, Dequeue, Sample, ctrlVars, chanVars, vars, membership, Backlogs,
       ControllerSetBacklogged, SetBacklogged, ControllerClearBacklogged, ClearBacklogged
  <2>3. Writing' <=> Writing
    BY <1>4 DEF Wake, Dequeue, Sample, Writing
  <2> QED
    BY <1>t, <1>1, <1>2, <1>3, <2>1, <2>2, <2>3
<1>5. CASE ~(Wake \/ Dequeue \/ Sample)
  <2>1. ~Writing /\ ~Writing'
    BY <1>5 DEF Writing, Elsewhere, OpenRound, Activate, Activated, Idle, NobodyActive, IdleTooLong,
       IdleEnds, Interfere
  <2>2. now' = now \/ now' = now + TxUs \/ \E d \in BusyDurations : now' = now + d
    <3>1. CASE Interfere
      <4>1. now' = now + job.busy /\ job.busy \in BusyDurations
        BY <3>1, JobSpecAssumption DEF Interfere, ControllerBusy, ChannelBusy, OwnerInv, JobSpec
      <4> QED
        BY <4>1
    <3>2. CASE Idle
      BY <3>2 DEF Idle, ControllerIdle, IdleTick
    <3>3. CASE OpenRound \/ Activate \/ Activated \/ NobodyActive \/ IdleTooLong \/ IdleEnds
      BY <3>3 DEF OpenRound, Activate, Activated, NobodyActive, IdleTooLong, IdleEnds, ctrlVars,
         chanVars, clock, ControllerSetActive, Accounts
    <3> QED
      BY <1>5, <3>1, <3>2, <3>3 DEF Elsewhere
  <2>3. now <= now'
    BY <1>t, <2>2, TimingAssumption
  <2> QED
    BY <1>1, <1>2, <1>3, <2>1, <2>3
<1> QED
  BY <1>4, <1>5

LEMMA RecordInitially == ReadInit => RecordInv
<1> SUFFICES ASSUME ReadInit PROVE RecordInv
  OBVIOUS
<1>1. /\ stage = "open" /\ round = 0 /\ contentionRound = 0 /\ now = 0 /\ DOMAIN decisions = {}
      /\ reader.rows = 0 /\ reader.end = 0 /\ reader.effective = 0 /\ policy \in Policies
      /\ \A n \in Adaptive : arm[n] = NoArm
  BY DEF ReadInit, SimInit, ControllerInit, ChannelInit
<1> QED
  BY <1>1 DEF RecordInv, CountsFit, TimesFit, SendersFit, ArmsFit, Writing

LEMMA ElsewhereRecords ==
  ASSUME OwnerInv, OwnerInv', QueueInv, row \in RowFields, RecordInv, Elsewhere,
         UNCHANGED policy
  PROVE  RecordInv'
<1>1. CountsFit'
  BY RowStands DEF RecordInv, CountsFit
<1>2. TimesFit'
  <2>1. now \in Nat /\ now' \in Nat
    BY DEF OwnerInv, ControllerTypeOK, ChannelTypeOK
  <2> QED
    BY <2>1, RowStands DEF RecordInv, TimesFit
<1>3. SendersFit'
  BY RowStands DEF RecordInv, SendersFit, Success
<1>4. ArmsFit'
  BY RowStands DEF RecordInv, ArmsFit
<1> QED
  BY <1>1, <1>2, <1>3, <1>4 DEF RecordInv

LEMMA StandingRecords ==
  ASSUME RecordInv, UNCHANGED readVars
  PROVE  RecordInv'
<1>1. /\ UNCHANGED <<arm, contentionRound, round, decisions, contexts, reader, row, now, result>>
      /\ UNCHANGED <<senders, active, stage, policy>>
  BY DEF readVars, simVars, loopVars, recordVars, journal, ctrlVars, chanVars, clock, vars, membership
<1>2. CountsFit' /\ TimesFit' /\ SendersFit' /\ ArmsFit'
  BY <1>1 DEF RecordInv, CountsFit, TimesFit, SendersFit, ArmsFit, Writing, Success
<1> QED
  BY <1>2 DEF RecordInv

LEMMA ContendsRecords ==
  ASSUME OwnerInv, OwnerInv', row \in RowFields, ReplayInv, RecordInv, Contends, UNCHANGED policy
  PROVE  RecordInv'
<1>1. /\ stage = "busy" /\ stage' = "dequeue" /\ UNCHANGED <<round, contexts, reader, active>>
      /\ ChannelRound
      /\ row' = [row EXCEPT !.active = {n \in Node : active[n]}, !.backlogged = Eligible,
                            !.decisions = Decisions, !.rewarded = Rewarded]
  BY DEF Contends, Contend, ControllerStep, ChannelRound, Round, membership
<1>2. row'.active = {n \in Node : active[n]} /\ row'.backlogged = Eligible
  BY <1>1 DEF RowFields
<1>3. /\ ChannelTypeOK /\ TypeOK /\ now \in Nat /\ now' \in Nat /\ contentionRound \in Nat
      /\ Round /\ TypeOK'
      /\ arm \in [Adaptive -> Arms \cup {NoArm}] /\ arm' \in [Adaptive -> Arms \cup {NoArm}]
  BY <1>1 DEF OwnerInv, ControllerTypeOK, ChannelTypeOK, ChannelRound
<1>4. ~Writing /\ Writing'
  BY <1>1 DEF Writing
<1>5. CountsFit'
  BY <1>1, <1>4 DEF RecordInv, CountsFit, ChannelRound
<1>6. /\ RoundStart \in Nat /\ now <= RoundStart /\ now' = RoundStart + TxUs
      /\ TxUs \in Nat \ {0}
  <2>1. RoundStart \in Nat /\ RoundStart >= now
    BY <1>3, RoundStartType
  <2>2. now' = RoundStart + TxUs
    BY <1>1 DEF ChannelRound, RoundEnd
  <2> QED
    BY <1>3, <2>1, <2>2, TimingAssumption
<1>7. /\ senders' = Expiring /\ Expiring # {} /\ Expiring \subseteq Eligible /\ Eligible \subseteq Node
      /\ IsFiniteSet(Expiring)
  BY <1>3, RoundEffect, EligibleSubset, FS_Subset DEF Round
<1>8. Success' <=> ~Collides
  <2>1. Cardinality(Expiring) \in Nat \ {0}
    BY <1>7, FS_CardinalityType, FS_EmptySet
  <2> QED
    BY <1>7, <2>1 DEF Success, Collides
<1>9. /\ result'.start = RoundStart
      /\ Collides => result'.reservation = 0 /\ result'.effective = 0
      /\ ~Collides => \E n \in Expiring : result'.effective = Effective(n, RoundStart)
  <2>1. CASE Collides
    BY <1>1, <2>1 DEF ChannelRound, NoResult
  <2>2. CASE ~Collides
    <3> DEFINE sender == CHOOSE n \in Node : n \in Expiring
    <3>1. sender \in Expiring
      BY <1>7
    <3>2. result' = SuccessResult(sender)
      BY <1>1, <2>2 DEF ChannelRound
    <3> HIDE DEF sender
    <3> QED
      BY <2>2, <3>1, <3>2 DEF SuccessResult
  <2> QED
    BY <2>1, <2>2
<1>10. \A n \in Expiring : /\ Effective(n, RoundStart) \in Nat /\ Effective(n, RoundStart) <= TxUs
                           /\ RoomForData => Effective(n, RoundStart) > 0
  <2> SUFFICES ASSUME NEW n \in Expiring
               PROVE  /\ Effective(n, RoundStart) \in Nat /\ Effective(n, RoundStart) <= TxUs
                      /\ RoomForData => Effective(n, RoundStart) > 0
    OBVIOUS
  <2>1. n \in Node /\ Reservation(n, RoundStart) \in 0 .. NruSyncUs - 1
    BY <1>6, <1>7, ReservationType
  <2>2. NruSyncUs \in 1 .. TxUs /\ WifiAckUs \in 0 .. TxUs
    BY TimingAssumption
  <2> QED
    BY <1>6, <2>1, <2>2, EffectiveType DEF Effective, RoomForData
<1>11. TimesFit'
  <2>1. result'.effective \in Nat /\ result'.effective <= TxUs
    BY <1>6, <1>9, <1>10
  <2>2. /\ reader.end \in Nat /\ reader.effective \in Nat /\ reader.effective <= reader.end
        /\ reader.end <= now
    BY DEF RecordInv, TimesFit
  <2> QED
    BY <1>1, <1>3, <1>6, <1>9, <2>1, <2>2 DEF TimesFit
<1>12. SendersFit'
  <2>1. Eligible \subseteq row'.active
    BY <1>2 DEF Eligible
  <2>2. RoomForData /\ ~Collides => result'.effective > 0
    BY <1>9, <1>10
  <2> QED
    BY <1>1, <1>2, <1>7, <1>8, <1>9, <2>1, <2>2 DEF SendersFit, RoomForData
<1>13. /\ DOMAIN decisions' = Decisions /\ Decisions \subseteq Adaptive /\ DOMAIN decisions = {}
       /\ Decisions \subseteq {n \in Node : active[n]}
       /\ \A n \in Decisions : decisions'[n] = RecordOf(n) /\ arm'[n] \in Arms
       /\ \A n \in Adaptive \ Decisions : arm'[n] = arm[n]
       /\ policy \in OneArmed => \A n \in Decisions : arm'[n] = RequiredArm
  <2>1. PICK choice \in [Adaptive -> Arms] :
           arm' = [n \in Adaptive |-> IF Decides(n, RoundEnd) THEN choice[n] ELSE arm[n]]
    BY DEF Contends, Contend, ControllerStep
  <2>2. \A n \in Adaptive : n \in Decisions <=> Decides(n, RoundEnd)
    BY DEF Decisions
  <2>3. Decisions \subseteq Adaptive /\ \A n \in Decisions : active[n]
    BY DEF Decisions, Decides
  <2>4. \A n \in Adaptive : arm'[n] = IF n \in Decisions THEN choice[n] ELSE arm[n]
    BY <2>1, <2>2
  <2>5. DOMAIN decisions = {} /\ decisions' = [n \in Decisions |-> RecordOf(n)]
    BY <1>1 DEF ReplayInv, DecisionsFit, Contends
  <2>6. policy \in OneArmed => \A n \in Decisions : arm'[n] = RequiredArm
    BY DEF Contends, FollowsPolicy
  <2> QED
    BY <2>3, <2>4, <2>5, <2>6, AdaptiveNodes
<1>14. ArmsFit'
  <2>1. \A n \in Decisions : /\ decisions'[n].arm = arm'[n] /\ decisions'[n].previous = arm[n]
    BY <1>13 DEF RecordOf
  <2>2. \A n \in Adaptive : /\ policy \in OneArmed => arm[n] \in {NoArm, RequiredArm}
                            /\ arm[n] # NoArm => contexts[n] > 0
    BY <1>13 DEF RecordInv, ArmsFit
  <2>3. policy \in Policies
    BY DEF RecordInv, ArmsFit
  <2> QED
    BY <1>1, <1>2, <1>13, <2>1, <2>2, <2>3 DEF ArmsFit
<1> QED
  BY <1>5, <1>11, <1>12, <1>14 DEF RecordInv

LEMMA YieldsRecords ==
  ASSUME OwnerInv, ReplayInv, RecordInv, Yields, UNCHANGED policy
  PROVE  RecordInv'
<1>1. /\ stage = "yield" /\ stage' = "open" /\ round' = round + 1 /\ UNCHANGED <<row, now, arm>>
      /\ UNCHANGED contentionRound
  BY RoundsStay DEF Yields, Yield, ctrlVars, chanVars, clock
<1>2. Writing /\ ~Writing'
  BY <1>1 DEF Writing
<1>3. reader' = [rows      |-> reader.rows + 1,
                 end       |-> RowValue.round_end_us,
                 contexts  |-> reader'.contexts,
                 loaded    |-> reader'.loaded,
                 declared  |-> reader'.declared,
                 effective |-> reader.effective + RowValue.effective_us,
                 replayed  |-> reader'.replayed]
  BY DEF Yields, Read
<1>4. /\ reader'.rows = reader.rows + 1 /\ reader'.end = now
      /\ reader'.effective = reader.effective + result.effective
  <2>1. RowValue.round_end_us = now /\ RowValue.effective_us = result.effective
    BY DEF RowValue
  <2> QED
    BY <1>3, <2>1
<1>5. CountsFit'
  BY <1>1, <1>2, <1>4 DEF RecordInv, CountsFit
<1>6. TimesFit'
  <2>1. now \in Nat /\ result.effective \in Nat /\ result.start \in Nat
    BY DEF OwnerInv, ControllerTypeOK, ChannelTypeOK
  <2> QED
    BY <1>1, <1>2, <1>4, <2>1 DEF RecordInv, TimesFit
<1>7. SendersFit'
  BY <1>2 DEF SendersFit
<1>8. ArmsFit'
  <2>1. /\ DOMAIN decisions' = {}
        /\ \A n \in Adaptive : contexts'[n] = IF n \in DOMAIN decisions THEN decisions[n].round
                                               ELSE contexts[n]
    BY DEF Yields, ContextsAfter
  <2>2. /\ DOMAIN decisions \subseteq Adaptive
        /\ \A n \in DOMAIN decisions : decisions[n].round = contentionRound
    BY DEF ReplayInv, DecisionsFit
  <2>3. \A n \in DOMAIN decisions : contexts[n] \in Nat /\ contexts[n] < contentionRound
    BY <2>2 DEF ReplayInv, ContextsFit
  <2>4. contentionRound \in Nat
    BY DEF OwnerInv, ControllerTypeOK, ChannelTypeOK
  <2>5. \A n \in DOMAIN decisions : contentionRound > 0
    BY <2>3, <2>4
  <2> QED
    BY <1>1, <2>1, <2>2, <2>5 DEF RecordInv, ArmsFit
<1> QED
  BY <1>5, <1>6, <1>7, <1>8 DEF RecordInv

LEMMA RecordStep ==
  ASSUME OwnerInv, OwnerInv', QueueInv, ScheduleInv, ReplayInv, RecordInv, [ReadNext]_readVars
  PROVE  RecordInv'
<1>1. row \in RowFields
  BY DEF ScheduleInv
<1> QED
  BY <1>1, ElsewhereRecords, StandingRecords, ContendsRecords, YieldsRecords DEF ReadNext

RowInv == OwnerInv /\ QueueInv /\ ScheduleInv /\ ReplayInv /\ RecordInv

LEMMA RowInvariant == ReadSpec => []RowInv
<1>1. /\ OwnerInv /\ QueueInv /\ ScheduleInv /\ ReplayInv /\ RecordInv /\ OwnerInv'
      /\ [ReadNext]_readVars
      => RecordInv'
  BY RecordStep
<1> QED
  BY <1>1, ReplayInvariant, RecordInitially, ReaderSimulates, Schedule, PTL DEF ReadSpec, RowInv

-----------------------------------------------------------------------------
(* What the reader checks *)

(* The reader and the loop compute who is active alike.                     *)
LEMMA ExpectedMembers ==
  ASSUME job \in Jobs, NEW r \in Nat
  PROVE  ExpectedActive(r) = {n \in Node : Target(n, r)}
<1>1. CASE Phases # <<>>
  BY <1>1 DEF ExpectedActive, Target
<1>2. CASE Phases = <<>> /\ JoinInterval = 0
  BY <1>2 DEF ExpectedActive, Target
<1>3. CASE Phases = <<>> /\ JoinInterval # 0
  <2> DEFINE N == Cardinality(Node)
             J == JoinInterval
             L == Lifetime
             at == r % ((N - 1) * J + L)
  <2>1. N \in Nat \ {0} /\ J \in Nat \ {0} /\ L \in Nat \ {0}
    BY <1>3, EveryPlaceIsTaken, PhasesTyped
  <2>2. at \in Nat
    <3>1. (N - 1) * J \in Nat
      <4> HIDE DEF N, J
      <4> QED BY <2>1
    <3>2. (N - 1) * J + L \in Nat \ {0}
      <4> DEFINE m == (N - 1) * J
      <4>1. m \in Nat
        BY <3>1
      <4> HIDE DEF m, L
      <4>2. m + L \in Nat \ {0}
        BY <2>1, <4>1
      <4> QED BY <4>2 DEF m
    <3> DEFINE cycle == (N - 1) * J + L
    <3>3. cycle \in Nat \ {0}
      BY <3>2
    <3> HIDE DEF cycle
    <3>4. r % cycle \in Nat
      BY <3>3
    <3> QED BY <3>4 DEF cycle
  <2>3. \A n : InWindow(n, r) <=> Index[n] * J <= at /\ at < Index[n] * J + L
    BY DEF InWindow
  <2>4. ExpectedActive(r) = {n \in Node : at - Index[n] * J \in 0 .. L - 1}
    BY <1>3 DEF ExpectedActive
  <2>5. \A n \in Node : Target(n, r) <=> InWindow(n, r)
    BY <1>3 DEF Target
  <2> HIDE DEF at, J, L, N
  <2>6. \A n \in Node : at - Index[n] * J \in 0 .. L - 1 <=> InWindow(n, r)
    <3> SUFFICES ASSUME NEW n \in Node
                 PROVE  at - Index[n] * J \in 0 .. L - 1 <=> InWindow(n, r)
      OBVIOUS
    <3>1. Index[n] \in Nat
      BY IndexAssumption, EveryPlaceIsTaken
    <3>2. Index[n] * J \in Nat
      BY <2>1, <3>1
    <3> QED
      BY <2>1, <2>2, <2>3, <3>2
  <2> QED
    BY <2>4, <2>5, <2>6
<1> QED
  BY <1>1, <1>2, <1>3

(* A schedule of one phase is one long.                                     *)
OnePhaseOnce == Len(Phases) = 1 => Rounds = Phases[1].duration

LEMMA PhaseMetadata ==
  ASSUME RowInv, Writing
  PROVE  /\ OnePhaseOnce => PhaseIsRight(RowValue)
         /\ Len(Phases) = 1 /\ round # 0 /\ PhaseRound(round) = 0 => ~PhaseIsRight(RowValue)
<1>1. /\ job \in Jobs /\ round \in Nat /\ round < Rounds /\ reader.rows = round
  BY DEF RowInv, OwnerInv, ScheduleInv, RoundFits, RecordInv, CountsFit, Writing
<1>2. /\ RowValue.change_point = row.change
      /\ RowValue.phase = IF Phases = <<>> THEN <<>> ELSE <<row.phase, row.phaseRound>>
  BY DEF RowValue
<1>3. CASE Phases = <<>>
  <2>1. row.change = FALSE
    BY <1>3 DEF RowInv, ScheduleInv, PhaseFits, RowFields
  <2>2. PhaseIsRight(RowValue)
    BY <1>2, <1>3, <2>1 DEF PhaseIsRight, ExpectedPhase, ExpectedChange
  <2>3. Len(Phases) # 1
    BY <1>3
  <2> QED
    BY <2>2, <2>3
<1>4. CASE Phases # <<>>
  <2>1. /\ row.phase = PhaseAt(round) /\ row.phaseRound = PhaseRound(round)
        /\ row.change <=> Changed(round)
    BY <1>4 DEF RowInv, ScheduleInv, PhaseFits, Writing
  <2>2. RowValue.phase = ExpectedPhase(reader.rows)
    BY <1>1, <1>2, <1>4, <2>1 DEF ExpectedPhase
  <2>3. Changed(round) <=> round = 0 \/ PhaseAt(round) # PhaseAt(round - 1)
    BY <1>4 DEF Changed
  <2>4. ExpectedChange(reader.rows) <=> round = 0 \/ PhaseRound(round) = 0
    BY <1>1, <1>4 DEF ExpectedChange
  <2>5. PhaseIsRight(RowValue) <=> (Changed(round) <=> ExpectedChange(reader.rows))
    <3>1. row.change \in BOOLEAN
      BY DEF RowInv, ScheduleInv, RowFields
    <3>2. Changed(round) \in BOOLEAN /\ ExpectedChange(reader.rows) \in BOOLEAN
      BY DEF Changed, ExpectedChange
    <3> QED
      BY <1>2, <2>1, <2>2, <3>1, <3>2, Zenon DEF PhaseIsRight
  <2>6. CASE round = 0
    BY <2>3, <2>4, <2>5, <2>6
  <2>7. CASE round # 0 /\ Len(Phases) # 1
    <3>1. PhaseRound(round) = 0 <=> PhaseAt(round) # PhaseAt(round - 1)
      BY <1>1, <1>4, <2>7, ChangesAtPhaseStarts
    <3> QED
      BY <2>3, <2>4, <2>5, <2>7, <3>1
  <2>8. CASE round # 0 /\ Len(Phases) = 1
    <3>1. PhaseAt(round) = 1 /\ PhaseAt(round - 1) = 1
      <4>1. PhaseAt(round) \in 1 .. Len(Phases) /\ PhaseAt(round - 1) \in 1 .. Len(Phases)
        BY <1>1, <1>4, <2>8, PhaseAtIs
      <4> QED
        BY <2>8, <4>1
    <3>2. ~Changed(round)
      BY <2>3, <2>8, <3>1
    <3>3. OnePhaseOnce => PhaseRound(round) # 0
      <4> SUFFICES ASSUME OnePhaseOnce PROVE PhaseRound(round) # 0
        OBVIOUS
      <4>1. /\ PhaseEnd[0] = 0 /\ PhaseEnd[1] = PhaseEnd[0] + Phases[1].duration
            /\ Phases[1].duration \in Nat \ {0}
        <5>1. 1 \in 1 .. Len(Phases) /\ 1 - 1 = 0
          BY <2>8
        <5> QED
          BY <1>1, <5>1, PhaseEndsGrow, PhasesTyped
      <4>2. Cycle = Phases[1].duration /\ Rounds = Cycle
        BY <2>8, <4>1 DEF Cycle, OnePhaseOnce
      <4>3. CycleRound(round) = round % Cycle
        BY <1>1, <1>4, CycleType
      <4>4. round % Cycle = round
        BY <1>1, <4>1, <4>2
      <4>5. PhaseRound(round) = CycleRound(round) - PhaseEnd[0]
        BY <3>1 DEF PhaseRound
      <4> QED
        BY <1>1, <2>8, <4>1, <4>3, <4>4, <4>5
    <3> QED
      BY <2>4, <2>5, <2>8, <3>2, <3>3
  <2> QED
    BY <2>6, <2>7, <2>8
<1> QED
  BY <1>3, <1>4

LEMMA RowIsRight ==
  ASSUME RowInv, Writing, RoomForData
  PROVE  /\ IdentityIsRight(RowValue) /\ MembersAreRight(RowValue) /\ OutcomeIsRight(RowValue)
         /\ DecisionsAreRight(RowValue) /\ SamplesAreRight(RowValue) /\ FollowsRows(RowValue)
         /\ SequencesContinue(RowValue) /\ IsReducible(RowValue)
<1> DEFINE w == RowValue
<1>1. /\ w.round_id = contentionRound - 1 /\ w.tx_start_us = result.start /\ w.round_end_us = now
      /\ w.kind = IF Success THEN "success" ELSE "collision"
      /\ w.collision_size = IF Success THEN 0 ELSE Cardinality(senders)
      /\ w.reservation_us = result.reservation /\ w.effective_us = result.effective
      /\ w.node_ids = senders /\ w.active = row.active /\ w.backlogged = row.backlogged
      /\ w.senders = SendersValue /\ w.decisions = decisions /\ w.samples = Samples
  BY DEF RowValue
<1>2. /\ job \in Jobs /\ round \in Nat /\ contentionRound = round + 1 /\ reader.rows = round
      /\ stage \notin {"open", "activate"}
  BY DEF RowInv, OwnerInv, ScheduleInv, RoundFits, RecordInv, CountsFit, Writing
<1>3. /\ reader.end \in Nat /\ reader.effective \in Nat /\ reader.effective <= reader.end
      /\ reader.end <= result.start /\ result.start < now
      /\ result.start + result.effective <= now
      /\ now \in Nat /\ result.start \in Nat /\ result.effective \in Nat
  BY DEF RowInv, OwnerInv, ControllerTypeOK, ChannelTypeOK, RecordInv, TimesFit
<1>4. /\ senders # {} /\ senders \subseteq row.backlogged /\ row.backlogged \subseteq row.active
      /\ row.active = {n \in Node : active[n]}
      /\ Success => result.effective > 0
      /\ ~Success => result.reservation = 0 /\ result.effective = 0
  BY DEF RowInv, RecordInv, SendersFit
<1> HIDE DEF w
<1>5. IdentityIsRight(w)
  BY <1>1, <1>2, <1>3 DEF IdentityIsRight
<1>6. MembersAreRight(w)
  <2>1. \A n \in Node : active[n] <=> Target(n, round)
    BY <1>2 DEF RowInv, ScheduleInv, MembersFit
  <2>2. row.active = ExpectedActive(round)
    BY <1>2, <1>4, <2>1, ExpectedMembers
  <2> QED
    BY <1>1, <1>2, <1>4, <2>2 DEF MembersAreRight
<1>7. OutcomeIsRight(w)
  <2>1. CASE Success
    <3>1. \A n \in senders : w.senders[n].effective = w.effective_us
      BY <1>1, <2>1 DEF SendersValue
    <3> QED
      BY <1>1, <1>4, <2>1, <3>1 DEF OutcomeIsRight, Success
  <2>2. CASE ~Success
    <3>1. \A n \in senders : w.senders[n] = [delay |-> Never, effective |-> 0]
      BY <1>1, <2>2 DEF SendersValue
    <3>2. Cardinality(senders) \in Nat /\ Cardinality(senders) >= 2
      <4>1. IsFiniteSet(senders)
        BY NodeAssumption, FS_Subset DEF RowInv, OwnerInv, ControllerTypeOK, ChannelTypeOK, TypeOK
      <4>2. Cardinality(senders) \in Nat /\ Cardinality(senders) # 0 /\ Cardinality(senders) # 1
        BY <1>4, <2>2, <4>1, FS_CardinalityType, FS_EmptySet DEF Success
      <4> QED
        BY <4>2
    <3> QED
      BY <1>1, <1>4, <2>2, <3>1, <3>2 DEF OutcomeIsRight
  <2> QED
    BY <2>1, <2>2
<1>8. /\ DOMAIN decisions \subseteq Adaptive /\ DOMAIN decisions \subseteq row.active
      /\ \A n \in DOMAIN decisions :
            /\ decisions[n].round = contentionRound /\ contentionRound % DecisionInterval = 0
            /\ decisions[n].arm \in Arms /\ decisions[n].previous \in Arms \cup {NoArm}
            /\ decisions[n].rewarded => decisions[n].previous # NoArm
            /\ decisions[n].previous # NoArm => contexts[n] > 0
            /\ policy \in OneArmed => decisions[n].arm = RequiredArm
                                      /\ decisions[n].previous \in {NoArm, RequiredArm}
  BY DEF RowInv, ReplayInv, DecisionsFit, RecordInv, ArmsFit
<1>9. DOMAIN w.samples = Sampled /\ \A n \in Sampled :
         w.samples[n] = [context |-> contexts[n], arm |-> decisions[n].previous,
                         sequence |-> sequences[n]]
  BY <1>1 DEF Samples
<1>10. \A n \in Sampled : /\ policy = "pretrain_arm" /\ n \in DOMAIN decisions
                          /\ decisions[n].rewarded /\ n \in Adaptive
  BY <1>8 DEF Sampled, RewardedNodes
<1>11. DecisionsAreRight(w)
  <2>1. DOMAIN decisions # {} => policy \in Deciding
    <3>1. DOMAIN decisions # {} => Adaptive # {}
      BY <1>8
    <3> QED
      BY <3>1, PoliciesAssumption DEF RowInv, RecordInv, ArmsFit
  <2>2. ASSUME NEW n \in DOMAIN decisions PROVE DecisionIsRight(w, n)
    <3>1. contentionRound - 1 + 1 = contentionRound
      BY <1>2
    <3> QED
      BY <1>1, <1>8, <2>2, <3>1 DEF DecisionIsRight
  <2>3. DOMAIN w.samples # {} => policy = "pretrain_arm"
    BY <1>9, <1>10
  <2> QED
    BY <1>1, <2>1, <2>2, <2>3 DEF DecisionsAreRight
<1>12. \A n \in Adaptive : /\ contexts[n] = reader.contexts[n] /\ contexts[n] \in Nat
                           /\ reader.loaded[n] = sequences[n]
  BY DEF RowInv, ReplayInv, ContextsFit
<1>13. SamplesAreRight(w)
  <2> SUFFICES ASSUME policy = "pretrain_arm"
               PROVE  /\ DOMAIN w.samples = {n \in DOMAIN w.decisions : w.decisions[n].rewarded}
                      /\ \A n \in DOMAIN w.samples :
                            /\ w.samples[n].arm = w.decisions[n].previous
                            /\ reader.contexts[n] # 0 /\ w.samples[n].context = reader.contexts[n]
    BY DEF SamplesAreRight
  <2>1. DOMAIN w.samples = {n \in DOMAIN w.decisions : w.decisions[n].rewarded}
    BY <1>1, <1>9 DEF Sampled, RewardedNodes
  <2>2. ASSUME NEW n \in Sampled
        PROVE  /\ w.samples[n].arm = w.decisions[n].previous
               /\ reader.contexts[n] # 0 /\ w.samples[n].context = reader.contexts[n]
    <3>1. n \in Adaptive /\ contexts[n] > 0 /\ contexts[n] \in Nat
          /\ contexts[n] = reader.contexts[n]
      BY <1>8, <1>10, <1>12, <2>2
    <3> QED
      BY <1>1, <1>9, <2>2, <3>1
  <2> QED
    BY <1>9, <2>1, <2>2
<1>14. FollowsRows(w)
  BY <1>1, <1>3 DEF FollowsRows
<1>15. SequencesContinue(w)
  <2> SUFFICES ASSUME NEW n \in DOMAIN w.samples PROVE w.samples[n].sequence = reader.loaded[n]
    BY DEF SequencesContinue
  <2>1. n \in Sampled
    BY <1>9
  <2>2. w.samples[n] = [context |-> contexts[n], arm |-> decisions[n].previous,
                        sequence |-> sequences[n]]
    BY <1>9, <2>1, Zenon
  <2>3. w.samples[n].sequence = sequences[n]
    BY <2>2
  <2> QED
    BY <1>10, <1>12, <2>1, <2>3
<1>16. IsReducible(w)
  BY <1>1, <1>3, <1>4 DEF IsReducible
<1> QED
  BY <1>5, <1>6, <1>7, <1>11, <1>13, <1>14, <1>15, <1>16 DEF w

(* No row of a job is refused: the phase, the members, the outcome, the     *)
(* decisions, the samples and the times that the reader, the reduction and  *)
(* the training loader compute from the number of the row and the rows      *)
(* before it are those the loop reached, for any contenders, schedule,      *)
(* traffic and policy; but for a schedule that repeats a single phase, and  *)
(* for an acknowledgement as long as the transmission.                      *)
THEOREM RowsAreAccepted == ReadSpec => [](OnePhaseOnce /\ RoomForData => RowIsAccepted)
<1>1. RowInv => (OnePhaseOnce /\ RoomForData => RowIsAccepted)
  <2> SUFFICES ASSUME RowInv, OnePhaseOnce, RoomForData, stage = "yield"
               PROVE  Accepts(RowValue)
    BY DEF RowIsAccepted
  <2>1. Writing
    BY DEF Writing
  <2> QED
    BY <2>1, RowIsRight, PhaseMetadata DEF Accepts
<1> QED
  BY <1>1, RowInvariant, PTL

(* A schedule that repeats a single phase always ends in a record that its  *)
(* reader refuses: from the second cycle on, the first row of a cycle is    *)
(* not the change point that the reader expects.                            *)
THEOREM RepeatedPhaseIsRefused ==
  ReadSpec => [](stage = "yield" /\ waking = {} /\ Len(Phases) = 1 /\ round # 0
                   /\ PhaseRound(round) = 0 => ~PhaseIsAccepted)
<1>1. RowInv => (stage = "yield" /\ waking = {} /\ Len(Phases) = 1 /\ round # 0
                   /\ PhaseRound(round) = 0 => ~PhaseIsAccepted)
  BY PhaseMetadata DEF PhaseIsAccepted, Writing
<1> QED
  BY <1>1, RowInvariant, PTL
=============================================================================
