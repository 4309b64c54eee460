-------------------------- MODULE AdaptiveController --------------------------
(***************************************************************************)
(* dblbt_fcn.adaptive.AdaptiveController: per adaptive contender, the time *)
(* accounting of its attempts and of its reward interval, and the recovery *)
(* arm it has in force.  The controller owns the channel: its operations   *)
(* are those of Channel together with the bookkeeping around them.         *)
(*                                                                         *)
(* Which arm an agent selects from its context is a nondeterministic       *)
(* choice; rewards, contexts and local queue inputs are data.              *)
(***************************************************************************)
EXTENDS Channel

CONSTANTS
    Arms,             \* the arms an agent may select
    NoArm,            \* None: no decision was made, the fixed profile is in force
    ArmProfile,       \* adaptive_arms()
    DecisionInterval, \* _DECISION_INTERVAL, in rounds
    ReadyAttempts     \* attempts before LocalWindow.ready

ASSUME ControllerAssumption ==
    /\ Arms # {} /\ NoArm \notin Arms /\ ArmProfile \in [Arms -> Profiles]
    /\ DecisionInterval \in Nat \ {0} /\ ReadyAttempts \in Nat \ {0}

VARIABLES
    arm,              \* current_arm
    observed,         \* the accounting of _AdaptiveNodeState
    armAtDraw,        \* history: the arm in force when the countdown was drawn
    staleAttempts     \* history: attempts of the interval drawn under another arm

ctrlVars == <<chanVars, arm, observed, armAtDraw, staleAttempts>>

-----------------------------------------------------------------------------
(* Accounting *)

InitialObservation(eligible) ==
    [recorded |-> 0, lastAttemptEnd |-> 0, localBusy |-> 0,
     inactiveSince |-> IF eligible THEN Never ELSE 0,
     start |-> 0, attempts |-> 0, collisions |-> 0,
     effective |-> 0, ownBusy |-> 0, otherBusy |-> 0]

(* Mutant: busy time from before the gap is kept.                        *)
SynchronizedKeepsBusy(o, eligible) ==
    IF (o.inactiveSince = Never) <=> eligible THEN o
    ELSE IF eligible
    THEN [o EXCEPT !.start = @ + now - o.inactiveSince,
                   !.lastAttemptEnd = now, !.inactiveSince = Never]
    ELSE [o EXCEPT !.inactiveSince = now]

(* The gap in which a contender is not eligible is cut out of its times.    *)
Synchronized(o, eligible) ==
    IF (o.inactiveSince = Never) <=> eligible THEN o
    ELSE IF eligible
    THEN [o EXCEPT !.start = @ + now - o.inactiveSince,
                   !.lastAttemptEnd = now, !.localBusy = 0, !.inactiveSince = Never]
    ELSE [o EXCEPT !.inactiveSince = now, !.localBusy = 0]

SynchronizeAll == [n \in Adaptive |-> Synchronized(observed[n], n \in Eligible)]

OverhearsBusy(o, duration) ==
    [o EXCEPT !.localBusy = @ + duration, !.otherBusy = @ + duration]

(* The times of the AttemptRecord of an own attempt that ended at time end. *)
Attempt(n, o, end) ==
    LET elapsed == end - o.lastAttemptEnd
    IN  [elapsed   |-> elapsed,
         busy      |-> IF o.localBusy <= elapsed THEN o.localBusy ELSE elapsed,
         effective |-> IF Collides THEN 0 ELSE Effective(n, RoundStart)]

(* AttemptRecord refuses any other.                                         *)
IsAttemptRecord(a) == a.elapsed > 0 /\ a.busy <= a.elapsed /\ a.effective <= a.elapsed

(* The window keeps more attempts than it takes to be ready.                *)
Ready(o) == o.recorded >= ReadyAttempts

(* One own attempt that ended at time end, on the start of this round.      *)
RecordsAttempt(n, o, end) ==
    [o EXCEPT
        !.recorded = IF Ready(o) THEN @ ELSE @ + 1,
        !.lastAttemptEnd = end, !.localBusy = 0,
        !.attempts = @ + 1,
        !.collisions = IF Collides THEN @ + 1 ELSE @,
        !.effective = @ + Attempt(n, o, end).effective,
        !.ownBusy = IF Collides THEN @ ELSE @ + TxUs]

(* Mutant: the attempts survive the decision.                            *)
ResetsTimesOnly(o, end) ==
    [o EXCEPT !.inactiveSince = IF @ = Never THEN Never ELSE end,
              !.start = end, !.effective = 0, !.ownBusy = 0, !.otherBusy = 0]

(* The reward interval starts again at a decision.                          *)
ResetsInterval(o, end) ==
    [o EXCEPT !.inactiveSince = IF @ = Never THEN Never ELSE end,
              !.start = end, !.attempts = 0, !.collisions = 0,
              !.effective = 0, !.ownBusy = 0, !.otherBusy = 0]

AfterRound(n, end) ==
    LET o == SynchronizeAll[n]
    IN  IF n \in Expiring THEN RecordsAttempt(n, o, end)
        ELSE IF n \in Eligible THEN OverhearsBusy(o, TxUs)
        ELSE o

(* _interval_reward of an interval with an attempt, at time end.            *)
Interval(o, end) ==
    [elapsed    |-> (IF o.inactiveSince = Never THEN end ELSE o.inactiveSince) - o.start,
     effective  |-> o.effective,
     own        |-> o.ownBusy,
     shared     |-> o.ownBusy + o.otherBusy,
     collisions |-> o.collisions,
     attempts   |-> o.attempts]

(* The airtime, the share and the rate of collisions are ratios, or the     *)
(* reward is not computed but refused.                                      *)
IsRewarded(i) ==
    /\ i.elapsed > 0 /\ i.effective <= i.elapsed
    /\ i.own <= i.shared /\ i.collisions <= i.attempts

-----------------------------------------------------------------------------
(* Operations *)

AtBoundary == (contentionRound + 1) % DecisionInterval = 0

(* An agent decides whose window is ready, contending or just participating.*)
Decides(n, end) ==
    AtBoundary /\ active[n] /\ Ready(AfterRound(n, end))

ControllerStep ==
    /\ ChannelRound
    /\ \E choice \in [Adaptive -> Arms] :
          /\ arm' = [n \in Adaptive |->
                IF Decides(n, RoundEnd) THEN choice[n] ELSE arm[n]]
          /\ profile' = [n \in Node |->
                IF n \in Adaptive /\ Decides(n, RoundEnd)
                THEN ArmProfile[choice[n]] ELSE profile[n]]
    /\ observed' = [n \in Adaptive |->
          LET after == AfterRound(n, RoundEnd)
          IN  IF Decides(n, RoundEnd)
              THEN ResetsInterval(after, RoundEnd) ELSE after]
    /\ armAtDraw' = [n \in Adaptive |-> IF n \in Expiring THEN arm[n] ELSE armAtDraw[n]]
    /\ staleAttempts' = [n \in Adaptive |->
          IF Decides(n, RoundEnd) THEN 0
          ELSE IF n \in Expiring /\ armAtDraw[n] # arm[n] THEN staleAttempts[n] + 1
          ELSE staleAttempts[n]]

ControllerBusy(duration) ==
    /\ ChannelBusy(duration)
    /\ observed' = [n \in Adaptive |->
          IF n \in Eligible THEN OverhearsBusy(SynchronizeAll[n], duration)
          ELSE SynchronizeAll[n]]
    /\ UNCHANGED <<arm, armAtDraw, staleAttempts>>

(* set_backlogged and set_active of an adaptive contender; the others'      *)
(* are set on the channel and concern nobody's accounting.                  *)
Accounts(n) ==
    /\ observed' = IF n \in Adaptive
                   THEN [k \in Adaptive |-> Synchronized(SynchronizeAll[k], k \in Eligible')]
                   ELSE observed
    /\ UNCHANGED <<clock, arm, staleAttempts>>

ControllerClearBacklogged(n) == ClearBacklogged(n) /\ Accounts(n) /\ UNCHANGED armAtDraw

ControllerSetBacklogged(n) ==
    /\ SetBacklogged(n)
    /\ Accounts(n)
    /\ armAtDraw' = [k \in Adaptive |-> IF k = n THEN arm[n] ELSE armAtDraw[k]]

ControllerSetActive(n, participates) ==
    SetActive(n, participates) /\ Accounts(n) /\ UNCHANGED armAtDraw

ControllerChange(n) ==
    \/ ControllerClearBacklogged(n)
    \/ ControllerSetBacklogged(n)
    \/ \E participates \in BOOLEAN : ControllerSetActive(n, participates)

ControllerIdle == IdleTick /\ UNCHANGED <<arm, observed, armAtDraw, staleAttempts>>

ControllerInit ==
    /\ ChannelInit
    /\ arm = [n \in Adaptive |-> NoArm]
    /\ observed = [n \in Adaptive |-> InitialObservation(n \in Eligible)]
    /\ armAtDraw = [n \in Adaptive |-> NoArm]
    /\ staleAttempts = [n \in Adaptive |-> 0]

ControllerNext ==
    \/ ControllerStep
    \/ \E d \in BusyDurations : ControllerBusy(d)
    \/ \E n \in Node : ControllerChange(n)
    \/ ControllerIdle

ControllerSpec == ControllerInit /\ [][ControllerNext]_ctrlVars

-----------------------------------------------------------------------------
(* Properties *)

Observations ==
    [recorded : Nat, lastAttemptEnd : Nat, localBusy : Nat,
     inactiveSince : Nat \cup {Never},
     start : Nat, attempts : Nat, collisions : Nat,
     effective : Nat, ownBusy : Nat, otherBusy : Nat]

(* The counters and times of the accounting stay natural numbers.           *)
ControllerTypeOK ==
    /\ ChannelTypeOK
    /\ arm \in [Adaptive -> Arms \cup {NoArm}]
    /\ observed \in [Adaptive -> Observations]
    /\ armAtDraw \in [Adaptive -> Arms \cup {NoArm}]
    /\ staleAttempts \in [Adaptive -> Nat]

(* _synchronize_all finds nothing wrong: the profile in force is the arm's, *)
(* and a contender is timed exactly while it is eligible.                   *)
ArmIsInForce ==
    \A n \in Adaptive :
        /\ profile[n] = IF arm[n] = NoArm THEN DefaultProfile ELSE ArmProfile[arm[n]]
        /\ observed[n].inactiveSince = Never <=> n \in Eligible

(* The busy time a contender overheard since its last attempt or since it   *)
(* became eligible fits in the time since, so that capping busy_us at the   *)
(* elapsed time cuts nothing, and no attempt the next round may end with    *)
(* is refused by AttemptRecord.                                             *)
BusyFitsAttempt ==
    \A n \in Adaptive \cap Eligible : LET o == observed[n] IN
        /\ o.lastAttemptEnd + o.localBusy <= now
        /\ IsAttemptRecord(Attempt(n, o, RoundEnd))

(* What a reward interval attributes to its contender, to others and to     *)
(* collisions fits in the eligible time of the interval, so the reward of   *)
(* an interval with an attempt can be computed, however often the contender *)
(* left and came back.                                                      *)
RewardFitsInterval ==
    \A n \in Adaptive : LET o == observed[n]  i == Interval(o, now) IN
        /\ o.effective <= o.ownBusy
        /\ i.shared + i.collisions * TxUs <= i.elapsed
        /\ i.attempts * TxUs = i.own + i.collisions * TxUs
        /\ i.attempts > 0 => IsRewarded(i)

(* The arm in force, the overheard busy time and the reward interval of     *)
(* every adaptive contender agree with the clock and its eligibility.       *)
AccountsFit == ArmIsInForce /\ BusyFitsAttempt /\ RewardFitsInterval

(* An arm is rewarded for attempts whose countdown was drawn under it, but  *)
(* for at most the first one of the interval, drawn before the decision.    *)
RewardsOwnDraws ==
    \A n \in Adaptive :
        /\ staleAttempts[n] <= 1
        /\ armAtDraw[n] # arm[n] => observed[n].attempts = 0
=============================================================================
