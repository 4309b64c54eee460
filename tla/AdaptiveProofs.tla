----------------------------- MODULE AdaptiveProofs -----------------------------
(***************************************************************************)
(* Theorems about AdaptiveController: its time accounting never raises and *)
(* rewards an arm for its own draws, for every timing and every schedule   *)
(* of rounds, busy periods and eligibility changes.                        *)
(***************************************************************************)
EXTENDS AdaptiveController, ChannelProofs

USE DEF RoundEnd, Accounts, ControllerClearBacklogged, ControllerSetBacklogged,
        ControllerSetActive

(* What an observation o of a contender must say at time t.                 *)
Until(o, t) == IF o.inactiveSince = Never THEN t ELSE o.inactiveSince

(* lost is the airtime of the interval's collisions.                        *)
Fits(o, lost, t) ==
    /\ o.inactiveSince <= t
    /\ o.inactiveSince = Never => o.lastAttemptEnd + o.localBusy <= t
    /\ o.effective <= o.ownBusy
    /\ o.ownBusy + o.otherBusy + lost <= Until(o, t) - o.start

Accounted(o, t) ==
    /\ o \in Observations
    /\ Fits(o, o.collisions * TxUs, t)
    /\ o.attempts * TxUs = o.ownBusy + o.collisions * TxUs

-----------------------------------------------------------------------------
(* Accounting operators *)

LEMMA ObservationFields ==
  ASSUME NEW o \in Observations
  PROVE  /\ o.recorded \in Nat /\ o.lastAttemptEnd \in Nat /\ o.localBusy \in Nat
         /\ o.inactiveSince \in Nat \cup {Never}
         /\ o.start \in Nat /\ o.attempts \in Nat /\ o.collisions \in Nat
         /\ o.effective \in Nat /\ o.ownBusy \in Nat /\ o.otherBusy \in Nat
  BY DEF Observations

(* A changed observation is an observation if its changed fields are typed. *)
LEMMA BusyObservation ==
  ASSUME NEW o \in Observations, NEW a \in Nat, NEW b \in Nat
  PROVE  [o EXCEPT !.localBusy = a, !.otherBusy = b] \in Observations
  BY DEF Observations

LEMMA LeavingObservation ==
  ASSUME NEW o \in Observations, NEW t \in Nat
  PROVE  [o EXCEPT !.inactiveSince = t, !.localBusy = 0] \in Observations
  BY DEF Observations

LEMMA JoiningObservation ==
  ASSUME NEW o \in Observations, NEW a \in Nat, NEW t \in Nat
  PROVE  [o EXCEPT !.start = a, !.lastAttemptEnd = t, !.localBusy = 0,
                   !.inactiveSince = Never] \in Observations
  BY DEF Observations

LEMMA DecidedObservation ==
  ASSUME NEW o \in Observations, NEW t \in Nat, NEW g \in Nat \cup {Never}
  PROVE  [o EXCEPT !.inactiveSince = g, !.start = t, !.attempts = 0, !.collisions = 0,
                   !.effective = 0, !.ownBusy = 0, !.otherBusy = 0] \in Observations
  BY DEF Observations

LEMMA AttemptObservation ==
  ASSUME NEW o \in Observations, NEW a \in Nat, NEW t \in Nat, NEW b \in Nat,
         NEW c \in Nat, NEW d \in Nat, NEW e \in Nat
  PROVE  [o EXCEPT !.recorded = a, !.lastAttemptEnd = t, !.localBusy = 0, !.attempts = b,
                   !.collisions = c, !.effective = d, !.ownBusy = e] \in Observations
  BY DEF Observations

LEMMA Airtimes ==
  ASSUME NEW k \in Nat
  PROVE  /\ TxUs \in Nat \ {0} /\ k * TxUs \in Nat
         /\ (k + 1) * TxUs = k * TxUs + TxUs
         /\ 0 * TxUs = 0
  BY TimingAssumption

(* More transmissions take more time.                                       *)
LEMMA AirtimesAreOrdered ==
  ASSUME NEW k \in Nat, NEW l \in Nat
  PROVE  k < l => k * TxUs < l * TxUs
<1> SUFFICES ASSUME k < l PROVE k * TxUs < l * TxUs
  OBVIOUS
<1>1. PICK d \in Nat : l = k + (d + 1)
  <2>1. l - k - 1 \in Nat /\ l = k + ((l - k - 1) + 1)
    OBVIOUS
  <2> QED BY <2>1
<1>2. l * TxUs = k * TxUs + (d + 1) * TxUs
  BY <1>1, TimingAssumption
<1>3. /\ (d + 1) * TxUs = d * TxUs + TxUs /\ d * TxUs \in Nat
      /\ TxUs \in Nat \ {0} /\ k * TxUs \in Nat
  BY Airtimes
<1> QED
  BY <1>2, <1>3

LEMMA EffectiveType ==
  ASSUME NEW n \in Node, RoundStart \in Nat
  PROVE  Effective(n, RoundStart) \in Nat /\ Effective(n, RoundStart) <= TxUs
  BY ReservationType, TimingAssumption DEF Effective

(* Time that passes is eligible time that nobody used.                      *)
LEMMA TimePasses ==
  ASSUME NEW o, NEW t \in Nat, NEW u \in Nat, t <= u, Accounted(o, t)
  PROVE  Accounted(o, u)
<1> DEFINE lost == o.collisions * TxUs
<1>1. o \in Observations /\ lost \in Nat /\ Fits(o, lost, t)
  BY ObservationFields, Airtimes DEF Accounted
<1>2. ASSUME NEW l \in Nat, Fits(o, l, t) PROVE Fits(o, l, u)
  BY <1>1, <1>2, ObservationFields DEF Fits, Until, Never
<1> QED
  BY <1>1, <1>2 DEF Accounted

LEMMA BusyAccounted ==
  ASSUME NEW o, NEW t \in Nat, NEW d \in Nat, NEW u \in Nat, t + d <= u,
         o.inactiveSince = Never, Accounted(o, t)
  PROVE  Accounted(OverhearsBusy(o, d), u)
<1> DEFINE p    == OverhearsBusy(o, d)
           lost == o.collisions * TxUs
<1>1. o \in Observations /\ lost \in Nat /\ Fits(o, lost, t)
  BY ObservationFields, Airtimes DEF Accounted
<1>2. /\ p.inactiveSince = o.inactiveSince /\ p.lastAttemptEnd = o.lastAttemptEnd
      /\ p.localBusy = o.localBusy + d /\ p.otherBusy = o.otherBusy + d
      /\ p.start = o.start /\ p.attempts = o.attempts /\ p.collisions = o.collisions
      /\ p.effective = o.effective /\ p.ownBusy = o.ownBusy
  BY <1>1 DEF OverhearsBusy, Observations
<1>0. p \in Observations
  <2> DEFINE a == o.localBusy + d
             b == o.otherBusy + d
  <2>1. a \in Nat /\ b \in Nat
    BY <1>1, ObservationFields
  <2>2. p = [o EXCEPT !.localBusy = a, !.otherBusy = b]
    BY DEF OverhearsBusy
  <2> HIDE DEF a, b, p
  <2> QED
    BY <1>1, <2>1, <2>2, BusyObservation
<1>3. ASSUME NEW l \in Nat, Fits(o, l, t) PROVE Fits(p, l, u)
  <2> HIDE DEF p
  <2> QED
    BY <1>1, <1>2, <1>3, ObservationFields DEF Fits, Until, Never
<1> QED
  BY <1>0, <1>1, <1>2, <1>3 DEF Accounted

LEMMA SynchronizedAccounted ==
  ASSUME NEW o, NEW eligible \in BOOLEAN, now \in Nat, Accounted(o, now)
  PROVE  /\ Accounted(Synchronized(o, eligible), now)
         /\ Synchronized(o, eligible).inactiveSince = Never <=> eligible
         /\ (o.inactiveSince = Never <=> eligible) => Synchronized(o, eligible) = o
         /\ Synchronized(o, eligible).attempts = o.attempts
<1> DEFINE p    == Synchronized(o, eligible)
           lost == o.collisions * TxUs
           was  == o.inactiveSince = Never
<1>1. o \in Observations /\ lost \in Nat /\ Fits(o, lost, now)
  BY ObservationFields, Airtimes DEF Accounted
<1>2. CASE was <=> eligible
  BY <1>2 DEF Synchronized
<1>3. CASE ~was /\ eligible
  <2> DEFINE start == o.start + now - o.inactiveSince
  <2>1. p = [o EXCEPT !.start = start, !.lastAttemptEnd = now, !.localBusy = 0,
                      !.inactiveSince = Never]
    BY <1>3 DEF Synchronized
  <2>2. o.inactiveSince \in Nat /\ o.inactiveSince <= now /\ start \in Nat
    BY <1>1, <1>3, ObservationFields DEF Fits
  <2> HIDE DEF start
  <2>3. /\ p.inactiveSince = Never /\ p.lastAttemptEnd = now /\ p.localBusy = 0
        /\ p.otherBusy = o.otherBusy /\ p.start = start /\ p.attempts = o.attempts
        /\ p.collisions = o.collisions /\ p.effective = o.effective
        /\ p.ownBusy = o.ownBusy
    BY <1>1, <2>1 DEF Observations
  <2> HIDE DEF p
  <2>4. p \in Observations
    BY <1>1, <2>1, <2>2, JoiningObservation
  <2>5. ASSUME NEW l \in Nat, Fits(o, l, now) PROVE Fits(p, l, now)
    BY <1>1, <1>3, <2>2, <2>3, <2>5, ObservationFields DEF Fits, Until, Never, start
  <2> QED
    BY <1>1, <1>3, <2>3, <2>4, <2>5 DEF Accounted, p
<1>4. CASE was /\ ~eligible
  <2>1. p = [o EXCEPT !.inactiveSince = now, !.localBusy = 0]
    BY <1>4 DEF Synchronized
  <2>2. /\ p.inactiveSince = now /\ p.lastAttemptEnd = o.lastAttemptEnd
        /\ p.otherBusy = o.otherBusy /\ p.start = o.start /\ p.attempts = o.attempts
        /\ p.collisions = o.collisions /\ p.effective = o.effective
        /\ p.ownBusy = o.ownBusy
    BY <1>1, <2>1 DEF Observations
  <2>3. p \in Observations
    BY <1>1, <2>1, LeavingObservation
  <2> HIDE DEF p
  <2>4. ASSUME NEW l \in Nat, Fits(o, l, now) PROVE Fits(p, l, now)
    BY <1>1, <1>4, <2>2, <2>4, ObservationFields DEF Fits, Until, Never
  <2> QED
    BY <1>1, <1>4, <2>2, <2>3, <2>4 DEF Accounted, p, Never
<1> QED
  BY <1>2, <1>3, <1>4

LEMMA AttemptAccounted ==
  ASSUME ChannelTypeOK, NEW n \in Node, NEW o, NEW end,
         now \in Nat, RoundStart \in Nat, now <= RoundStart, end = RoundStart + TxUs,
         o.inactiveSince = Never, Accounted(o, now)
  PROVE  /\ Accounted(RecordsAttempt(n, o, end), end)
         /\ RecordsAttempt(n, o, end).inactiveSince = Never
         /\ RecordsAttempt(n, o, end).attempts = o.attempts + 1
<1> DEFINE p    == RecordsAttempt(n, o, end)
           c    == Collides
           data == Effective(n, RoundStart)
           lost == o.collisions * TxUs
<1>1. o \in Observations /\ lost \in Nat /\ Fits(o, lost, now) /\ TxUs \in Nat /\ end \in Nat
  BY ObservationFields, Airtimes, TimingAssumption DEF Accounted
<1>2. data \in Nat /\ data <= TxUs
  BY EffectiveType
<1> DEFINE recorded   == IF o.recorded >= ReadyAttempts THEN o.recorded ELSE o.recorded + 1
           attempts   == o.attempts + 1
           collisions == IF c THEN o.collisions + 1 ELSE o.collisions
           effective  == o.effective + (IF c THEN 0 ELSE data)
           own        == IF c THEN o.ownBusy ELSE o.ownBusy + TxUs
<1>3. p = [o EXCEPT !.recorded = recorded, !.lastAttemptEnd = end, !.localBusy = 0,
                    !.attempts = attempts, !.collisions = collisions,
                    !.effective = effective, !.ownBusy = own]
  BY DEF RecordsAttempt, Attempt, Ready
<1> HIDE DEF c, data
<1>4. /\ recorded \in Nat /\ attempts \in Nat /\ collisions \in Nat
      /\ effective \in Nat /\ own \in Nat
  BY <1>1, <1>2, ObservationFields
<1>5. attempts * TxUs = own + collisions * TxUs
  <2> DEFINE used == o.attempts * TxUs
  <2>1. /\ used = o.ownBusy + lost
        /\ attempts * TxUs = used + TxUs
        /\ (o.collisions + 1) * TxUs = lost + TxUs
        /\ o.ownBusy \in Nat
    BY <1>1, ObservationFields, Airtimes DEF Accounted
  <2>2. CASE c
    BY <1>1, <2>1, <2>2
  <2>3. CASE ~c
    BY <1>1, <2>1, <2>3
  <2> QED
    BY <2>2, <2>3
<1>6. collisions * TxUs = IF c THEN lost + TxUs ELSE lost
  BY <1>1, ObservationFields, Airtimes
<1> DEFINE lostNow == IF c THEN lost + TxUs ELSE lost
<1>7. /\ o.effective \in Nat /\ o.ownBusy \in Nat /\ o.otherBusy \in Nat /\ o.start \in Nat
      /\ o.effective <= o.ownBusy /\ o.ownBusy + o.otherBusy + lost <= now - o.start
  BY <1>1, ObservationFields DEF Fits, Until
<1>8. effective <= own /\ own + o.otherBusy + lostNow <= end - o.start
  <2> HIDE DEF lost
  <2>1. CASE c
    BY <1>1, <1>2, <1>7, <2>1
  <2>2. CASE ~c
    BY <1>1, <1>2, <1>7, <2>2
  <2> QED
    BY <2>1, <2>2
<1> HIDE DEF recorded, attempts, collisions, effective, own
<1>9. /\ p.inactiveSince = Never /\ p.lastAttemptEnd = end /\ p.localBusy = 0
      /\ p.otherBusy = o.otherBusy /\ p.start = o.start /\ p.attempts = attempts
      /\ p.collisions = collisions /\ p.effective = effective /\ p.ownBusy = own
  BY <1>1, <1>3 DEF Observations
<1> HIDE DEF p
<1>10. p \in Observations
  BY <1>1, <1>3, <1>4, AttemptObservation
<1>11. Fits(p, lostNow, end)
  <2> HIDE DEF lostNow
  <2> QED
    BY <1>1, <1>8, <1>9 DEF Fits, Until, Never
<1> QED
  BY <1>5, <1>6, <1>9, <1>10, <1>11 DEF Accounted, p, attempts

LEMMA DecisionAccounted ==
  ASSUME NEW o, NEW t \in Nat, Accounted(o, t)
  PROVE  /\ Accounted(ResetsInterval(o, t), t)
         /\ ResetsInterval(o, t).inactiveSince = Never <=> o.inactiveSince = Never
         /\ ResetsInterval(o, t).attempts = 0
<1> DEFINE p == ResetsInterval(o, t)
           g == IF o.inactiveSince = Never THEN Never ELSE t
<1>1. o \in Observations /\ Fits(o, o.collisions * TxUs, t)
  BY DEF Accounted
<1>2. p = [o EXCEPT !.inactiveSince = g, !.start = t, !.attempts = 0, !.collisions = 0,
                    !.effective = 0, !.ownBusy = 0, !.otherBusy = 0]
  BY DEF ResetsInterval
<1>3. g \in Nat \cup {Never} /\ (g = Never <=> o.inactiveSince = Never) /\ g <= t
  BY DEF Never
<1> HIDE DEF g
<1>4. /\ p.inactiveSince = g /\ p.lastAttemptEnd = o.lastAttemptEnd
      /\ p.localBusy = o.localBusy /\ p.otherBusy = 0 /\ p.start = t /\ p.attempts = 0
      /\ p.collisions = 0 /\ p.effective = 0 /\ p.ownBusy = 0
  BY <1>1, <1>2 DEF Observations
<1> HIDE DEF p
<1>5. p \in Observations
  BY <1>1, <1>2, <1>3, DecidedObservation
<1>6. g = Never \/ g = t
  BY DEF g
<1>7. Fits(p, 0, t)
  BY <1>1, <1>3, <1>4, <1>6 DEF Fits, Until, Never
<1> QED
  BY <1>3, <1>4, <1>5, <1>7, Airtimes DEF Accounted, p

-----------------------------------------------------------------------------
(* The invariant *)

(* A countdown drawn under another arm than the one in force is the first   *)
(* of its interval.                                                         *)
DrawsAreCredited ==
    \A n \in Adaptive :
        /\ staleAttempts[n] <= 1
        /\ armAtDraw[n] # arm[n] => observed[n].attempts = 0 /\ staleAttempts[n] = 0

AccountingInv ==
    /\ ArmIsInForce
    /\ DrawsAreCredited
    /\ \A n \in Adaptive : Accounted(observed[n], now)

LEMMA AdaptiveNodes == Adaptive \subseteq Node
  BY DEF Adaptive

(* An attempt that ends late enough after what was overheard is accepted.   *)
LEMMA LateAttemptAccepted ==
  ASSUME NEW n, NEW o, NEW end \in Nat,
         o.lastAttemptEnd \in Nat, o.localBusy \in Nat,
         Effective(n, RoundStart) \in Nat, Effective(n, RoundStart) <= TxUs,
         TxUs \in Nat \ {0}, o.lastAttemptEnd + o.localBusy + TxUs <= end
  PROVE  IsAttemptRecord(Attempt(n, o, end))
<1> DEFINE a == Attempt(n, o, end)
<1>1. /\ a.elapsed = end - o.lastAttemptEnd
      /\ a.busy = (IF o.localBusy <= end - o.lastAttemptEnd THEN o.localBusy
                   ELSE end - o.lastAttemptEnd)
      /\ a.effective = (IF Collides THEN 0 ELSE Effective(n, RoundStart))
  BY DEF Attempt
<1> HIDE DEF a
<1>2. a.elapsed > 0 /\ a.busy <= a.elapsed /\ a.effective <= a.elapsed
  BY <1>1
<1>3. IsAttemptRecord(a)
  BY <1>2 DEF IsAttemptRecord
<1> QED
  BY <1>3 DEF a

(* The attempt that a contender may end the next round with is accepted.    *)
LEMMA AttemptsAreAccepted ==
  ASSUME ControllerTypeOK, AccountingInv, NEW n \in Adaptive, n \in Eligible
  PROVE  IsAttemptRecord(Attempt(n, observed[n], RoundEnd))
<1> DEFINE o == observed[n]
<1>1. /\ ChannelTypeOK /\ now \in Nat /\ n \in Node /\ Eligible # {}
      /\ o \in Observations /\ o.lastAttemptEnd \in Nat /\ o.localBusy \in Nat
  BY AdaptiveNodes, ObservationFields DEF ControllerTypeOK, ChannelTypeOK
<1>2. o.lastAttemptEnd + o.localBusy <= now
  BY DEF AccountingInv, ArmIsInForce, Accounted, Fits
<1>3. /\ RoundStart \in Nat /\ now <= RoundStart /\ TxUs \in Nat \ {0}
      /\ Effective(n, RoundStart) \in Nat /\ Effective(n, RoundStart) <= TxUs
  BY <1>1, CountdownType, EffectiveType, TimingAssumption DEF ChannelTypeOK
<1> HIDE DEF o
<1>4. RoundEnd \in Nat /\ o.lastAttemptEnd + o.localBusy + TxUs <= RoundEnd
  BY <1>1, <1>2, <1>3
<1>5. IsAttemptRecord(Attempt(n, o, RoundEnd))
  BY <1>1, <1>3, <1>4, LateAttemptAccepted
<1> QED
  BY <1>5 DEF o

(* So is the reward of an interval with an attempt.                         *)
LEMMA IntervalsAreRewarded ==
  ASSUME NEW o, NEW t \in Nat, Accounted(o, t)
  PROVE  LET i == Interval(o, t) IN
         /\ i.shared + i.collisions * TxUs <= i.elapsed
         /\ i.attempts * TxUs = i.own + i.collisions * TxUs
         /\ i.attempts > 0 => IsRewarded(i)
<1> DEFINE i    == Interval(o, t)
           lost == o.collisions * TxUs
           used == o.attempts * TxUs
<1>1. /\ o \in Observations /\ lost \in Nat /\ used \in Nat
      /\ o.collisions \in Nat /\ o.attempts \in Nat
      /\ o.effective \in Nat /\ o.ownBusy \in Nat /\ o.otherBusy \in Nat
  BY ObservationFields, Airtimes DEF Accounted
<1>2. /\ o.effective <= o.ownBusy /\ used = o.ownBusy + lost
      /\ o.ownBusy + o.otherBusy + lost <= Until(o, t) - o.start
  BY DEF Accounted, Fits
<1>3. /\ i.elapsed = Until(o, t) - o.start /\ i.effective = o.effective
      /\ i.own = o.ownBusy /\ i.shared = o.ownBusy + o.otherBusy
      /\ i.collisions = o.collisions /\ i.attempts = o.attempts
  BY DEF Interval, Until
<1>4. Until(o, t) - o.start \in Int
  BY <1>1, ObservationFields DEF Until, Never
<1>5. o.attempts > 0 => used > 0
  <2>1. o.attempts > 0 => 0 * TxUs < used
    BY <1>1, AirtimesAreOrdered
  <2> QED BY <2>1, Airtimes
<1>6. o.attempts < o.collisions => used < lost
  BY <1>1, AirtimesAreOrdered
<1> HIDE DEF i, lost, used
<1>7. o.attempts > 0 => IsRewarded(i)
  BY <1>1, <1>2, <1>3, <1>4, <1>5, <1>6 DEF IsRewarded
<1>8. i.shared + lost <= i.elapsed /\ used = i.own + lost
  BY <1>2, <1>3
<1> QED
  BY <1>3, <1>7, <1>8 DEF i, lost, used

LEMMA InvImpliesProperties ==
  ASSUME ControllerTypeOK, AccountingInv
  PROVE  BusyFitsAttempt /\ RewardFitsInterval /\ RewardsOwnDraws
<1>1. BusyFitsAttempt
  BY AttemptsAreAccepted DEF BusyFitsAttempt, AccountingInv, ArmIsInForce, Accounted, Fits
<1>2. RewardFitsInterval
  <2>1. now \in Nat
    BY DEF ControllerTypeOK, ChannelTypeOK
  <2> QED
    BY <2>1, IntervalsAreRewarded DEF RewardFitsInterval, AccountingInv, Accounted, Fits
<1>3. RewardsOwnDraws
  BY DEF AccountingInv, RewardsOwnDraws, DrawsAreCredited
<1> QED
  BY <1>1, <1>2, <1>3

(* Every operation starts with a _synchronize_all that has nothing to do.   *)
LEMMA NothingToSynchronize ==
  ASSUME ControllerTypeOK, AccountingInv
  PROVE  SynchronizeAll = observed
<1>1. observed \in [Adaptive -> Observations] /\ now \in Nat
  BY DEF ControllerTypeOK, ChannelTypeOK
<1>2. ASSUME NEW n \in Adaptive PROVE Synchronized(observed[n], n \in Eligible) = observed[n]
  BY DEF AccountingInv, ArmIsInForce, Synchronized
<1> QED
  BY <1>1, <1>2 DEF SynchronizeAll

LEMMA AfterRoundAccounted ==
  ASSUME ControllerTypeOK, AccountingInv, ChannelRound, NEW n \in Adaptive
  PROVE  LET after == AfterRound(n, now') IN
         /\ Accounted(after, now')
         /\ after.inactiveSince = Never <=> n \in Eligible
         /\ after.attempts = IF n \in Expiring THEN observed[n].attempts + 1
                             ELSE observed[n].attempts
         /\ now' = RoundStart + TxUs /\ now' \in Nat
<1> DEFINE o   == observed[n]
           end == RoundStart + TxUs
<1>1. /\ ChannelTypeOK /\ TypeOK /\ now \in Nat /\ Round
      /\ now' = end /\ o \in Observations /\ n \in Node
  BY AdaptiveNodes DEF ControllerTypeOK, ChannelTypeOK, ChannelRound
<1>2. /\ RoundStart \in Nat /\ now <= RoundStart /\ TxUs \in Nat /\ end \in Nat
      /\ now + TxUs <= end /\ now <= end
  BY <1>1, RoundStartType, TimingAssumption
<1>3. Expiring \subseteq Eligible
  BY <1>1, RoundEffect
<1>4. Accounted(o, now) /\ (o.inactiveSince = Never <=> n \in Eligible)
  BY DEF AccountingInv, ArmIsInForce
<1>5. AfterRound(n, end) = IF n \in Expiring THEN RecordsAttempt(n, o, end)
                           ELSE IF n \in Eligible THEN OverhearsBusy(o, TxUs) ELSE o
  BY NothingToSynchronize DEF AfterRound
<1> HIDE DEF end
<1>6. CASE n \in Expiring
  BY <1>1, <1>2, <1>3, <1>4, <1>5, <1>6, AttemptAccounted DEF end
<1>7. CASE n \in Eligible \ Expiring
  <2>1. Accounted(OverhearsBusy(o, TxUs), end)
    BY <1>1, <1>2, <1>4, <1>7, BusyAccounted
  <2>2. /\ OverhearsBusy(o, TxUs).inactiveSince = o.inactiveSince
        /\ OverhearsBusy(o, TxUs).attempts = o.attempts
    BY <1>1 DEF OverhearsBusy, Observations
  <2> QED
    BY <1>1, <1>2, <1>4, <1>5, <1>7, <2>1, <2>2 DEF end
<1>8. CASE n \notin Eligible
  BY <1>1, <1>2, <1>3, <1>4, <1>5, <1>8, TimePasses DEF end
<1> QED
  BY <1>6, <1>7, <1>8

-----------------------------------------------------------------------------
(* Preservation *)

LEMMA InitAccounting == ControllerInit => ControllerTypeOK /\ AccountingInv
<1> SUFFICES ASSUME ControllerInit PROVE ControllerTypeOK /\ AccountingInv
  OBVIOUS
<1>1. ChannelInit /\ ChannelTypeOK /\ now = 0
  BY InitTypeOK DEF ControllerInit, ChannelInit, ChannelTypeOK, NoResult, Never
<1>2. ASSUME NEW n \in Adaptive
      PROVE  /\ observed[n] \in Observations /\ Accounted(observed[n], now)
             /\ observed[n].inactiveSince = Never <=> n \in Eligible
             /\ observed[n].attempts = 0
  <2> DEFINE e == n \in Eligible
             o == observed[n]
  <2>1. o = InitialObservation(e)
    BY DEF ControllerInit
  <2>2. e \in BOOLEAN
    OBVIOUS
  <2> HIDE DEF e
  <2>3. /\ o.inactiveSince = IF e THEN Never ELSE 0
        /\ o.lastAttemptEnd = 0 /\ o.localBusy = 0 /\ o.start = 0 /\ o.attempts = 0
        /\ o.collisions = 0 /\ o.effective = 0 /\ o.ownBusy = 0 /\ o.otherBusy = 0
        /\ o \in Observations
    BY <2>1, <2>2 DEF InitialObservation, Observations, Never
  <2> HIDE DEF o
  <2>4. Fits(o, 0, 0)
    BY <2>2, <2>3 DEF Fits, Until, Never
  <2> QED
    BY <1>1, <2>2, <2>3, <2>4, Airtimes DEF Accounted, Never, e, o
<1>3. ControllerTypeOK
  BY <1>1, <1>2 DEF ControllerInit, ControllerTypeOK
<1>4. ArmIsInForce
  BY <1>1, <1>2, ProfileAssumption, AdaptiveNodes
     DEF ControllerInit, ChannelInit, Init, ArmIsInForce
<1>5. DrawsAreCredited
  BY DEF ControllerInit, DrawsAreCredited
<1> QED
  BY <1>2, <1>3, <1>4, <1>5 DEF AccountingInv

LEMMA StepAccounting ==
  ASSUME ControllerTypeOK, AccountingInv, ControllerStep
  PROVE  ControllerTypeOK' /\ AccountingInv'
<1> DEFINE after(n)   == AfterRound(n, now')
           decides(n) == Decides(n, now')
<1>1. /\ ChannelRound /\ ChannelTypeOK /\ TypeOK /\ Round
      /\ now' = RoundStart + TxUs
      /\ arm \in [Adaptive -> Arms \cup {NoArm}]
      /\ armAtDraw \in [Adaptive -> Arms \cup {NoArm}]
      /\ staleAttempts \in [Adaptive -> Nat] /\ observed \in [Adaptive -> Observations]
      /\ Adaptive' = Adaptive
  BY DEF ControllerStep, ChannelRound, ControllerTypeOK, ChannelTypeOK, Adaptive
<1>2. ASSUME NEW n \in Adaptive
      PROVE  /\ Accounted(after(n), now') /\ now' \in Nat
             /\ after(n).inactiveSince = Never <=> n \in Eligible
             /\ after(n).attempts = IF n \in Expiring THEN observed[n].attempts + 1
                                    ELSE observed[n].attempts
  BY <1>1, AfterRoundAccounted
<1>3. PICK choice \in [Adaptive -> Arms] :
         /\ arm' = [n \in Adaptive |-> IF decides(n) THEN choice[n] ELSE arm[n]]
         /\ profile' = [n \in Node |-> IF n \in Adaptive /\ decides(n)
                                       THEN ArmProfile[choice[n]] ELSE profile[n]]
  BY <1>1 DEF ControllerStep
<1>4. /\ observed' = [n \in Adaptive |-> IF decides(n) THEN ResetsInterval(after(n), now')
                                         ELSE after(n)]
      /\ armAtDraw' = [n \in Adaptive |-> IF n \in Expiring THEN arm[n] ELSE armAtDraw[n]]
      /\ staleAttempts' = [n \in Adaptive |->
            IF decides(n) THEN 0
            ELSE IF n \in Expiring /\ armAtDraw[n] # arm[n] THEN staleAttempts[n] + 1
            ELSE staleAttempts[n]]
  BY <1>1 DEF ControllerStep
<1> HIDE DEF after, decides
<1>5. ASSUME NEW n \in Adaptive
      PROVE  /\ Accounted(observed'[n], now')
             /\ observed'[n].inactiveSince = Never <=> n \in Eligible
             /\ observed'[n].attempts = IF decides(n) THEN 0 ELSE after(n).attempts
  BY <1>2, <1>4, DecisionAccounted
<1>6. profile' \in [Node -> Profiles]
  BY <1>1, <1>3, ControllerAssumption DEF TypeOK
<1>7. ChannelTypeOK'
  BY <1>1, <1>6, RoundChannelTypeOK
<1>8. observed' \in [Adaptive -> Observations]
  BY <1>4, <1>5 DEF Accounted
<1>9. ControllerTypeOK'
  BY <1>1, <1>3, <1>4, <1>7, <1>8 DEF ControllerTypeOK
<1>10. Eligible' = Eligible
  BY <1>1 DEF Round, Eligible, membership
<1>11. ArmIsInForce'
  <2>1. ASSUME NEW n \in Adaptive
        PROVE  profile'[n] = IF arm'[n] = NoArm THEN DefaultProfile ELSE ArmProfile[arm'[n]]
    <3>1. n \in Node
      BY AdaptiveNodes
    <3>2. CASE decides(n)
      BY <1>3, <3>1, <3>2, ControllerAssumption
    <3>3. CASE ~decides(n)
      BY <1>3, <3>1, <3>3 DEF AccountingInv, ArmIsInForce
    <3> QED
      BY <3>2, <3>3
  <2> QED
    BY <1>1, <1>5, <1>10, <2>1 DEF ArmIsInForce
<1>12. DrawsAreCredited'
  <2>1. ASSUME NEW n \in Adaptive
        PROVE  /\ staleAttempts'[n] <= 1
               /\ armAtDraw'[n] # arm'[n] => observed'[n].attempts = 0 /\ staleAttempts'[n] = 0
    <3>1. /\ staleAttempts[n] <= 1
          /\ armAtDraw[n] # arm[n] => observed[n].attempts = 0 /\ staleAttempts[n] = 0
      BY DEF AccountingInv, DrawsAreCredited
    <3>2. CASE decides(n)
      BY <1>4, <1>5, <3>2
    <3>3. CASE ~decides(n) /\ n \in Expiring
      BY <1>3, <1>4, <3>1, <3>3
    <3>4. CASE ~decides(n) /\ n \notin Expiring
      BY <1>2, <1>3, <1>4, <1>5, <3>1, <3>4
    <3> QED
      BY <3>2, <3>3, <3>4
  <2> QED
    BY <1>1, <2>1 DEF DrawsAreCredited
<1> QED
  BY <1>1, <1>5, <1>9, <1>11, <1>12 DEF AccountingInv

LEMMA BusyAccounting ==
  ASSUME ControllerTypeOK, AccountingInv, NEW d \in BusyDurations, ControllerBusy(d)
  PROVE  ControllerTypeOK' /\ AccountingInv'
<1>1. /\ ChannelTypeOK /\ ChannelBusy(d) /\ observed \in [Adaptive -> Observations]
      /\ now \in Nat /\ d \in Nat /\ now' = now + d
      /\ UNCHANGED <<membership, profile, arm, armAtDraw, staleAttempts>>
      /\ Adaptive' = Adaptive /\ Eligible' = Eligible
  BY TimingAssumption
     DEF ControllerTypeOK, ChannelTypeOK, ControllerBusy, ChannelBusy, ApplyBackgroundBusy,
         Adaptive, Eligible, membership
<1>2. observed' = [n \in Adaptive |-> IF n \in Eligible THEN OverhearsBusy(observed[n], d)
                                      ELSE observed[n]]
  BY NothingToSynchronize DEF ControllerBusy
<1>3. ASSUME NEW n \in Adaptive
      PROVE  /\ Accounted(observed'[n], now')
             /\ observed'[n].inactiveSince = observed[n].inactiveSince
             /\ observed'[n].attempts = observed[n].attempts
  <2>1. Accounted(observed[n], now) /\ (observed[n].inactiveSince = Never <=> n \in Eligible)
    BY DEF AccountingInv, ArmIsInForce
  <2>2. CASE n \in Eligible
    <3>1. Accounted(OverhearsBusy(observed[n], d), now')
      BY <1>1, <2>1, <2>2, BusyAccounted
    <3>2. observed[n] \in Observations
      BY <1>1
    <3> QED
      BY <1>2, <2>2, <3>1, <3>2 DEF OverhearsBusy, Observations
  <2>3. CASE n \notin Eligible
    BY <1>1, <1>2, <2>1, <2>3, TimePasses
  <2> QED
    BY <2>2, <2>3
<1>4. ChannelTypeOK'
  BY <1>1, BusyChannelTypeOK
<1>5. observed' \in [Adaptive -> Observations]
  BY <1>2, <1>3 DEF Accounted
<1>6. ControllerTypeOK'
  BY <1>1, <1>4, <1>5 DEF ControllerTypeOK
<1>7. ArmIsInForce' /\ DrawsAreCredited'
  BY <1>1, <1>3 DEF AccountingInv, ArmIsInForce, DrawsAreCredited
<1> QED
  BY <1>1, <1>3, <1>6, <1>7 DEF AccountingInv

LEMMA ChangeAccounting ==
  ASSUME ControllerTypeOK, AccountingInv, NEW m \in Node, ControllerChange(m)
  PROVE  ControllerTypeOK' /\ AccountingInv'
<1>1. /\ ChannelTypeOK /\ TypeOK /\ observed \in [Adaptive -> Observations]
      /\ now \in Nat /\ Adaptive' = Adaptive
      /\ UNCHANGED <<clock, arm, staleAttempts, profile>>
  BY DEF ControllerTypeOK, ChannelTypeOK, ControllerChange, ClearBacklogged, SetBacklogged,
         SetActive, Adaptive
<1>2. Next
  BY DEF ControllerChange, Next
<1>3. ChannelTypeOK' /\ now' = now
  BY <1>1, <1>2, ChangeChannelTypeOK DEF clock
<1>4. armAtDraw' \in [Adaptive -> Arms \cup {NoArm}]
      /\ \A n \in Adaptive : armAtDraw'[n] = armAtDraw[n] \/ armAtDraw'[n] = arm[n]
  BY DEF ControllerChange, ControllerTypeOK
<1>5. ASSUME NEW n \in Node, n # m PROVE n \in Eligible' <=> n \in Eligible
  BY <1>5 DEF ControllerChange, ClearBacklogged, SetBacklogged, SetActive, Eligible,
              ControllerTypeOK, ChannelTypeOK, TypeOK
<1>6. ASSUME NEW n \in Adaptive
      PROVE  /\ Accounted(observed'[n], now')
             /\ observed'[n].inactiveSince = Never <=> n \in Eligible'
             /\ observed'[n].attempts = observed[n].attempts
  <2>1. /\ Accounted(observed[n], now)
        /\ observed[n].inactiveSince = Never <=> n \in Eligible
    BY DEF AccountingInv, ArmIsInForce
  <2>2. CASE m \in Adaptive
    <3> DEFINE e == n \in Eligible'
    <3>1. observed'[n] = Synchronized(observed[n], e)
      BY <2>2, NothingToSynchronize DEF ControllerChange
    <3>2. e \in BOOLEAN
      OBVIOUS
    <3> HIDE DEF e
    <3>3. /\ Accounted(observed'[n], now)
          /\ observed'[n].inactiveSince = Never <=> e
          /\ observed'[n].attempts = observed[n].attempts
      BY <1>1, <2>1, <3>1, <3>2, SynchronizedAccounted
    <3> QED
      BY <1>3, <3>3 DEF e
  <2>3. CASE m \notin Adaptive
    <3>1. observed' = observed
      BY <2>3 DEF ControllerChange
    <3>2. n \in Eligible' <=> n \in Eligible
      BY <1>5, <2>3, AdaptiveNodes
    <3> QED
      BY <1>3, <2>1, <3>1, <3>2
  <2> QED
    BY <2>2, <2>3
<1>7. observed' \in [Adaptive -> Observations]
  <2>1. \A n \in Adaptive : observed'[n] \in Observations
    BY <1>6 DEF Accounted
  <2>2. observed' = [n \in Adaptive |-> observed'[n]]
    BY <1>1 DEF ControllerChange
  <2> QED
    BY <2>1, <2>2
<1>8. ControllerTypeOK'
  BY <1>1, <1>3, <1>4, <1>7 DEF ControllerTypeOK
<1>9. ArmIsInForce' /\ DrawsAreCredited'
  BY <1>1, <1>4, <1>6 DEF AccountingInv, ArmIsInForce, DrawsAreCredited
<1> QED
  BY <1>1, <1>6, <1>8, <1>9 DEF AccountingInv

LEMMA IdleAccounting ==
  ASSUME ControllerTypeOK, AccountingInv, ControllerIdle
  PROVE  ControllerTypeOK' /\ AccountingInv'
<1>1. /\ ChannelTypeOK /\ now \in Nat /\ now' \in Nat /\ now <= now'
      /\ UNCHANGED <<membership, profile, arm, observed, armAtDraw, staleAttempts>>
      /\ Adaptive' = Adaptive /\ Eligible' = Eligible
  BY TimingAssumption
     DEF ControllerIdle, IdleTick, ControllerTypeOK, ChannelTypeOK, vars, Adaptive, Eligible,
         membership
<1>2. ControllerTypeOK'
  BY <1>1, IdleChannelTypeOK DEF ControllerIdle, ControllerTypeOK
<1>3. \A n \in Adaptive : Accounted(observed'[n], now')
  BY <1>1, TimePasses DEF AccountingInv
<1> QED
  BY <1>1, <1>2, <1>3 DEF AccountingInv, ArmIsInForce, DrawsAreCredited

LEMMA AccountingStep ==
  ASSUME ControllerTypeOK, AccountingInv, [ControllerNext]_ctrlVars
  PROVE  ControllerTypeOK' /\ AccountingInv'
<1>1. CASE UNCHANGED ctrlVars
  <2>1. ChannelTypeOK'
    BY <1>1, ChangeChannelTypeOK DEF ctrlVars, chanVars, ControllerTypeOK
  <2>2. /\ UNCHANGED <<now, membership, profile, arm, observed, armAtDraw, staleAttempts>>
        /\ Adaptive' = Adaptive /\ Eligible' = Eligible
    BY <1>1 DEF ctrlVars, chanVars, clock, vars, Adaptive, Eligible, membership
  <2> QED
    BY <2>1, <2>2 DEF ControllerTypeOK, AccountingInv, ArmIsInForce, DrawsAreCredited
<1> QED
  BY <1>1, StepAccounting, BusyAccounting, ChangeAccounting, IdleAccounting
     DEF ControllerNext

(* The controller's state is typed and accounts for the time.               *)
THEOREM Accounting == ControllerSpec => [](ControllerTypeOK /\ AccountingInv)
  BY InitAccounting, AccountingStep, PTL DEF ControllerSpec

(* The profile in force is the arm's, timing follows eligibility, no attempt *)
(* overhears more than the time it took and no reward interval attributes    *)
(* more than its eligible time.                                              *)
THEOREM AccountsAgree == ControllerSpec => []AccountsFit
<1>1. ControllerTypeOK /\ AccountingInv => AccountsFit
  BY InvImpliesProperties DEF AccountingInv, AccountsFit
<1> QED
  BY <1>1, Accounting, PTL

(* An arm is rewarded for its own draws, but for one.                       *)
THEOREM CreditedDraws == ControllerSpec => []RewardsOwnDraws
  BY Accounting, InvImpliesProperties, PTL
=============================================================================
