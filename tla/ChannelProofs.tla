---------------------------- MODULE ChannelProofs ----------------------------
(***************************************************************************)
(* Theorems about the channel, for every set of contenders, every profile  *)
(* and every timing.  Of Contention: the recovery state fits the draws, no *)
(* interruption is lost, and deterministic backoff converges to round      *)
(* robin.  Of Channel: the clock is typed, successes are exclusive and     *)
(* every round is waited for.                                              *)
(***************************************************************************)
EXTENDS Channel, FiniteSetTheorems, WellFoundedInduction, TLAPS

(* A set of natural numbers has a least one.                                *)
LEMMA LeastNumber ==
  ASSUME NEW T \in SUBSET Nat, T # {}
  PROVE  \E x \in T : \A y \in T : x <= y
<1>1. PICK x \in T : \A y \in T : <<y, x>> \notin OpToRel(<, Nat)
  BY NatLessThanWellFounded, WFMin, Zenon
<1>2. ASSUME NEW y \in T PROVE ~(y < x)
  BY <1>1 DEF OpToRel
<1> QED
  BY <1>2

LEMMA EligibleSubset == Eligible \subseteq Node /\ IsFiniteSet(Eligible)
  BY NodeAssumption, FS_Subset DEF Eligible

LEMMA ProfileFields ==
  ASSUME NEW p \in Profiles
  PROVE  /\ p.kappa \in Nat /\ p.beta \in Nat /\ p.m \in Nat /\ p.b_init \in Nat
         /\ 0 < p.beta /\ p.beta < p.kappa
  BY ProfileAssumption DEF RecoveryProfile

(* A nonempty set of countdowns has a smallest one. *)
LEMMA MinimumProperty ==
  ASSUME remaining \in [Node -> Nat], Eligible # {}
  PROVE  /\ Minimum \in Nat
         /\ \A n \in Eligible : Minimum <= remaining[n]
         /\ \E n \in Eligible : remaining[n] = Minimum
<1> DEFINE T == {remaining[n] : n \in Eligible}
           M == CHOOSE r \in T : \A n \in Eligible : r <= remaining[n]
<1>1. T \subseteq Nat /\ T # {}
  BY EligibleSubset
<1>2. PICK x \in T : \A y \in T : x <= y
  <2> HIDE DEF T
  <2> QED BY <1>1, LeastNumber
<1>3. \E r \in T : \A n \in Eligible : r <= remaining[n]
  BY <1>2
<1>4. M \in T /\ \A n \in Eligible : M <= remaining[n]
  BY <1>3
<1>5. Minimum = M
  BY DEF Minimum
<1> QED
  BY <1>1, <1>4, <1>5

(* So somebody expires, and exactly those at the minimum do. *)
LEMMA ExpiringProperty ==
  ASSUME remaining \in [Node -> Nat], Eligible # {}
  PROVE  /\ Expiring \subseteq Eligible /\ Expiring # {} /\ IsFiniteSet(Expiring)
         /\ \A n \in Eligible \ Expiring : remaining[n] > Minimum
  BY MinimumProperty, EligibleSubset, FS_Subset DEF Expiring
-----------------------------------------------------------------------------
(* Types *)

(* Every backoff that can be drawn is a natural number, and one drawn by    *)
(* the deterministic rule is Alpha plus the interruptions.                  *)
LEMMA DrawsType ==
  ASSUME TypeOK, NEW n \in Node, NEW r \in Nat, NEW w \in Nat, NEW fresh \in BOOLEAN
  PROVE  /\ Draws(n, r, w, fresh) \subseteq Nat
         /\ ~fresh /\ TakesDeterministic(n, r) =>
               Draws(n, r, w, fresh) = {Alpha + interruptions[n]}
<1>1. profile[n].b_init \in Nat /\ profile[n].m \in Nat
  BY ProfileFields DEF TypeOK
<1>2. PrimaryM - 1 \in Nat
  BY PrimaryAssumption
<1>3. Alpha + interruptions[n] \in Nat
  BY AlphaAssumption DEF TypeOK
<1>4. TakesDeterministic(n, r) => n \notin RandomLbt
  BY DEF TakesDeterministic, RandomLbt, Primary, Tmc
<1> QED
  BY <1>1, <1>2, <1>3, <1>4 DEF Draws

LEMMA AfterType ==
  ASSUME TypeOK, NEW n \in Node, NEW collision \in BOOLEAN
  PROVE  /\ RetriesAfter(n, collision) \in Nat
         /\ WindowAfter(n, collision) \in Nat
         /\ DrawsAfter(n, collision) \subseteq Nat
         /\ DeterministicAfter(n, collision) =>
               DrawsAfter(n, collision) = {Alpha + interruptions[n]}
<1>1. RetriesAfter(n, collision) \in Nat
  BY DEF RetriesAfter, TypeOK
<1>2. WindowAfter(n, collision) \in Nat
  BY WindowAssumption DEF WindowAfter, TypeOK
<1>3. RestartsInitial(n, collision) \in BOOLEAN
  BY DEF RestartsInitial, TypeOK
<1> QED
  BY <1>1, <1>2, <1>3, DrawsType DEF DrawsAfter, DeterministicAfter

(* What the rest of the proofs need to know of a contention round.          *)
LEMMA RoundEffect ==
  ASSUME TypeOK, Round
  PROVE  /\ Eligible # {} /\ Expiring # {} /\ Expiring \subseteq Eligible
         /\ selected' \in [Node -> Nat] /\ remaining' \in [Node -> Nat]
         /\ \A n \in Expiring :
               /\ selected'[n] \in DrawsAfter(n, Collides)
               /\ remaining'[n] = selected'[n]
         /\ \A n \in Node \ Expiring : selected'[n] = selected[n]
         /\ \A n \in Eligible \ Expiring :
               remaining'[n] = remaining[n] - Minimum /\ remaining[n] > Minimum
         /\ \A n \in Node \ Eligible : remaining'[n] = remaining[n]
<1>1. Eligible # {} /\ remaining \in [Node -> Nat] /\ Eligible \subseteq Node
  BY EligibleSubset DEF Round, TypeOK
<1>2. Expiring # {} /\ Expiring \subseteq Eligible
  BY <1>1, ExpiringProperty
<1>3. PICK draw : /\ \A n \in Expiring : draw[n] \in DrawsAfter(n, Collides)
                  /\ Redraw(draw)
  BY DEF Round
<1>4. \A n \in Expiring : draw[n] \in Nat
  <2>1. Collides \in BOOLEAN
    BY DEF Collides
  <2>2. \A n \in Expiring : DrawsAfter(n, Collides) \subseteq Nat
    BY <1>1, <1>2, <2>1, AfterType, Zenon
  <2> QED
    BY <1>3, <2>2
<1>5. /\ Minimum \in Nat
      /\ \A n \in Eligible \ Expiring : remaining[n] > Minimum
  BY <1>1, MinimumProperty, ExpiringProperty
<1>6. selected' \in [Node -> Nat]
  BY <1>3, <1>4 DEF Redraw, TypeOK
<1>7. ASSUME NEW n \in Node
      PROVE  (IF n \in Expiring THEN draw[n]
              ELSE IF n \in Eligible THEN remaining[n] - Minimum
              ELSE remaining[n]) \in Nat
  BY <1>1, <1>4, <1>5
<1>8. remaining' \in [Node -> Nat]
  BY <1>3, <1>7 DEF Redraw
<1> QED
  BY <1>1, <1>2, <1>3, <1>5, <1>6, <1>8 DEF Redraw

LEMMA InitTypeOK == Init => TypeOK
  BY WindowAssumption, ProfileAssumption DEF Init, TypeOK

LEMMA RoundTypeOK ==
  ASSUME TypeOK, Round, profile' \in [Node -> Profiles]
  PROVE  TypeOK'
<1>1. selected' \in [Node -> Nat] /\ remaining' \in [Node -> Nat]
  BY RoundEffect
<1>2. interruptions' \in [Node -> Nat]
  BY DEF Round, TypeOK
<1>3. retries' \in [Node -> Nat] /\ window' \in [Node -> Nat]
  <2>1. Collides \in BOOLEAN
    BY DEF Collides
  <2>2. \A n \in Node : RetriesAfter(n, Collides) \in Nat /\ WindowAfter(n, Collides) \in Nat
    BY <2>1, AfterType, Zenon
  <2> QED
    BY <2>2 DEF Round, TypeOK
<1>4. deterministic' \in [Node -> BOOLEAN]
  <2>1. \A n \in Node : DeterministicAfter(n, Collides) \in BOOLEAN
    BY DEF DeterministicAfter, TakesDeterministic, RestartsInitial
  <2> QED
    BY <2>1 DEF Round, TypeOK
<1>5. initialized' \in [Node -> BOOLEAN]
  BY DEF Round, TypeOK
<1>6. senders' \in SUBSET Node
  BY RoundEffect, EligibleSubset DEF Round
<1>7. UNCHANGED membership
  BY DEF Round
<1> QED
  BY <1>1, <1>2, <1>3, <1>4, <1>5, <1>6, <1>7 DEF TypeOK, membership

LEMMA StepTypeOK == TypeOK /\ Step => TypeOK'
  BY RoundTypeOK DEF Step, TypeOK

LEMMA BusyTypeOK == TypeOK /\ ApplyBackgroundBusy => TypeOK'
  BY DEF TypeOK, ApplyBackgroundBusy, countdown, membership

LEMMA ProfileTypeOK ==
  ASSUME NEW n \in Node, NEW p \in Profiles
  PROVE  TypeOK /\ SetRecoveryProfile(n, p) => TypeOK'
  BY DEF TypeOK, SetRecoveryProfile, countdown, membership, recovery

LEMMA MembershipTypeOK ==
  ASSUME NEW n \in Node, NEW participates \in BOOLEAN
  PROVE  /\ TypeOK /\ ClearBacklogged(n) => TypeOK'
         /\ TypeOK /\ SetActive(n, participates) => TypeOK'
  BY DEF TypeOK, ClearBacklogged, SetActive, countdown, recovery

(* What a queue that refills does to the contender that owns it.            *)
LEMMA SetBackloggedEffect ==
  ASSUME TypeOK, NEW n \in Node, SetBacklogged(n)
  PROVE  \E fresh, flag \in BOOLEAN :
         /\ fresh <=> n \in Tmc /\ ~initialized[n]
         /\ flag <=> ~fresh /\ TakesDeterministic(n, retries[n])
         /\ \E draw \in Nat :
              /\ flag => draw = Alpha + interruptions[n]
              /\ selected' = [selected EXCEPT ![n] = draw]
              /\ remaining' = [remaining EXCEPT ![n] = draw]
         /\ deterministic' = [deterministic EXCEPT ![n] = flag]
         /\ interruptions' = [interruptions EXCEPT ![n] = IF flag THEN 0 ELSE @]
<1> DEFINE fresh == n \in Tmc /\ ~initialized[n]
           flag == ~fresh /\ TakesDeterministic(n, retries[n])
<1>1. fresh \in BOOLEAN /\ flag \in BOOLEAN
  BY DEF TakesDeterministic, TypeOK
<1>2. PICK draw \in Draws(n, retries[n], window[n], fresh) :
        /\ selected' = [selected EXCEPT ![n] = draw]
        /\ remaining' = [remaining EXCEPT ![n] = draw]
  BY DEF SetBacklogged
<1>3. retries[n] \in Nat /\ window[n] \in Nat
  BY DEF TypeOK
<1>4. /\ Draws(n, retries[n], window[n], fresh) \subseteq Nat
      /\ flag => Draws(n, retries[n], window[n], fresh) = {Alpha + interruptions[n]}
  <2> HIDE DEF fresh
  <2> QED BY <1>1, <1>3, DrawsType, Zenon
<1>5. draw \in Nat /\ (flag => draw = Alpha + interruptions[n])
  BY <1>2, <1>4
<1>6. /\ deterministic' = [deterministic EXCEPT ![n] = flag]
      /\ interruptions' = [interruptions EXCEPT ![n] = IF flag THEN 0 ELSE @]
  BY DEF SetBacklogged
<1> HIDE DEF flag
<1>7. \E d \in Nat :
        /\ flag => d = Alpha + interruptions[n]
        /\ selected' = [selected EXCEPT ![n] = d]
        /\ remaining' = [remaining EXCEPT ![n] = d]
  BY <1>2, <1>5, Zenon
<1>8. flag <=> ~fresh /\ TakesDeterministic(n, retries[n])
  BY DEF flag
<1> QED
  BY <1>1, <1>6, <1>7, <1>8, Zenon

LEMMA SetBackloggedTypeOK ==
  ASSUME NEW n \in Node
  PROVE  TypeOK /\ SetBacklogged(n) => TypeOK'
<1> SUFFICES ASSUME TypeOK, SetBacklogged(n) PROVE TypeOK'
  OBVIOUS
<1>1. /\ selected' \in [Node -> Nat] /\ remaining' \in [Node -> Nat]
      /\ deterministic' \in [Node -> BOOLEAN] /\ interruptions' \in [Node -> Nat]
  BY SetBackloggedEffect DEF TypeOK
<1> QED
  BY <1>1 DEF TypeOK, SetBacklogged

LEMMA NextTypeOK == TypeOK /\ [Next]_vars => TypeOK'
<1> SUFFICES ASSUME TypeOK, [Next]_vars PROVE TypeOK'
  OBVIOUS
<1>1. CASE Next
  BY <1>1, StepTypeOK, BusyTypeOK, ProfileTypeOK, MembershipTypeOK,
     SetBackloggedTypeOK DEF Next
<1>2. CASE UNCHANGED vars
  BY <1>2 DEF vars, TypeOK, countdown, membership, recovery
<1> QED
  BY <1>1, <1>2

(* Every operation of the channel keeps the types of the contention state.  *)
THEOREM Typing == Spec => []TypeOK
  BY InitTypeOK, NextTypeOK, PTL DEF Spec
-----------------------------------------------------------------------------
(* Recovery state *)

(* A contender without retries takes the deterministic branch, under every  *)
(* profile.                                                                 *)
LEMMA NoRetriesDeterministic ==
  ASSUME TypeOK, NEW n \in Primary \cup Tmc
  PROVE  TakesDeterministic(n, 0)
<1>1. \A k \in Nat \ {0} : 0 % k = 0
  OBVIOUS
<1>2. CASE n \in Primary
  BY <1>1, <1>2, PrimaryAssumption DEF TakesDeterministic
<1>3. CASE n \in Tmc
  <2>1. profile[n].kappa \in Nat /\ 0 < profile[n].beta /\ profile[n].beta < profile[n].kappa
        /\ profile[n].beta \in Nat
    BY <1>3, ProfileFields DEF TypeOK, Tmc
  <2> QED
    BY <1>1, <1>3, <2>1 DEF TakesDeterministic
<1> QED
  BY <1>2, <1>3

LEMMA InitRecoveryInv == Init => RecoveryState
  BY DEF Init, RecoveryState, StateIsValid, FlagMatchesDraw, CarriesOnlyThroughCollisions,
         Tmc, Primary

LEMMA RoundRecoveryInv ==
  ASSUME TypeOK, RecoveryState, Round
  PROVE  RecoveryState'
<1> DEFINE c == Collides
<1>1. c \in BOOLEAN /\ Expiring \subseteq Node /\ Eligible \subseteq Node
  BY EligibleSubset, RoundEffect DEF Collides
<1> HIDE DEF c
<1>2. \A n \in Expiring : DeterministicAfter(n, c) =>
        DrawsAfter(n, c) = {Alpha + interruptions[n]}
  BY <1>1, AfterType, Zenon
<1>3. \A n \in Node :
        /\ interruptions'[n] = IF n \in Expiring
              THEN IF DeterministicAfter(n, c) THEN 0 ELSE interruptions[n]
              ELSE IF n \in Eligible /\ RecordsInterruption(n) THEN interruptions[n] + 1
              ELSE interruptions[n]
        /\ retries'[n] = IF n \in Expiring THEN RetriesAfter(n, c) ELSE retries[n]
        /\ deterministic'[n] = IF n \in Expiring THEN DeterministicAfter(n, c)
                               ELSE deterministic[n]
        /\ initialized'[n] = (initialized[n] \/ (n \in Expiring \ RandomLbt /\ ~c))
  BY DEF Round, c
<1>4. StateIsValid'
  <2>1. ASSUME NEW n \in Node PROVE remaining'[n] <= selected'[n]
    <3>1. Minimum \in Nat
      BY RoundEffect, MinimumProperty DEF TypeOK
    <3>2. remaining[n] <= selected[n] /\ remaining[n] \in Nat /\ selected[n] \in Nat
      BY DEF RecoveryState, StateIsValid, TypeOK
    <3>3. CASE n \in Expiring
      BY <3>3, RoundEffect
    <3>4. CASE n \in Eligible \ Expiring
      BY <3>1, <3>2, <3>4, <1>1, RoundEffect
    <3>5. CASE n \notin Eligible
      BY <3>2, <3>5, RoundEffect
    <3> QED
      BY <3>3, <3>4, <3>5
  <2>2. ASSUME NEW n \in Tmc, ~initialized'[n]
        PROVE  ~deterministic'[n] /\ retries'[n] = 0 /\ interruptions'[n] = 0
    <3>1. n \in Node /\ n \notin RandomLbt
      BY DEF Tmc, RandomLbt
    <3>2. ~initialized[n] /\ (n \in Expiring => c)
      BY <1>3, <2>2, <3>1
    <3>3. ~deterministic[n] /\ retries[n] = 0 /\ interruptions[n] = 0
      BY <3>2 DEF RecoveryState, StateIsValid
    <3>4. CASE n \in Expiring
      <4>1. RestartsInitial(n, c)
        BY <3>2, <3>4 DEF RestartsInitial
      <4>2. RetriesAfter(n, c) = 0 /\ ~DeterministicAfter(n, c)
        BY <4>1, <3>3 DEF RetriesAfter, DeterministicAfter
      <4> QED
        BY <1>3, <3>1, <3>3, <3>4, <4>2
    <3>5. CASE n \notin Expiring
      BY <1>3, <3>1, <3>3, <3>5 DEF RecordsInterruption
    <3> QED
      BY <3>4, <3>5
  <2>3. Tmc' = Tmc
    BY DEF Tmc
  <2> QED
    BY <2>1, <2>2, <2>3 DEF StateIsValid
<1>5. FlagMatchesDraw'
  <2>1. ASSUME NEW n \in Node, deterministic'[n] PROVE selected'[n] >= Alpha
    <3>1. CASE n \in Expiring
      <4>1. selected'[n] = Alpha + interruptions[n]
        BY <1>2, <1>3, <2>1, <3>1, RoundEffect DEF c
      <4> QED
        BY <4>1, AlphaAssumption DEF TypeOK
    <3>2. CASE n \notin Expiring
      BY <1>3, <2>1, <3>2, RoundEffect DEF RecoveryState, FlagMatchesDraw
    <3> QED
      BY <3>1, <3>2
  <2>2. ASSUME NEW n \in Primary, retries'[n] > 0
        PROVE  deterministic'[n] <=> retries'[n] % PrimaryM < PrimaryBeta
    <3>1. n \in Node /\ n \notin Tmc
      BY DEF Primary, Tmc
    <3>2. CASE n \in Expiring
      BY <1>3, <2>2, <3>1, <3>2 DEF DeterministicAfter, RestartsInitial, TakesDeterministic
    <3>3. CASE n \notin Expiring
      BY <1>3, <2>2, <3>1, <3>3 DEF RecoveryState, FlagMatchesDraw
    <3> QED
      BY <3>2, <3>3
  <2> QED
    BY <2>1, <2>2 DEF FlagMatchesDraw, Primary
<1>6. CarriesOnlyThroughCollisions'
  <2>1. ASSUME NEW n \in Tmc, interruptions'[n] > 0, ~deterministic'[n]
        PROVE  retries'[n] > 0
    <3>1. n \in Node
      BY DEF Tmc
    <3>2. CASE n \in Expiring
      <4>1. ~DeterministicAfter(n, c) /\ interruptions[n] > 0
        BY <1>3, <2>1, <3>1, <3>2
      <4>2. ~RestartsInitial(n, c)
        BY <4>1 DEF RestartsInitial, RecoveryState, StateIsValid
      <4>3. ~TakesDeterministic(n, RetriesAfter(n, c))
        BY <4>1, <4>2 DEF DeterministicAfter
      <4>4. RetriesAfter(n, c) # 0 /\ RetriesAfter(n, c) \in Nat
        BY <1>1, <3>1, <4>3, NoRetriesDeterministic, AfterType
      <4> QED
        BY <1>3, <3>1, <3>2, <4>4
    <3>3. CASE n \notin Expiring
      BY <1>3, <2>1, <3>1, <3>3
         DEF RecordsInterruption, RecoveryState, CarriesOnlyThroughCollisions
    <3> QED
      BY <3>2, <3>3
  <2> QED
    BY <2>1 DEF CarriesOnlyThroughCollisions, Tmc
<1> QED
  BY <1>4, <1>5, <1>6 DEF RecoveryState

LEMMA BusyRecoveryInv == TypeOK /\ RecoveryState /\ ApplyBackgroundBusy => RecoveryState'
<1> SUFFICES ASSUME TypeOK, RecoveryState, ApplyBackgroundBusy PROVE RecoveryState'
  OBVIOUS
<1>1. /\ UNCHANGED <<selected, remaining, retries, initialized, deterministic>>
      /\ \A n \in Tmc : ~deterministic[n] => interruptions'[n] = interruptions[n]
  BY DEF ApplyBackgroundBusy, countdown, RecordsInterruption, Tmc
<1> QED
  BY <1>1 DEF RecoveryState, StateIsValid, FlagMatchesDraw, CarriesOnlyThroughCollisions,
              Tmc, Primary

LEMMA SetBackloggedRecoveryInv ==
  ASSUME NEW n \in Node
  PROVE  TypeOK /\ RecoveryState /\ SetBacklogged(n) => RecoveryState'
<1> SUFFICES ASSUME TypeOK, RecoveryState, SetBacklogged(n) PROVE RecoveryState'
  OBVIOUS
<1>1. PICK fresh \in BOOLEAN, flag \in BOOLEAN :
         /\ fresh <=> n \in Tmc /\ ~initialized[n]
         /\ flag <=> ~fresh /\ TakesDeterministic(n, retries[n])
         /\ \E draw \in Nat :
              /\ flag => draw = Alpha + interruptions[n]
              /\ selected' = [selected EXCEPT ![n] = draw]
              /\ remaining' = [remaining EXCEPT ![n] = draw]
         /\ deterministic' = [deterministic EXCEPT ![n] = flag]
         /\ interruptions' = [interruptions EXCEPT ![n] = IF flag THEN 0 ELSE @]
  BY SetBackloggedEffect, Zenon
<1>2. UNCHANGED <<retries, initialized>>
  BY DEF SetBacklogged
<1>3. PICK draw \in Nat :
              /\ flag => draw = Alpha + interruptions[n]
              /\ selected' = [selected EXCEPT ![n] = draw]
              /\ remaining' = [remaining EXCEPT ![n] = draw]
  BY <1>1
<1>4. StateIsValid'
  BY <1>1, <1>2, <1>3 DEF RecoveryState, StateIsValid, TypeOK, Tmc
<1>5. FlagMatchesDraw'
  <2>1. flag => draw >= Alpha
    BY <1>3, AlphaAssumption DEF TypeOK
  <2>2. n \in Primary => (flag <=> retries[n] % PrimaryM < PrimaryBeta)
    BY <1>1 DEF TakesDeterministic, Primary, Tmc
  <2> QED
    BY <1>1, <1>2, <1>3, <2>1, <2>2 DEF RecoveryState, FlagMatchesDraw, TypeOK, Primary
<1>6. CarriesOnlyThroughCollisions'
  <2>1. n \in Tmc /\ ~flag => interruptions[n] = 0 \/ retries[n] > 0
    <3> SUFFICES ASSUME n \in Tmc, ~flag PROVE interruptions[n] = 0 \/ retries[n] > 0
      OBVIOUS
    <3>1. CASE fresh
      BY <1>1, <3>1 DEF RecoveryState, StateIsValid
    <3>2. CASE ~fresh
      BY <1>1, <3>2, NoRetriesDeterministic DEF TypeOK
    <3> QED
      BY <3>1, <3>2
  <2> QED
    BY <1>1, <1>2, <2>1 DEF RecoveryState, CarriesOnlyThroughCollisions, TypeOK, Tmc
<1> QED
  BY <1>4, <1>5, <1>6 DEF RecoveryState

LEMMA NextRecoveryInv == TypeOK /\ RecoveryState /\ [Next]_vars => RecoveryState'
<1> SUFFICES ASSUME TypeOK, RecoveryState, [Next]_vars PROVE RecoveryState'
  OBVIOUS
<1>1. CASE Step
  BY <1>1, RoundRecoveryInv DEF Step
<1>2. CASE ApplyBackgroundBusy
  BY <1>2, BusyRecoveryInv
<1>3. CASE \E n \in Node : SetBacklogged(n)
  BY <1>3, SetBackloggedRecoveryInv
<1>4. ASSUME UNCHANGED <<countdown, recovery>> PROVE RecoveryState'
  BY <1>4 DEF RecoveryState, StateIsValid, FlagMatchesDraw, CarriesOnlyThroughCollisions,
              countdown, recovery, Tmc, Primary
<1>5. CASE \E n \in Node : ClearBacklogged(n)
  BY <1>4, <1>5 DEF ClearBacklogged
<1>6. CASE \E n \in Node : \E participates \in BOOLEAN : SetActive(n, participates)
  BY <1>4, <1>6 DEF SetActive
<1>7. CASE \E n \in Node : \E p \in Profiles : SetRecoveryProfile(n, p)
  BY <1>4, <1>7 DEF SetRecoveryProfile
<1>8. CASE UNCHANGED vars
  BY <1>4, <1>8 DEF vars
<1> QED
  BY <1>1, <1>2, <1>3, <1>5, <1>6, <1>7, <1>8 DEF Next

LEMMA RecoveryInvariance == Spec => [](TypeOK /\ RecoveryState)
<1>1. Init => TypeOK /\ RecoveryState
  BY InitTypeOK, InitRecoveryInv
<1>2. TypeOK /\ RecoveryState /\ [Next]_vars => (TypeOK /\ RecoveryState)'
  BY NextTypeOK, NextRecoveryInv
<1> QED
  BY <1>1, <1>2, PTL DEF Spec

(* Between two operations of the channel every contender's counters fit the *)
(* draw in force, so Node._validate_state never raises.                     *)
THEOREM RecoveryFitsDraw == Spec => []RecoveryState
  BY RecoveryInvariance, PTL

-----------------------------------------------------------------------------
(* Interruption ledger *)

LEMMA NextPays ==
  ASSUME TypeOK, [Next]_vars, NEW n \in Node
  PROVE  PaysInterruptions(n)
<1>1. CASE Step
  <2> DEFINE c == Collides
  <2>1. c \in BOOLEAN /\ Expiring \subseteq Node
    BY <1>1, EligibleSubset, RoundEffect DEF Step, Collides
  <2> HIDE DEF c
  <2>2. DeterministicAfter(n, c) => DrawsAfter(n, c) = {Alpha + interruptions[n]}
    BY <2>1, AfterType
  <2>3. /\ interruptions'[n] = IF n \in Expiring
              THEN IF DeterministicAfter(n, c) THEN 0 ELSE interruptions[n]
              ELSE IF n \in Eligible /\ RecordsInterruption(n) THEN interruptions[n] + 1
              ELSE interruptions[n]
        /\ deterministic'[n] = IF n \in Expiring THEN DeterministicAfter(n, c)
                               ELSE deterministic[n]
    BY <1>1 DEF Step, Round, c
  <2>4. CASE n \in Expiring /\ DeterministicAfter(n, c)
    BY <1>1, <2>2, <2>3, <2>4, RoundEffect DEF Step, PaysInterruptions, c
  <2>5. CASE ~(n \in Expiring /\ DeterministicAfter(n, c))
    BY <2>3, <2>5 DEF PaysInterruptions, TypeOK
  <2> QED
    BY <2>4, <2>5
<1>2. CASE \E k \in Node : SetBacklogged(k)
  <2>1. PICK k \in Node : SetBacklogged(k)
    BY <1>2
  <2> QED
    BY <2>1, SetBackloggedEffect DEF PaysInterruptions, TypeOK
<1>3. CASE ApplyBackgroundBusy
  BY <1>3 DEF ApplyBackgroundBusy, PaysInterruptions, TypeOK
<1>4. ASSUME UNCHANGED recovery PROVE PaysInterruptions(n)
  BY <1>4 DEF recovery, PaysInterruptions, TypeOK
<1>5. CASE \E k \in Node : ClearBacklogged(k)
  BY <1>4, <1>5 DEF ClearBacklogged
<1>6. CASE \E k \in Node : \E participates \in BOOLEAN : SetActive(k, participates)
  BY <1>4, <1>6 DEF SetActive
<1>7. CASE \E k \in Node : \E p \in Profiles : SetRecoveryProfile(k, p)
  BY <1>4, <1>7 DEF SetRecoveryProfile
<1>8. CASE UNCHANGED vars
  BY <1>4, <1>8 DEF vars
<1> QED
  BY <1>1, <1>2, <1>3, <1>5, <1>6, <1>7, <1>8 DEF Next

(* A counted interruption lengthens a later deterministic backoff by one.   *)
THEOREM InterruptionLedger == Spec => InterruptionsArePaid
<1>1. TypeOK /\ [Next]_vars => [\A n \in Node : PaysInterruptions(n)]_vars
  BY NextPays
<1> QED
  BY <1>1, Typing, PTL DEF Spec, InterruptionsArePaid

-----------------------------------------------------------------------------
(* Collision-free schedule *)

LEMMA ConvergedRound ==
  ASSUME TypeOK, Converged, Round
  PROVE  Rotates
<1> DEFINE N == Cardinality(Eligible)
<1>1. /\ Eligible \subseteq Node /\ IsFiniteSet(Eligible) /\ N \in Nat
      /\ Expiring \subseteq Eligible /\ Expiring # {}
      /\ \A n \in Eligible : Minimum <= remaining[n]
      /\ Minimum \in Nat
      /\ Alpha \in Nat \ {0}
  BY EligibleSubset, FS_CardinalityType, RoundEffect, MinimumProperty, AlphaAssumption
     DEF TypeOK
<1>2. \A n \in Eligible :
         /\ n \notin RandomLbt /\ deterministic[n]
         /\ remaining[n] \in 1 .. Alpha + N - 1
         /\ interruptions[n] + Cardinality(Ahead(n)) = N - 1
  BY DEF Converged
<1>3. \A n, k \in Eligible : remaining[n] = remaining[k] => n = k
  BY DEF Converged
<1>4. PICK s \in Eligible : Expiring = {s} /\ remaining[s] = Minimum
  <2>1. PICK s \in Eligible : s \in Expiring
    BY <1>1
  <2>2. \A n \in Expiring : n = s
    BY <1>3, <2>1 DEF Expiring
  <2> QED
    BY <2>1, <2>2 DEF Expiring
<1>5. ~Collides
  BY <1>4, FS_Singleton DEF Collides
<1>6. \A n \in Eligible \ {s} : remaining[n] > Minimum
  BY <1>3, <1>4, RoundEffect
<1>7. Ahead(s) = {} /\ interruptions[s] = N - 1
  <2>1. \A k \in Eligible : remaining[k] \in Nat /\ remaining[s] <= remaining[k]
    BY <1>1, <1>4 DEF TypeOK
  <2>2. \A k \in Eligible : ~(remaining[k] < remaining[s])
    BY <2>1
  <2>3. Ahead(s) = {}
    BY <2>2 DEF Ahead
  <2>4. interruptions[s] \in Nat
    BY <1>1 DEF TypeOK
  <2>5. interruptions[s] + Cardinality(Ahead(s)) = N - 1
    BY <1>2
  <2>6. Cardinality(Ahead(s)) = 0
    BY <2>3, FS_EmptySet
  <2> QED
    BY <1>1, <2>3, <2>4, <2>5, <2>6
<1>8. DeterministicAfter(s, Collides)
  <2>1. s \in Primary \cup Tmc
    BY <1>1, <1>2, NodeAssumption DEF Primary, Tmc, RandomLbt, Kinds
  <2>2. TakesDeterministic(s, 0)
    BY <2>1, NoRetriesDeterministic
  <2> QED
    BY <1>2, <1>5, <2>2 DEF DeterministicAfter, RestartsInitial, RetriesAfter
<1>9. remaining'[s] = Alpha + N - 1 /\ deterministic'[s] /\ interruptions'[s] = 0
  <2>1. Collides \in BOOLEAN /\ s \in Node
    BY <1>1 DEF Collides
  <2>2. DrawsAfter(s, Collides) = {Alpha + interruptions[s]}
    BY <1>8, <2>1, AfterType, Zenon
  <2>3. remaining'[s] = Alpha + interruptions[s]
    BY <1>4, <2>2, RoundEffect
  <2>4. deterministic'[s] /\ interruptions'[s] = 0
    BY <1>4, <1>8, <2>1 DEF Round
  <2> QED
    BY <1>1, <1>7, <2>3, <2>4
<1>10. ASSUME NEW n \in Eligible \ {s}
       PROVE  /\ remaining'[n] = remaining[n] - Minimum
              /\ deterministic'[n] /\ interruptions'[n] = interruptions[n] + 1
              /\ remaining'[n] \in 1 .. Alpha + N - 2
  <2>1. remaining'[n] = remaining[n] - Minimum /\ remaining[n] > Minimum
    BY <1>4, <1>6, RoundEffect
  <2>2. Minimum > 0
    BY <1>2, <1>4
  <2>3. remaining'[n] \in 1 .. Alpha + N - 2
    BY <1>1, <1>2, <2>1, <2>2
  <2>4. deterministic'[n] /\ interruptions'[n] = interruptions[n] + 1
    BY <1>1, <1>2, <1>4 DEF Round, RecordsInterruption
  <2> QED
    BY <2>1, <2>3, <2>4
<1>11. Eligible' = Eligible
  BY DEF Round, Eligible, membership
<1>12. Ahead(s)' = Eligible \ {s}
  BY <1>1, <1>9, <1>10, <1>11 DEF Ahead
<1>13. ASSUME NEW n \in Eligible \ {s}
       PROVE  Ahead(n)' = Ahead(n) \ {s} /\ s \in Ahead(n)
  <2>1. s \in Ahead(n)
    BY <1>4, <1>6 DEF Ahead
  <2>2. ASSUME NEW k \in Eligible \ {s}
        PROVE  remaining'[k] < remaining'[n] <=> remaining[k] < remaining[n]
    BY <1>1, <1>2, <1>10
  <2>3. ~(remaining'[s] < remaining'[n])
    BY <1>1, <1>9, <1>10
  <2> QED
    BY <1>11, <2>1, <2>2, <2>3 DEF Ahead
<1>14. Cardinality(Ahead(s)') = N - 1
  BY <1>1, <1>12, FS_RemoveElement
<1>15. ASSUME NEW n \in Eligible \ {s}
       PROVE  interruptions'[n] + Cardinality(Ahead(n)') = N - 1
  <2>1. IsFiniteSet(Ahead(n)) /\ Cardinality(Ahead(n)) \in Nat
    BY <1>1, FS_Subset, FS_CardinalityType DEF Ahead
  <2>2. Cardinality(Ahead(n)') = Cardinality(Ahead(n)) - 1
    BY <1>13, <2>1, FS_RemoveElement
  <2>3. interruptions[n] \in Nat
    BY <1>1 DEF TypeOK
  <2> QED
    BY <1>2, <1>10, <2>1, <2>2, <2>3
<1>16. Converged'
  <2>1. Eligible' # {} /\ Cardinality(Eligible)' = N
    BY <1>1, <1>11
  <2>2. ASSUME NEW n \in Eligible
        PROVE  /\ n \notin RandomLbt' /\ deterministic'[n]
               /\ remaining'[n] \in 1 .. Alpha + N - 1
               /\ interruptions'[n] + Cardinality(Ahead(n)') = N - 1
    <3>1. RandomLbt' = RandomLbt
      BY DEF RandomLbt
    <3>2. N >= 1
      BY <1>1, FS_EmptySet
    <3>3. CASE n = s
      BY <1>1, <1>2, <1>9, <1>14, <3>1, <3>2, <3>3
    <3>4. CASE n # s
      BY <1>1, <1>2, <1>10, <1>15, <3>1, <3>4
    <3> QED
      BY <3>3, <3>4
  <2>3. ASSUME NEW n \in Eligible, NEW k \in Eligible, remaining'[n] = remaining'[k]
        PROVE  n = k
    <3>1. CASE n = s \/ k = s
      BY <1>1, <1>9, <1>10, <2>3, <3>1
    <3>2. CASE n # s /\ k # s
      BY <1>1, <1>2, <1>3, <1>10, <2>3, <3>2
    <3> QED
      BY <3>1, <3>2
  <2> QED
    BY <1>11, <2>1, <2>2, <2>3 DEF Converged
<1>17. senders' = {s}
  BY <1>4 DEF Round
<1> QED
  BY <1>7, <1>12, <1>13, <1>16, <1>17 DEF Rotates

LEMMA OnlyStepCountsDown ==
  ASSUME TypeOK, [Next]_vars, remaining' # remaining, UNCHANGED membership
  PROVE  Step
<1>1. ASSUME NEW k \in Node, SetBacklogged(k) PROVE FALSE
  <2>1. backlogged \in [Node -> BOOLEAN]
    BY DEF TypeOK
  <2>2. ~backlogged[k] /\ backlogged' = [backlogged EXCEPT ![k] = TRUE]
    BY <1>1 DEF SetBacklogged
  <2> QED
    BY <2>1, <2>2 DEF membership
<1>2. ASSUME UNCHANGED countdown PROVE FALSE
  BY <1>2 DEF countdown
<1> QED
  BY <1>1, <1>2
     DEF Next, ApplyBackgroundBusy, ClearBacklogged, SetActive, SetRecoveryProfile, vars

(* Once converged, contenders take turns alone until one comes or goes.     *)
THEOREM ConvergedSchedule == Spec => ConvergedRotates
<1>1. TypeOK /\ [Next]_vars =>
        [Converged /\ remaining' # remaining /\ UNCHANGED membership => Rotates]_vars
  BY ConvergedRound, OnlyStepCountsDown DEF Step
<1> QED
  BY <1>1, Typing, PTL DEF Spec, ConvergedRotates

-----------------------------------------------------------------------------
(* A saturated channel implements RoundRobin, but for its fairness *)

Everybody == Eligible = Node

LEMMA EverybodyStays ==
  ASSUME Everybody, [Step]_vars
  PROVE  Everybody'
  BY DEF Everybody, Eligible, Step, Round, membership, vars

LEMMA SaturatedTyping == SaturatedInit /\ [][Step]_vars => [](TypeOK /\ Everybody)
<1>1. SaturatedInit => TypeOK /\ Everybody
  BY InitTypeOK DEF SaturatedInit, Everybody, Eligible
<1>2. TypeOK /\ Everybody /\ [Step]_vars => (TypeOK /\ Everybody)'
  BY EverybodyStays, NextTypeOK DEF Next
<1> QED
  BY <1>1, <1>2, PTL

LEMMA TurnsTyped ==
  ASSUME TypeOK
  PROVE  [n \in Node |-> Cardinality(Ahead(n))] \in [Node -> Nat]
<1>1. \A n \in Node : Ahead(n) \subseteq Eligible
  BY DEF Ahead
<1> QED
  BY <1>1, EligibleSubset, FS_Subset, FS_CardinalityType

LEMMA StepRefines ==
  ASSUME TypeOK, TypeOK', Everybody, Everybody', Step
  PROVE  Turns!Next
<1> DEFINE turn == [n \in Node |-> Cardinality(Ahead(n))]
<1>1. Converged \in BOOLEAN /\ Converged' \in BOOLEAN
  BY DEF Converged
<1>2. turn' \in [Node -> Nat]
  <2>1. \A n \in Node : Ahead(n)' \subseteq Node /\ IsFiniteSet(Node)
    BY NodeAssumption DEF Ahead, Eligible
  <2>2. \A n \in Node : Cardinality(Ahead(n)') \in Nat
    BY <2>1, FS_Subset, FS_CardinalityType
  <2> QED
    BY <2>2
<1>3. senders' \in (SUBSET Node) \ {{}}
  <2>1. senders' = Expiring
    BY DEF Step, Round
  <2> QED
    BY <2>1, RoundEffect, EligibleSubset DEF Step
<1>4. CASE ~Converged
  BY <1>1, <1>2, <1>3, <1>4 DEF Turns!Next, Turns!Contend
<1>5. CASE Converged
  <2>1. Rotates
    BY <1>5, ConvergedRound DEF Step
  <2>2. PICK s \in Node :
           /\ senders' = {s}
           /\ Ahead(s) = {} /\ Ahead(s)' = Node \ {s}
           /\ \A n \in Node \ {s} : Ahead(n)' = Ahead(n) \ {s} /\ s \in Ahead(n)
    BY <2>1 DEF Rotates, Everybody
  <2>3. IsFiniteSet(Node)
    BY NodeAssumption
  <2>4. turn[s] = 0
    BY <2>2, FS_EmptySet
  <2>5. Cardinality(Ahead(s)') = Cardinality(Node) - 1
    BY <2>2, <2>3, FS_RemoveElement
  <2>6. ASSUME NEW n \in Node \ {s}
        PROVE  Cardinality(Ahead(n)') = turn[n] - 1
    <3>1. IsFiniteSet(Ahead(n)) /\ s \in Ahead(n) /\ Ahead(n)' = Ahead(n) \ {s}
      BY <2>2, <2>3, FS_Subset DEF Ahead, Eligible
    <3> QED
      BY <3>1, FS_RemoveElement
  <2>7. turn' = [n \in Node |-> IF n = s THEN Cardinality(Node) - 1 ELSE turn[n] - 1]
    BY <2>5, <2>6
  <2>8. Converged' = Converged
    BY <1>1, <1>5, <2>1 DEF Rotates
  <2> QED
    BY <1>5, <2>2, <2>4, <2>7, <2>8 DEF Turns!Next, Turns!Rotate
<1> QED
  BY <1>4, <1>5

(* The safety part of TakesTurns: every run of a saturated channel, of any  *)
(* number of DB-LBT and random contenders, is a run of RoundRobin.          *)
THEOREM SaturatedRefinement ==
  SaturatedInit /\ [][Step]_vars => Turns!Init /\ [][Turns!Next]_Turns!vars
<1>1. SaturatedInit => Turns!Init
  <2>1. SaturatedInit => TypeOK /\ senders = {}
    BY InitTypeOK DEF SaturatedInit, Init
  <2>2. Converged \in BOOLEAN
    BY DEF Converged
  <2> QED
    BY <2>1, <2>2, TurnsTyped DEF Turns!Init, Turns!TypeOK, TypeOK
<1>2. ASSUME TypeOK, TypeOK', Everybody, Everybody', [Step]_vars
      PROVE  [Turns!Next]_Turns!vars
  <2>1. CASE UNCHANGED vars
    BY <2>1 DEF vars, countdown, membership, recovery, Turns!vars, Converged, Ahead,
       Eligible, RandomLbt
  <2> QED
    BY <1>2, <2>1, StepRefines
<1> QED
  BY <1>1, <1>2, SaturatedTyping, PTL

-----------------------------------------------------------------------------
(* The clock *)

USE DEF RoundEnd

LEMMA OneSuccess ==
  ASSUME TypeOK, NEW n \in Node, NEW k \in Node, SucceedsNow(n), SucceedsNow(k)
  PROVE  n = k
<1> SUFFICES ASSUME n # k PROVE FALSE
  OBVIOUS
<1>1. IsFiniteSet(Expiring)
  BY EligibleSubset, FS_Subset DEF Expiring
<1>2. {n, k} \subseteq Expiring /\ Cardinality(Expiring) \in Nat /\ ~(Cardinality(Expiring) > 1)
  BY <1>1, FS_CardinalityType DEF SucceedsNow, Collides
<1>3. Cardinality({n, k}) <= Cardinality(Expiring)
  BY <1>1, <1>2, FS_Subset
<1>4. Cardinality({n}) = 1 /\ IsFiniteSet({n})
  BY FS_Singleton
<1>5. {n, k} = {n} \cup {k} /\ k \notin {n}
  OBVIOUS
<1>6. Cardinality({n, k}) = 2
  BY <1>4, <1>5, FS_AddElement
<1> QED
  BY <1>2, <1>3, <1>6

LEMMA CountdownType ==
  ASSUME TypeOK, now \in Nat, Eligible # {}
  PROVE  RoundStart \in Nat /\ RoundStart >= now
<1>1. Minimum \in Nat
  BY EligibleSubset, MinimumProperty DEF TypeOK
<1>2. SlotUs \in Nat
  BY TimingAssumption
<1>3. Minimum * SlotUs \in Nat
  BY <1>1, <1>2
<1> DEFINE countdownTime == Minimum * SlotUs
<1>4. countdownTime \in Nat /\ RoundStart = now + countdownTime
  BY <1>3 DEF RoundStart
<1> HIDE DEF countdownTime
<1> QED
  BY <1>4

LEMMA RoundStartType ==
  ASSUME TypeOK, now \in Nat, Round
  PROVE  RoundStart \in Nat /\ RoundStart >= now
  BY CountdownType DEF Round

LEMMA ReservationType ==
  ASSUME NEW n \in Node, NEW start \in Nat
  PROVE  Reservation(n, start) \in 0 .. NruSyncUs - 1
<1> DEFINE S == NruSyncUs
           offset == start % S
<1>1. S \in Nat \ {0}
  BY TimingAssumption
<1>2. offset \in 0 .. S - 1
  BY <1>1
<1>3. (S - offset) % S \in 0 .. S - 1
  <2> HIDE DEF offset
  <2>1. S - offset \in Int
    BY <1>1, <1>2
  <2> QED
    BY <1>1, <2>1
<1> QED
  BY <1>1, <1>3 DEF Reservation

LEMMA SuccessResultType ==
  ASSUME ChannelTypeOK, NEW n \in Node, RoundStart \in Nat, lastSuccessEnd[n] <= RoundStart
  PROVE  SuccessResult(n) \in [start : Nat, delay : Nat \cup {Never},
                               reservation : Nat, effective : Nat]
<1>1. /\ NruSyncUs \in Nat \ {0} /\ NruSyncUs <= TxUs /\ TxUs \in Nat
      /\ WifiAckUs \in Nat /\ WifiAckUs <= TxUs
  BY TimingAssumption
<1>2. Reservation(n, RoundStart) \in 0 .. NruSyncUs - 1
  BY ReservationType
<1>3. Effective(n, RoundStart) \in Nat
  BY <1>1, <1>2 DEF Effective
<1>4. lastSuccessEnd[n] = Never \/ RoundStart - lastSuccessEnd[n] \in Nat
  BY DEF ChannelTypeOK
<1> QED
  BY <1>1, <1>2, <1>3, <1>4 DEF SuccessResult

LEMMA RoundChannelTypeOK ==
  ASSUME ChannelTypeOK, ChannelRound, profile' \in [Node -> Profiles]
  PROVE  ChannelTypeOK'
<1>1. TypeOK /\ Round /\ \A n \in Node : lastSuccessEnd[n] <= RoundStart
  BY DEF ChannelTypeOK, ChannelRound
<1>2. RoundStart \in Nat
  BY <1>1, RoundStartType DEF ChannelTypeOK
<1>3. TypeOK'
  BY <1>1, RoundTypeOK
<1>4. result' \in [start : Nat, delay : Nat \cup {Never},
                   reservation : Nat, effective : Nat]
  <2>1. CASE Collides
    BY <1>2, <2>1 DEF ChannelRound, NoResult, Never
  <2>2. CASE ~Collides
    <3> DEFINE sender == CHOOSE n \in Node : n \in Expiring
    <3>1. \E n \in Node : n \in Expiring
      BY <1>1, RoundEffect, EligibleSubset
    <3>2. sender \in Node
      BY <3>1
    <3>3. result' = SuccessResult(sender)
      BY <2>2 DEF ChannelRound
    <3> HIDE DEF sender
    <3> QED
      BY <1>1, <1>2, <3>2, <3>3, SuccessResultType
  <2> QED
    BY <2>1, <2>2
<1>5. /\ now' \in Nat /\ contentionRound' \in Nat
      /\ lastSuccessEnd' \in [Node -> Nat \cup {Never}]
      /\ successRound' \in [Node -> Nat]
  BY <1>2, TimingAssumption DEF ChannelRound, ChannelTypeOK
<1> QED
  BY <1>3, <1>4, <1>5 DEF ChannelTypeOK

LEMMA ChangeChannelTypeOK ==
  ASSUME ChannelTypeOK, UNCHANGED clock, [Next]_vars
  PROVE  ChannelTypeOK'
  BY NextTypeOK DEF ChannelTypeOK, clock

LEMMA BusyChannelTypeOK ==
  ASSUME ChannelTypeOK, NEW d \in BusyDurations, ChannelBusy(d)
  PROVE  ChannelTypeOK'
<1>1. TypeOK'
  BY NextTypeOK DEF Next, ChannelBusy, ChannelTypeOK
<1> QED
  BY <1>1, TimingAssumption DEF ChannelBusy, ChannelTypeOK

LEMMA IdleChannelTypeOK == ChannelTypeOK /\ IdleTick => ChannelTypeOK'
<1> SUFFICES ASSUME ChannelTypeOK, IdleTick PROVE ChannelTypeOK'
  OBVIOUS
<1>1. TypeOK'
  BY NextTypeOK DEF Next, IdleTick, ChannelTypeOK
<1> QED
  BY <1>1, TimingAssumption DEF IdleTick, ChannelTypeOK

LEMMA NextChannelTypeOK ==
  ASSUME ChannelTypeOK, [ChannelNext]_chanVars
  PROVE  ChannelTypeOK'
<1>1. CASE ChannelStep
  BY <1>1, RoundChannelTypeOK DEF ChannelStep, ChannelTypeOK, TypeOK
<1>2. CASE \E d \in BusyDurations : ChannelBusy(d)
  BY <1>2, BusyChannelTypeOK
<1>3. CASE IdleTick
  BY <1>3, IdleChannelTypeOK
<1>4. CASE ChannelChange
  BY <1>4, ChangeChannelTypeOK DEF ChannelChange, Next
<1>5. CASE UNCHANGED chanVars
  BY <1>5, ChangeChannelTypeOK DEF chanVars
<1> QED
  BY <1>1, <1>2, <1>3, <1>4, <1>5 DEF ChannelNext

(* The clock, the success times and the results stay natural numbers: the   *)
(* ranges that RoundResult checks hold for any timing.                      *)
THEOREM ChannelTyping == ChannelSpec => []ChannelTypeOK
<1>1. ChannelInit => ChannelTypeOK
  BY InitTypeOK DEF ChannelInit, ChannelTypeOK, NoResult, Never
<1> QED
  BY <1>1, NextChannelTypeOK, PTL DEF ChannelSpec

-----------------------------------------------------------------------------
(* Exclusive successes *)

(* No operation but a round touches the success times or the round count.   *)
LEMMA OnlyStepSucceeds ==
  ASSUME ChannelTypeOK, [ChannelNext]_chanVars, ~ChannelStep
  PROVE  /\ UNCHANGED <<lastSuccessEnd, contentionRound, successRound>>
         /\ now' \in Nat /\ now <= now'
  BY TimingAssumption
     DEF ChannelNext, ChannelBusy, IdleTick, ChannelChange, chanVars, clock, ChannelTypeOK

LEMMA ExclusiveRound ==
  ASSUME ChannelTypeOK, SuccessesAreExclusive, ChannelRound
  PROVE  SuccessesAreExclusive'
<1>1. /\ TypeOK /\ Round
      /\ lastSuccessEnd' = [n \in Node |->
            IF SucceedsNow(n) THEN RoundStart + TxUs ELSE lastSuccessEnd[n]]
      /\ now' = RoundStart + TxUs
  BY DEF ChannelTypeOK, ChannelRound
<1>2. /\ RoundStart \in Nat /\ RoundStart >= now /\ now \in Nat /\ TxUs \in Nat \ {0}
      /\ Never = -1
  BY <1>1, RoundStartType, TimingAssumption DEF ChannelTypeOK, Never
<1>3. \A n \in Node : lastSuccessEnd[n] \in Int /\ lastSuccessEnd[n] <= now
  BY <1>2 DEF ChannelTypeOK, SuccessesAreExclusive
<1>4. \A n, k \in Node : SucceedsNow(n) /\ SucceedsNow(k) => n = k
  BY <1>1, OneSuccess
<1>5. \A n \in Node : lastSuccessEnd'[n] <= now'
  BY <1>1, <1>2, <1>3
<1>6. ASSUME NEW n \in Node, NEW k \in Node, n # k, lastSuccessEnd'[n] # Never,
             lastSuccessEnd'[n] <= lastSuccessEnd'[k]
      PROVE  lastSuccessEnd'[n] + TxUs <= lastSuccessEnd'[k]
  <2>1. CASE SucceedsNow(n)
    <3>1. ~SucceedsNow(k)
      BY <1>4, <1>6, <2>1
    <3> QED
      BY <1>1, <1>2, <1>3, <1>6, <2>1, <3>1
  <2>2. CASE ~SucceedsNow(n) /\ SucceedsNow(k)
    BY <1>1, <1>2, <1>3, <1>6, <2>2
  <2>3. CASE ~SucceedsNow(n) /\ ~SucceedsNow(k)
    BY <1>1, <1>6, <2>3 DEF SuccessesAreExclusive
  <2> QED
    BY <2>1, <2>2, <2>3
<1> QED
  BY <1>5, <1>6 DEF SuccessesAreExclusive, Never

(* Successes neither overlap nor reach into the future.                     *)
THEOREM ExclusiveSuccesses == ChannelSpec => []SuccessesAreExclusive
<1>1. ChannelInit => SuccessesAreExclusive
  BY DEF ChannelInit, SuccessesAreExclusive, Never
<1>2. ASSUME ChannelTypeOK, SuccessesAreExclusive, [ChannelNext]_chanVars
      PROVE  SuccessesAreExclusive'
  <2>1. CASE ChannelStep
    BY <1>2, <2>1, ExclusiveRound DEF ChannelStep
  <2>2. CASE ~ChannelStep
    <3>1. /\ UNCHANGED <<lastSuccessEnd, contentionRound, successRound>>
          /\ now' \in Nat /\ now <= now' /\ now \in Nat
      BY <1>2, <2>2, OnlyStepSucceeds DEF ChannelTypeOK
    <3>2. \A n \in Node : lastSuccessEnd[n] \in Int
      BY <1>2 DEF ChannelTypeOK, Never
    <3> QED
      BY <1>2, <3>1, <3>2 DEF SuccessesAreExclusive, Never
  <2> QED
    BY <2>1, <2>2
<1> QED
  BY <1>1, <1>2, ChannelTyping, PTL DEF ChannelSpec

-----------------------------------------------------------------------------
(* Access delays *)

LEMMA WaitedRound ==
  ASSUME ChannelTypeOK, RoundsAreWaitedFor, ChannelRound
  PROVE  RoundsAreWaitedFor'
<1>1. /\ TypeOK /\ Round
      /\ lastSuccessEnd' = [n \in Node |->
            IF SucceedsNow(n) THEN RoundStart + TxUs ELSE lastSuccessEnd[n]]
      /\ now' = RoundStart + TxUs
      /\ contentionRound' = contentionRound + 1
      /\ successRound' = [n \in Node |->
            IF SucceedsNow(n) THEN contentionRound + 1 ELSE successRound[n]]
  BY DEF ChannelTypeOK, ChannelRound
<1>2. /\ RoundStart \in Nat /\ RoundStart >= now /\ now \in Nat /\ TxUs \in Nat
      /\ contentionRound \in Nat
  BY <1>1, RoundStartType, TimingAssumption DEF ChannelTypeOK
<1>3. ASSUME NEW n \in Node, lastSuccessEnd'[n] # Never
      PROVE  lastSuccessEnd'[n] + TxUs * (contentionRound' - successRound'[n]) <= now'
  <2>1. CASE SucceedsNow(n)
    <3>1. contentionRound' - successRound'[n] = 0
      BY <1>1, <1>2, <2>1
    <3>2. TxUs * 0 = 0
      BY <1>2
    <3> QED
      BY <1>1, <1>2, <2>1, <3>1, <3>2
  <2>2. CASE ~SucceedsNow(n)
    <3> DEFINE waited == contentionRound - successRound[n]
               paid   == TxUs * waited
    <3>1. waited \in Int /\ lastSuccessEnd[n] \in Int
      BY <1>2 DEF ChannelTypeOK, Never
    <3>2. lastSuccessEnd[n] + paid <= now
      BY <1>1, <1>3, <2>2 DEF RoundsAreWaitedFor
    <3>3. contentionRound' - successRound'[n] = waited + 1
      BY <1>1, <1>2, <2>2 DEF ChannelTypeOK
    <3> HIDE DEF waited
    <3>4. TxUs * (waited + 1) = paid + TxUs /\ paid \in Int
      BY <1>2, <3>1
    <3> HIDE DEF paid
    <3> QED
      BY <1>1, <1>2, <2>2, <3>1, <3>2, <3>3, <3>4
  <2> QED
    BY <2>1, <2>2
<1> QED
  BY <1>3 DEF RoundsAreWaitedFor, Never

(* Every round since its last success delays a contender by an airtime.     *)
THEOREM WaitedRounds == ChannelSpec => []RoundsAreWaitedFor
<1>1. ChannelInit => RoundsAreWaitedFor
  BY DEF ChannelInit, RoundsAreWaitedFor, Never
<1>2. ASSUME ChannelTypeOK, RoundsAreWaitedFor, [ChannelNext]_chanVars
      PROVE  RoundsAreWaitedFor'
  <2>1. CASE ChannelStep
    BY <1>2, <2>1, WaitedRound DEF ChannelStep
  <2>2. CASE ~ChannelStep
    <3>1. /\ UNCHANGED <<lastSuccessEnd, contentionRound, successRound>>
          /\ now' \in Nat /\ now <= now' /\ now \in Nat
      BY <1>2, <2>2, OnlyStepSucceeds DEF ChannelTypeOK
    <3> SUFFICES ASSUME NEW n \in Node, lastSuccessEnd[n] # Never
                 PROVE  lastSuccessEnd[n] + TxUs * (contentionRound - successRound[n]) <= now'
      BY <3>1 DEF RoundsAreWaitedFor, Never
    <3> DEFINE paid == TxUs * (contentionRound - successRound[n])
    <3>2. paid \in Int /\ lastSuccessEnd[n] \in Int
      BY <1>2, TimingAssumption DEF ChannelTypeOK, Never
    <3>3. lastSuccessEnd[n] + paid <= now
      BY <1>2 DEF RoundsAreWaitedFor
    <3> HIDE DEF paid
    <3>4. lastSuccessEnd[n] + paid <= now'
      BY <3>1, <3>2, <3>3
    <3> QED
      BY <3>4 DEF paid
  <2> QED
    BY <2>1, <2>2
<1> QED
  BY <1>1, <1>2, ChannelTyping, PTL DEF ChannelSpec

-----------------------------------------------------------------------------
(* Synchronised data *)

(* A reservation ends on a boundary, whatever the distance of boundaries.   *)
LEMMA ReservationSynchronises ==
  ASSUME NEW n \in Nru, NEW start \in Nat
  PROVE  (start + Reservation(n, start)) % NruSyncUs = 0
<1>1. NruSyncUs \in Nat \ {0}
  BY TimingAssumption
<1>2. ASSUME NEW a \in Nat, NEW k \in Nat \ {0} PROVE (a + ((k - (a % k)) % k)) % k = 0
  OBVIOUS
<1> QED
  BY <1>1, <1>2 DEF Reservation

LEMMA SynchronisedRound ==
  ASSUME ChannelTypeOK, ChannelRound
  PROVE  NruStartsSynchronised'
<1> SUFFICES ASSUME NEW n \in Nru, senders' = {n}
             PROVE  /\ (result'.start + result'.reservation) % NruSyncUs = 0
                    /\ result'.reservation < NruSyncUs
                    /\ result'.effective > 0
                    /\ result'.effective = TxUs - result'.reservation
  BY DEF NruStartsSynchronised
<1>1. /\ NruSyncUs \in Nat \ {0} /\ NruSyncUs <= TxUs /\ TxUs \in Nat /\ n \in Node
  BY TimingAssumption
<1>2. RoundStart \in Nat
  BY RoundStartType DEF ChannelTypeOK, ChannelRound
<1>3. Expiring = {n}
  BY DEF ChannelRound, Round
<1>4. ~Collides
  <2>1. Cardinality(Expiring) = 1
    BY <1>3, FS_Singleton, Zenon
  <2> QED
    BY <2>1 DEF Collides
<1>5. result' = SuccessResult(n)
  <2>1. (CHOOSE k \in Node : k \in Expiring) = n
    BY <1>1, <1>3
  <2> QED
    BY <1>4, <2>1 DEF ChannelRound
<1> DEFINE wait == Reservation(n, RoundStart)
<1>6. wait \in 0 .. NruSyncUs - 1 /\ (RoundStart + wait) % NruSyncUs = 0
  BY <1>1, <1>2, ReservationType, ReservationSynchronises
<1>7. /\ result'.start = RoundStart /\ result'.reservation = wait
      /\ result'.effective = TxUs - wait
  BY <1>5 DEF SuccessResult, Effective
<1> HIDE DEF wait
<1> QED
  BY <1>1, <1>6, <1>7

(* NRU data starts on a synchronised boundary and lasts, at every offset of *)
(* the round and for every slot, transmission and synchronisation length    *)
(* that Timing accepts.                                                     *)
THEOREM SynchronisedStarts == ChannelSpec => []NruStartsSynchronised
<1>1. ChannelInit => NruStartsSynchronised
  BY DEF ChannelInit, Init, NruStartsSynchronised
<1>2. ASSUME ChannelTypeOK, NruStartsSynchronised, [ChannelNext]_chanVars
      PROVE  NruStartsSynchronised'
  <2>1. CASE ChannelStep
    BY <1>2, <2>1, SynchronisedRound DEF ChannelStep
  <2>2. CASE ~ChannelStep
    <3>1. UNCHANGED <<senders, result>>
      BY <1>2, <2>2 DEF ChannelNext, ChannelBusy, IdleTick, ChannelChange, chanVars, clock, vars,
         ApplyBackgroundBusy, ClearBacklogged, SetBacklogged, SetActive, SetRecoveryProfile
    <3> QED
      BY <1>2, <3>1 DEF NruStartsSynchronised
  <2> QED
    BY <2>1, <2>2
<1> QED
  BY <1>1, <1>2, ChannelTyping, PTL DEF ChannelSpec
=============================================================================
