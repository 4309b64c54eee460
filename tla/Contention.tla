------------------------------ MODULE Contention ------------------------------
(***************************************************************************)
(* The contention state of dblbt_fcn.channel.Channel: every contender's    *)
(* backoff countdown, its DB-LBT recovery state and its membership, and    *)
(* the operations of the channel that change them.  The clock, the success *)
(* times and the access delays of the same operations are in Channel.tla,  *)
(* whose actions are these actions conjoined with the clock's part.        *)
(*                                                                         *)
(* A draw from random.Random is a nondeterministic choice over its range.  *)
(***************************************************************************)
EXTENDS Integers, FiniteSets

CONSTANTS
    Node,             \* the registered contenders
    Kind,             \* Kind[n]: PolicyKind of n
    Alpha,            \* the deterministic base of both DB-LBT rules
    PrimaryM,         \* PrimaryDbLbt.m
    PrimaryBeta,      \* PrimaryDbLbt.beta
    DefaultProfile,   \* the RecoveryProfile every TMC rule starts with
    Profiles,         \* the profiles set_recovery_profile may install
    CwMin,            \* RandomLbt.cw_min
    CwMax,            \* CwMax[n]: RandomLbt.cw_max of n, larger for a legacy STA
    InitialBackoff    \* largest first backoff that _build_nodes draws

Kinds == {"random", "primary", "tmc", "adaptive"}

RecoveryProfile ==
    {p \in [kappa : Nat, beta : Nat, m : Nat, b_init : Nat] :
        0 < p.beta /\ p.beta < p.kappa /\ 0 < p.m /\ 0 < p.b_init}

ASSUME NodeAssumption == IsFiniteSet(Node) /\ Kind \in [Node -> Kinds]

ASSUME AlphaAssumption == Alpha \in Nat \ {0}

ASSUME PrimaryAssumption ==
    PrimaryM \in Nat /\ PrimaryBeta \in 1 .. PrimaryM - 1

ASSUME ProfileAssumption ==
    DefaultProfile \in Profiles /\ Profiles \subseteq RecoveryProfile

ASSUME WindowAssumption ==
    /\ CwMin \in Nat /\ InitialBackoff \in Nat
    /\ CwMax \in [Node -> Nat] /\ \A n \in Node : CwMin <= CwMax[n]

VARIABLES
    selected,         \* backoff drawn last
    remaining,        \* slots left of it
    active,           \* topology participation
    backlogged,       \* has something to send
    interruptions,    \* DbState.interruptions
    retries,          \* DbState.retries
    initialized,      \* Node.db_initialized
    deterministic,    \* Node.deterministic_countdown
    window,           \* RandomLbt.cw, of a random contender
    profile,          \* TmcDbLbt.profile, of a TMC or adaptive contender
    senders           \* RoundResult.node_ids of the latest round

countdown  == <<selected, remaining>>
membership == <<active, backlogged>>
recovery   == <<interruptions, retries, initialized, deterministic, window>>
vars       == <<countdown, membership, recovery, profile, senders>>

-----------------------------------------------------------------------------
(* Policies *)

RandomLbt == {n \in Node : Kind[n] = "random"}
Primary   == {n \in Node : Kind[n] = "primary"}
Tmc       == {n \in Node : Kind[n] \in {"tmc", "adaptive"}}
Adaptive  == {n \in Node : Kind[n] = "adaptive"}

Eligible == {n \in Node : active[n] /\ backlogged[n]}

(* The branch next_backoff takes with r retries. *)
TakesDeterministic(n, r) ==
    \/ n \in Primary /\ r % PrimaryM < PrimaryBeta
    \/ n \in Tmc /\ r % profile[n].kappa < profile[n].beta

(* Mutant: the deterministic branch forgets the interruptions.           *)
DrawsUnpaid(n, r, w, fresh) ==
    IF n \in RandomLbt THEN 0 .. w
    ELSE IF fresh THEN 0 .. profile[n].b_init
    ELSE IF TakesDeterministic(n, r) THEN {Alpha}
    ELSE IF n \in Primary THEN 0 .. PrimaryM - 1
    ELSE 0 .. profile[n].m

(* Mutant: the deterministic branch forgets its base.                    *)
DrawsWithoutBase(n, r, w, fresh) ==
    IF n \in RandomLbt THEN 0 .. w
    ELSE IF fresh THEN 0 .. profile[n].b_init
    ELSE IF TakesDeterministic(n, r) THEN {interruptions[n]}
    ELSE IF n \in Primary THEN 0 .. PrimaryM - 1
    ELSE 0 .. profile[n].m

(* What next_backoff, initial_backoff (fresh) or draw (window w) can return. *)
Draws(n, r, w, fresh) ==
    IF n \in RandomLbt THEN 0 .. w
    ELSE IF fresh THEN 0 .. profile[n].b_init
    ELSE IF TakesDeterministic(n, r) THEN {Alpha + interruptions[n]}
    ELSE IF n \in Primary THEN 0 .. PrimaryM - 1
    ELSE 0 .. profile[n].m

(* Mutant: TMC contenders record nothing.                                *)
RecordsNothing(n) == n \notin Tmc

RecordsInterruption(n) == n \in Tmc => deterministic[n]

-----------------------------------------------------------------------------
(* Rearming after an attempt *)

(* A TMC contender that never succeeded restarts from the initial range. *)
RestartsInitial(n, collision) == n \in Tmc /\ collision /\ ~initialized[n]

RetriesAfter(n, collision) ==
    IF n \in RandomLbt \/ RestartsInitial(n, collision) THEN retries[n]
    ELSE IF collision THEN retries[n] + 1 ELSE 0

WindowAfter(n, collision) ==
    IF n \notin RandomLbt THEN window[n]
    ELSE IF ~collision THEN CwMin
    ELSE IF 2 * window[n] + 1 <= CwMax[n] THEN 2 * window[n] + 1 ELSE CwMax[n]

(* Mutant: the flag is computed before the retries are.                  *)
FlagBeforeRetries(n, collision) ==
    ~RestartsInitial(n, collision) /\ TakesDeterministic(n, retries[n])

DeterministicAfter(n, collision) ==
    /\ ~RestartsInitial(n, collision)
    /\ TakesDeterministic(n, RetriesAfter(n, collision))

DrawsAfter(n, collision) ==
    Draws(n, RetriesAfter(n, collision), WindowAfter(n, collision),
          RestartsInitial(n, collision))

-----------------------------------------------------------------------------
(* Operations *)

(* Nodes that reach the smallest countdown transmit together. *)
Minimum == CHOOSE r \in {remaining[n] : n \in Eligible} :
              \A n \in Eligible : r <= remaining[n]

Expiring == {n \in Eligible : remaining[n] = Minimum}

Collides == Cardinality(Expiring) > 1

Redraw(draw) ==
    /\ selected' = [n \in Node |-> IF n \in Expiring THEN draw[n] ELSE selected[n]]
    /\ remaining' = [n \in Node |->
          IF n \in Expiring THEN draw[n]
          ELSE IF n \in Eligible THEN remaining[n] - Minimum
          ELSE remaining[n]]

(* A round, but for the profiles, which a controller may change at its end. *)
Round ==
    /\ Eligible # {}
    /\ LET outcomes == [n \in Expiring |-> DrawsAfter(n, Collides)]
       IN  \E draw \in [Expiring -> UNION {outcomes[n] : n \in Expiring}] :
              /\ \A n \in Expiring : draw[n] \in outcomes[n]
              /\ Redraw(draw)
    /\ interruptions' = [n \in Node |->
          IF n \in Expiring
          THEN IF DeterministicAfter(n, Collides) THEN 0 ELSE interruptions[n]
          ELSE IF n \in Eligible /\ RecordsInterruption(n) THEN interruptions[n] + 1
          ELSE interruptions[n]]
    /\ retries' = [n \in Node |->
          IF n \in Expiring THEN RetriesAfter(n, Collides) ELSE retries[n]]
    /\ window' = [n \in Node |->
          IF n \in Expiring THEN WindowAfter(n, Collides) ELSE window[n]]
    /\ deterministic' = [n \in Node |->
          IF n \in Expiring THEN DeterministicAfter(n, Collides) ELSE deterministic[n]]
    /\ initialized' = [n \in Node |->
          initialized[n] \/ (n \in Expiring \ RandomLbt /\ ~Collides)]
    /\ senders' = Expiring
    /\ UNCHANGED membership

Step == Round /\ UNCHANGED profile

ApplyBackgroundBusy ==
    /\ Eligible # {}
    /\ interruptions' = [n \in Node |->
          IF n \in Eligible /\ RecordsInterruption(n)
          THEN interruptions[n] + 1 ELSE interruptions[n]]
    /\ UNCHANGED <<countdown, membership, retries, initialized, deterministic,
                   window, profile, senders>>

(* Only a future draw sees the new profile. *)
SetRecoveryProfile(n, p) ==
    /\ n \in Adaptive
    /\ profile' = [profile EXCEPT ![n] = p]
    /\ UNCHANGED <<countdown, membership, recovery, senders>>

ClearBacklogged(n) ==
    /\ backlogged[n]
    /\ backlogged' = [backlogged EXCEPT ![n] = FALSE]
    /\ UNCHANGED <<countdown, active, recovery, profile, senders>>

SetBacklogged(n) ==
    LET fresh == n \in Tmc /\ ~initialized[n]
        flag  == ~fresh /\ TakesDeterministic(n, retries[n])
    IN  /\ ~backlogged[n]
        /\ backlogged' = [backlogged EXCEPT ![n] = TRUE]
        /\ \E draw \in Draws(n, retries[n], window[n], fresh) :
              /\ selected' = [selected EXCEPT ![n] = draw]
              /\ remaining' = [remaining EXCEPT ![n] = draw]
        /\ deterministic' = [deterministic EXCEPT ![n] = flag]
        /\ interruptions' = [interruptions EXCEPT ![n] = IF flag THEN 0 ELSE @]
        /\ UNCHANGED <<active, retries, initialized, window, profile, senders>>

SetActive(n, participates) ==
    /\ active' = [active EXCEPT ![n] = participates]
    /\ UNCHANGED <<countdown, backlogged, recovery, profile, senders>>

-----------------------------------------------------------------------------
(* Specification *)

(* _build_nodes: one first draw each; all take part or none does yet, and   *)
(* all are backlogged (saturated traffic) or none is (Poisson traffic).     *)
Init ==
    /\ selected \in [Node -> 0 .. InitialBackoff]
    /\ remaining = selected
    /\ active \in {[n \in Node |-> b] : b \in BOOLEAN}
    /\ backlogged \in {[n \in Node |-> b] : b \in BOOLEAN}
    /\ interruptions = [n \in Node |-> 0]
    /\ retries = [n \in Node |-> 0]
    /\ initialized = [n \in Node |-> FALSE]
    /\ deterministic = [n \in Node |-> FALSE]
    /\ window = [n \in Node |-> CwMin]
    /\ profile = [n \in Node |-> DefaultProfile]
    /\ senders = {}

Next ==
    \/ Step
    \/ ApplyBackgroundBusy
    \/ \E n \in Node :
          \/ ClearBacklogged(n)
          \/ SetBacklogged(n)
          \/ \E participates \in BOOLEAN : SetActive(n, participates)
          \/ \E p \in Profiles : SetRecoveryProfile(n, p)

Spec == Init /\ [][Next]_vars

(* A saturated scenario: everybody contends forever, no external busy time. *)
SaturatedInit ==
    Init /\ active = [n \in Node |-> TRUE] /\ backlogged = [n \in Node |-> TRUE]

SaturatedSpec == SaturatedInit /\ [][Step]_vars /\ WF_vars(Step)

-----------------------------------------------------------------------------
(* Properties *)

(* Every counter of the channel stays a natural number.                     *)
TypeOK ==
    /\ selected \in [Node -> Nat]
    /\ remaining \in [Node -> Nat]
    /\ active \in [Node -> BOOLEAN]
    /\ backlogged \in [Node -> BOOLEAN]
    /\ interruptions \in [Node -> Nat]
    /\ retries \in [Node -> Nat]
    /\ initialized \in [Node -> BOOLEAN]
    /\ deterministic \in [Node -> BOOLEAN]
    /\ window \in [Node -> Nat]
    /\ profile \in [Node -> Profiles]
    /\ senders \in SUBSET Node

(* Node._validate_state never raises: a countdown is within its draw, and a *)
(* TMC or adaptive contender that has not succeeded yet carries no recovery *)
(* state, whatever collisions, busy periods and queue changes it saw.       *)
StateIsValid ==
    /\ \A n \in Node : remaining[n] <= selected[n]
    /\ \A n \in Tmc : ~initialized[n] =>
          ~deterministic[n] /\ retries[n] = 0 /\ interruptions[n] = 0

(* The flag describes the draw in force: a deterministic countdown started  *)
(* at Alpha or above, and a primary contender that collided since its last  *)
(* success is deterministic exactly in the first PrimaryBeta retries of     *)
(* every PrimaryM, although queue changes redraw between attempts.          *)
FlagMatchesDraw ==
    /\ \A n \in Node : deterministic[n] => selected[n] >= Alpha
    /\ \A n \in Primary : retries[n] > 0 =>
          (deterministic[n] <=> retries[n] % PrimaryM < PrimaryBeta)

(* A TMC contender counts interruptions only in a deterministic countdown;  *)
(* outside one it can only carry those of the countdown it collided in.     *)
CarriesOnlyThroughCollisions ==
    \A n \in Tmc : interruptions[n] > 0 /\ ~deterministic[n] => retries[n] > 0

(* What a contender carries from attempt to attempt fits the draw it counts *)
(* down from, whatever attempts, busy periods and queue changes it saw.     *)
RecoveryState == StateIsValid /\ FlagMatchesDraw /\ CarriesOnlyThroughCollisions

(* No interruption is lost: the counter falls only by being paid, whole,    *)
(* into a deterministic backoff; a random draw in between keeps it.         *)
PaysInterruptions(n) ==
    interruptions'[n] < interruptions[n] =>
        /\ interruptions'[n] = 0
        /\ deterministic'[n]
        /\ selected'[n] = Alpha + interruptions[n]
        /\ remaining'[n] = selected'[n]

InterruptionsArePaid == [][\A n \in Node : PaysInterruptions(n)]_vars

-----------------------------------------------------------------------------
(* The collision-free schedule deterministic backoff is designed to reach   *)

Ahead(n) == {k \in Eligible : remaining[k] < remaining[n]}

(* Everybody who contends counts down deterministically, nobody expires     *)
(* together with another, and what each contender was interrupted by plus   *)
(* what is still ahead of it is everybody else.                             *)
Converged ==
    /\ Eligible # {}
    /\ \A n \in Eligible :
          /\ n \notin RandomLbt
          /\ deterministic[n]
          /\ remaining[n] \in 1 .. Alpha + Cardinality(Eligible) - 1
          /\ interruptions[n] + Cardinality(Ahead(n)) = Cardinality(Eligible) - 1
    /\ \A n, k \in Eligible : remaining[n] = remaining[k] => n = k

(* A round of a converged channel is a success, sent by the contender that  *)
(* had nobody ahead, who goes behind everybody; the channel stays converged *)
(* until contenders come or go.                                             *)
Rotates ==
    /\ Converged'
    /\ \E s \in Eligible :
          /\ senders' = {s}
          /\ Ahead(s) = {} /\ Ahead(s)' = Eligible \ {s}
          /\ \A n \in Eligible \ {s} : Ahead(n)' = Ahead(n) \ {s} /\ s \in Ahead(n)

ConvergedRotates ==
    [][Converged /\ remaining' # remaining /\ UNCHANGED membership => Rotates]_vars

(* A saturated channel implements RoundRobin: n's turn comes after those    *)
(* with a smaller countdown.                                                *)
Turns == INSTANCE RoundRobin WITH
            Last    <- Cardinality(Node) - 1,
            settled <- Converged,
            turn    <- [n \in Node |-> Cardinality(Ahead(n))]

TakesTurns == Turns!Spec

=============================================================================
