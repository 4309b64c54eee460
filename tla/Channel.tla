-------------------------------- MODULE Channel --------------------------------
(***************************************************************************)
(* The clock of dblbt_fcn.channel.Channel on top of its contention state:  *)
(* each operation of Contention with what it does to now_us, to the times  *)
(* of the last successes and to the result of a round.  The owner of the   *)
(* channel advances the clock itself while nobody contends (IdleTick).     *)
(***************************************************************************)
EXTENDS Contention

CONSTANTS
    Nru,              \* contenders of technology NRU
    SlotUs, TxUs, WifiAckUs, NruSyncUs,
    BusyDurations     \* lengths of the external busy periods

ASSUME TimingAssumption ==
    /\ Nru \subseteq Node
    /\ SlotUs \in Nat \ {0} /\ TxUs \in Nat \ {0}
    /\ WifiAckUs \in 0 .. TxUs /\ NruSyncUs \in 1 .. TxUs
    /\ BusyDurations \subseteq Nat \ {0}

VARIABLES
    now,              \* Channel.now_us
    contentionRound,  \* rounds done
    lastSuccessEnd,   \* Node.last_success_end_us
    result,           \* the rest of the latest RoundResult, and its access delay
    successRound      \* history: contentionRound at the end of n's last success

clock    == <<now, contentionRound, lastSuccessEnd, result, successRound>>
chanVars == <<vars, clock>>

Never == -1     \* None: no success yet, or no access delay

NoResult == [start |-> 0, delay |-> Never, reservation |-> 0, effective |-> 0]

-----------------------------------------------------------------------------
(* Operations *)

(* Mutant: a start on the boundary waits for the next one.               *)
ReservationWhole(n, start) ==
    IF n \in Nru THEN NruSyncUs - (start % NruSyncUs) ELSE 0

(* An NRU sender reserves the channel up to its next synchronised start.    *)
Reservation(n, start) ==
    IF n \in Nru THEN (NruSyncUs - (start % NruSyncUs)) % NruSyncUs ELSE 0

Effective(n, start) ==
    TxUs - (IF n \in Nru THEN Reservation(n, start) ELSE WifiAckUs)

RoundStart == now + Minimum * SlotUs

(* Mutant: a collision is over after a slot.                             *)
CollisionIsShort == RoundStart + (IF Collides THEN SlotUs ELSE TxUs)

RoundEnd == RoundStart + TxUs

SuccessResult(n) ==
    [start       |-> RoundStart,
     delay       |-> IF lastSuccessEnd[n] = Never THEN Never
                     ELSE RoundStart - lastSuccessEnd[n],
     reservation |-> Reservation(n, RoundStart),
     effective   |-> Effective(n, RoundStart)]

(* Mutant: everybody who sent succeeded.                                 *)
SucceedsAnyway(n) == n \in Expiring

SucceedsNow(n) == n \in Expiring /\ ~Collides

(* A round, but for the profiles. *)
ChannelRound ==
    /\ Round
    /\ \A n \in Node : lastSuccessEnd[n] <= RoundStart
    /\ result' = IF Collides THEN [NoResult EXCEPT !.start = RoundStart]
                 ELSE SuccessResult(CHOOSE n \in Node : n \in Expiring)
    /\ lastSuccessEnd' = [n \in Node |->
          IF SucceedsNow(n) THEN RoundEnd ELSE lastSuccessEnd[n]]
    /\ now' = RoundEnd
    /\ contentionRound' = contentionRound + 1
    /\ successRound' = [n \in Node |->
          IF SucceedsNow(n) THEN contentionRound + 1 ELSE successRound[n]]

ChannelStep == ChannelRound /\ UNCHANGED profile

ChannelBusy(duration) ==
    /\ ApplyBackgroundBusy
    /\ \A n \in Node : lastSuccessEnd[n] <= now
    /\ now' = now + duration
    /\ UNCHANGED <<contentionRound, lastSuccessEnd, result, successRound>>

IdleTick ==
    /\ Eligible = {}
    /\ \E n \in Node : active[n]
    /\ now' = now + TxUs
    /\ UNCHANGED <<vars, contentionRound, lastSuccessEnd, result, successRound>>

ChannelInit ==
    /\ Init
    /\ now = 0
    /\ contentionRound = 0
    /\ lastSuccessEnd = [n \in Node |-> Never]
    /\ result = NoResult
    /\ successRound = [n \in Node |-> 0]

(* Membership and profiles change between rounds and take no time.          *)
ChannelChange ==
    /\ \E n \in Node :
          \/ ClearBacklogged(n)
          \/ SetBacklogged(n)
          \/ \E participates \in BOOLEAN : SetActive(n, participates)
          \/ \E p \in Profiles : SetRecoveryProfile(n, p)
    /\ UNCHANGED clock

ChannelNext ==
    \/ ChannelStep
    \/ \E d \in BusyDurations : ChannelBusy(d)
    \/ IdleTick
    \/ ChannelChange

ChannelSpec == ChannelInit /\ [][ChannelNext]_chanVars

-----------------------------------------------------------------------------
(* Properties *)

(* Times are natural numbers: no result has a negative reservation or more  *)
(* reserved than the transmission lasts, and no access delay is negative.   *)
ChannelTypeOK ==
    /\ TypeOK
    /\ now \in Nat
    /\ contentionRound \in Nat
    /\ lastSuccessEnd \in [Node -> Nat \cup {Never}]
    /\ result \in [start : Nat, delay : Nat \cup {Never},
                   reservation : Nat, effective : Nat]
    /\ successRound \in [Node -> Nat]

(* The channel serves one success at a time: successes neither overlap each *)
(* other nor reach into the future, so neither ValueError about             *)
(* last_success_end_us is ever raised, whatever busy and idle time passes.  *)
SuccessesAreExclusive ==
    /\ \A n \in Node : lastSuccessEnd[n] <= now
    /\ \A n, k \in Node :
          n # k /\ lastSuccessEnd[n] # Never /\ lastSuccessEnd[n] <= lastSuccessEnd[k]
             => lastSuccessEnd[n] + TxUs <= lastSuccessEnd[k]

(* Every round since a contender's last success, collisions included, shows *)
(* in the access delay it will record.                                      *)
RoundsAreWaitedFor ==
    \A n \in Node : lastSuccessEnd[n] # Never =>
        lastSuccessEnd[n] + TxUs * (contentionRound - successRound[n]) <= now

(* The data of an NRU success starts on a synchronised boundary and there   *)
(* is some, at every offset of the start from the boundary.                 *)
NruStartsSynchronised ==
    \A n \in Nru : senders = {n} =>
        /\ (result.start + result.reservation) % NruSyncUs = 0
        /\ result.reservation < NruSyncUs
        /\ result.effective > 0
        /\ result.effective = TxUs - result.reservation
=============================================================================
