----------------------------- MODULE MCContention -----------------------------
(***************************************************************************)
(* Small instances of Contention: the constants of its .cfg files, and the *)
(* bounds that keep the counters of a run finite.                          *)
(***************************************************************************)
EXTENDS Contention

CONSTANTS MaxRetries, MaxInterruptions,
          w1, w2, w3

KindOf(k1, k2, k3) == [n \in Node |-> IF n = w1 THEN k1 ELSE IF n = w2 THEN k2 ELSE k3]

KindDb       == KindOf("adaptive", "primary", "tmc")
CwMaxTwo     == [n \in Node |-> 2]

ShortProfile == [kappa |-> 2, beta |-> 1, m |-> 1, b_init |-> 1]
LongProfile  == [kappa |-> 3, beta |-> 2, m |-> 2, b_init |-> 2]
TwoProfiles  == {ShortProfile, LongProfile}

(* The rounds of a job end, so a run may stop at a bound. *)
Bounded ==
    \A n \in Node : retries[n] <= MaxRetries /\ interruptions[n] <= MaxInterruptions

(* History: passed[n] counts the rounds since n's countdown last moved in   *)
(* which others transmitted.  A round that sends a TMC contender without a  *)
(* success back to its initial range is not counted: that range has no      *)
(* deterministic part, so only chance ends a streak of such rounds.         *)
VARIABLE passed

Restarts == \E n \in Expiring : RestartsInitial(n, Collides)

CountsRounds ==
    passed' = [n \in Node |->
        IF n \in senders' \/ remaining'[n] < remaining[n] THEN 0
        ELSE IF Restarts THEN passed[n] ELSE passed[n] + 1]

MCInit == SaturatedInit /\ passed = [n \in Node |-> 0]

(* A saturated channel: nobody comes or goes, no external busy time. *)
MCSaturatedSpec ==
    /\ MCInit
    /\ [][Step /\ CountsRounds /\ Bounded']_<<vars, passed>>
    /\ WF_vars(Step /\ CountsRounds /\ Bounded')

(* The attempts n can make in a row without a deterministic backoff.        *)
Streak(n) ==
    1 + (IF n \in Primary THEN PrimaryM - PrimaryBeta
         ELSE profile[n].kappa - profile[n].beta)

(* Deterministic recovery starves nobody: in a saturated channel a          *)
(* contender is passed over, its countdown standing still, only while some  *)
(* other contender draws random backoffs that come out as 0.  That ends     *)
(* with the other's next deterministic backoff, whatever is drawn, so the   *)
(* countdown of everybody moves on and everybody transmits again.           *)
NobodyStarves ==
    \A n \in Node : \E k \in Node \ {n} : passed[n] <= Streak(k)
=============================================================================
