------------------------------- MODULE MCChannel -------------------------------
(***************************************************************************)
(* Small instances of Channel.                                             *)
(***************************************************************************)
EXTENDS Channel

CONSTANTS MaxNow, MaxRetries, MaxInterruptions, w1, w2

KindPair == [n \in Node |-> IF n = w1 THEN "adaptive" ELSE "primary"]
CwMaxTwo == [n \in Node |-> 2]

ShortProfile == [kappa |-> 2, beta |-> 1, m |-> 1, b_init |-> 1]
LongProfile  == [kappa |-> 3, beta |-> 2, m |-> 2, b_init |-> 2]
TwoProfiles  == {ShortProfile, LongProfile}

(* A job ends after its rounds, so a run may stop at a bound. *)
ChannelBounded ==
    /\ now <= MaxNow
    /\ \A n \in Node :
          retries[n] <= MaxRetries /\ interruptions[n] <= MaxInterruptions

MCChannelSpec == ChannelInit /\ [][ChannelNext /\ ChannelBounded']_chanVars
=============================================================================
