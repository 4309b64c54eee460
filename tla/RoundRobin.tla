------------------------------ MODULE RoundRobin ------------------------------
(***************************************************************************)
(* What deterministic backoff promises a saturated channel: rounds may     *)
(* collide and be ordered in any way until the schedule settles; from then *)
(* on the contenders take turns for ever, one alone in each round.         *)
(***************************************************************************)
EXTENDS Integers

CONSTANTS
    Node,
    Last         \* the turn of who comes after everybody else

VARIABLES
    settled,     \* the turns are fixed
    turn,        \* turn[n]: how many go before n
    senders      \* who transmitted in the latest round

vars == <<settled, turn, senders>>

TypeOK ==
    /\ settled \in BOOLEAN
    /\ turn \in [Node -> Nat]
    /\ senders \in SUBSET Node

Init == TypeOK /\ senders = {}

(* Before the turns are fixed a round has any outcome. *)
Contend ==
    /\ ~settled
    /\ settled' \in BOOLEAN
    /\ turn' \in [Node -> Nat]
    /\ senders' \in (SUBSET Node) \ {{}}

(* Whose turn it is transmits alone and goes behind everybody. *)
Rotate ==
    /\ settled
    /\ \E s \in Node :
          /\ turn[s] = 0
          /\ senders' = {s}
          /\ turn' = [n \in Node |-> IF n = s THEN Last ELSE turn[n] - 1]
    /\ UNCHANGED settled

Next == Contend \/ Rotate

Spec == Init /\ [][Next]_vars /\ WF_vars(Rotate)
=============================================================================
