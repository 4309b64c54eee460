----------------------------- MODULE MCPretraining -----------------------------
(***************************************************************************)
(* Two publishers and a reader: p1 is rerun for ever, what p2 and the      *)
(* faults do is bounded.                                                   *)
(***************************************************************************)
EXTENDS Pretraining

CONSTANTS p1, p2, v0, v1, v2, MaxFaults

VARIABLE faults        \* exceptions, interrupts, kills and starts of p2 so far

mcVars == <<pretrainingVars, faults>>

MakesOwn == [p \in Publisher |-> IF p = p1 THEN v1 ELSE v2]

Again == Begin(p1) /\ UNCHANGED faults

Disturb ==
    /\ faults < MaxFaults
    /\ faults' = faults + 1
    /\ \E p \in Publisher : Disturbs(p) \/ (p # p1 /\ Begin(p))

Run(p) == Publishes(p) /\ UNCHANGED faults

Inspect == (\E r \in Reader : Inspects(r)) /\ UNCHANGED faults

MCInit == PretrainingInit /\ faults = 0

MCNext == Again \/ Disturb \/ Inspect \/ \E p \in Publisher : Run(p)

MCPretrainingSpec ==
    /\ MCInit /\ [][MCNext]_mcVars
    /\ WF_mcVars(Again)
    /\ \A p \in Publisher : WF_mcVars(Run(p))

(* A pair that was left torn is repaired by running pretraining again.      *)
Repairs == <>[](model = v1 /\ oracle = v1)
=============================================================================
