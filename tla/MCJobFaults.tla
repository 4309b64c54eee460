----------------------------- MODULE MCJobFaults ------------------------------
(***************************************************************************)
(* Processes on one job, two with the same inputs and one with others,     *)
(* while an operator reruns one of them.                                   *)
(***************************************************************************)
EXTENDS MCJobArtifacts

CONSTANT MaxFaults

VARIABLE faults       \* exceptions, kills and starts of the others so far

faultVars == <<jobVars, faults>>

(* An operator reruns w1 for ever; the others, the exceptions and the kills *)
(* end.                                                                     *)
Again == Start(w1) /\ UNCHANGED faults

Disturb ==
    /\ faults < MaxFaults
    /\ faults' = faults + 1
    /\ \E w \in Worker : Faults(w) \/ (w # w1 /\ Start(w))

Run(w) == Runs(w) /\ UNCHANGED faults

FaultsNext == Again \/ Disturb \/ \E w \in Worker : Run(w)

FaultsInit == JobInit /\ faults = 0

FaultsSpec ==
    /\ FaultsInit /\ [][FaultsNext]_faultVars
    /\ WF_faultVars(Again)
    /\ \A w \in Worker : WF_faultVars(Run(w))

(* A job that is rerun completes for good once the faults have ended,       *)
(* whatever they left behind and wherever they struck.                      *)
Completes == <>[]Complete(p1)
=============================================================================
