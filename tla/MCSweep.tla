-------------------------------- MODULE MCSweep --------------------------------
(***************************************************************************)
(* Small instances of Sweep: an operator repeats one sweep for ever while  *)
(* a bounded number of other things go wrong.                              *)
(***************************************************************************)
EXTENDS Sweep

CONSTANTS s1, s2, MaxFaults

(* s1 sweeps three jobs and s2 two of them, from a matrix with fewer seeds. *)
ThreeAndTwo == [s \in Sweeper |-> IF s = s1 THEN <<1, 2, 3>> ELSE <<2, 3>>]

VARIABLE faults        \* failures, kills, replacements and sweeps of others so far

mcVars == <<sweepVars, faults>>

Again == Start(s1) /\ UNCHANGED faults

(* The other sweep is the last thing that happens: it overlaps with the     *)
(* reruns after whatever came before.                                       *)
Disturb ==
    /\ faults < MaxFaults
    /\ faults' = faults + 1
    /\ \/ Replace
       \/ \E s \in Sweeper : Faults(s)
       \/ faults = MaxFaults - 1 /\ \E s \in Sweeper \ {s1} : Start(s)

Parent(s) == (Prepares(s) \/ Collects(s)) /\ UNCHANGED faults

Process(s, j) == Works(s, j) /\ UNCHANGED faults

(* Nothing tells the models apart: one to start with stands for all.        *)
MCInit == SweepInit /\ model = (CHOOSE content \in Models : TRUE) /\ faults = 0

MCNext == Again \/ Disturb \/ \E s \in Sweeper : Parent(s) \/ \E j \in Job : Process(s, j)

(* The operating system schedules every process; the operator tries again.  *)
MCSweepSpec ==
    /\ MCInit /\ [][MCNext]_mcVars
    /\ WF_mcVars(Again)
    /\ \A s \in Sweeper :
          /\ WF_mcVars(Parent(s))
          /\ \A j \in Job : WF_mcVars(Process(s, j))

(* Whatever fails, an operator who repeats the sweep completes the matrix   *)
(* for the model that stays in place.                                       *)
Resumes ==
    <>[](\A j \in Job : store[j] # Nothing /\ store[j].execution = Execution(j, model, model))
=============================================================================
