------------------------------ MODULE MCNs3Matrix ------------------------------
(***************************************************************************)
(* Small instances of Ns3Matrix: an operator repeats the whole script for  *)
(* ever, while a bounded number of things go wrong.                        *)
(***************************************************************************)
EXTENDS Ns3Matrix

CONSTANTS MaxFaults

TwoJobs    == <<1, 2>>
ThreeJobs  == <<1, 2, 3>>
SmokePair  == <<8, 9>>
SpoiltInA  ==
    [v \in Version |-> {fault \in {<<1, "attempts">>, <<2, "e2e">>, <<3, "metrics">>} :
                            v = "a" /\ fault[1] \in Ns3Job}]
SameModel  == [v \in Version |-> "model"]

VARIABLE faults        \* failures, kills and changes so far

mcVars == <<ns3Vars, faults>>

Disturb ==
    /\ faults < MaxFaults
    /\ faults' = faults + 1
    /\ Faults

Again == Invoke /\ UNCHANGED faults

Parent == Proceeds /\ UNCHANGED faults

Process(g, j) == Works(g, j) /\ UNCHANGED faults

MCInit == Ns3Init /\ faults = 0

MCNext == Again \/ Parent \/ Disturb \/ \E g \in Generation, j \in Ns3Job : Process(g, j)

(* The operating system schedules the processes of every shell, a           *)
(* simulation comes to its end, and the operator tries again.               *)
MCNs3Spec ==
    /\ MCInit /\ [][MCNext]_mcVars
    /\ WF_mcVars(Again) /\ WF_mcVars(Parent)
    /\ \A g \in Generation : WF_mcVars(\E j \in Ns3Job : Process(g, j))

Accepted ==
    \A j \in FormalJobs :
        /\ database[j] = Evidence(j, inputs)
        /\ manifest[j] = Manifest(inputs, database[j])

AllSound ==
    \A j \in Ns3Job :
        /\ LocalStateIsSound(j, Evidence(j, inputs))
        /\ OfficialEvidenceIsSound(Evidence(j, inputs))

Stuck(j) ==
    manifest[j] # Nothing /\ StrictlyValid(j, inputs) /\ ~ManifestMatches(j, inputs)

(* Whoever is killed and whatever changes, an operator who repeats the      *)
(* script completes the matrix for inputs under which every simulation is   *)
(* sound, unless a valid database of theirs is left beside the manifest of  *)
(* another, where job_is_complete passes and the audit does not.            *)
Completes ==
    <>[]AllSound => <>[]Accepted \/ \E j \in Ns3Job : <>[]Stuck(j)
=============================================================================
