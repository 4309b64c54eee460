------------------------------- MODULE JobStore -------------------------------
(***************************************************************************)
(* What run_job promises its callers, who may be several: one job is       *)
(* published as a whole or not at all, a published job is retracted only   *)
(* in a call that expects another provenance, and a call that returns    *)
(* returns what is published.                                              *)
(***************************************************************************)
CONSTANTS Worker, Wants, Absent

VARIABLES
    published,   \* the provenance of the published job, or Absent
    returned     \* the processes whose latest call returned a manifest

storeVars == <<published, returned>>

Init == published = Absent /\ returned = {}

Publish(w) ==
    /\ w \notin returned
    /\ published = Absent
    /\ published' = Wants[w]
    /\ UNCHANGED returned

Retract(w) ==
    /\ w \notin returned
    /\ published \notin {Absent, Wants[w]}
    /\ published' = Absent
    /\ UNCHANGED returned

Call(w) == w \in returned /\ returned' = returned \ {w} /\ UNCHANGED published

Deliver(w) ==
    /\ w \notin returned
    /\ published = Wants[w]
    /\ returned' = returned \cup {w}
    /\ UNCHANGED published

Next == \E w \in Worker : Publish(w) \/ Retract(w) \/ Call(w) \/ Deliver(w)

Spec == Init /\ [][Next]_storeVars
=============================================================================
