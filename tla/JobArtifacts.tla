----------------------------- MODULE JobArtifacts -----------------------------
(***************************************************************************)
(* The files of one job and the processes that run it: run_job of          *)
(* simulation.py, with the locking, the completeness check and the cleanup *)
(* of experiment.py and the installation of records and manifests of io.py.*)
(* Sweeps, retries and an operator's reruns may start the same job in      *)
(* several processes, which cooperate only through the per-job lock.       *)
(*                                                                         *)
(* Contents are told apart by the execution provenance they were produced  *)
(* under.  A process may be killed between any two steps: the kernel drops *)
(* its lock and its files stay.  A loss of power is not modelled.          *)
(***************************************************************************)
EXTENDS Naturals

CONSTANTS
    Worker,           \* the processes that may run the job
    Provenance,       \* the execution provenances in play
    Wants,            \* Wants[w]: the provenance w computed from its inputs
    Absent,           \* no such file
    Torn,             \* a partial file that was not finished
    Canonical,        \* the config sidecar, the same for every process
    Nobody

ASSUME JobAssumption ==
    /\ Wants \in [Worker -> Provenance] /\ Nobody \notin Worker
    /\ Absent \notin Provenance /\ Torn \notin Provenance
    /\ Absent # Torn /\ Canonical # Absent /\ Canonical # Torn

Files == {"manifest", "manifest_partial", "raw", "marker", "raw_partial", "marker_partial"}

(* Mutant: the record goes before the manifest.                          *)
RecordFirst ==
    [raw |-> 0, marker |-> 1, raw_partial |-> 2, marker_partial |-> 3,
     manifest |-> 4, manifest_partial |-> 5]

(* _safe_cleanup_artifacts removes the files in this order. *)
CleanupRank ==
    [manifest |-> 0, manifest_partial |-> 1,
     raw |-> 2, marker |-> 3, raw_partial |-> 4, marker_partial |-> 5]

VARIABLES
    file,             \* what each file holds
    sidecar,          \* the config sidecar
    holder,           \* who holds the job's artifact lock
    pc,               \* where each process is
    seen,             \* the manifest a process read without the lock
    targets,          \* what a cleaning process has still to unlink
    raising,          \* processes that clean up on the way out of an exception
    neglected         \* history: a process was killed, or failed to clean up

jobVars == <<file, sidecar, holder, pc, seen, targets, raising, neglected>>

Stopped   == {"new", "returned", "raised", "killed"}
Locking   == {"first", "lock", "second"}
Unlocked  == Stopped \cup Locking \cup {"peek", "peeked"}
Recording == {"rows", "seal", "install_raw", "install_marker"}
Saving    == {"save", "install_manifest"}
Writing   == {"recheck", "write", "manifest", "done"} \cup Recording \cup Saving
Holding   == {"check", "clear", "unlink"} \cup Writing

Goto(w, label) == pc' = [pc EXCEPT ![w] = label]

Release == holder' = Nobody

(* Mutant: the expected provenance is not compared.                      *)
CompleteForAnyone(p) ==
    /\ file["manifest"] \in Provenance
    /\ file["raw"] = file["manifest"] /\ file["marker"] = file["manifest"]

(* The manifest is there, is not torn and was written under provenance p.   *)
ManifestFor(p) == file["manifest"] = p

(* The record can be read to its end and is the one the expected digest and *)
(* its own marker describe.                                                 *)
RecordFor(p) == file["raw"] = p /\ file["marker"] = p

(* job_is_complete for a process that expects provenance p. *)
Complete(p) == ManifestFor(p) /\ RecordFor(p)

-----------------------------------------------------------------------------
(* The lock *)

Start(w) ==
    /\ pc[w] \in Stopped
    /\ Goto(w, "first")
    /\ raising' = raising \ {w}
    /\ UNCHANGED <<file, sidecar, holder, seen, targets, neglected>>

Inside(label) ==
    CASE label = "first" -> "check" [] label = "lock" -> "clear" [] label = "second" -> "recheck"

Lock(w) ==
    /\ pc[w] \in Locking /\ holder = Nobody
    /\ holder' = w
    /\ Goto(w, Inside(pc[w]))
    /\ UNCHANGED <<file, sidecar, seen, targets, raising, neglected>>

(* LOCK_NB: BlockingIOError, outside every handler that would clean up.     *)
Blocked(w) ==
    /\ pc[w] \in Locking /\ holder # Nobody
    /\ Goto(w, "raised")
    /\ UNCHANGED <<file, sidecar, holder, seen, targets, raising, neglected>>

(* Under the first lock: ensure_job_config_sidecar, then the check.         *)
Check(w) ==
    /\ pc[w] = "check"
    /\ sidecar' = Canonical
    /\ Release
    /\ Goto(w, IF Complete(Wants[w]) THEN "returned" ELSE "peek")
    /\ UNCHANGED <<file, seen, targets, raising, neglected>>

-----------------------------------------------------------------------------
(* clear_invalid_job_artifacts *)

AfterClear(w) == IF w \in raising THEN "raised" ELSE "second"

(* The first check holds no lock: the files may change between its reads.   *)
PeekManifest(w) ==
    /\ pc[w] = "peek"
    /\ seen' = [seen EXCEPT ![w] = file["manifest"]]
    /\ Goto(w, "peeked")
    /\ UNCHANGED <<file, sidecar, holder, targets, raising, neglected>>

PeekRecord(w) ==
    /\ pc[w] = "peeked"
    /\ Goto(w, IF seen[w] = Wants[w] /\ RecordFor(Wants[w])
               THEN AfterClear(w) ELSE "lock")
    /\ UNCHANGED <<file, sidecar, holder, seen, targets, raising, neglected>>

(* Mutant: the marker is not on the list.                                *)
ForgetsMarker == {f \in Files \ {"marker"} : file[f] # Absent}

Leftovers == {f \in Files : file[f] # Absent}

(* Mutant: the check is not repeated under the lock.                     *)
ClearUnchecked(w) ==
    /\ pc[w] = "clear"
    /\ targets' = [targets EXCEPT ![w] = Leftovers]
    /\ Goto(w, "unlink")
    /\ UNCHANGED <<file, sidecar, holder, seen, raising, neglected>>

Clear(w) ==
    /\ pc[w] = "clear"
    /\ IF Complete(Wants[w])
       THEN Release /\ Goto(w, AfterClear(w)) /\ UNCHANGED targets
       ELSE /\ targets' = [targets EXCEPT ![w] = Leftovers]
            /\ Goto(w, "unlink")
            /\ UNCHANGED holder
    /\ UNCHANGED <<file, sidecar, seen, raising, neglected>>

Unlink(w) ==
    /\ pc[w] = "unlink"
    /\ \E f \in targets[w] :
          /\ \A g \in targets[w] : CleanupRank[f] <= CleanupRank[g]
          /\ file' = [file EXCEPT ![f] = Absent]
          /\ targets' = [targets EXCEPT ![w] = @ \ {f}]
    /\ UNCHANGED <<sidecar, holder, pc, seen, raising, neglected>>

Cleared(w) ==
    /\ pc[w] = "unlink" /\ targets[w] = {}
    /\ Release
    /\ Goto(w, AfterClear(w))
    /\ UNCHANGED <<file, sidecar, seen, targets, raising, neglected>>

-----------------------------------------------------------------------------
(* Under the second lock: write_jsonl_gz, then write_manifest *)

Recheck(w) ==
    /\ pc[w] = "recheck"
    /\ sidecar' = Canonical
    /\ IF Complete(Wants[w]) THEN Release /\ Goto(w, "returned")
       ELSE Goto(w, "write") /\ UNCHANGED holder
    /\ UNCHANGED <<file, seen, targets, raising, neglected>>

Writes(w, from, to, files) ==
    /\ pc[w] = from
    /\ file' = files
    /\ Goto(w, to)
    /\ UNCHANGED <<sidecar, holder, seen, targets, raising, neglected>>

Installed(partial, name) == [file EXCEPT ![name] = file[partial], ![partial] = Absent]

OpenRecord(w) ==
    /\ file["raw"] = Absent /\ file["marker"] = Absent
    /\ Writes(w, "write", "rows",
              [file EXCEPT !["raw_partial"] = Absent, !["marker_partial"] = Absent])

WriteRows(w) == Writes(w, "rows", "seal", [file EXCEPT !["raw_partial"] = Wants[w]])

Seal(w) == Writes(w, "seal", "install_raw", [file EXCEPT !["marker_partial"] = Wants[w]])

InstallRaw(w) == Writes(w, "install_raw", "install_marker", Installed("raw_partial", "raw"))

InstallMarker(w) ==
    Writes(w, "install_marker", "manifest", Installed("marker_partial", "marker"))

OpenManifest(w) ==
    /\ RecordFor(Wants[w]) /\ file["manifest"] = Absent
    /\ Writes(w, "manifest", "save", [file EXCEPT !["manifest_partial"] = Absent])

SaveManifest(w) ==
    Writes(w, "save", "install_manifest", [file EXCEPT !["manifest_partial"] = Wants[w]])

InstallManifest(w) ==
    Writes(w, "install_manifest", "done", Installed("manifest_partial", "manifest"))

Return(w) ==
    /\ pc[w] = "done"
    /\ Release
    /\ Goto(w, "returned")
    /\ UNCHANGED <<file, sidecar, seen, targets, raising, neglected>>

-----------------------------------------------------------------------------
(* Exceptions and kills *)

(* What the exception handlers of io.py unlink at a label.                  *)
Undone(label) ==
    (IF label \in Recording THEN {"raw_partial", "marker_partial"} ELSE {})
    \cup (IF label = "install_marker" /\ file["marker"] = Absent THEN {"raw"} ELSE {})
    \cup (IF label \in Saving THEN {"manifest_partial"} ELSE {})

(* Mutant: the exception is raised at once.                              *)
AbortsUncleared(w) ==
    /\ file' = [f \in Files |-> IF f \in Undone(pc[w]) THEN Absent ELSE file[f]]
    /\ Release
    /\ Goto(w, "raised")
    /\ UNCHANGED <<sidecar, seen, targets, raising, neglected>>

(* An exception under the second lock: release it, then clear and re-raise. *)
Aborts(w) ==
    /\ file' = [f \in Files |-> IF f \in Undone(pc[w]) THEN Absent ELSE file[f]]
    /\ Release
    /\ raising' = raising \cup {w}
    /\ Goto(w, "peek")
    /\ UNCHANGED <<sidecar, seen, targets, neglected>>

(* FileExistsError: somebody else's files are in the way.                   *)
Refused(w) ==
    /\ \/ pc[w] = "write" /\ (file["raw"] # Absent \/ file["marker"] # Absent)
       \/ pc[w] = "manifest" /\ file["manifest"] # Absent
    /\ Aborts(w)

Fail(w) == pc[w] \in Writing /\ Aborts(w)

(* An exception before the record is owned, or while cleaning up.           *)
FailOutside(w) ==
    /\ pc[w] \in {"check", "peek", "peeked", "clear", "unlink"}
    /\ holder' = IF holder = w THEN Nobody ELSE holder
    /\ Goto(w, "raised")
    /\ neglected' = TRUE
    /\ UNCHANGED <<file, sidecar, seen, targets, raising>>

(* The file a process is in the middle of writing at a label.               *)
Open(label) ==
    CASE label = "rows" -> {"raw_partial"} [] label = "seal" -> {"marker_partial"}
      [] label = "save" -> {"manifest_partial"} [] OTHER -> {}

Kill(w) ==
    /\ pc[w] \notin Stopped
    /\ \E torn \in SUBSET Open(pc[w]) :
          file' = [f \in Files |-> IF f \in torn THEN Torn ELSE file[f]]
    /\ sidecar' \in {sidecar} \cup
          (IF pc[w] \in {"check", "recheck"} /\ sidecar # Canonical
           THEN {Torn, Canonical} ELSE {})
    /\ holder' = IF holder = w THEN Nobody ELSE holder
    /\ Goto(w, "killed")
    /\ neglected' = TRUE
    /\ UNCHANGED <<seen, targets, raising>>

-----------------------------------------------------------------------------
(* Specification *)

JobInit ==
    /\ file = [f \in Files |-> Absent]
    /\ sidecar = Absent
    /\ holder = Nobody
    /\ pc = [w \in Worker |-> "new"]
    /\ seen = [w \in Worker |-> Absent]
    /\ targets = [w \in Worker |-> {}]
    /\ raising = {}
    /\ neglected = FALSE

Clears(w) ==
    PeekManifest(w) \/ PeekRecord(w) \/ Clear(w) \/ Unlink(w) \/ Cleared(w)

WritesJob(w) ==
    \/ Recheck(w) \/ OpenRecord(w) \/ WriteRows(w) \/ Seal(w)
    \/ InstallRaw(w) \/ InstallMarker(w)
    \/ OpenManifest(w) \/ SaveManifest(w) \/ InstallManifest(w) \/ Return(w)

(* What run_job does by itself once started. *)
Runs(w) == Lock(w) \/ Blocked(w) \/ Check(w) \/ Clears(w) \/ WritesJob(w) \/ Refused(w)

Faults(w) == Fail(w) \/ FailOutside(w) \/ Kill(w)

JobNext == \E w \in Worker : Start(w) \/ Runs(w) \/ Faults(w)

JobSpec == JobInit /\ [][JobNext]_jobVars

-----------------------------------------------------------------------------
(* Properties *)

Contents == Provenance \cup {Absent, Torn}

(* A process that holds the lock is alive and inside one of its regions,    *)
(* and only that process is.                                                *)
JobTypeOK ==
    /\ file \in [Files -> Contents]
    /\ sidecar \in {Absent, Torn, Canonical}
    /\ holder \in Worker \cup {Nobody}
    /\ pc \in [Worker -> Unlocked \cup Holding]
    /\ seen \in [Worker -> Contents]
    /\ targets \in [Worker -> SUBSET Files]
    /\ raising \in SUBSET Worker
    /\ neglected \in BOOLEAN
    /\ \A w \in Worker : pc[w] \in Holding <=> holder = w

(* Whoever finds a manifest, with or without the lock, finds the whole      *)
(* record it describes next to it: in the middle of a write, of a cleanup   *)
(* and after a kill.                                                        *)
ManifestHasRecord ==
    /\ file["manifest"] # Absent =>
          /\ file["manifest"] \in Provenance
          /\ file["raw"] = file["manifest"] /\ file["marker"] = file["manifest"]
    /\ file["marker"] # Absent => file["marker"] # Torn /\ sidecar = Canonical

(* run_job implements JobStore: "persist one job atomically, returning an   *)
(* existing valid run unchanged".  The rename of the manifest publishes the *)
(* job, its removal retracts it, and the rest of the protocol is invisible; *)
(* if all expect the same provenance, nothing is ever retracted and what a  *)
(* call returned stays.                                                     *)
Store == INSTANCE JobStore WITH
            published <- file["manifest"],
            returned  <- {w \in Worker : pc[w] = "returned"}

PersistsAtomically == Store!Spec

(* "preserving valid completed jobs": a complete job loses a file only to a *)
(* process that itself expects another provenance, whatever failed before.  *)
CompletedPreserved ==
    [][\A p \in Provenance :
          Complete(p) => Complete(p)' \/ \E w \in Worker : holder = w /\ Wants[w] # p]_jobVars

(* Exceptions leave nothing behind: once everybody has stopped, the job is  *)
(* complete or its directory is empty, although a cleanup gives way to any  *)
(* process that holds the lock at that moment.                              *)
FailuresAreCleared ==
    (\A w \in Worker : pc[w] \in Stopped) /\ ~neglected =>
        \/ \E p \in Provenance : Complete(p)
        \/ \A f \in Files : file[f] = Absent
=============================================================================
