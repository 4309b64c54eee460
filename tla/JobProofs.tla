------------------------------ MODULE JobProofs -------------------------------
(***************************************************************************)
(* Proofs about JobArtifacts, for any number of processes and provenances. *)
(* Everything rests on one invariant: what the files hold at each label of *)
(* the process that holds the lock.                                        *)
(***************************************************************************)
EXTENDS JobArtifacts, TLAPS

(* What a process that holds the lock relies on, label by label.            *)
Relies(w) ==
    /\ pc[w] \in {"rows", "seal", "install_raw"} =>
          file["raw"] = Absent /\ file["marker"] = Absent
    /\ pc[w] \in {"seal", "install_raw"} => file["raw_partial"] = Wants[w]
    /\ pc[w] \in {"install_raw", "install_marker"} => file["marker_partial"] = Wants[w]
    /\ pc[w] = "install_marker" => file["raw"] = Wants[w] /\ file["marker"] = Absent
    /\ pc[w] \in Saving =>
          /\ file["raw"] = Wants[w] /\ file["marker"] = Wants[w]
          /\ file["manifest"] = Absent
    /\ pc[w] = "install_manifest" => file["manifest_partial"] = Wants[w]
    /\ pc[w] = "done" => Complete(Wants[w])
    /\ pc[w] \in Writing \ {"recheck"} => sidecar = Canonical
    /\ pc[w] = "unlink" =>
          /\ file["manifest"] # Wants[w]
          /\ \A f \in Files \ targets[w] : file[f] = Absent

JobInv == JobTypeOK /\ ManifestHasRecord /\ \A w \in Worker : Relies(w)

USE JobAssumption DEF Leftovers

LEMMA InitialJob == JobInit => JobInv
BY DEF JobInit, JobInv, JobTypeOK, ManifestHasRecord, Relies, Complete, ManifestFor, RecordFor, Files, Contents,
       Unlocked, Stopped, Locking, Holding, Writing, Recording, Saving

(* A process outside the lock relies on nothing.                            *)
LEMMA OutsideRelies ==
    ASSUME NEW w \in Worker, pc[w] \in Unlocked
    PROVE  Relies(w)
BY DEF Relies, Unlocked, Stopped, Locking, Writing, Recording, Saving

(* While w holds the lock everybody else is outside, and stays there.       *)
LEMMA OthersRely ==
    ASSUME JobInv, NEW w \in Worker, holder = w, NEW label,
           pc' = [pc EXCEPT ![w] = label], NEW v \in Worker \ {w}
    PROVE  Relies(v)'
<1>1. pc[v] \in Unlocked
  BY DEF JobInv, JobTypeOK
<1>2. pc'[v] = pc[v]
  BY DEF JobInv, JobTypeOK
<1>3. QED
  BY <1>1, <1>2 DEF Relies, Unlocked, Stopped, Locking, Writing, Recording, Saving

(* A step of w that leaves the files alone disturbs nobody else.            *)
LEMMA QuietRely ==
    ASSUME JobInv, NEW w \in Worker, NEW label,
           pc' = [pc EXCEPT ![w] = label],
           UNCHANGED file, sidecar' \in {sidecar, Canonical},
           NEW v \in Worker \ {w}, targets'[v] = targets[v]
    PROVE  Relies(v)'
<1>1. pc'[v] = pc[v] /\ Relies(v)
  BY DEF JobInv, JobTypeOK
<1>2. QED
  BY <1>1 DEF Relies, Complete, ManifestFor, RecordFor

LEMMA LabelsApart == Unlocked \cap Holding = {}
BY DEF Unlocked, Stopped, Locking, Holding, Writing, Recording, Saving

-----------------------------------------------------------------------------
(* The steps outside the lock, and those that take and release it *)

LEMMA StartStep == ASSUME JobInv, NEW w \in Worker, Start(w) PROVE JobInv'
<1>1. JobTypeOK'
  BY LabelsApart DEF JobInv, JobTypeOK, Start, Goto, Unlocked, Stopped, Locking
<1>2. ManifestHasRecord'
  BY DEF JobInv, ManifestHasRecord, Start
<1>3. Relies(w)'
  BY OutsideRelies DEF JobInv, JobTypeOK, Start, Goto, Relies, Locking, Writing,
     Recording, Saving
<1>4. \A v \in Worker \ {w} : Relies(v)'
  BY QuietRely DEF Start, Goto
<1>5. QED
  BY <1>1, <1>2, <1>3, <1>4 DEF JobInv

LEMMA LockStep == ASSUME JobInv, NEW w \in Worker, Lock(w) PROVE JobInv'
<1>1. Inside(pc[w]) \in {"check", "clear", "recheck"}
  BY DEF Lock, Locking, Inside
<1>2. JobTypeOK'
  BY <1>1, LabelsApart DEF JobInv, JobTypeOK, Lock, Goto, Unlocked, Locking, Holding, Writing
<1>3. ManifestHasRecord'
  BY DEF JobInv, ManifestHasRecord, Lock
<1>4. Relies(w)'
  BY <1>1 DEF JobInv, JobTypeOK, Lock, Goto, Relies, Writing, Recording, Saving
<1>5. \A v \in Worker \ {w} : Relies(v)'
  BY QuietRely DEF Lock, Goto
<1>6. QED
  BY <1>2, <1>3, <1>4, <1>5 DEF JobInv

LEMMA BlockedStep == ASSUME JobInv, NEW w \in Worker, Blocked(w) PROVE JobInv'
<1>1. JobTypeOK'
  BY LabelsApart DEF JobInv, JobTypeOK, Blocked, Goto, Unlocked, Stopped, Locking
<1>2. ManifestHasRecord'
  BY DEF JobInv, ManifestHasRecord, Blocked
<1>3. Relies(w)'
  BY DEF JobInv, JobTypeOK, Blocked, Goto, Relies, Writing, Recording, Saving
<1>4. \A v \in Worker \ {w} : Relies(v)'
  BY QuietRely DEF Blocked, Goto
<1>5. QED
  BY <1>1, <1>2, <1>3, <1>4 DEF JobInv

LEMMA CheckStep == ASSUME JobInv, NEW w \in Worker, Check(w) PROVE JobInv'
<1>1. holder = w
  BY DEF JobInv, JobTypeOK, Check, Holding
<1>2. PICK label \in {"returned", "peek"} : Goto(w, label)
  BY DEF Check
<1>3. JobTypeOK'
  BY <1>1, <1>2, LabelsApart
     DEF JobInv, JobTypeOK, Check, Release, Goto, Unlocked, Stopped
<1>4. ManifestHasRecord'
  BY DEF JobInv, ManifestHasRecord, Check
<1>5. Relies(w)'
  BY <1>2 DEF JobInv, JobTypeOK, Goto, Relies, Writing, Recording, Saving
<1>6. \A v \in Worker \ {w} : Relies(v)'
  BY <1>1, <1>2, OthersRely DEF Goto
<1>7. QED
  BY <1>3, <1>4, <1>5, <1>6 DEF JobInv

LEMMA PeekManifestStep == ASSUME JobInv, NEW w \in Worker, PeekManifest(w) PROVE JobInv'
<1>1. JobTypeOK'
  BY LabelsApart DEF JobInv, JobTypeOK, PeekManifest, Goto, Unlocked, Files
<1>2. ManifestHasRecord'
  BY DEF JobInv, ManifestHasRecord, PeekManifest
<1>3. Relies(w)'
  BY DEF JobInv, JobTypeOK, PeekManifest, Goto, Relies, Writing, Recording, Saving
<1>4. \A v \in Worker \ {w} : Relies(v)'
  BY QuietRely DEF PeekManifest, Goto
<1>5. QED
  BY <1>1, <1>2, <1>3, <1>4 DEF JobInv

LEMMA PeekRecordStep == ASSUME JobInv, NEW w \in Worker, PeekRecord(w) PROVE JobInv'
<1>1. PICK label \in {"raised", "second", "lock"} : Goto(w, label)
  BY DEF PeekRecord, AfterClear
<1>2. JobTypeOK'
  BY <1>1, LabelsApart
     DEF JobInv, JobTypeOK, PeekRecord, Goto, Unlocked, Stopped, Locking
<1>3. ManifestHasRecord'
  BY DEF JobInv, ManifestHasRecord, PeekRecord
<1>4. Relies(w)'
  BY <1>1 DEF JobInv, JobTypeOK, Goto, Relies, Writing, Recording, Saving
<1>5. \A v \in Worker \ {w} : Relies(v)'
  BY <1>1, QuietRely DEF PeekRecord, Goto
<1>6. QED
  BY <1>2, <1>3, <1>4, <1>5 DEF JobInv

-----------------------------------------------------------------------------
(* The steps of the holder of the lock *)

LEMMA HolderIs ==
    ASSUME JobInv, NEW w \in Worker, pc[w] \in Holding
    PROVE  holder = w
BY DEF JobInv, JobTypeOK

LEMMA ClearStep == ASSUME JobInv, NEW w \in Worker, Clear(w) PROVE JobInv'
<1>1. holder = w
  BY HolderIs DEF Clear, Holding
<1>2. ManifestHasRecord'
  BY DEF JobInv, ManifestHasRecord, Clear
<1>3. CASE Complete(Wants[w])
  <2>1. PICK label \in {"raised", "second"} : Goto(w, label)
    BY <1>3 DEF Clear, AfterClear
  <2>2. JobTypeOK'
    BY <1>1, <1>3, <2>1, LabelsApart
       DEF JobInv, JobTypeOK, Clear, Release, Goto, Unlocked, Stopped, Locking
  <2>3. Relies(w)'
    BY <2>1 DEF JobInv, JobTypeOK, Goto, Relies, Writing, Recording, Saving
  <2>4. \A v \in Worker \ {w} : Relies(v)'
    BY <1>1, <2>1, OthersRely DEF Goto
  <2>5. QED
    BY <1>2, <2>2, <2>3, <2>4 DEF JobInv
<1>4. CASE ~Complete(Wants[w])
  <2>1. JobTypeOK'
    BY <1>1, <1>4, LabelsApart
       DEF JobInv, JobTypeOK, Clear, Goto, Holding
  <2>2. file["manifest"] # Wants[w]
    BY <1>4 DEF JobInv, ManifestHasRecord, Complete, ManifestFor, RecordFor
  <2>3. Relies(w)'
    BY <1>4, <2>2
       DEF Clear, JobInv, JobTypeOK, Goto, Relies, Writing, Recording, Saving
  <2>4. \A v \in Worker \ {w} : Relies(v)'
    BY <1>1, <1>4, OthersRely DEF Clear, Goto
  <2>5. QED
    BY <1>2, <2>1, <2>3, <2>4 DEF JobInv
<1>5. QED
  BY <1>3, <1>4

(* The manifest goes first, so the record never goes before its manifest.   *)
LEMMA UnlinkStep == ASSUME JobInv, NEW w \in Worker, Unlink(w) PROVE JobInv'
<1>1. holder = w /\ pc[w] = "unlink" /\ pc' = [pc EXCEPT ![w] = "unlink"]
  BY HolderIs DEF Unlink, Holding, JobInv, JobTypeOK
<1>2. PICK f \in targets[w] :
        /\ \A g \in targets[w] : CleanupRank[f] <= CleanupRank[g]
        /\ file' = [file EXCEPT ![f] = Absent]
        /\ targets' = [targets EXCEPT ![w] = @ \ {f}]
  BY DEF Unlink
<1>3. f \in Files /\ targets[w] \subseteq Files
  BY DEF JobInv, JobTypeOK
<1>4. JobTypeOK'
  BY <1>2, <1>3 DEF JobInv, JobTypeOK, Unlink, Contents
<1>5. f # "manifest" => "manifest" \notin targets[w]
  BY <1>2, <1>3 DEF CleanupRank, Files
<1>6. /\ file["manifest"] # Wants[w]
      /\ \A g \in Files \ targets[w] : file[g] = Absent
  BY <1>1 DEF JobInv, Relies
<1>7. file'["manifest"] = Absent
  BY <1>2, <1>3, <1>5, <1>6 DEF JobInv, JobTypeOK, Files
<1>8. ManifestHasRecord'
  BY <1>2, <1>3, <1>7 DEF JobInv, JobTypeOK, ManifestHasRecord, Unlink, Files
<1>9. Relies(w)'
  BY <1>1, <1>2, <1>3, <1>6, <1>7
     DEF JobInv, JobTypeOK, Relies, Writing, Recording, Saving
<1>10. \A v \in Worker \ {w} : Relies(v)'
  BY <1>1, OthersRely
<1>11. QED
  BY <1>4, <1>8, <1>9, <1>10 DEF JobInv

LEMMA ClearedStep == ASSUME JobInv, NEW w \in Worker, Cleared(w) PROVE JobInv'
<1>1. holder = w
  BY HolderIs DEF Cleared, Holding
<1>2. PICK label \in {"raised", "second"} : Goto(w, label)
  BY DEF Cleared, AfterClear
<1>3. JobTypeOK'
  BY <1>1, <1>2, LabelsApart
     DEF JobInv, JobTypeOK, Cleared, Release, Goto, Unlocked, Stopped, Locking
<1>4. ManifestHasRecord'
  BY DEF JobInv, ManifestHasRecord, Cleared
<1>5. Relies(w)'
  BY <1>2 DEF JobInv, JobTypeOK, Goto, Relies, Writing, Recording, Saving
<1>6. \A v \in Worker \ {w} : Relies(v)'
  BY <1>1, <1>2, OthersRely DEF Goto
<1>7. QED
  BY <1>3, <1>4, <1>5, <1>6 DEF JobInv

LEMMA RecheckStep == ASSUME JobInv, NEW w \in Worker, Recheck(w) PROVE JobInv'
<1>1. holder = w
  BY HolderIs DEF Recheck, Holding, Writing
<1>2. PICK label \in {"returned", "write"} :
        /\ Goto(w, label)
        /\ label = "returned" <=> holder' = Nobody
        /\ label = "write" <=> holder' = holder
  BY <1>1 DEF Recheck, Release
<1>3. JobTypeOK'
  BY <1>1, <1>2, LabelsApart
     DEF JobInv, JobTypeOK, Recheck, Goto, Unlocked, Stopped, Holding, Writing
<1>4. ManifestHasRecord'
  BY DEF JobInv, ManifestHasRecord, Recheck
<1>5. Relies(w)'
  BY <1>2 DEF JobInv, JobTypeOK, Recheck, Goto, Relies, Recording, Saving
<1>6. \A v \in Worker \ {w} : Relies(v)'
  BY <1>1, <1>2, OthersRely DEF Goto
<1>7. QED
  BY <1>3, <1>4, <1>5, <1>6 DEF JobInv

-----------------------------------------------------------------------------
(* Writing the record and the manifest *)

(* A write by the holder of the lock, from one of its labels to another.    *)
LEMMA WritesStep ==
    ASSUME JobInv, NEW w \in Worker, NEW from \in Writing, NEW to \in Writing,
           NEW files \in [Files -> Contents],
           Writes(w, from, to, files), ManifestHasRecord', Relies(w)'
    PROVE  JobInv'
<1>1. holder = w
  BY HolderIs DEF Writes, Holding
<1>2. JobTypeOK'
  BY <1>1, LabelsApart DEF JobInv, JobTypeOK, Writes, Goto, Holding
<1>3. \A v \in Worker \ {w} : Relies(v)'
  BY <1>1, OthersRely DEF Writes, Goto
<1>4. QED
  BY <1>2, <1>3 DEF JobInv

LEMMA OpenRecordStep == ASSUME JobInv, NEW w \in Worker, OpenRecord(w) PROVE JobInv'
<1> DEFINE files == [file EXCEPT !["raw_partial"] = Absent, !["marker_partial"] = Absent]
<1>1. Writes(w, "write", "rows", files) /\ files \in [Files -> Contents]
  BY DEF OpenRecord, JobInv, JobTypeOK, Contents
<1>2. ManifestHasRecord'
  BY DEF OpenRecord, Writes, JobInv, JobTypeOK, ManifestHasRecord, Files
<1>3. Relies(w)'
  BY DEF OpenRecord, Writes, Goto, JobInv, JobTypeOK, Relies, Files, Writing, Recording, Saving
<1>4. QED
  BY <1>1, <1>2, <1>3, WritesStep DEF Writing, Recording

LEMMA WriteRowsStep == ASSUME JobInv, NEW w \in Worker, WriteRows(w) PROVE JobInv'
<1> DEFINE files == [file EXCEPT !["raw_partial"] = Wants[w]]
<1>1. Writes(w, "rows", "seal", files) /\ files \in [Files -> Contents]
  BY DEF WriteRows, JobInv, JobTypeOK, Contents
<1>2. ManifestHasRecord'
  BY DEF WriteRows, Writes, JobInv, JobTypeOK, ManifestHasRecord, Files
<1>3. Relies(w)'
  BY DEF WriteRows, Writes, Goto, JobInv, JobTypeOK, Relies, Files, Writing, Recording, Saving
<1>4. QED
  BY <1>1, <1>2, <1>3, WritesStep DEF Writing, Recording

LEMMA SealStep == ASSUME JobInv, NEW w \in Worker, Seal(w) PROVE JobInv'
<1> DEFINE files == [file EXCEPT !["marker_partial"] = Wants[w]]
<1>1. Writes(w, "seal", "install_raw", files) /\ files \in [Files -> Contents]
  BY DEF Seal, JobInv, JobTypeOK, Contents
<1>2. ManifestHasRecord'
  BY DEF Seal, Writes, JobInv, JobTypeOK, ManifestHasRecord, Files
<1>3. Relies(w)'
  BY DEF Seal, Writes, Goto, JobInv, JobTypeOK, Relies, Files, Writing, Recording, Saving
<1>4. QED
  BY <1>1, <1>2, <1>3, WritesStep DEF Writing, Recording

LEMMA InstallRawStep == ASSUME JobInv, NEW w \in Worker, InstallRaw(w) PROVE JobInv'
<1> DEFINE files == Installed("raw_partial", "raw")
<1>1. Writes(w, "install_raw", "install_marker", files) /\ files \in [Files -> Contents]
  BY DEF InstallRaw, Installed, JobInv, JobTypeOK, Contents, Files
<1>2. ManifestHasRecord'
  BY DEF InstallRaw, Installed, Writes, JobInv, JobTypeOK, ManifestHasRecord, Relies, Files
<1>3. Relies(w)'
  BY DEF InstallRaw, Installed, Writes, Goto, JobInv, JobTypeOK, Relies, Files, Writing,
         Recording, Saving
<1>4. QED
  BY <1>1, <1>2, <1>3, WritesStep DEF Writing, Recording

LEMMA InstallMarkerStep == ASSUME JobInv, NEW w \in Worker, InstallMarker(w) PROVE JobInv'
<1> DEFINE files == Installed("marker_partial", "marker")
<1>1. Writes(w, "install_marker", "manifest", files) /\ files \in [Files -> Contents]
  BY DEF InstallMarker, Installed, JobInv, JobTypeOK, Contents, Files
<1>2. /\ pc[w] = "install_marker" /\ file["marker_partial"] = Wants[w]
      /\ sidecar' = Canonical
  BY DEF InstallMarker, Writes, JobInv, Relies, Writing, Recording
<1>3. ManifestHasRecord'
  BY <1>2 DEF InstallMarker, Installed, Writes, JobInv, JobTypeOK, ManifestHasRecord,
         Relies, Files
<1>4. Relies(w)'
  BY DEF InstallMarker, Installed, Writes, Goto, JobInv, JobTypeOK, Relies, Files, Writing,
         Recording, Saving
<1>5. QED
  BY <1>1, <1>3, <1>4, WritesStep DEF Writing, Recording

LEMMA OpenManifestStep == ASSUME JobInv, NEW w \in Worker, OpenManifest(w) PROVE JobInv'
<1> DEFINE files == [file EXCEPT !["manifest_partial"] = Absent]
<1>1. Writes(w, "manifest", "save", files) /\ files \in [Files -> Contents]
  BY DEF OpenManifest, JobInv, JobTypeOK, Contents
<1>2. ManifestHasRecord'
  BY DEF OpenManifest, Writes, JobInv, JobTypeOK, ManifestHasRecord, Files
<1>3. Relies(w)'
  BY DEF OpenManifest, Writes, Goto, JobInv, JobTypeOK, Relies, Files, Writing, Recording,
         Saving, Complete, ManifestFor, RecordFor
<1>4. QED
  BY <1>1, <1>2, <1>3, WritesStep DEF Writing, Saving

LEMMA SaveManifestStep == ASSUME JobInv, NEW w \in Worker, SaveManifest(w) PROVE JobInv'
<1> DEFINE files == [file EXCEPT !["manifest_partial"] = Wants[w]]
<1>1. Writes(w, "save", "install_manifest", files) /\ files \in [Files -> Contents]
  BY DEF SaveManifest, JobInv, JobTypeOK, Contents
<1>2. ManifestHasRecord'
  BY DEF SaveManifest, Writes, JobInv, JobTypeOK, ManifestHasRecord, Files
<1>3. Relies(w)'
  BY DEF SaveManifest, Writes, Goto, JobInv, JobTypeOK, Relies, Files, Writing, Recording,
         Saving
<1>4. QED
  BY <1>1, <1>2, <1>3, WritesStep DEF Writing, Saving

LEMMA InstallManifestStep == ASSUME JobInv, NEW w \in Worker, InstallManifest(w) PROVE JobInv'
<1> DEFINE files == Installed("manifest_partial", "manifest")
<1>1. Writes(w, "install_manifest", "done", files) /\ files \in [Files -> Contents]
  BY DEF InstallManifest, Installed, JobInv, JobTypeOK, Contents, Files
<1>2. /\ pc[w] = "install_manifest" /\ file["manifest_partial"] = Wants[w]
      /\ file["raw"] = Wants[w] /\ file["marker"] = Wants[w]
  BY DEF InstallManifest, Writes, JobInv, Relies, Saving
<1>3. ManifestHasRecord'
  BY <1>2 DEF InstallManifest, Installed, Writes, JobInv, JobTypeOK, ManifestHasRecord, Files
<1>4. Relies(w)'
  BY <1>2 DEF InstallManifest, Installed, Writes, Goto, JobInv, JobTypeOK, Relies, Files,
         Writing, Recording, Saving, Complete, ManifestFor, RecordFor
<1>5. QED
  BY <1>1, <1>3, <1>4, WritesStep DEF Writing, Saving

LEMMA ReturnStep == ASSUME JobInv, NEW w \in Worker, Return(w) PROVE JobInv'
<1>1. holder = w
  BY HolderIs DEF Return, Holding, Writing
<1>2. JobTypeOK'
  BY <1>1, LabelsApart DEF JobInv, JobTypeOK, Return, Release, Goto, Unlocked, Stopped
<1>3. ManifestHasRecord'
  BY DEF JobInv, ManifestHasRecord, Return
<1>4. Relies(w)'
  BY DEF JobInv, JobTypeOK, Return, Goto, Relies, Writing, Recording, Saving
<1>5. \A v \in Worker \ {w} : Relies(v)'
  BY <1>1, OthersRely DEF Return, Goto
<1>6. QED
  BY <1>2, <1>3, <1>4, <1>5 DEF JobInv

-----------------------------------------------------------------------------
(* Exceptions and kills *)

(* The handlers take away nothing a manifest describes.                     *)
LEMMA UndoneKeeps ==
    ASSUME JobInv, NEW w \in Worker, pc[w] \in Writing
    PROVE  /\ "manifest" \notin Undone(pc[w]) /\ "marker" \notin Undone(pc[w])
           /\ file["manifest"] # Absent => "raw" \notin Undone(pc[w])
BY DEF Undone, JobInv, ManifestHasRecord

LEMMA AbortsStep ==
    ASSUME JobInv, NEW w \in Worker, pc[w] \in Writing, Aborts(w)
    PROVE  JobInv'
<1>1. holder = w
  BY HolderIs DEF Holding
<1>2. JobTypeOK'
  BY <1>1, LabelsApart DEF JobInv, JobTypeOK, Aborts, Release, Goto, Unlocked, Contents
<1>3. ManifestHasRecord'
  BY UndoneKeeps DEF JobInv, ManifestHasRecord, Aborts, Files
<1>4. Relies(w)'
  BY DEF JobInv, JobTypeOK, Aborts, Goto, Relies, Writing, Recording, Saving
<1>5. \A v \in Worker \ {w} : Relies(v)'
  BY <1>1, OthersRely DEF Aborts, Goto
<1>6. QED
  BY <1>2, <1>3, <1>4, <1>5 DEF JobInv

LEMMA FailOutsideStep == ASSUME JobInv, NEW w \in Worker, FailOutside(w) PROVE JobInv'
<1>1. JobTypeOK'
  BY LabelsApart DEF JobInv, JobTypeOK, FailOutside, Goto, Unlocked, Stopped, Holding
<1>2. ManifestHasRecord'
  BY DEF JobInv, ManifestHasRecord, FailOutside
<1>3. Relies(w)'
  BY DEF JobInv, JobTypeOK, FailOutside, Goto, Relies, Writing, Recording, Saving
<1>4. \A v \in Worker \ {w} : Relies(v)'
  BY QuietRely DEF FailOutside, Goto
<1>5. QED
  BY <1>1, <1>2, <1>3, <1>4 DEF JobInv

LEMMA KillStep == ASSUME JobInv, NEW w \in Worker, Kill(w) PROVE JobInv'
<1>1. PICK torn \in SUBSET Open(pc[w]) :
          file' = [f \in Files |-> IF f \in torn THEN Torn ELSE file[f]]
  BY DEF Kill
<1>2. torn \subseteq {"raw_partial", "marker_partial", "manifest_partial"}
  BY DEF Open
<1>3. JobTypeOK'
  BY <1>1, LabelsApart
     DEF JobInv, JobTypeOK, Kill, Goto, Unlocked, Stopped, Holding, Contents, Locking
<1>4. ManifestHasRecord'
  BY <1>1, <1>2 DEF JobInv, JobTypeOK, ManifestHasRecord, Kill, Files
<1>5. Relies(w)'
  BY DEF JobInv, JobTypeOK, Kill, Goto, Relies, Writing, Recording, Saving
<1>6. ASSUME NEW v \in Worker \ {w} PROVE Relies(v)'
  <2>1. CASE holder = w
    BY <2>1, OthersRely DEF Kill, Goto
  <2>2. CASE holder # w
    <3>1. pc[w] \notin Holding
      BY <2>2, HolderIs
    <3>2. Open(pc[w]) = {} /\ sidecar' = sidecar
      BY <3>1 DEF Open, Kill, Holding, Writing, Recording, Saving
    <3>3. file' = file
      BY <1>1, <3>2 DEF JobInv, JobTypeOK
    <3>4. QED
      BY <3>2, <3>3, QuietRely DEF Kill, Goto
  <2>3. QED
    BY <2>1, <2>2
<1>7. QED
  BY <1>3, <1>4, <1>5, <1>6 DEF JobInv

-----------------------------------------------------------------------------
(* Every step *)

LEMMA JobStep == JobInv /\ [JobNext]_jobVars => JobInv'
<1> SUFFICES ASSUME JobInv, [JobNext]_jobVars PROVE JobInv'
  OBVIOUS
<1>1. CASE UNCHANGED jobVars
  BY <1>1 DEF JobInv, JobTypeOK, ManifestHasRecord, Relies, Complete, ManifestFor, RecordFor, jobVars
<1>2. ASSUME NEW w \in Worker, Start(w) \/ Runs(w) PROVE JobInv'
  BY <1>2, StartStep, LockStep, BlockedStep, CheckStep, PeekManifestStep, PeekRecordStep,
     ClearStep, UnlinkStep, ClearedStep, RecheckStep, OpenRecordStep, WriteRowsStep,
     SealStep, InstallRawStep, InstallMarkerStep, OpenManifestStep, SaveManifestStep,
     InstallManifestStep, ReturnStep, AbortsStep
     DEF Runs, Clears, WritesJob, Refused, Writing
<1>3. ASSUME NEW w \in Worker, Faults(w) PROVE JobInv'
  BY <1>3, AbortsStep, FailOutsideStep, KillStep DEF Faults, Fail
<1>4. QED
  BY <1>1, <1>2, <1>3 DEF JobNext

LEMMA JobInvariance == JobSpec => []JobInv
BY InitialJob, JobStep, PTL DEF JobSpec

(* The state is typed and the lock has one live holder, inside a region.    *)
THEOREM JobTyping == JobSpec => []JobTypeOK
BY JobInvariance, PTL DEF JobInv

(* No reader ever finds a manifest without the record it describes.         *)
THEOREM RecordBehindManifest == JobSpec => []ManifestHasRecord
BY JobInvariance, PTL DEF JobInv

-----------------------------------------------------------------------------
(* The job that readers see *)

(* Only the rename of the manifest publishes a job.                         *)
LEMMA PublishingStep ==
    ASSUME JobInv, NEW w \in Worker, InstallManifest(w)
    PROVE  /\ file["manifest"] = Absent /\ file'["manifest"] = Wants[w]
           /\ pc[w] = "install_manifest" /\ pc' = [pc EXCEPT ![w] = "done"]
BY DEF InstallManifest, Installed, Writes, Goto, JobInv, JobTypeOK, Relies, Files, Saving

(* Only a cleanup for another provenance takes a published job away.        *)
LEMMA UnlinkingStep ==
    ASSUME JobInv, NEW w \in Worker, Unlink(w)
    PROVE  /\ holder = w /\ UNCHANGED pc
           /\ file["manifest"] # Wants[w]
           /\ file'["manifest"] \in {Absent, file["manifest"]}
<1>1. pc[w] = "unlink"
  BY DEF Unlink
<1>2. holder = w /\ UNCHANGED pc
  BY <1>1, HolderIs DEF Unlink, Holding
<1>3. file["manifest"] # Wants[w]
  BY <1>1 DEF JobInv, Relies
<1>4. file'["manifest"] \in {Absent, file["manifest"]}
  BY DEF Unlink, JobInv, JobTypeOK, Files
<1>5. QED
  BY <1>2, <1>3, <1>4

Publishes(w) == InstallManifest(w) \/ Unlink(w)

(* Every other step leaves a published job alone.                           *)
LEMMA PublishedStays ==
    ASSUME JobInv, NEW w \in Worker, Start(w) \/ Runs(w) \/ Faults(w), ~Publishes(w)
    PROVE  /\ file'["manifest"] = file["manifest"]
           /\ file["manifest"] # Absent =>
                 file'["raw"] = file["raw"] /\ file'["marker"] = file["marker"]
<1>1. CASE file' = file
  BY <1>1
<1>2. CASE OpenRecord(w)
  BY <1>2 DEF OpenRecord, Writes, JobInv, JobTypeOK, Files
<1>3. CASE WriteRows(w) \/ Seal(w) \/ OpenManifest(w) \/ SaveManifest(w)
  BY <1>3 DEF WriteRows, Seal, OpenManifest, SaveManifest, Writes, JobInv, JobTypeOK, Files
<1>4. CASE InstallRaw(w) \/ InstallMarker(w)
  <2>1. pc[w] \in {"install_raw", "install_marker"} /\ file["marker"] = Absent
    BY <1>4 DEF InstallRaw, InstallMarker, Writes, JobInv, Relies
  <2>2. file["manifest"] = Absent
    BY <2>1 DEF JobInv, ManifestHasRecord
  <2>3. QED
    BY <1>4, <2>2 DEF InstallRaw, InstallMarker, Installed, Writes, JobInv, JobTypeOK, Files
<1>5. CASE Refused(w) \/ Fail(w)
  <2>1. pc[w] \in Writing /\ Aborts(w)
    BY <1>5 DEF Refused, Fail, Writing
  <2>2. QED
    BY <2>1, UndoneKeeps DEF Aborts, Files
<1>6. CASE Kill(w)
  <2>1. \A label : Open(label) \subseteq {"raw_partial", "marker_partial", "manifest_partial"}
    BY DEF Open
  <2>2. QED
    BY <1>6, <2>1 DEF Kill, Files
<1>7. CASE Start(w) \/ Lock(w) \/ Blocked(w) \/ Check(w) \/ PeekManifest(w) \/ PeekRecord(w)
           \/ Clear(w) \/ Cleared(w) \/ Recheck(w) \/ Return(w) \/ FailOutside(w)
  BY <1>1, <1>7 DEF Start, Lock, Blocked, Check, PeekManifest, PeekRecord, Clear, Cleared,
     Recheck, Return, FailOutside
<1>8. QED
  BY <1>2, <1>3, <1>4, <1>5, <1>6, <1>7 DEF Runs, Clears, WritesJob, Faults, Publishes

(* A complete job loses a file only to the cleanup of a process that        *)
(* expects another provenance.                                              *)
THEOREM PreservedJobs == JobSpec => CompletedPreserved
<1> DEFINE Preserved ==
        \A p \in Provenance : Complete(p) =>
            Complete(p)' \/ \E w \in Worker : holder = w /\ Wants[w] # p
<1>1. JobInv /\ [JobNext]_jobVars => [Preserved]_jobVars
  <2> SUFFICES ASSUME JobInv, JobNext, NEW p \in Provenance, Complete(p)
               PROVE  Complete(p)' \/ \E w \in Worker : holder = w /\ Wants[w] # p
    OBVIOUS
  <2>1. PICK w \in Worker : Start(w) \/ Runs(w) \/ Faults(w)
    BY DEF JobNext
  <2>2. file["manifest"] = p /\ p # Absent
    BY DEF Complete, ManifestFor, RecordFor
  <2>3. CASE ~Publishes(w)
    BY <2>1, <2>2, <2>3, PublishedStays DEF Complete, ManifestFor, RecordFor
  <2>4. CASE Unlink(w)
    BY <2>2, <2>4, UnlinkingStep
  <2>5. CASE InstallManifest(w)
    BY <2>2, <2>5, PublishingStep
  <2>6. QED
    BY <2>3, <2>4, <2>5 DEF Publishes
<1>2. QED
  BY <1>1, JobInvariance, PTL DEF JobSpec, CompletedPreserved

-----------------------------------------------------------------------------
(* JobArtifacts implements JobStore *)

ReturnedNow == {w \in Worker : pc[w] = "returned"}

LEMMA StoreInit == JobInit => Store!Init
BY DEF JobInit, Store!Init, Files

(* A call that returns returns the published job.                           *)
LEMMA DeliveringStep ==
    ASSUME JobInv, NEW w \in Worker, UNCHANGED file, pc[w] # "returned",
           pc' = [pc EXCEPT ![w] = "returned"], Complete(Wants[w])
    PROVE  Store!Deliver(w)
<1>1. w \notin ReturnedNow /\ ReturnedNow' = ReturnedNow \cup {w}
  BY DEF ReturnedNow, JobInv, JobTypeOK
<1>2. QED
  BY <1>1 DEF Store!Deliver, ReturnedNow, Complete, ManifestFor, RecordFor

(* A step to another label than "returned", that publishes nothing.         *)
LEMMA SilentStep ==
    ASSUME JobInv, NEW w \in Worker, pc[w] # "returned", NEW label, label # "returned",
           pc' = [pc EXCEPT ![w] = label], file'["manifest"] = file["manifest"]
    PROVE  UNCHANGED Store!storeVars
<1>1. ReturnedNow' = ReturnedNow
  BY DEF ReturnedNow, JobInv, JobTypeOK
<1>2. QED
  BY <1>1 DEF Store!storeVars, ReturnedNow

LEMMA StoreStep == JobInv /\ [JobNext]_jobVars => [Store!Next]_Store!storeVars
<1> SUFFICES ASSUME JobInv, [JobNext]_jobVars PROVE Store!Next \/ UNCHANGED Store!storeVars
  OBVIOUS
<1>1. CASE UNCHANGED jobVars
  BY <1>1 DEF jobVars, Store!storeVars
<1>2. ASSUME NEW w \in Worker, Start(w)
      PROVE  Store!Next \/ UNCHANGED Store!storeVars
  <2>1. CASE pc[w] = "returned"
    <3>1. w \in ReturnedNow /\ ReturnedNow' = ReturnedNow \ {w}
      BY <1>2, <2>1 DEF Start, Goto, ReturnedNow, JobInv, JobTypeOK
    <3>2. Store!Call(w)
      BY <1>2, <3>1 DEF Start, Store!Call, ReturnedNow
    <3>3. QED
      BY <3>2 DEF Store!Next
  <2>2. CASE pc[w] # "returned"
    BY <1>2, <2>2, SilentStep DEF Start, Goto
  <2>3. QED
    BY <2>1, <2>2
<1>3. ASSUME NEW w \in Worker, Check(w) \/ Recheck(w) \/ Return(w)
      PROVE  Store!Next \/ UNCHANGED Store!storeVars
  <2>1. pc[w] # "returned" /\ UNCHANGED file
    BY <1>3 DEF Check, Recheck, Return
  <2>2. CASE Goto(w, "returned") /\ Complete(Wants[w])
    BY <2>1, <2>2, DeliveringStep DEF Goto, Store!Next
  <2>3. CASE Goto(w, "peek") \/ Goto(w, "write")
    BY <2>1, <2>3, SilentStep DEF Goto
  <2>4. Return(w) => Complete(Wants[w])
    BY DEF Return, JobInv, Relies
  <2>5. QED
    BY <1>3, <2>2, <2>3, <2>4 DEF Check, Recheck, Return
<1>4. ASSUME NEW w \in Worker, InstallManifest(w)
      PROVE  Store!Next \/ UNCHANGED Store!storeVars
  <2>1. ReturnedNow' = ReturnedNow
    BY <1>4, PublishingStep DEF ReturnedNow, JobInv, JobTypeOK
  <2>2. Store!Publish(w)
    BY <1>4, <2>1, PublishingStep DEF Store!Publish, ReturnedNow
  <2>3. QED
    BY <2>2 DEF Store!Next
<1>5. ASSUME NEW w \in Worker, Unlink(w)
      PROVE  Store!Next \/ UNCHANGED Store!storeVars
  <2>1. w \notin ReturnedNow
    BY <1>5 DEF Unlink, ReturnedNow
  <2>2. Store!Retract(w) \/ UNCHANGED Store!storeVars
    BY <1>5, <2>1, UnlinkingStep DEF Store!Retract, Store!storeVars, ReturnedNow
  <2>3. QED
    BY <2>2 DEF Store!Next
<1>6. ASSUME NEW w \in Worker, Runs(w) \/ Faults(w), ~Publishes(w),
             ~(Check(w) \/ Recheck(w) \/ Return(w))
      PROVE  Store!Next \/ UNCHANGED Store!storeVars
  <2>1. file'["manifest"] = file["manifest"]
    BY <1>6, PublishedStays
  <2>2. pc[w] # "returned"
    BY <1>6 DEF Runs, Faults, Lock, Blocked, Clears, PeekManifest, PeekRecord, Clear, Unlink,
       Cleared, WritesJob, OpenRecord, WriteRows, Seal, InstallRaw, InstallMarker,
       OpenManifest, SaveManifest, InstallManifest, Writes, Refused, Fail, FailOutside, Kill,
       Locking, Stopped, Writing, Recording, Saving
  <2>3. \E label : label # "returned" /\ pc' = [pc EXCEPT ![w] = label]
    <3>1. CASE Lock(w)
      <4>1. Inside(pc[w]) # "returned"
        BY <3>1 DEF Lock, Locking, Inside
      <4>2. QED
        BY <3>1, <4>1 DEF Lock, Goto
    <3>2. CASE Blocked(w) \/ FailOutside(w) \/ Kill(w) \/ PeekManifest(w)
      BY <3>2 DEF Blocked, FailOutside, Kill, PeekManifest, Goto
    <3>3. CASE PeekRecord(w) \/ Clear(w) \/ Cleared(w)
      BY <3>3 DEF PeekRecord, Clear, Cleared, AfterClear, Goto
    <3>4. CASE OpenRecord(w) \/ WriteRows(w) \/ Seal(w) \/ InstallRaw(w) \/ InstallMarker(w)
               \/ OpenManifest(w) \/ SaveManifest(w)
      BY <3>4 DEF OpenRecord, WriteRows, Seal, InstallRaw, InstallMarker, OpenManifest,
         SaveManifest, Writes, Goto
    <3>5. CASE Refused(w) \/ Fail(w)
      BY <3>5 DEF Refused, Fail, Aborts, Goto
    <3>6. QED
      BY <1>6, <3>1, <3>2, <3>3, <3>4, <3>5 DEF Runs, Clears, WritesJob, Faults, Publishes
  <2>4. QED
    BY <2>1, <2>2, <2>3, SilentStep
<1>7. QED
  BY <1>1, <1>2, <1>3, <1>4, <1>5, <1>6 DEF JobNext, Publishes, Runs, Clears, WritesJob

(* The whole protocol implements the store its callers see.                 *)
THEOREM StoreRefinement == JobSpec => PersistsAtomically
BY StoreInit, StoreStep, JobInvariance, PTL DEF JobSpec, PersistsAtomically, Store!Spec

-----------------------------------------------------------------------------
(* What exceptions leave behind *)

Dirty == (\E f \in Files : file[f] # Absent) /\ \A p \in Provenance : ~Complete(p)

(* A process that will clean up, or give way to one that will.  One that    *)
(* read the manifest it wants before it was removed will not.               *)
Responsible(w) ==
    \/ holder = w
    \/ pc[w] \in {"peek", "lock"}
    \/ pc[w] = "peeked" /\ seen[w] # Wants[w]

DirtyInv == Dirty /\ ~neglected => \E w \in Worker : Responsible(w)

LEMMA DirtyStep == JobInv /\ DirtyInv /\ [JobNext]_jobVars => DirtyInv'
<1> SUFFICES ASSUME JobInv, DirtyInv, [JobNext]_jobVars, Dirty', ~neglected'
             PROVE  \E v \in Worker : Responsible(v)'
  BY DEF DirtyInv
<1>1. JobInv'
  BY JobStep
<1>2. CASE holder' # Nobody
  BY <1>1, <1>2 DEF JobInv, JobTypeOK, Responsible
<1>3. CASE UNCHANGED jobVars
  BY <1>3 DEF jobVars, DirtyInv, Dirty, Complete, ManifestFor, RecordFor, Responsible
<1>4. ASSUME NEW w \in Worker, holder' = Nobody, Start(w) \/ PeekManifest(w) \/ PeekRecord(w)
      PROVE  \E v \in Worker : Responsible(v)'
  <2>1. Dirty /\ ~neglected /\ holder = Nobody
    BY <1>4 DEF Dirty, Complete, ManifestFor, RecordFor, Start, PeekManifest, PeekRecord
  <2>2. PICK v \in Worker :
            pc[v] \in {"peek", "lock"} \/ (pc[v] = "peeked" /\ seen[v] # Wants[v])
    BY <2>1 DEF DirtyInv, Responsible
  <2>3. file["manifest"] = Absent
    BY <2>1 DEF Dirty, Complete, ManifestFor, RecordFor, JobInv, ManifestHasRecord
  <2>4. CASE v # w
    BY <1>4, <2>2, <2>4
       DEF Responsible, Start, PeekManifest, PeekRecord, Goto, JobInv, JobTypeOK
  <2>5. CASE v = w
    BY <1>4, <2>2, <2>3, <2>5
       DEF Responsible, Start, PeekManifest, PeekRecord, Goto, JobInv, JobTypeOK, Stopped
  <2>6. QED
    BY <2>4, <2>5
<1>5. ASSUME NEW w \in Worker, Check(w) PROVE \E v \in Worker : Responsible(v)'
  <2>1. ~Complete(Wants[w])
    BY <1>5 DEF Check, Dirty, Complete, ManifestFor, RecordFor
  <2>2. pc'[w] = "peek"
    BY <1>5, <2>1 DEF Check, Goto, JobInv, JobTypeOK
  <2>3. QED
    BY <2>2 DEF Responsible
<1>6. ASSUME NEW w \in Worker, holder' = Nobody, Clear(w) \/ Recheck(w) \/ Return(w) PROVE FALSE
  <2>1. holder = w
    BY <1>6, HolderIs DEF Clear, Recheck, Return, Holding, Writing
  <2>2. Complete(Wants[w])
    BY <1>6, <2>1 DEF Clear, Recheck, Return, JobInv, Relies
  <2>3. QED
    BY <1>6, <2>2 DEF Clear, Recheck, Return, Dirty, Complete, ManifestFor, RecordFor
<1>7. ASSUME NEW w \in Worker, Cleared(w) PROVE FALSE
  BY <1>7 DEF Cleared, Dirty, JobInv, Relies
<1>8. ASSUME NEW w \in Worker, Refused(w) \/ Fail(w) PROVE \E v \in Worker : Responsible(v)'
  BY <1>8 DEF Refused, Fail, Aborts, Goto, Responsible, JobInv, JobTypeOK
<1>9. ASSUME NEW w \in Worker, Lock(w) \/ Blocked(w) PROVE holder' # Nobody
  BY <1>9 DEF Lock, Blocked
<1>10. ASSUME NEW w \in Worker, Unlink(w) PROVE holder' # Nobody
  BY <1>10, UnlinkingStep DEF Unlink
<1>11. ASSUME NEW w \in Worker,
              OpenRecord(w) \/ WriteRows(w) \/ Seal(w) \/ InstallRaw(w) \/ InstallMarker(w)
                \/ OpenManifest(w) \/ SaveManifest(w) \/ InstallManifest(w)
       PROVE  holder' # Nobody
  <2>1. pc[w] \in Writing /\ holder' = holder
    BY <1>11 DEF OpenRecord, WriteRows, Seal, InstallRaw, InstallMarker, OpenManifest,
       SaveManifest, InstallManifest, Writes, Writing, Recording, Saving
  <2>2. QED
    BY <2>1, HolderIs DEF Holding
<1>12. ASSUME NEW w \in Worker, FailOutside(w) \/ Kill(w) PROVE FALSE
  BY <1>12 DEF FailOutside, Kill
<1>13. QED
  BY <1>2, <1>3, <1>4, <1>5, <1>6, <1>7, <1>8, <1>9, <1>10, <1>11, <1>12
     DEF JobNext, Runs, Clears, WritesJob, Faults

(* Once everybody has stopped, exceptions alone have left nothing behind.   *)
THEOREM ClearedFailures == JobSpec => []FailuresAreCleared
<1>1. JobInit => DirtyInv
  BY DEF JobInit, DirtyInv, Dirty, Files
<1>2. JobInv /\ DirtyInv => FailuresAreCleared
  BY LabelsApart
     DEF JobInv, JobTypeOK, DirtyInv, Dirty, Responsible, FailuresAreCleared, Stopped, Unlocked
<1>3. QED
  BY <1>1, <1>2, DirtyStep, JobInvariance, PTL DEF JobSpec
=============================================================================
