------------------------------- MODULE Ns3Matrix -------------------------------
(***************************************************************************)
(* The packet-level matrix: run_ns3_validation.sh runs two smoke jobs and  *)
(* the formal jobs, a background process per job, and ns3_validation.py    *)
(* audits and reduces what they leave behind.  A job copies its database   *)
(* into place and then writes the manifest that names it.                  *)
(*                                                                         *)
(* A killed shell leaves its background jobs running, and the next         *)
(* invocation of the script works beside them, perhaps for other inputs.   *)
(***************************************************************************)
EXTENDS Integers, FiniteSets, Sequences

CONSTANTS
    Formal,        \* the formal jobs, in the order of the nested loops
    Smoke,         \* the smoke jobs, in order
    Workers,       \* DBLBT_NS3_WORKERS
    Version,       \* what the locked sources, the scenario and the model may be
    Export,        \* Export[v]: the exported model that belongs to version v
    Learning,      \* the adaptive jobs
    Spoilt,        \* Spoilt[v]: the job and the table that is not in order in version v
    Nothing        \* no file

ASSUME Ns3Assumption ==
    /\ Formal \in Seq(Nat) /\ Len(Formal) > 0
    /\ Smoke \in Seq(Nat) /\ Len(Smoke) = 2
    /\ Workers \in 1..8 /\ Nothing \notin Version
    /\ DOMAIN Export = Version

FormalJobs == {Formal[i] : i \in DOMAIN Formal}
SmokeJobs  == {Smoke[i] : i \in DOMAIN Smoke}
Ns3Job     == FormalJobs \cup SmokeJobs

(* The smoke jobs have a directory of their own.                            *)
ASSUME SmokeAssumption == FormalJobs \cap SmokeJobs = {}

(* The tables of the nodes' own state, and the official families.           *)
LocalTables    == {"nodes", "attempts", "decisions", "metrics"}
OfficialTables == {"occupancy", "simultaneous", "failures", "sinr", "e2e"}

ASSUME SpoiltAssumption ==
    Spoilt \in [Version -> SUBSET (Ns3Job \X (LocalTables \cup OfficialTables))]

(* What the simulator leaves behind under a version: a job has one outcome. *)
Evidence(j, version) ==
    [version |-> version, spoilt |-> {entry[2] : entry \in {e \in Spoilt[version] : e[1] = j}}]

VARIABLES
    inputs,        \* the version that is checked out
    database,      \* database[j]: what databases/j.db holds, or Nothing
    manifest,      \* manifest[j]: what manifests/j.json says, or Nothing
    shell,         \* the invocation of the script
    child,         \* child[g][j]: the process of a job, by the generation of its shell
    report         \* the files of the reduction

ns3Vars == <<inputs, database, manifest, shell, child, report>>

Generation == {0, 1}
Idle       == [at |-> "idle", version |-> Nothing, scratch |-> Nothing, digest |-> Nothing]
Stopped    == {"idle", "succeeded", "failed"}
Unfinished(g) == {j \in Ns3Job : child[g][j].at \notin Stopped}

(* validate_database_contract: the tables are there.                        *)
Contract(j) == database[j] # Nothing

(* The one row of validation_metadata, against the hashes the shell sourced *)
(* and against the exported model as it is now.                             *)
MetadataMatches(d, version) ==
    d.version = version /\ Export[version] = Export[inputs]

(* One local state per node, metrics in range, and decisions: none, or of   *)
(* an adaptive job one at every interval of the attempts of a node, which   *)
(* are not looked at otherwise.                                             *)
LocalStateIsSound(j, d) ==
    /\ d.spoilt \cap {"nodes", "decisions", "metrics"} = {}
    /\ j \in Learning => "attempts" \notin d.spoilt

(* Every family is one table of its schema, of this seed and run, for nodes *)
(* of this job, with values in range; only failures may be empty.           *)
OfficialEvidenceIsSound(d) == d.spoilt \cap OfficialTables = {}

(* Mutant: the official tables are not looked at.                        *)
MetadataIsEnough(j, version) ==
    Contract(j) /\ MetadataMatches(database[j], version) /\ LocalStateIsSound(j, database[j])

StrictlyValid(j, version) ==
    /\ Contract(j) /\ MetadataMatches(database[j], version)
    /\ LocalStateIsSound(j, database[j]) /\ OfficialEvidenceIsSound(database[j])

Manifest(version, digest) == [version |-> version, database |-> digest]

(* What the heredoc of job_is_complete and the audit compare.               *)
ManifestMatches(j, version) == manifest[j] = Manifest(version, database[j])

(* job_is_complete, when its status decides: every command counts.          *)
CompleteJob(j, version) ==
    manifest[j] # Nothing /\ ManifestMatches(j, version) /\ StrictlyValid(j, version)

(* Mutant: a database is enough.                                         *)
DatabaseIsThere(j, version) == StrictlyValid(j, version)

(* job_is_complete within a condition: errexit is off, and the status of    *)
(* the comparison is not looked at.                                         *)
PassesForComplete(j, version) == manifest[j] # Nothing /\ StrictlyValid(j, version)

-----------------------------------------------------------------------------
(* A job: run_formal_job in the background, run_smoke_policy in the shell *)

At(g, j, stage) == child[g][j].at = stage

Moves(g, j, from, to) == At(g, j, from) /\ child' = [child EXCEPT ![g][j].at = to]

(* A process ends; of an orphan nobody takes the status.                    *)
Ends(g, j, from, label) ==
    /\ At(g, j, from)
    /\ child' = [child EXCEPT ![g][j] =
          [Idle EXCEPT !.at = IF g = shell.generation THEN label ELSE "idle"]]

Skip(g, j) ==
    /\ Ends(g, j, "start", "succeeded")
    /\ PassesForComplete(j, child[g][j].version)
    /\ UNCHANGED <<inputs, database, manifest, shell, report>>

(* The simulator, into a scratch directory of the job's own.  That the      *)
(* tables are there is checked at once, what they contain after the copy.   *)
Simulate(g, j) ==
    LET version == child[g][j].version
    IN  /\ At(g, j, "start") /\ ~PassesForComplete(j, version)
        /\ child' = [child EXCEPT ![g][j] =
              [@ EXCEPT !.at = "copy",
                        !.scratch = Evidence(j, version)]]
        /\ UNCHANGED <<inputs, database, manifest, shell, report>>

CopyDatabase(g, j) ==
    /\ Moves(g, j, "copy", "validate")
    /\ database' = [database EXCEPT ![j] = child[g][j].scratch]
    /\ UNCHANGED <<inputs, manifest, shell, report>>

Validate(g, j) ==
    /\ Moves(g, j, "validate", "digest")
    /\ StrictlyValid(j, child[g][j].version)
    /\ UNCHANGED <<inputs, database, manifest, shell, report>>

Reject(g, j) ==
    /\ Ends(g, j, "validate", "failed")
    /\ ~StrictlyValid(j, child[g][j].version)
    /\ UNCHANGED <<inputs, database, manifest, shell, report>>

Digest(g, j) ==
    /\ At(g, j, "digest")
    /\ child' = [child EXCEPT ![g][j] = [@ EXCEPT !.at = "write", !.digest = database[j]]]
    /\ UNCHANGED <<inputs, database, manifest, shell, report>>

WriteManifest(g, j) ==
    /\ Ends(g, j, "write", "succeeded")
    /\ manifest' = [manifest EXCEPT ![j] = Manifest(child[g][j].version, child[g][j].digest)]
    /\ UNCHANGED <<inputs, database, shell, report>>

-----------------------------------------------------------------------------
(* The shell: main, with the stage "all" *)

Exited == {"new", "killed", "exit 0", "exit 1"}

NewShell ==
    [at |-> "new", version |-> Nothing, generation |-> 0, cursor |-> 1, pids |-> {},
     failed |-> FALSE, audited |-> [j \in FormalJobs |-> Nothing],
     rows |-> [j \in FormalJobs |-> Nothing]]

g0 == shell.generation

Started(version) == [Idle EXCEPT !.at = "start", !.version = version]

Exits(label) == shell' = [NewShell EXCEPT !.at = label, !.generation = g0]

(* The lock is sourced once; prepare_runtime verifies it or refuses.        *)
Invoke ==
    /\ shell.at \in Exited
    /\ shell' = [NewShell EXCEPT !.at = "smoke", !.version = inputs, !.generation = g0]
    /\ child' = [child EXCEPT ![g0] = [j \in Ns3Job |-> Idle]]
    /\ UNCHANGED <<inputs, database, manifest, report>>

RunSmoke ==
    LET j == Smoke[shell.cursor]
    IN  /\ shell.at = "smoke" /\ At(g0, j, "idle")
        /\ child' = [child EXCEPT ![g0][j] = Started(shell.version)]
        /\ UNCHANGED <<inputs, database, manifest, shell, report>>

(* require_smoke_gate: its first call is part of a condition, the last is   *)
(* not.                                                                     *)
SmokeGate == PassesForComplete(Smoke[1], shell.version) /\ CompleteJob(Smoke[2], shell.version)

EndSmoke ==
    LET j == Smoke[shell.cursor]
    IN  /\ shell.at = "smoke"
        /\ \/ At(g0, j, "failed") /\ Exits("exit 1")
           \/ /\ At(g0, j, "succeeded") /\ shell.cursor < Len(Smoke)
              /\ shell' = [shell EXCEPT !.cursor = @ + 1]
           \/ /\ At(g0, j, "succeeded") /\ shell.cursor = Len(Smoke)
              /\ IF SmokeGate
                 THEN shell' = [shell EXCEPT !.at = "launch", !.cursor = 1]
                 ELSE Exits("exit 1")
        /\ UNCHANGED <<inputs, database, manifest, child, report>>

HasRoom == Cardinality(shell.pids) < Workers

Launch ==
    LET j == Formal[shell.cursor]
    IN  /\ shell.at = "launch" /\ HasRoom
        /\ child' = [child EXCEPT ![g0][j] = Started(shell.version)]
        /\ shell' = [shell EXCEPT
              !.pids = @ \cup {j},
              !.cursor = IF @ < Len(Formal) THEN @ + 1 ELSE 1,
              !.at = IF shell.cursor < Len(Formal) THEN "launch" ELSE "drain"]
        /\ UNCHANGED <<inputs, database, manifest, report>>

(* Mutant: the last status wins.                                         *)
LastStatus(j) == At(g0, j, "failed")

FailedSoFar(j) == shell.failed \/ At(g0, j, "failed")

(* wait_tracked_child: wait -n takes any child that has ended; where bash   *)
(* does not have it, the oldest is waited for.                              *)
Reap ==
    /\ shell.at = "drain" \/ (shell.at = "launch" /\ ~HasRoom)
    /\ \E j \in shell.pids :
          /\ child[g0][j].at \in {"succeeded", "failed"}
          /\ shell' = [shell EXCEPT !.pids = @ \ {j}, !.failed = FailedSoFar(j)]
    /\ UNCHANGED <<inputs, database, manifest, child, report>>

EndMatrix ==
    /\ shell.at = "drain" /\ shell.pids = {}
    /\ IF shell.failed THEN Exits("exit 1") ELSE shell' = [shell EXCEPT !.at = "audit"]
    /\ UNCHANGED <<inputs, database, manifest, child, report>>

-----------------------------------------------------------------------------
(* audit_ns3_validation and reduce_ns3_validation *)

Acceptable(j) ==
    manifest[j] # Nothing /\ ManifestMatches(j, shell.version) /\ StrictlyValid(j, shell.version)

Advance(s, next) ==
    IF s.cursor < Len(Formal) THEN [s EXCEPT !.cursor = @ + 1]
    ELSE [s EXCEPT !.cursor = 1, !.at = next]

(* One job of the audit, that of run_audit and that of the reduction; what  *)
(* run_audit reports is the same, so one of them is kept.  The hash is      *)
(* compared and then the tables are read: an orphan that replaces the       *)
(* database in between leaves the same contents or those of a version that  *)
(* is refused, as if it had come first.                                     *)
Audit ==
    LET j == Formal[shell.cursor]
    IN  /\ shell.at = "audit"
        /\ IF Acceptable(j)
           THEN shell' = Advance([shell EXCEPT !.audited[j] = database[j]], "reduce")
           ELSE Exits("exit 1")
        /\ UNCHANGED <<inputs, database, manifest, child, report>>

(* The metrics are read after the audit, from the files as they then are:   *)
(* what an orphan has put there since may lack the rows of a technology.    *)
ReadMetrics ==
    LET j == Formal[shell.cursor]
    IN  /\ shell.at = "reduce" /\ Contract(j)
        /\ \/ shell' = Advance([shell EXCEPT !.rows[j] = database[j]], "paired")
           \/ "metrics" \in database[j].spoilt /\ Exits("exit 1")
        /\ UNCHANGED <<inputs, database, manifest, child, report>>

(* write_ns3_reduction: three files, each replaced atomically, in order.    *)
WriteTable(file, next) ==
    /\ shell.at = file
    /\ report' = [report EXCEPT ![file] = shell.rows]
    /\ shell' = [shell EXCEPT !.at = next]
    /\ UNCHANGED <<inputs, database, manifest, child>>

WriteSummary ==
    /\ shell.at = "summary"
    /\ report' = [report EXCEPT !["summary"] = [hashes |-> shell.audited, rows |-> shell.rows]]
    /\ Exits("exit 0")
    /\ UNCHANGED <<inputs, database, manifest, child>>

WriteReduction ==
    WriteTable("paired", "scenario") \/ WriteTable("scenario", "summary") \/ WriteSummary

-----------------------------------------------------------------------------
(* What goes wrong *)

(* A command of the job fails, or the process is killed.                    *)
Fail(g, j) ==
    /\ child[g][j].at \notin Stopped
    /\ Ends(g, j, child[g][j].at, "failed")
    /\ UNCHANGED <<inputs, database, manifest, shell, report>>

(* The smoke job dies with the shell, the background jobs go on.  One       *)
(* generation of them at a time: Kill waits for the one before.             *)
Kill ==
    /\ shell.at \notin Exited
    /\ Unfinished(1 - g0) = {}
    /\ shell' = [NewShell EXCEPT !.at = "killed", !.generation = 1 - g0]
    /\ child' = [child EXCEPT ![g0] =
          [j \in Ns3Job |-> IF j \in Unfinished(g0) \ SmokeJobs THEN @[j] ELSE Idle]]
    /\ UNCHANGED <<inputs, database, manifest, report>>

Crash ==
    /\ Exits("killed")
    /\ child' = [g \in Generation |-> [j \in Ns3Job |-> Idle]]
    /\ UNCHANGED <<inputs, database, manifest, report>>

(* Other sources, another scenario or another model are locked between two  *)
(* invocations, whatever orphans of the one before still do: they keep the  *)
(* hashes they sourced and the runtime of these hashes.                     *)
Change ==
    /\ shell.at \in Exited
    /\ inputs' \in Version \ {inputs}
    /\ UNCHANGED <<database, manifest, shell, child, report>>

-----------------------------------------------------------------------------
(* Specification *)

Ns3Init ==
    /\ inputs \in Version
    /\ database = [j \in Ns3Job |-> Nothing]
    /\ manifest = [j \in Ns3Job |-> Nothing]
    /\ shell = NewShell
    /\ child = [g \in Generation |-> [j \in Ns3Job |-> Idle]]
    /\ report = [file \in {"paired", "scenario", "summary"} |-> Nothing]

Works(g, j) ==
    \/ Skip(g, j) \/ Simulate(g, j) \/ CopyDatabase(g, j)
    \/ Validate(g, j) \/ Reject(g, j) \/ Digest(g, j) \/ WriteManifest(g, j)

Proceeds ==
    \/ RunSmoke \/ EndSmoke \/ Launch \/ Reap \/ EndMatrix
    \/ Audit \/ ReadMetrics \/ WriteReduction

Faults ==
    \/ Kill \/ Crash \/ Change
    \/ \E g \in Generation, j \in Ns3Job : Fail(g, j)

Ns3Next == Invoke \/ Proceeds \/ Faults \/ \E g \in Generation, j \in Ns3Job : Works(g, j)

Ns3Spec == Ns3Init /\ [][Ns3Next]_ns3Vars

-----------------------------------------------------------------------------
(* Properties *)

(* No job of the matrix is lost and no failure forgotten, in whatever order *)
(* the children end: one that has not ended is waited for, no more than     *)
(* Workers are, and once the audit begins every child has succeeded.        *)
MatrixIsAccounted ==
    /\ Unfinished(g0) \cap FormalJobs \subseteq shell.pids
    /\ Cardinality(shell.pids) <= Workers
    /\ shell.at \in {"audit", "reduce", "paired", "scenario", "summary"} =>
          \A j \in FormalJobs : At(g0, j, "succeeded")

IsSound(j, d) == LocalStateIsSound(j, d) /\ OfficialEvidenceIsSound(d)

(* What is published can be relied on, although orphans of the same or of   *)
(* other inputs copy databases and write manifests beside the invocation,   *)
(* and the databases are read again after the audit.  A manifest that names *)
(* a database of its own inputs names a valid one.  A summary lists valid   *)
(* databases of one version, and was reduced from them but for those that   *)
(* an orphan of another version replaced after their audit.                 *)
EvidenceIsHonest ==
    /\ \A j \in Ns3Job :
          manifest[j] # Nothing /\ manifest[j].database.version = manifest[j].version =>
             IsSound(j, manifest[j].database)
    /\ LET s == report["summary"]
       IN  s # Nothing => \E v \in Version : \A j \in FormalJobs :
              /\ s.hashes[j].version = v /\ IsSound(j, s.hashes[j])
              /\ s.rows[j].version = v => s.rows[j] = s.hashes[j]

(* A job that is skipped has a manifest of the database that is there:      *)
(* job_is_complete rejects a database that has changed.                     *)
SkipsOnlyComplete ==
    [][\A g \in Generation, j \in Ns3Job :
          Skip(g, j) => CompleteJob(j, child[g][j].version)]_ns3Vars
=============================================================================
