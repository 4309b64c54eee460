------------------------------- MODULE Ns3Proofs -------------------------------
(***************************************************************************)
(* Proofs about Ns3Matrix, for any matrix, number of workers and versions, *)
(* and any failures.  Processes of different versions work on the same     *)
(* files.  What a process may rely on is what it has seen under the        *)
(* version it was started for; of a file it may only rely on that some     *)
(* version wrote it.                                                       *)
(***************************************************************************)
EXTENDS Ns3Matrix, FiniteSetTheorems, SequenceTheorems, TLAPS

-----------------------------------------------------------------------------
(* The invariant *)

Tables      == LocalTables \cup OfficialTables
Databases   == [version : Version, spoilt : SUBSET Tables]
Names       == [version : Version, database : Databases]
Readings    == [FormalJobs -> Databases \cup {Nothing}]
Summaries   == [hashes : Readings, rows : Readings]
Publishing  == {"reduce", "paired", "scenario", "summary"}
ShellStages == Exited \cup Publishing \cup {"smoke", "launch", "drain", "audit"}
ChildStages == Stopped \cup {"start", "copy", "validate", "digest", "write"}

Shells ==
    [at : ShellStages, version : Version \cup {Nothing}, generation : Generation,
     cursor : Nat \ {0}, pids : SUBSET FormalJobs, failed : BOOLEAN,
     audited : Readings, rows : Readings]

Children ==
    [at : ChildStages, version : Version \cup {Nothing},
     scratch : Databases \cup {Nothing}, digest : Databases \cup {Nothing}]

Ns3TypeOK ==
    /\ inputs \in Version
    /\ database \in [Ns3Job -> Databases \cup {Nothing}]
    /\ manifest \in [Ns3Job -> Names \cup {Nothing}]
    /\ shell \in Shells
    /\ child \in [Generation -> [Ns3Job -> Children]]
    /\ report \in [{"paired", "scenario", "summary"} -> Readings \cup Summaries \cup {Nothing}]

(* What a process of job j may rely on, though others work on its files.    *)
ChildFits(c, j, d) ==
    /\ c.at \notin Stopped => c.version \in Version
    /\ c.at = "digest" => \E v \in Version : d = Evidence(j, v)
    /\ c.at = "copy" => c.scratch = Evidence(j, c.version)
    /\ c.at \in {"digest", "write"} => IsSound(j, Evidence(j, c.version))
    /\ c.at = "write" => \E v \in Version : c.digest = Evidence(j, v)

(* The shell knows its children: c are those of its generation.             *)
Counted(s, c) ==
    /\ IsFiniteSet(s.pids) /\ Cardinality(s.pids) <= Workers
    /\ s.pids # {} => s.at \in {"launch", "drain"}
    /\ \A j \in FormalJobs : c[j].at \notin Stopped => j \in s.pids
    /\ \A i \in DOMAIN Formal : s.at = "drain" \/ (s.at = "launch" /\ i < s.cursor) =>
          Formal[i] \in s.pids \/ s.failed \/ c[Formal[i]].at = "succeeded"
    /\ s.at \in Publishing \cup {"audit"} => \A j \in FormalJobs : c[j].at = "succeeded"

(* The shell works for one version, in the order of its loops.              *)
Paced(s) ==
    /\ s.at \notin Exited => s.version \in Version
    /\ s.at = "smoke" => s.cursor \in DOMAIN Smoke
    /\ s.at \in {"launch", "audit", "reduce"} => s.cursor \in DOMAIN Formal
    /\ s.at = "drain" => s.cursor = 1

(* What was audited was valid for the version of the shell; what was reduced *)
(* was written by some version.                                             *)
Read(s) ==
    \A i \in DOMAIN Formal :
        /\ s.at \in Publishing \/ (s.at = "audit" /\ i < s.cursor) =>
              /\ s.audited[Formal[i]] = Evidence(Formal[i], s.version)
              /\ IsSound(Formal[i], Evidence(Formal[i], s.version))
        /\ s.at \in Publishing \ {"reduce"} \/ (s.at = "reduce" /\ i < s.cursor) =>
              \E v \in Version : s.rows[Formal[i]] = Evidence(Formal[i], v)

ShellFits(s, c) == Counted(s, c) /\ Paced(s) /\ Read(s)

(* A manifest that names a database of its own version names a valid one.   *)
NamesSound(m, j) ==
    m # Nothing /\ m.database.version = m.version => IsSound(j, m.database)

SummarySound(s) ==
    s # Nothing => \E v \in Version : \A j \in FormalJobs :
        /\ s.hashes[j].version = v /\ IsSound(j, s.hashes[j])
        /\ s.rows[j].version = v => s.rows[j] = s.hashes[j]

StoreSound(d, m) ==
    \A j \in Ns3Job : /\ d[j] # Nothing => \E v \in Version : d[j] = Evidence(j, v)
                      /\ NamesSound(m[j], j)

ChildrenFit(c, d) == \A g \in Generation, j \in Ns3Job : ChildFits(c[g][j], j, d[j])

Ns3Inv ==
    /\ Ns3TypeOK
    /\ StoreSound(database, manifest) /\ SummarySound(report["summary"])
    /\ ChildrenFit(child, database)
    /\ ShellFits(shell, child[shell.generation])

-----------------------------------------------------------------------------
(* Constants and records *)

LEMMA JobFields ==
  /\ DOMAIN Formal = 1 .. Len(Formal) /\ Len(Formal) \in Nat \ {0}
  /\ DOMAIN Smoke = 1 .. Len(Smoke) /\ Len(Smoke) = 2
  /\ FormalJobs \subseteq Ns3Job /\ SmokeJobs \subseteq Ns3Job
  /\ \A i \in DOMAIN Formal : Formal[i] \in FormalJobs
  /\ \A i \in DOMAIN Smoke : Smoke[i] \in SmokeJobs
  /\ \A j \in SmokeJobs : j \notin FormalJobs
  /\ Workers \in Nat \ {0}
<1>1. /\ DOMAIN Formal = 1 .. Len(Formal) /\ Len(Formal) \in Nat \ {0}
      /\ DOMAIN Smoke = 1 .. Len(Smoke) /\ Len(Smoke) = 2
  BY Ns3Assumption, LenProperties
<1>2. FormalJobs \subseteq Ns3Job /\ SmokeJobs \subseteq Ns3Job
  BY DEF Ns3Job
<1>3. \A i \in DOMAIN Formal : Formal[i] \in FormalJobs
  BY DEF FormalJobs
<1>4. \A i \in DOMAIN Smoke : Smoke[i] \in SmokeJobs
  BY DEF SmokeJobs
<1>5. \A j \in SmokeJobs : j \notin FormalJobs
  BY SmokeAssumption
<1>6. Workers \in Nat \ {0}
  BY Ns3Assumption
<1> QED
  BY <1>1, <1>2, <1>3, <1>4, <1>5, <1>6

LEMMA EvidenceType ==
  ASSUME NEW j \in Ns3Job, NEW v \in Version
  PROVE  Evidence(j, v) \in Databases /\ Evidence(j, v).version = v
<1>1. Spoilt[v] \in SUBSET (Ns3Job \X Tables)
  BY SpoiltAssumption DEF Tables
<1>2. {entry[2] : entry \in {e \in Spoilt[v] : e[1] = j}} \in SUBSET Tables
  BY <1>1
<1> QED
  BY <1>2 DEF Evidence, Databases

LEMMA IdleChild ==
  /\ Idle \in Children
  /\ \A j, d : ChildFits(Idle, j, d)
  /\ Idle.at = "idle"
  BY DEF Idle, Children, ChildStages, Stopped, ChildFits

LEMMA StoppedChild ==
  ASSUME NEW label \in Stopped
  PROVE  /\ [Idle EXCEPT !.at = label] \in Children
         /\ [Idle EXCEPT !.at = label].at = label
         /\ \A j, d : ChildFits([Idle EXCEPT !.at = label], j, d)
  BY DEF Idle, Children, ChildStages, Stopped, ChildFits

LEMMA ShellRecord ==
  ASSUME NEW st \in ShellStages, NEW v \in Version \cup {Nothing}, NEW g \in Generation,
         NEW k \in Nat \ {0}, NEW p \in SUBSET FormalJobs, NEW f \in BOOLEAN,
         NEW a \in Readings, NEW r \in Readings
  PROVE  [at |-> st, version |-> v, generation |-> g, cursor |-> k, pids |-> p,
          failed |-> f, audited |-> a, rows |-> r] \in Shells
  BY DEF Shells

LEMMA NewShellType == NewShell \in Shells
<1>1. [j \in FormalJobs |-> Nothing] \in Readings
  BY DEF Readings
<1>2. /\ "new" \in ShellStages /\ Nothing \in Version \cup {Nothing} /\ 0 \in Generation
      /\ 1 \in Nat \ {0}
  BY DEF ShellStages, Exited, Generation
<1>3. {} \in SUBSET FormalJobs /\ FALSE \in BOOLEAN
  BY Zenon
<1> QED
  BY <1>1, <1>2, <1>3, ShellRecord, Zenon DEF NewShell

LEMMA Relabelled ==
  ASSUME NEW s \in Shells, NEW st \in ShellStages, NEW g \in Generation
  PROVE  [s EXCEPT !.at = st, !.generation = g] \in Shells
  BY DEF Shells

-----------------------------------------------------------------------------
(* What a step leaves alone *)

(* A step of one process, which may copy its database or name it.           *)
LEMMA ChildStep ==
  ASSUME Ns3Inv, NEW g \in Generation, NEW j \in Ns3Job, NEW r \in Children, NEW v \in Version,
         child[g][j].at \notin Stopped, child' = [child EXCEPT ![g][j] = r],
         UNCHANGED <<inputs, shell, report>>,
         database' \in {database, [database EXCEPT ![j] = Evidence(j, v)]},
         manifest' \in [Ns3Job -> Names \cup {Nothing}],
         \A k \in Ns3Job : NamesSound(manifest'[k], k),
         ChildFits(r, j, database'[j])
  PROVE  Ns3Inv'
<1> DEFINE g1 == shell.generation
<1>1. /\ shell \in Shells
      /\ database \in [Ns3Job -> Databases \cup {Nothing}]
      /\ child \in [Generation -> [Ns3Job -> Children]]
      /\ Evidence(j, v) \in Databases
  BY EvidenceType DEF Ns3Inv, Ns3TypeOK
<1>2. /\ Ns3TypeOK'
      /\ \A k \in Ns3Job :
            database'[k] = IF k = j THEN database'[j] ELSE database[k]
      /\ database'[j] \in {database[j], Evidence(j, v)}
  BY <1>1 DEF Ns3Inv, Ns3TypeOK
<1>3. \A h \in Generation, k \in Ns3Job :
        child'[h][k] = IF h = g /\ k = j THEN r ELSE child[h][k]
  BY <1>1
<1>4. StoreSound(database', manifest')
  <2>1. \A k \in Ns3Job : database[k] # Nothing => \E w \in Version : database[k] = Evidence(k, w)
    BY DEF Ns3Inv, StoreSound
  <2>2. \A k \in Ns3Job :
          database'[k] # Nothing => \E w \in Version : database'[k] = Evidence(k, w)
    BY <1>1, <1>2, <2>1
  <2> QED
    BY <2>2 DEF StoreSound
<1>5. ChildrenFit(child', database')
  <2> SUFFICES ASSUME NEW h \in Generation, NEW k \in Ns3Job
               PROVE  ChildFits(child'[h][k], k, database'[k])
    BY DEF ChildrenFit
  <2>1. ChildFits(child[h][k], k, database[k])
    BY DEF Ns3Inv, ChildrenFit
  <2>2. ChildFits(child[h][k], k, database'[k])
    BY <1>1, <1>2, <2>1 DEF ChildFits
  <2> QED
    BY <1>3, <2>2
<1>6. Counted(shell, child'[g1])
  <2>1. Counted(shell, child[g1]) /\ g1 \in Generation
    BY <1>1 DEF Ns3Inv, ShellFits, Shells
  <2>2. \A k \in Ns3Job : /\ child'[g1][k].at \notin Stopped => child[g1][k].at \notin Stopped
                          /\ child[g1][k].at = "succeeded" => child'[g1][k].at = "succeeded"
    BY <1>3, <2>1 DEF Stopped
  <2> QED
    BY <2>1, <2>2, JobFields DEF Counted
<1> QED
  BY <1>2, <1>4, <1>5, <1>6 DEF Ns3Inv, ShellFits

(* A step of the shell that starts nothing.                                 *)
LEMMA ShellStep ==
  ASSUME Ns3Inv, NEW s \in Shells, shell' = s, UNCHANGED <<inputs, database, manifest, child>>,
         report' \in [{"paired", "scenario", "summary"} -> Readings \cup Summaries \cup {Nothing}],
         SummarySound(report'["summary"]),
         ShellFits(s, child[s.generation])
  PROVE  Ns3Inv'
  BY DEF Ns3Inv, Ns3TypeOK

(* An invocation that is over has read nothing and knows of no child.       *)
LEMMA BlankFits ==
  ASSUME NEW s, NEW c, s.at \in Exited, s.pids = {},
         \A j \in FormalJobs : c[j].at \in Stopped
  PROVE  ShellFits(s, c)
<1>1. IsFiniteSet(s.pids) /\ Cardinality(s.pids) <= Workers
  <2>1. Cardinality(s.pids) = 0 /\ IsFiniteSet(s.pids)
    BY FS_EmptySet, Zenon
  <2> QED
    BY <2>1, JobFields
<1>2. Counted(s, c)
  BY <1>1 DEF Counted, Exited, Publishing
<1>3. Paced(s) /\ Read(s)
  BY DEF Paced, Read, Exited, Publishing
<1> QED
  BY <1>2, <1>3 DEF ShellFits

LEMMA OverFits ==
  ASSUME NEW g \in Generation, NEW label \in Exited, NEW c,
         \A j \in FormalJobs : c[j].at \in Stopped
  PROVE  /\ [NewShell EXCEPT !.at = label, !.generation = g] \in Shells
         /\ [NewShell EXCEPT !.at = label, !.generation = g].generation = g
         /\ ShellFits([NewShell EXCEPT !.at = label, !.generation = g], c)
<1> DEFINE s == [NewShell EXCEPT !.at = label, !.generation = g]
<1>1. s \in Shells
  <2>1. label \in ShellStages
    BY DEF ShellStages
  <2> QED
    BY <2>1, NewShellType, Relabelled
<1>2. s.at = label /\ s.pids = {} /\ s.generation = g
  BY DEF NewShell
<1> HIDE DEF s
<1> QED
  BY <1>1, <1>2, BlankFits DEF s

-----------------------------------------------------------------------------
(* The processes *)

LEMMA SameManifests ==
  ASSUME Ns3Inv, UNCHANGED manifest
  PROVE  /\ manifest' \in [Ns3Job -> Names \cup {Nothing}]
         /\ \A k \in Ns3Job : NamesSound(manifest'[k], k)
  BY DEF Ns3Inv, Ns3TypeOK, StoreSound

LEMMA ChildFacts ==
  ASSUME Ns3Inv, NEW g \in Generation, NEW j \in Ns3Job
  PROVE  child[g][j] \in Children /\ ChildFits(child[g][j], j, database[j])
  BY DEF Ns3Inv, Ns3TypeOK, ChildrenFit

(* What passes the strict validator was written under the expected version. *)
LEMMA ValidDatabase ==
  ASSUME Ns3Inv, NEW j \in Ns3Job, NEW v \in Version, StrictlyValid(j, v)
  PROVE  database[j] = Evidence(j, v) /\ IsSound(j, Evidence(j, v))
<1>1. /\ database[j] # Nothing /\ database[j].version = v
      /\ IsSound(j, database[j])
  BY DEF StrictlyValid, Contract, MetadataMatches, IsSound
<1>2. PICK w \in Version : database[j] = Evidence(j, w)
  BY <1>1 DEF Ns3Inv, StoreSound
<1>3. w = v
  BY <1>1, <1>2, EvidenceType
<1> QED
  BY <1>1, <1>2, <1>3

(* A job that has ended, however.                                           *)
LEMMA EndStep ==
  ASSUME Ns3Inv, NEW g \in Generation, NEW j \in Ns3Job, NEW from, NEW label \in Stopped,
         from \notin Stopped, Ends(g, j, from, label),
         UNCHANGED <<inputs, database, shell, report>>,
         manifest' \in [Ns3Job -> Names \cup {Nothing}],
         \A k \in Ns3Job : NamesSound(manifest'[k], k)
  PROVE  Ns3Inv'
<1> DEFINE l == IF g = shell.generation THEN label ELSE "idle"
           r == [Idle EXCEPT !.at = l]
<1>1. l \in Stopped
  BY DEF Stopped
<1>2. child[g][j].at \notin Stopped /\ child' = [child EXCEPT ![g][j] = r]
  BY DEF Ends, At
<1>3. inputs \in Version /\ database' \in {database, [database EXCEPT ![j] = Evidence(j, inputs)]}
  BY DEF Ns3Inv, Ns3TypeOK
<1> HIDE DEF l
<1>4. r \in Children /\ ChildFits(r, j, database'[j])
  BY <1>1, StoppedChild
<1> HIDE DEF r
<1> QED
  BY <1>2, <1>3, <1>4, ChildStep

LEMMA SkipStep ==
  ASSUME Ns3Inv, NEW g \in Generation, NEW j \in Ns3Job, Skip(g, j) PROVE Ns3Inv'
<1>1. "start" \notin Stopped /\ "succeeded" \in Stopped
  BY DEF Stopped
<1> QED
  BY <1>1, SameManifests, EndStep DEF Skip

LEMMA FailStep ==
  ASSUME Ns3Inv, NEW g \in Generation, NEW j \in Ns3Job, Fail(g, j) PROVE Ns3Inv'
<1>1. "failed" \in Stopped
  BY DEF Stopped
<1> QED
  BY <1>1, SameManifests, EndStep DEF Fail

LEMMA RejectStep ==
  ASSUME Ns3Inv, NEW g \in Generation, NEW j \in Ns3Job, Reject(g, j) PROVE Ns3Inv'
<1>1. "validate" \notin Stopped /\ "failed" \in Stopped
  BY DEF Stopped
<1> QED
  BY <1>1, SameManifests, EndStep DEF Reject

LEMMA SimulateStep ==
  ASSUME Ns3Inv, NEW g \in Generation, NEW j \in Ns3Job, Simulate(g, j) PROVE Ns3Inv'
<1> DEFINE o == child[g][j]
           e == Evidence(j, o.version)
           r == [o EXCEPT !.at = "copy", !.scratch = e]
<1>1. o \in Children /\ o.at = "start" /\ o.version \in Version
  BY ChildFacts DEF ChildFits, Simulate, At, Stopped
<1>2. e \in Databases
  BY <1>1, EvidenceType
<1>3. /\ child' = [child EXCEPT ![g][j] = r] /\ database' = database
      /\ UNCHANGED <<inputs, manifest, shell, report>>
  BY DEF Simulate
<1>4. r.at = "copy" /\ r.version = o.version /\ r.scratch = Evidence(j, r.version)
  BY <1>1 DEF Children
<1> HIDE DEF e
<1>5. r \in Children
  BY <1>1, <1>2 DEF Children, ChildStages
<1> HIDE DEF r
<1>6. ChildFits(r, j, database'[j])
  BY <1>1, <1>4 DEF ChildFits
<1> QED
  BY <1>1, <1>3, <1>5, <1>6, SameManifests, ChildStep DEF Stopped

LEMMA CopyStep ==
  ASSUME Ns3Inv, NEW g \in Generation, NEW j \in Ns3Job, CopyDatabase(g, j) PROVE Ns3Inv'
<1> DEFINE o == child[g][j]
           v == o.version
           r == [o EXCEPT !.at = "validate"]
<1>1. o \in Children /\ o.at = "copy" /\ v \in Version /\ o.scratch = Evidence(j, v)
  BY ChildFacts DEF ChildFits, CopyDatabase, Moves, At, Stopped
<1>2. /\ child' = [child EXCEPT ![g][j] = r]
      /\ database' = [database EXCEPT ![j] = Evidence(j, v)]
      /\ UNCHANGED <<inputs, manifest, shell, report>>
  BY <1>1 DEF CopyDatabase, Moves
<1>3. r \in Children /\ ChildFits(r, j, database'[j])
  BY <1>1 DEF Children, ChildStages, ChildFits, Stopped
<1> HIDE DEF r
<1> QED
  BY <1>1, <1>2, <1>3, SameManifests, ChildStep DEF Stopped

LEMMA ValidateStep ==
  ASSUME Ns3Inv, NEW g \in Generation, NEW j \in Ns3Job, Validate(g, j) PROVE Ns3Inv'
<1> DEFINE o == child[g][j]
           r == [o EXCEPT !.at = "digest"]
<1>1. o \in Children /\ o.at = "validate" /\ o.version \in Version
  BY ChildFacts DEF ChildFits, Validate, Moves, At, Stopped
<1>2. StrictlyValid(j, o.version)
  BY DEF Validate
<1>3. database[j] = Evidence(j, o.version) /\ IsSound(j, Evidence(j, o.version))
  BY <1>1, <1>2, ValidDatabase
<1>4. r \in Children /\ r.at = "digest" /\ r.version = o.version
  BY <1>1 DEF Children, ChildStages
<1>5. /\ child' = [child EXCEPT ![g][j] = r] /\ database' = database
      /\ UNCHANGED <<inputs, manifest, shell, report>>
  BY DEF Validate, Moves
<1> HIDE DEF r
<1>6. ChildFits(r, j, database'[j])
  BY <1>1, <1>3, <1>4, <1>5 DEF ChildFits
<1> QED
  BY <1>1, <1>4, <1>5, <1>6, SameManifests, ChildStep DEF Stopped

LEMMA DigestStep ==
  ASSUME Ns3Inv, NEW g \in Generation, NEW j \in Ns3Job, Digest(g, j) PROVE Ns3Inv'
<1> DEFINE o == child[g][j]
           r == [o EXCEPT !.at = "write", !.digest = database[j]]
<1>1. /\ o \in Children /\ o.at = "digest" /\ o.version \in Version
      /\ IsSound(j, Evidence(j, o.version)) /\ \E v \in Version : database[j] = Evidence(j, v)
  BY ChildFacts DEF ChildFits, Digest, At, Stopped
<1>2. database[j] \in Databases \cup {Nothing}
  BY DEF Ns3Inv, Ns3TypeOK
<1>3. r \in Children /\ r.at = "write" /\ r.version = o.version /\ r.digest = database[j]
  BY <1>1, <1>2 DEF Children, ChildStages
<1>4. /\ child' = [child EXCEPT ![g][j] = r] /\ database' = database
      /\ UNCHANGED <<inputs, manifest, shell, report>>
  BY DEF Digest
<1> HIDE DEF r
<1>5. ChildFits(r, j, database'[j])
  BY <1>1, <1>3 DEF ChildFits
<1> QED
  BY <1>1, <1>3, <1>4, <1>5, SameManifests, ChildStep DEF Stopped

LEMMA WriteManifestStep ==
  ASSUME Ns3Inv, NEW g \in Generation, NEW j \in Ns3Job, WriteManifest(g, j) PROVE Ns3Inv'
<1> DEFINE o == child[g][j]
           m == Manifest(o.version, o.digest)
<1>1. /\ o.version \in Version /\ IsSound(j, Evidence(j, o.version))
      /\ \E v \in Version : o.digest = Evidence(j, v)
  BY ChildFacts DEF ChildFits, WriteManifest, Ends, At, Stopped
<1>2. PICK v \in Version : o.digest = Evidence(j, v)
  BY <1>1
<1>3. o.digest \in Databases /\ o.digest.version = v
  BY <1>2, EvidenceType
<1>4. m \in Names /\ m.database = o.digest /\ m.version = o.version
  BY <1>1, <1>3 DEF Manifest, Names
<1>5. NamesSound(m, j)
  BY <1>1, <1>2, <1>3, <1>4 DEF NamesSound
<1>6. manifest' = [manifest EXCEPT ![j] = m]
  BY DEF WriteManifest
<1> HIDE DEF m
<1>7. /\ manifest' \in [Ns3Job -> Names \cup {Nothing}]
      /\ \A k \in Ns3Job : NamesSound(manifest'[k], k)
  BY <1>4, <1>5, <1>6 DEF Ns3Inv, Ns3TypeOK, StoreSound
<1>8. "write" \notin Stopped /\ "succeeded" \in Stopped
  BY DEF Stopped
<1> QED
  BY <1>7, <1>8, EndStep DEF WriteManifest

LEMMA WorksStep ==
  ASSUME Ns3Inv, NEW g \in Generation, NEW j \in Ns3Job, Works(g, j) PROVE Ns3Inv'
  BY SkipStep, SimulateStep, CopyStep, ValidateStep, RejectStep, DigestStep,
     WriteManifestStep DEF Works

-----------------------------------------------------------------------------
(* The shell and its smoke jobs *)

LEMMA ShellFacts ==
  ASSUME Ns3Inv
  PROVE  /\ shell \in Shells /\ g0 \in Generation /\ g0 = shell.generation
         /\ inputs \in Version /\ child \in [Generation -> [Ns3Job -> Children]]
         /\ database \in [Ns3Job -> Databases \cup {Nothing}]
         /\ Counted(shell, child[g0]) /\ Paced(shell) /\ Read(shell)
         /\ report \in [{"paired", "scenario", "summary"} -> Readings \cup Summaries \cup {Nothing}]
         /\ SummarySound(report["summary"])
         /\ shell.cursor \in Nat \ {0} /\ shell.pids \subseteq FormalJobs
         /\ shell.at \in ShellStages
  BY DEF Ns3Inv, Ns3TypeOK, ShellFits, Shells, g0

(* How a step of the shell may change its variables.                        *)
LEMMA ShellTypes ==
  ASSUME NEW s \in Shells, NEW st \in ShellStages, NEW k \in Nat \ {0}
  PROVE  /\ [s EXCEPT !.at = st] \in Shells
         /\ [s EXCEPT !.cursor = k] \in Shells
         /\ [s EXCEPT !.at = st, !.cursor = k] \in Shells
         /\ [s EXCEPT !.cursor = k, !.at = st] \in Shells
         /\ \A p \in SUBSET FormalJobs :
               [s EXCEPT !.pids = p, !.cursor = k, !.at = st] \in Shells
  BY DEF Shells

(* The shell leaves with none of its jobs running.                          *)
LEMMA ExitStep ==
  ASSUME Ns3Inv, NEW label \in Exited, Exits(label), shell.pids = {},
         UNCHANGED <<inputs, database, manifest, child>>,
         report' \in [{"paired", "scenario", "summary"} -> Readings \cup Summaries \cup {Nothing}],
         SummarySound(report'["summary"])
  PROVE  Ns3Inv'
<1> DEFINE s == [NewShell EXCEPT !.at = label, !.generation = g0]
<1>1. \A j \in FormalJobs : child[g0][j].at \in Stopped
  BY ShellFacts DEF Counted
<1>2. /\ s \in Shells /\ s.generation = g0
      /\ ShellFits(s, child[g0])
  BY <1>1, ShellFacts, OverFits
<1>3. shell' = s
  BY DEF Exits
<1> HIDE DEF s
<1> QED
  BY <1>2, <1>3, ShellStep, Zenon

LEMMA QuietExit ==
  ASSUME Ns3Inv, NEW label \in Exited, Exits(label), shell.pids = {},
         UNCHANGED <<inputs, database, manifest, child, report>>
  PROVE  Ns3Inv'
  BY ShellFacts, ExitStep

LEMMA InvokeStep == ASSUME Ns3Inv, Invoke PROVE Ns3Inv'
<1> DEFINE s == [NewShell EXCEPT !.at = "smoke", !.version = inputs, !.generation = g0]
           f == [j \in Ns3Job |-> Idle]
<1>1. s \in Shells
  <2>1. "smoke" \in ShellStages
    BY DEF ShellStages
  <2>2. ASSUME NEW st \in ShellStages, NEW v \in Version, NEW g \in Generation
        PROVE  [NewShell EXCEPT !.at = st, !.version = v, !.generation = g] \in Shells
    BY NewShellType DEF Shells
  <2> QED
    BY <2>1, <2>2, ShellFacts
<1>2. /\ s.at = "smoke" /\ s.version = inputs /\ s.generation = g0
      /\ s.pids = {} /\ s.cursor = 1
  BY DEF NewShell
<1>3. /\ shell' = s /\ child' = [child EXCEPT ![g0] = f]
      /\ UNCHANGED <<inputs, database, manifest, report>>
  BY DEF Invoke
<1>4. f \in [Ns3Job -> Children] /\ \A j \in Ns3Job : f[j] = Idle /\ f[j].at = "idle"
  BY IdleChild
<1> HIDE DEF s, f
<1>5. Ns3TypeOK'
  BY <1>1, <1>3, <1>4 DEF Ns3Inv, Ns3TypeOK
<1>6. \A g \in Generation : child'[g] = IF g = g0 THEN f ELSE child[g]
  BY <1>3, ShellFacts
<1>7. ChildrenFit(child', database')
  BY <1>3, <1>4, <1>6, IdleChild DEF Ns3Inv, ChildrenFit
<1>8. Counted(s, f)
  <2>1. IsFiniteSet(s.pids) /\ Cardinality(s.pids) = 0
    BY <1>2, FS_EmptySet, Zenon
  <2> QED
    BY <1>2, <1>4, <2>1, JobFields DEF Counted, Publishing, Stopped
<1>9. Paced(s) /\ Read(s)
  BY <1>2, ShellFacts, JobFields DEF Paced, Read, Publishing
<1>10. child'[s.generation] = f
  BY <1>2, <1>6, ShellFacts
<1> QED
  BY <1>3, <1>5, <1>7, <1>8, <1>9, <1>10 DEF Ns3Inv, ShellFits

(* A process that the shell starts for job j, by which it counts for p.     *)
LEMMA StartedJob ==
  ASSUME Ns3Inv, NEW j \in Ns3Job, shell.at \notin Exited
  PROVE  /\ Started(shell.version) \in Children /\ Started(shell.version).at = "start"
         /\ ChildFits(Started(shell.version), j, database[j])
<1> DEFINE v == shell.version
<1>1. v \in Version
  BY ShellFacts DEF Paced
<1>2. Started(v) \in Children /\ Started(v).at = "start" /\ Started(v).version = v
  BY <1>1, IdleChild DEF Started, Idle, Children, ChildStages
<1> QED
  BY <1>1, <1>2 DEF ChildFits

LEMMA RunSmokeStep == ASSUME Ns3Inv, RunSmoke PROVE Ns3Inv'
<1> DEFINE j == Smoke[shell.cursor]
           r == Started(shell.version)
<1>1. /\ shell.at = "smoke" /\ j \in SmokeJobs /\ j \in Ns3Job /\ j \notin FormalJobs
  BY ShellFacts, JobFields DEF RunSmoke, Paced
<1>2. r \in Children /\ ChildFits(r, j, database'[j])
  BY <1>1, StartedJob DEF Exited, RunSmoke
<1>3. child' = [child EXCEPT ![g0][j] = r] /\ UNCHANGED <<inputs, database, manifest, shell, report>>
  BY DEF RunSmoke
<1> HIDE DEF r, j
<1>4. Ns3TypeOK'
  BY <1>1, <1>2, <1>3, ShellFacts DEF Ns3Inv, Ns3TypeOK
<1>5. \A g \in Generation, k \in Ns3Job :
        child'[g][k] = IF g = g0 /\ k = j THEN r ELSE child[g][k]
  BY <1>1, <1>3, ShellFacts
<1>6. ChildrenFit(child', database')
  BY <1>2, <1>3, <1>5 DEF Ns3Inv, ChildrenFit
<1>7. \A k \in FormalJobs : child'[g0][k] = child[g0][k]
  BY <1>1, <1>5, ShellFacts, JobFields
<1>8. Counted(shell, child'[g0])
  BY <1>7, ShellFacts, JobFields DEF Counted
<1> QED
  BY <1>3, <1>4, <1>6, <1>8, ShellFacts DEF Ns3Inv, ShellFits

LEMMA EndSmokeStep == ASSUME Ns3Inv, EndSmoke PROVE Ns3Inv'
<1>0. /\ shell.at = "smoke" /\ UNCHANGED <<inputs, database, manifest, child, report>>
      /\ DOMAIN Smoke = 1 .. 2 /\ Len(Smoke) = 2
  BY JobFields DEF EndSmoke
<1>1. /\ shell.at = "smoke" /\ shell.pids = {} /\ shell.cursor \in {1, 2} /\ Len(Smoke) = 2
      /\ UNCHANGED <<inputs, database, manifest, child, report>>
  <2>1. shell.pids = {}
    BY <1>0, ShellFacts DEF Counted
  <2>2. shell.cursor \in 1 .. 2
    BY <1>0, ShellFacts DEF Paced
  <2> QED
    BY <1>0, <2>1, <2>2
<1>2. CASE Exits("exit 1")
  BY <1>1, <1>2, QuietExit DEF Exited
<1>3. CASE shell.cursor < Len(Smoke) /\ shell' = [shell EXCEPT !.cursor = @ + 1]
  <2> DEFINE s == [shell EXCEPT !.cursor = shell.cursor + 1]
  <2>1. s \in Shells
    <3>1. shell.cursor + 1 \in Nat \ {0}
      BY <1>1
    <3> QED
      BY <3>1, ShellFacts, ShellTypes
  <2>2. /\ s.at = "smoke" /\ s.cursor = shell.cursor + 1 /\ s.pids = {} /\ s.version = shell.version
        /\ s.generation = g0
    BY <1>1, ShellFacts DEF Shells
  <2>3. shell' = s
    BY <1>3
  <2> HIDE DEF s
  <2>4. ShellFits(s, child[g0])
    BY <1>1, <1>3, <2>2, ShellFacts, JobFields DEF ShellFits, Counted, Paced, Read, Publishing,
       Exited
  <2> QED
    BY <1>1, <2>1, <2>2, <2>3, <2>4, ShellFacts, ShellStep
<1>4. CASE shell' = [shell EXCEPT !.at = "launch", !.cursor = 1]
  <2> DEFINE s == [shell EXCEPT !.at = "launch", !.cursor = 1]
  <2>1. s \in Shells
    <3>1. "launch" \in ShellStages /\ 1 \in Nat \ {0}
      BY DEF ShellStages
    <3> QED
      BY <3>1, ShellFacts, ShellTypes
  <2>2. /\ s.at = "launch" /\ s.cursor = 1 /\ s.pids = {} /\ s.version = shell.version
        /\ s.generation = g0
    BY <1>1, ShellFacts DEF Shells
  <2>3. shell' = s
    BY <1>4
  <2> HIDE DEF s
  <2>4. ShellFits(s, child[g0])
    BY <1>1, <2>2, ShellFacts, JobFields DEF ShellFits, Counted, Paced, Read, Publishing, Exited
  <2> QED
    BY <1>1, <2>1, <2>2, <2>3, <2>4, ShellFacts, ShellStep
<1> QED
  BY <1>2, <1>3, <1>4 DEF EndSmoke

-----------------------------------------------------------------------------
(* The matrix *)

LEMMA LaunchStep == ASSUME Ns3Inv, Launch PROVE Ns3Inv'
<1> DEFINE j  == Formal[shell.cursor]
           r  == Started(shell.version)
           st == IF shell.cursor < Len(Formal) THEN "launch" ELSE "drain"
           k  == IF shell.cursor < Len(Formal) THEN shell.cursor + 1 ELSE 1
           p  == shell.pids \cup {j}
           s  == [shell EXCEPT !.pids = p, !.cursor = k, !.at = st]
<1>1. /\ shell.at = "launch" /\ shell.cursor \in DOMAIN Formal
      /\ UNCHANGED <<inputs, database, manifest, report>>
  BY ShellFacts DEF Launch, Paced
<1>2. j \in FormalJobs /\ j \in Ns3Job
  BY <1>1, JobFields
<1>3. r \in Children /\ r.at = "start" /\ ChildFits(r, j, database'[j])
  BY <1>1, <1>2, StartedJob DEF Exited
<1>4. /\ st \in ShellStages /\ k \in Nat \ {0} /\ k \in DOMAIN Formal
      /\ shell.cursor \in Nat
  BY <1>1, JobFields DEF ShellStages
<1>5. p \in SUBSET FormalJobs
  BY <1>2, ShellFacts
<1>6. s \in Shells
  BY <1>4, <1>5, ShellFacts, ShellTypes
<1>7. /\ s.at = st /\ s.cursor = k /\ s.pids = p /\ s.version = shell.version
      /\ s.generation = g0 /\ s.failed = shell.failed
  BY ShellFacts DEF Shells
<1>8. child' = [child EXCEPT ![g0][j] = r] /\ shell' = s
  BY <1>1 DEF Launch
<1>9. IsFiniteSet(p) /\ Cardinality(p) <= Workers
  <2>1. /\ IsFiniteSet(shell.pids) /\ Cardinality(shell.pids) < Workers
        /\ Cardinality(shell.pids) <= Workers
    BY ShellFacts DEF Counted, Launch, HasRoom
  <2>2. /\ IsFiniteSet(p)
        /\ Cardinality(p) = IF j \in shell.pids THEN Cardinality(shell.pids)
                            ELSE Cardinality(shell.pids) + 1
    BY <2>1, FS_AddElement
  <2>3. Cardinality(shell.pids) \in Nat
    BY <2>1, FS_CardinalityType
  <2> HIDE DEF p, j
  <2> QED
    BY <2>1, <2>2, <2>3, JobFields
<1>10. \A i \in DOMAIN Formal : st = "drain" \/ i < k => i < shell.cursor \/ Formal[i] = j
  BY <1>1, <1>4, JobFields
<1>11. st \in {"launch", "drain"} /\ (st = "drain" => k = 1)
  OBVIOUS
<1>12. j \in p /\ shell.pids \subseteq p
  OBVIOUS
<1> HIDE DEF r, j, s, st, k, p
<1>13. Ns3TypeOK'
  BY <1>2, <1>3, <1>6, <1>8, <1>1, ShellFacts DEF Ns3Inv, Ns3TypeOK
<1>14. \A g \in Generation, m \in Ns3Job :
         child'[g][m] = IF g = g0 /\ m = j THEN r ELSE child[g][m]
  BY <1>2, <1>8, ShellFacts
<1>15. ChildrenFit(child', database')
  BY <1>1, <1>3, <1>14 DEF Ns3Inv, ChildrenFit
<1>16. Counted(s, child'[g0])
  <2>1. \A m \in FormalJobs : child'[g0][m] = IF m = j THEN r ELSE child[g0][m]
    BY <1>14, ShellFacts, JobFields
  <2>2. \A m \in FormalJobs : child'[g0][m].at \notin Stopped => m \in s.pids
    BY <1>7, <1>12, <2>1, ShellFacts DEF Counted
  <2>3. ASSUME NEW i \in DOMAIN Formal, s.at = "drain" \/ (s.at = "launch" /\ i < s.cursor)
        PROVE  Formal[i] \in s.pids \/ s.failed \/ child'[g0][Formal[i]].at = "succeeded"
    <3>1. CASE Formal[i] = j
      BY <3>1, <1>7, <1>12
    <3>2. CASE Formal[i] # j
      <4>1. i < shell.cursor
        BY <1>7, <1>10, <2>3, <3>2
      <4>2. Formal[i] \in shell.pids \/ shell.failed \/ child[g0][Formal[i]].at = "succeeded"
        BY <1>1, <4>1, ShellFacts DEF Counted
      <4> QED
        BY <1>7, <1>12, <2>1, <3>2, <4>2, JobFields
    <3> QED
      BY <3>1, <3>2
  <2> QED
    BY <1>7, <1>9, <1>11, <2>2, <2>3 DEF Counted, Publishing
<1>17. Paced(s)
  BY <1>1, <1>4, <1>7, <1>11, ShellFacts DEF Paced, Exited
<1>18. Read(s)
  BY <1>7, <1>11 DEF Read, Publishing
<1> QED
  BY <1>1, <1>7, <1>8, <1>13, <1>15, <1>16, <1>17, <1>18, ShellFacts DEF Ns3Inv, ShellFits

LEMMA ReapStep == ASSUME Ns3Inv, Reap PROVE Ns3Inv'
<1>1. PICK j \in shell.pids :
        /\ child[g0][j].at \in {"succeeded", "failed"}
        /\ shell' = [shell EXCEPT !.pids = @ \ {j}, !.failed = FailedSoFar(j)]
  BY DEF Reap
<1>2. /\ shell.at \in {"launch", "drain"}
      /\ UNCHANGED <<inputs, database, manifest, child, report>>
  BY DEF Reap
<1> DEFINE p == shell.pids \ {j}
           s == [shell EXCEPT !.pids = p, !.failed = FailedSoFar(j)]
<1>3. s \in Shells
  <2>1. FailedSoFar(j) \in BOOLEAN
    BY ShellFacts DEF FailedSoFar, Shells
  <2>2. ASSUME NEW f \in BOOLEAN PROVE [shell EXCEPT !.pids = p, !.failed = f] \in Shells
    BY ShellFacts DEF Shells
  <2> QED
    BY <2>1, <2>2
<1>4. /\ s.at = shell.at /\ s.cursor = shell.cursor /\ s.pids = p /\ s.version = shell.version
      /\ s.generation = g0 /\ s.failed = FailedSoFar(j)
  BY ShellFacts DEF Shells
<1>5. IsFiniteSet(p) /\ Cardinality(p) <= Workers
  <2>1. IsFiniteSet(shell.pids) /\ Cardinality(shell.pids) <= Workers
    BY ShellFacts DEF Counted
  <2>2. IsFiniteSet(p) /\ Cardinality(p) <= Cardinality(shell.pids)
    BY <2>1, FS_Subset
  <2>3. Cardinality(shell.pids) \in Nat /\ Cardinality(p) \in Nat
    BY <2>1, <2>2, FS_CardinalityType
  <2> HIDE DEF p
  <2> QED
    BY <2>1, <2>2, <2>3, JobFields
<1>6. \A m : m \in p <=> m \in shell.pids /\ m # j
  OBVIOUS
<1>7. shell' = s
  BY <1>1
<1> HIDE DEF s, p
<1>8. Counted(s, child[g0])
  <2>1. \A m \in FormalJobs : child[g0][m].at \notin Stopped => m \in s.pids
    BY <1>1, <1>4, <1>6, ShellFacts DEF Counted, Stopped
  <2>2. ASSUME NEW i \in DOMAIN Formal, s.at = "drain" \/ (s.at = "launch" /\ i < s.cursor)
        PROVE  Formal[i] \in s.pids \/ s.failed \/ child[g0][Formal[i]].at = "succeeded"
    <3>1. Formal[i] \in shell.pids \/ shell.failed \/ child[g0][Formal[i]].at = "succeeded"
      BY <1>4, <2>2, ShellFacts DEF Counted
    <3> QED
      BY <1>1, <1>4, <1>6, <3>1 DEF FailedSoFar, At
  <2> QED
    BY <1>2, <1>4, <1>5, <2>1, <2>2 DEF Counted, Publishing
<1>9. Paced(s) /\ Read(s)
  BY <1>2, <1>4, ShellFacts DEF Paced, Read, Publishing, Exited
<1> QED
  BY <1>2, <1>3, <1>4, <1>7, <1>8, <1>9, ShellFacts, ShellStep DEF ShellFits

LEMMA EndMatrixStep == ASSUME Ns3Inv, EndMatrix PROVE Ns3Inv'
<1>1. /\ shell.at = "drain" /\ shell.pids = {}
      /\ UNCHANGED <<inputs, database, manifest, child, report>>
  BY DEF EndMatrix
<1>2. CASE Exits("exit 1")
  BY <1>1, <1>2, QuietExit DEF Exited
<1>3. CASE ~shell.failed /\ shell' = [shell EXCEPT !.at = "audit"]
  <2> DEFINE s == [shell EXCEPT !.at = "audit"]
  <2>1. s \in Shells
    BY ShellFacts, ShellTypes DEF ShellStages
  <2>2. /\ s.at = "audit" /\ s.cursor = shell.cursor /\ s.pids = {} /\ s.version = shell.version
        /\ s.generation = g0
    BY <1>1, ShellFacts DEF Shells
  <2>3. shell' = s
    BY <1>3
  <2> HIDE DEF s
  <2>4. \A j \in FormalJobs : child[g0][j].at = "succeeded"
    BY <1>1, <1>3, ShellFacts DEF Counted, FormalJobs
  <2>5. Counted(s, child[g0])
    BY <1>1, <2>2, <2>4, ShellFacts DEF Counted
  <2>6. Paced(s)
    BY <1>1, <2>2, ShellFacts, JobFields DEF Paced, Exited
  <2>7. Read(s)
    BY <1>1, <2>2, ShellFacts, JobFields DEF Read, Paced, Publishing
  <2> QED
    BY <1>1, <2>1, <2>2, <2>3, <2>5, <2>6, <2>7, ShellFacts, ShellStep DEF ShellFits
<1> QED
  BY <1>2, <1>3 DEF EndMatrix

-----------------------------------------------------------------------------
(* The audit and the reduction *)

(* A shell whose loop has gone on by one job.                               *)
LEMMA AdvancedShell ==
  ASSUME NEW s \in Shells, NEW next \in ShellStages, s.cursor \in DOMAIN Formal
  PROVE  /\ Advance(s, next) \in Shells
         /\ Advance(s, next).pids = s.pids /\ Advance(s, next).version = s.version
         /\ Advance(s, next).generation = s.generation
         /\ Advance(s, next).audited = s.audited /\ Advance(s, next).rows = s.rows
         /\ Advance(s, next).cursor \in DOMAIN Formal
         /\ \/ /\ Advance(s, next).at = s.at /\ Advance(s, next).cursor = s.cursor + 1
            \/ /\ Advance(s, next).at = next /\ s.cursor = Len(Formal)
               /\ Advance(s, next).cursor = 1
<1>0. \A k \in Nat \ {0} : /\ [s EXCEPT !.cursor = k] \in Shells
                            /\ [s EXCEPT !.cursor = k, !.at = next] \in Shells
  BY ShellTypes
<1>1. s.cursor \in 1 .. Len(Formal) /\ Len(Formal) \in Nat /\ DOMAIN Formal = 1 .. Len(Formal)
  BY JobFields
<1>2. CASE s.cursor < Len(Formal)
  <2>1. Advance(s, next) = [s EXCEPT !.cursor = s.cursor + 1]
    BY <1>2 DEF Advance
  <2>2. s.cursor + 1 \in Nat \ {0} /\ s.cursor + 1 \in DOMAIN Formal
    BY <1>1, <1>2
  <2>3. Advance(s, next) \in Shells
    BY <2>1, <2>2, <1>0
  <2> QED
    BY <2>1, <2>2, <2>3 DEF Shells
<1>3. CASE ~(s.cursor < Len(Formal))
  <2>1. Advance(s, next) = [s EXCEPT !.cursor = 1, !.at = next]
    BY <1>3 DEF Advance
  <2>2. s.cursor = Len(Formal) /\ 1 \in DOMAIN Formal
    BY <1>1, <1>3
  <2>3. Advance(s, next) \in Shells
    <3>1. 1 \in Nat \ {0}
      OBVIOUS
    <3> QED
      BY <2>1, <3>1, <1>0, Zenon
  <2> QED
    BY <2>1, <2>2, <2>3 DEF Shells
<1> QED
  BY <1>2, <1>3

LEMMA AuditStep == ASSUME Ns3Inv, Audit PROVE Ns3Inv'
<1> DEFINE j == Formal[shell.cursor]
<1>1. /\ shell.at = "audit" /\ shell.cursor \in DOMAIN Formal /\ shell.pids = {}
      /\ shell.version \in Version
      /\ UNCHANGED <<inputs, database, manifest, child, report>>
  BY ShellFacts DEF Audit, Paced, Counted, Exited
<1>2. CASE Exits("exit 1")
  BY <1>1, <1>2, QuietExit DEF Exited
<1>3. CASE Acceptable(j) /\ shell' = Advance([shell EXCEPT !.audited[j] = database[j]], "reduce")
  <2>1. j \in FormalJobs /\ j \in Ns3Job
    BY <1>1, JobFields
  <2>2. database[j] = Evidence(j, shell.version) /\ IsSound(j, Evidence(j, shell.version))
    BY <1>1, <1>3, <2>1, ValidDatabase DEF Acceptable
  <2> DEFINE a == [shell.audited EXCEPT ![j] = database[j]]
             t == [shell EXCEPT !.audited = a]
             s == Advance(t, "reduce")
  <2>3. a \in Readings /\ \A m \in FormalJobs :
          a[m] = IF m = j THEN Evidence(j, shell.version) ELSE shell.audited[m]
    BY <2>1, <2>2, ShellFacts DEF Readings, Shells
  <2> HIDE DEF a
  <2>4. /\ t \in Shells /\ t.cursor = shell.cursor /\ t.at = "audit" /\ t.pids = {}
        /\ t.version = shell.version /\ t.generation = g0 /\ t.audited = a
    BY <1>1, <2>3, ShellFacts DEF Shells
  <2>5. shell' = s
    BY <1>3 DEF a
  <2> HIDE DEF t
  <2>6. "reduce" \in ShellStages
    BY DEF ShellStages, Publishing
  <2>7. /\ s \in Shells /\ s.pids = {} /\ s.version = shell.version /\ s.generation = g0
        /\ s.audited = a /\ s.cursor \in DOMAIN Formal
        /\ \/ s.at = "audit" /\ s.cursor = shell.cursor + 1
           \/ s.at = "reduce" /\ s.cursor = 1 /\ shell.cursor = Len(Formal)
    BY <1>1, <2>4, <2>6, AdvancedShell
  <2> HIDE DEF s, j
  <2>8. Counted(s, child[g0])
    BY <1>1, <2>7, ShellFacts DEF Counted, Publishing
  <2>9. Paced(s)
    BY <1>1, <2>7 DEF Paced
  <2>10. Read(s)
    <3>1. \A i \in DOMAIN Formal : i < shell.cursor \/ i = shell.cursor =>
            /\ a[Formal[i]] = Evidence(Formal[i], shell.version)
            /\ IsSound(Formal[i], Evidence(Formal[i], shell.version))
      BY <1>1, <2>2, <2>3, ShellFacts, JobFields DEF Read, j
    <3>2. \A i \in DOMAIN Formal :
            s.at \in Publishing \/ (s.at = "audit" /\ i < s.cursor) =>
            i < shell.cursor \/ i = shell.cursor
      BY <1>1, <2>7, JobFields DEF Publishing
    <3>3. \A i \in DOMAIN Formal :
            ~(s.at \in Publishing \ {"reduce"} \/ (s.at = "reduce" /\ i < s.cursor))
      BY <2>7, JobFields DEF Publishing
    <3> QED
      BY <2>7, <3>1, <3>2, <3>3 DEF Read
  <2> QED
    BY <1>1, <2>5, <2>7, <2>8, <2>9, <2>10, ShellFacts, ShellStep DEF ShellFits
<1> QED
  BY <1>2, <1>3 DEF Audit

LEMMA ReadMetricsStep == ASSUME Ns3Inv, ReadMetrics PROVE Ns3Inv'
<1> DEFINE j == Formal[shell.cursor]
           a == [shell.rows EXCEPT ![j] = database[j]]
           t == [shell EXCEPT !.rows = a]
           s == Advance(t, "paired")
<1>1. /\ shell.at = "reduce" /\ shell.cursor \in DOMAIN Formal /\ shell.pids = {}
      /\ shell.version \in Version
      /\ UNCHANGED <<inputs, database, manifest, child, report>>
  BY ShellFacts DEF ReadMetrics, Paced, Counted, Exited
<1>2. CASE Exits("exit 1")
  BY <1>1, <1>2, QuietExit DEF Exited
<1>3. CASE shell' = s
  <2>1. j \in FormalJobs /\ j \in Ns3Job
    BY <1>1, JobFields
  <2>2. PICK v \in Version : database[j] = Evidence(j, v)
    BY <2>1 DEF ReadMetrics, Contract, Ns3Inv, StoreSound
  <2>3. a \in Readings /\ \A m \in FormalJobs :
          a[m] = IF m = j THEN Evidence(j, v) ELSE shell.rows[m]
    BY <2>1, <2>2, EvidenceType, ShellFacts DEF Readings, Shells
  <2> HIDE DEF a
  <2>4. /\ t \in Shells /\ t.cursor = shell.cursor /\ t.at = "reduce" /\ t.pids = {}
        /\ t.version = shell.version /\ t.generation = g0 /\ t.audited = shell.audited
        /\ t.rows = a
    BY <1>1, <2>3, ShellFacts DEF Shells
  <2> HIDE DEF t
  <2>5. "paired" \in ShellStages
    BY DEF ShellStages, Publishing
  <2>6. /\ s \in Shells /\ s.pids = {} /\ s.version = shell.version /\ s.generation = g0
        /\ s.audited = shell.audited /\ s.rows = a /\ s.cursor \in DOMAIN Formal
        /\ \/ s.at = "reduce" /\ s.cursor = shell.cursor + 1
           \/ s.at = "paired" /\ s.cursor = 1 /\ shell.cursor = Len(Formal)
    BY <1>1, <2>4, <2>5, AdvancedShell
  <2> HIDE DEF s, j
  <2>7. Counted(s, child[g0])
    BY <1>1, <2>6, ShellFacts DEF Counted, Publishing
  <2>8. Paced(s)
    BY <1>1, <2>6 DEF Paced
  <2>9. Read(s)
    <3>1. \A i \in DOMAIN Formal :
            /\ s.audited[Formal[i]] = Evidence(Formal[i], s.version)
            /\ IsSound(Formal[i], Evidence(Formal[i], s.version))
      BY <1>1, <2>6, ShellFacts DEF Read, Publishing
    <3>2. ASSUME NEW i \in DOMAIN Formal, i < shell.cursor \/ i = shell.cursor
          PROVE  \E w \in Version : a[Formal[i]] = Evidence(Formal[i], w)
      <4>1. CASE Formal[i] = j
        BY <2>1, <2>3, <4>1
      <4>2. CASE Formal[i] # j
        <5>1. i < shell.cursor
          BY <3>2, <4>2 DEF j
        <5>2. \E w \in Version : shell.rows[Formal[i]] = Evidence(Formal[i], w)
          BY <1>1, <5>1, ShellFacts DEF Read
        <5> QED
          BY <2>3, <4>2, <5>2, JobFields
      <4> QED
        BY <4>1, <4>2
    <3>3. \A i \in DOMAIN Formal :
            s.at \in Publishing \ {"reduce"} \/ (s.at = "reduce" /\ i < s.cursor) =>
            i < shell.cursor \/ i = shell.cursor
      BY <1>1, <2>6, JobFields DEF Publishing
    <3> QED
      BY <2>6, <3>1, <3>2, <3>3 DEF Read
  <2> QED
    BY <1>1, <1>3, <2>6, <2>7, <2>8, <2>9, ShellFacts, ShellStep DEF ShellFits
<1> QED
  BY <1>2, <1>3 DEF ReadMetrics

(* Of what was read, only what a process of another version has replaced    *)
(* is not what was audited.                                                 *)
LEMMA ReadingsAgree ==
  ASSUME Ns3Inv, shell.at \in Publishing \ {"reduce"}
  PROVE  /\ shell.rows \in Readings /\ shell.audited \in Readings
         /\ SummarySound([hashes |-> shell.audited, rows |-> shell.rows])
<1>1. /\ shell.rows \in Readings /\ shell.audited \in Readings /\ shell.version \in Version
  BY ShellFacts DEF Shells, Paced, Publishing, Exited
<1>2. ASSUME NEW j \in FormalJobs
      PROVE  /\ shell.audited[j].version = shell.version /\ IsSound(j, shell.audited[j])
             /\ shell.rows[j].version = shell.version => shell.rows[j] = shell.audited[j]
  <2>1. PICK i \in DOMAIN Formal : j = Formal[i]
    BY DEF FormalJobs
  <2>2. shell.audited[j] = Evidence(j, shell.version) /\ IsSound(j, Evidence(j, shell.version))
    BY <2>1, ShellFacts DEF Read
  <2>3. PICK v \in Version : shell.rows[j] = Evidence(j, v)
    BY <2>1, ShellFacts DEF Read
  <2>4. /\ Evidence(j, v).version = v /\ Evidence(j, shell.version).version = shell.version
    BY <1>1, EvidenceType, JobFields
  <2> QED
    BY <2>2, <2>3, <2>4
<1> DEFINE s == [hashes |-> shell.audited, rows |-> shell.rows]
<1>3. s.hashes = shell.audited /\ s.rows = shell.rows
  OBVIOUS
<1> HIDE DEF s
<1>4. SummarySound(s)
  BY <1>1, <1>2, <1>3 DEF SummarySound
<1> QED
  BY <1>1, <1>4 DEF s

LEMMA WriteTableStep ==
  ASSUME Ns3Inv, NEW file \in {"paired", "scenario"}, NEW next \in {"scenario", "summary"},
         WriteTable(file, next)
  PROVE  Ns3Inv'
<1> DEFINE s == [shell EXCEPT !.at = next]
<1>1. /\ shell.at = file /\ shell.at \in Publishing \ {"reduce"}
      /\ UNCHANGED <<inputs, database, manifest, child>>
      /\ shell' = s /\ report' = [report EXCEPT ![file] = shell.rows]
  BY DEF WriteTable, Publishing
<1>2. s \in Shells
  BY ShellFacts, ShellTypes DEF ShellStages, Publishing
<1>3. /\ s.at = next /\ s.cursor = shell.cursor /\ s.pids = shell.pids
      /\ s.version = shell.version /\ s.generation = g0
      /\ s.audited = shell.audited /\ s.rows = shell.rows
  BY ShellFacts DEF Shells
<1>4. /\ report' \in [{"paired", "scenario", "summary"} -> Readings \cup Summaries \cup {Nothing}]
      /\ report'["summary"] = report["summary"]
  BY <1>1, ShellFacts, ReadingsAgree
<1> HIDE DEF s
<1>5. Counted(s, child[g0]) /\ Paced(s) /\ Read(s)
  BY <1>1, <1>3, ShellFacts DEF Counted, Paced, Read, Publishing, Exited
<1> QED
  BY <1>1, <1>2, <1>3, <1>4, <1>5, ShellFacts, ShellStep DEF ShellFits

LEMMA WriteSummaryStep == ASSUME Ns3Inv, WriteSummary PROVE Ns3Inv'
<1> DEFINE m == [hashes |-> shell.audited, rows |-> shell.rows]
<1>1. /\ shell.at = "summary" /\ shell.pids = {} /\ shell.at \in Publishing \ {"reduce"}
      /\ UNCHANGED <<inputs, database, manifest, child>>
      /\ Exits("exit 0") /\ report' = [report EXCEPT !["summary"] = m]
  BY ShellFacts DEF WriteSummary, Counted, Publishing
<1>2. m \in Summaries /\ SummarySound(m)
  BY <1>1, ReadingsAgree, ShellFacts DEF Summaries, SummarySound
<1> HIDE DEF m
<1>3. /\ report' \in [{"paired", "scenario", "summary"} -> Readings \cup Summaries \cup {Nothing}]
      /\ report'["summary"] = m
  BY <1>1, <1>2, ShellFacts
<1> QED
  BY <1>1, <1>2, <1>3, ExitStep DEF Exited

-----------------------------------------------------------------------------
(* What goes wrong *)

LEMMA KillStep == ASSUME Ns3Inv, Kill PROVE Ns3Inv'
<1> DEFINE h == 1 - g0
           s == [NewShell EXCEPT !.at = "killed", !.generation = h]
           f == [j \in Ns3Job |-> IF j \in Unfinished(g0) \ SmokeJobs THEN child[g0][j] ELSE Idle]
<1>1. h \in Generation /\ h # g0
  BY ShellFacts DEF Generation
<1>2. /\ shell' = s /\ child' = [child EXCEPT ![g0] = f]
      /\ UNCHANGED <<inputs, database, manifest, report>>
  BY ShellFacts DEF Kill
<1>3. f \in [Ns3Job -> Children] /\ \A j \in Ns3Job : f[j] \in {child[g0][j], Idle}
  BY ShellFacts, IdleChild
<1> HIDE DEF f, h
<1>4. \A g \in Generation : child'[g] = IF g = g0 THEN f ELSE child[g]
  BY <1>2, ShellFacts
<1>5. \A j \in FormalJobs : child'[h][j].at \in Stopped
  BY <1>1, <1>4, JobFields DEF Kill, Unfinished, h
<1>6. s \in Shells /\ s.generation = h /\ ShellFits(s, child'[h])
  BY <1>1, <1>5, OverFits DEF Exited
<1>7. ChildrenFit(child', database')
  BY <1>2, <1>3, <1>4, IdleChild DEF Ns3Inv, ChildrenFit
<1> HIDE DEF s
<1>8. Ns3TypeOK'
  BY <1>2, <1>3, <1>6 DEF Ns3Inv, Ns3TypeOK
<1> QED
  BY <1>2, <1>6, <1>7, <1>8 DEF Ns3Inv

LEMMA CrashStep == ASSUME Ns3Inv, Crash PROVE Ns3Inv'
<1> DEFINE s == [NewShell EXCEPT !.at = "killed", !.generation = g0]
<1>1. /\ shell' = s /\ child' = [g \in Generation |-> [j \in Ns3Job |-> Idle]]
      /\ UNCHANGED <<inputs, database, manifest, report>>
  BY DEF Crash, Exits
<1>2. \A g \in Generation, j \in Ns3Job : child'[g][j] = Idle
  BY <1>1
<1>6. \A j \in FormalJobs : child'[g0][j].at \in Stopped
  BY <1>2, ShellFacts, JobFields, IdleChild DEF Stopped
<1>7. g0 \in Generation /\ "killed" \in Exited
  BY ShellFacts DEF Exited
<1>3. s \in Shells /\ s.generation = g0 /\ ShellFits(s, child'[g0])
  BY <1>6, <1>7, OverFits
<1>4. ChildrenFit(child', database')
  BY <1>2, IdleChild DEF ChildrenFit
<1> HIDE DEF s
<1>5. Ns3TypeOK'
  BY <1>1, <1>3, IdleChild DEF Ns3Inv, Ns3TypeOK
<1> QED
  BY <1>1, <1>3, <1>4, <1>5 DEF Ns3Inv

(* New inputs change nothing for whoever works for the old ones.            *)
LEMMA ChangeStep == ASSUME Ns3Inv, Change PROVE Ns3Inv'
<1>1. inputs' \in Version /\ UNCHANGED <<database, manifest, shell, child, report>>
  BY DEF Change
<1> QED
  BY <1>1 DEF Ns3Inv, Ns3TypeOK

LEMMA InitialMatrix == Ns3Init => Ns3Inv
<1> SUFFICES ASSUME Ns3Init PROVE Ns3Inv
  OBVIOUS
<1>1. Ns3TypeOK
  BY NewShellType, IdleChild DEF Ns3Init, Ns3TypeOK
<1>2. StoreSound(database, manifest) /\ SummarySound(report["summary"])
  BY DEF Ns3Init, StoreSound, NamesSound, SummarySound
<1>3. 0 \in Generation /\ shell = NewShell /\ shell.at = "new" /\ shell.generation = 0
      /\ \A g \in Generation, j \in Ns3Job : child[g][j] = Idle
  BY DEF Ns3Init, NewShell, Generation
<1>4. ChildrenFit(child, database)
  BY <1>3, IdleChild DEF ChildrenFit
<1>5. \A j \in FormalJobs : child[0][j].at \in Stopped
  BY <1>3, IdleChild, JobFields DEF Stopped
<1>7. shell.pids = {} /\ shell.at \in Exited
  BY <1>3 DEF NewShell, Exited
<1>6. ShellFits(shell, child[0])
  BY <1>5, <1>7, BlankFits
<1> QED
  BY <1>1, <1>2, <1>3, <1>4, <1>6 DEF Ns3Inv

-----------------------------------------------------------------------------
(* The theorems *)

LEMMA Ns3Step == Ns3Inv /\ [Ns3Next]_ns3Vars => Ns3Inv'
<1> SUFFICES ASSUME Ns3Inv, [Ns3Next]_ns3Vars PROVE Ns3Inv'
  OBVIOUS
<1>1. ASSUME Proceeds PROVE Ns3Inv'
  <2>1. ASSUME WriteReduction PROVE Ns3Inv'
    BY <2>1, WriteTableStep, WriteSummaryStep DEF WriteReduction
  <2> QED
    BY <1>1, <2>1, RunSmokeStep, EndSmokeStep, LaunchStep, ReapStep, EndMatrixStep, AuditStep,
       ReadMetricsStep DEF Proceeds
<1>2. ASSUME Faults PROVE Ns3Inv'
  BY <1>2, KillStep, CrashStep, ChangeStep, FailStep DEF Faults
<1>3. ASSUME UNCHANGED ns3Vars PROVE Ns3Inv'
  BY <1>3 DEF ns3Vars, Ns3Inv, Ns3TypeOK
<1> QED
  BY <1>1, <1>2, <1>3, InvokeStep, WorksStep DEF Ns3Next

LEMMA Ns3Invariant == Ns3Spec => []Ns3Inv
  BY InitialMatrix, Ns3Step, PTL DEF Ns3Spec

(* The variables of the script, its children and their files stay what the  *)
(* module says they are: Ns3TypeOK for every matrix.                        *)
THEOREM Ns3Typing == Ns3Spec => []Ns3TypeOK
<1>1. Ns3Inv => Ns3TypeOK
  BY DEF Ns3Inv
<1> QED
  BY <1>1, Ns3Invariant, PTL

(* wait_tracked_child and the loops around it lose no child and forget no   *)
(* failure, in whatever order children end and whoever is killed.           *)
THEOREM NoChildIsLost == Ns3Spec => []MatrixIsAccounted
<1>1. Ns3Inv => MatrixIsAccounted
  BY ShellFacts DEF MatrixIsAccounted, Counted, Unfinished, At, Publishing
<1> QED
  BY <1>1, Ns3Invariant, PTL

(* write_job_manifest and reduce_ns3_validation list nothing under its      *)
(* version that was not valid, although orphans of any version copy         *)
(* databases and write manifests beside them.                               *)
THEOREM HonestEvidence == Ns3Spec => []EvidenceIsHonest
<1>1. Ns3Inv => EvidenceIsHonest
  BY DEF Ns3Inv, StoreSound, NamesSound, SummarySound, IsSound, EvidenceIsHonest
<1> QED
  BY <1>1, Ns3Invariant, PTL

=============================================================================
