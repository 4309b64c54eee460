------------------------------ MODULE Pretraining ------------------------------
(***************************************************************************)
(* The model and the oracle pretraining publishes: build_pretraining of    *)
(* workflows.py, which replaces two files one after the other and takes    *)
(* the first back when the second fails, and the fixed_oracle jobs that    *)
(* read both files several times while they derive their provenance.       *)
(*                                                                         *)
(* A training result is told apart by its version: it is the content of    *)
(* the model, and of the oracle file whose arm was fitted with it and      *)
(* which names it by its hash and carries the matrix it was trained on.    *)
(* Nothing locks the two files.                                            *)
(***************************************************************************)
EXTENDS Naturals

CONSTANTS
    Publisher,     \* the invocations of build_pretraining
    Reader,        \* the processes that run fixed_oracle jobs
    Version,       \* the training results in play
    Makes,         \* Makes[p]: the result p trains from its matrix
    Initially,     \* the pairs that may be there in the beginning
    Absent         \* no such file

ASSUME PretrainingAssumption ==
    /\ Absent \notin Version
    /\ Makes \in [Publisher -> Version]
    /\ Initially \subseteq Version \cup {Absent}

Content == Version \cup {Absent}

VARIABLES
    model,         \* what the model file holds
    oracle,        \* the version of the oracle file
    publisher,     \* where each publisher is, and the model it found
    reader,        \* where each reader is, what it read, and (history) how often
                   \* the oracle was replaced since it first read it
    disturbed      \* history: what has happened beside exceptions of file operations

pretrainingVars == <<model, oracle, publisher, reader, disturbed>>

Stopped == {"new", "returned", "raised", "killed"}

(* The steps of a fixed_oracle job after its first read of the oracle.      *)
Reading == {"check", "hash", "hash_model", "reread", "recheck", "rehash", "rehash_model"}

(* So many replacements during one job can show it every file as it was.    *)
Enough == 3

Publishing == {p \in Publisher : publisher[p].at \notin Stopped}

Goes(p, from, to) ==
    publisher[p].at = from /\ publisher' = [publisher EXCEPT ![p].at = to]

Leaves(p, label) == publisher' = [publisher EXCEPT ![p] = [at |-> label, found |-> Absent]]

-----------------------------------------------------------------------------
(* build_pretraining, after the training *)

(* It reads what it may have to put back.  Of the oracle it never has to:   *)
(* nothing can raise in the try block after that file is replaced and noted. *)
Begin(p) ==
    /\ p \notin Publishing
    /\ publisher' = [publisher EXCEPT ![p] = [at |-> "install_model", found |-> model]]
    /\ disturbed' = disturbed \cup (IF Publishing # {} THEN {"overlap"} ELSE {})
    /\ UNCHANGED <<model, oracle, reader>>

(* Mutant: a model that is there is kept.                                *)
KeepsModel(p) ==
    /\ Goes(p, "install_model", "model_in")
    /\ model' = IF model = Absent THEN Makes[p] ELSE model
    /\ UNCHANGED <<oracle, reader, disturbed>>

InstallModel(p) ==
    /\ Goes(p, "install_model", "model_in")
    /\ model' = Makes[p]
    /\ UNCHANGED <<oracle, reader, disturbed>>

(* model_installed is set after the replacement.                            *)
NoteModel(p) ==
    /\ Goes(p, "model_in", "install_oracle")
    /\ UNCHANGED <<model, oracle, reader, disturbed>>

InstallOracle(p) ==
    /\ Goes(p, "install_oracle", "oracle_in")
    /\ oracle' = Makes[p]
    /\ reader' = [r \in Reader |->
          IF reader[r].at \in Reading /\ reader[r].replaced < Enough
          THEN [reader[r] EXCEPT !.replaced = @ + 1] ELSE reader[r]]
    /\ UNCHANGED <<model, disturbed>>

Return(p) ==
    /\ publisher[p].at = "oracle_in"
    /\ Leaves(p, "returned")
    /\ UNCHANGED <<model, oracle, reader, disturbed>>

(* Mutant: an exception leaves what was installed.                       *)
FailUnundone(p) ==
    /\ publisher[p].at \in {"install_model", "install_oracle"}
    /\ Leaves(p, "raised")
    /\ UNCHANGED <<model, oracle, reader, disturbed>>

(* Staging or a replacement raises, without an effect.                      *)
Fail(p) ==
    /\ \/ publisher[p].at = "install_model" /\ Leaves(p, "raised")
       \/ Goes(p, "install_oracle", "undo_model")
    /\ UNCHANGED <<model, oracle, reader, disturbed>>

(* _restore_path: the old bytes, or no file as before.                      *)
UndoModel(p) ==
    /\ publisher[p].at = "undo_model"
    /\ model' = publisher[p].found
    /\ Leaves(p, "raised")
    /\ UNCHANGED <<oracle, reader, disturbed>>

(* A rollback that fails is a note on the exception.                        *)
UndoFails(p) ==
    /\ publisher[p].at = "undo_model"
    /\ Leaves(p, "raised")
    /\ disturbed' = disturbed \cup {"undo"}
    /\ UNCHANGED <<model, oracle, reader>>

(* KeyboardInterrupt while a file is replaced is raised before the          *)
(* replacement is noted; then the handler does not know of it.              *)
Interrupt(p) ==
    /\ \/ publisher[p].at \in {"install_model", "model_in", "oracle_in", "undo_model"}
          /\ Leaves(p, "raised")
       \/ Goes(p, "install_oracle", "undo_model")
       \/ Goes(p, "oracle_in", "undo_model")
    /\ disturbed' = disturbed \cup {"interrupt"}
    /\ UNCHANGED <<model, oracle, reader>>

Kill(p) ==
    /\ p \in Publishing
    /\ Leaves(p, "killed")
    /\ disturbed' = disturbed \cup {"kill"}
    /\ UNCHANGED <<model, oracle, reader>>

-----------------------------------------------------------------------------
(* A fixed_oracle job: _run_sweep_job, then the head of run_job *)

NoReading ==
    [at |-> "new", names |-> Absent, hash |-> Absent, file |-> Absent, again |-> Absent, replaced |-> 0]

Reads(r, from, reading) ==
    /\ reader[r].at = from
    /\ reader' = [reader EXCEPT ![r] = reading]
    /\ UNCHANGED <<model, oracle, publisher, disturbed>>

(* A raise, at any of the checks.                                           *)
Checks(r, from, condition, reading) ==
    Reads(r, from, IF condition THEN reading ELSE NoReading)

(* load_oracle_arm: the model file is the one an oracle of v names.         *)
Names(v) == model # Absent /\ model = v

(* The agent is loaded from the model first.                                *)
ReadOracle(r) ==
    /\ reader[r].at \in {"new", "accepted"}
    /\ Reads(r, reader[r].at,
             IF oracle = Absent THEN NoReading ELSE [NoReading EXCEPT !.at = "check", !.names = oracle])

CheckOracle(r) ==
    Checks(r, "check", Names(reader[r].names), [reader[r] EXCEPT !.at = "hash"])

(* oracle_artifact_sha256                                                   *)
HashOracle(r) ==
    Checks(r, "hash", oracle # Absent, [reader[r] EXCEPT !.at = "hash_model", !.hash = oracle])

(* model_file_sha256, which the provenance compares with oracle_model_sha256. *)
HashModel(r) ==
    Checks(r, "hash_model", Names(reader[r].names), [reader[r] EXCEPT !.at = "reread", !.file = model])

(* run_job loads the oracle again.                                          *)
RereadOracle(r) ==
    Checks(r, "reread", oracle # Absent, [reader[r] EXCEPT !.at = "recheck", !.again = oracle])

(* Its arm and its matrix are compared with the first one's.                *)
RecheckOracle(r) ==
    Checks(r, "recheck", Names(reader[r].again) /\ reader[r].again = reader[r].names,
           [reader[r] EXCEPT !.at = "rehash"])

(* Mutant: the job trusts the hash that it was given.                    *)
RehashTrusts(r) ==
    Checks(r, "rehash", oracle # Absent, [reader[r] EXCEPT !.at = "rehash_model"])

RehashOracle(r) ==
    Checks(r, "rehash", oracle = reader[r].hash, [reader[r] EXCEPT !.at = "rehash_model"])

(* Hashed twice, here once: one comparison less accepts no fewer.           *)
RehashModel(r) ==
    Checks(r, "rehash_model", Names(reader[r].names), [reader[r] EXCEPT !.at = "accepted"])

-----------------------------------------------------------------------------
(* Specification *)

PretrainingInit ==
    /\ \E v \in Initially : model = v /\ oracle = v
    /\ publisher = [p \in Publisher |-> [at |-> "new", found |-> Absent]]
    /\ reader = [r \in Reader |-> NoReading]
    /\ disturbed = {}

(* What a publisher does once begun.                                        *)
Publishes(p) ==
    InstallModel(p) \/ NoteModel(p) \/ InstallOracle(p) \/ Return(p) \/ UndoModel(p)

Disturbs(p) == Fail(p) \/ UndoFails(p) \/ Interrupt(p) \/ Kill(p)

Inspects(r) ==
    \/ ReadOracle(r) \/ CheckOracle(r) \/ HashOracle(r) \/ HashModel(r)
    \/ RereadOracle(r) \/ RecheckOracle(r) \/ RehashOracle(r) \/ RehashModel(r)

PretrainingNext ==
    \/ \E p \in Publisher : Begin(p) \/ Publishes(p) \/ Disturbs(p)
    \/ \E r \in Reader : Inspects(r)

PretrainingSpec == PretrainingInit /\ [][PretrainingNext]_pretrainingVars

-----------------------------------------------------------------------------
(* Properties *)

PublisherLabels == Stopped \cup {"install_model", "model_in", "install_oracle", "oracle_in", "undo_model"}

Readings ==
    [at : {"new", "accepted"} \cup Reading, names : Content, hash : Content, file : Content,
     again : Content, replaced : 0 .. Enough]

(* The hashes that a job has taken are of files that exist.                 *)
HasHashed(reading) ==
    /\ reading.at \in {"hash_model", "reread", "recheck", "rehash", "rehash_model", "accepted"}
          => reading.hash # Absent
    /\ reading.at \in {"reread", "recheck", "rehash", "rehash_model", "accepted"}
          => reading.file # Absent

PretrainingTypeOK ==
    /\ model \in Content /\ oracle \in Content
    /\ publisher \in [Publisher -> [at : PublisherLabels, found : Content]]
    /\ reader \in [Reader -> Readings]
    /\ disturbed \subseteq {"overlap", "undo", "interrupt", "kill"}
    /\ \A r \in Reader : HasHashed(reader[r])

(* A job that is accepted runs the arm of the artifact its provenance       *)
(* hashes, which names the model that is hashed beside it: publishers that  *)
(* overlap, fail and are killed show files that do not belong together, and *)
(* no job takes them, unless the oracle was replaced three times while it   *)
(* read (there and back for either hash: nothing in the code excludes it).  *)
AcceptedIsConsistent ==
    \A r \in Reader : reader[r].at = "accepted" /\ reader[r].replaced < Enough =>
        reader[r].hash = reader[r].names /\ reader[r].file = reader[r].hash

Matched == model = oracle

(* The exceptions a publisher handles leave files that belong together,     *)
(* those it installed or those it found.                                    *)
RollsBack == Publishing = {} /\ disturbed = {} => Matched

(* "atomically publish model and Oracle arm": the docstring makes no        *)
(* exception for the interrupts that the handler catches.                   *)
PublishesAtomically == Publishing = {} /\ disturbed \subseteq {"interrupt"} => Matched
=============================================================================
