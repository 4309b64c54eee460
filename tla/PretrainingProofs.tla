--------------------------- MODULE PretrainingProofs ---------------------------
(***************************************************************************)
(* Proofs about Pretraining, for any number of publishers, jobs and        *)
(* training results.  The rollback is an argument about the one publisher  *)
(* that is at work, the jobs' checks one about how often the oracle must   *)
(* have been replaced for two reads to differ.                             *)
(***************************************************************************)
EXTENDS Pretraining, TLAPS

USE PretrainingAssumption DEF Enough

LEMMA InitialTyping == PretrainingInit => PretrainingTypeOK
BY DEF PretrainingInit, PretrainingTypeOK, Content, PublisherLabels, Stopped,
       Readings, NoReading, Reading, HasHashed

LEMMA PublishingTyping ==
    ASSUME PretrainingTypeOK, NEW p \in Publisher, Begin(p) \/ Publishes(p) \/ Disturbs(p)
    PROVE  PretrainingTypeOK'
<1> USE DEF Goes, Leaves, Content, PublisherLabels, Stopped
<1>1. /\ model' \in Content /\ oracle' \in Content
      /\ publisher' \in [Publisher -> [at : PublisherLabels, found : Content]]
      /\ disturbed' \subseteq {"overlap", "undo", "interrupt", "kill"}
  <2>1. CASE Begin(p)
    BY <2>1 DEF Begin, PretrainingTypeOK
  <2>2. CASE Publishes(p)
    BY <2>2 DEF Publishes, InstallModel, NoteModel, InstallOracle, Return, UndoModel, PretrainingTypeOK
  <2>3. CASE Disturbs(p)
    BY <2>3 DEF Disturbs, Fail, UndoFails, Interrupt, Kill, PretrainingTypeOK
  <2>4. QED
    BY <2>1, <2>2, <2>3
<1>2. reader' \in [Reader -> Readings] /\ \A r \in Reader : HasHashed(reader'[r])
  <2>1. CASE InstallOracle(p)
    <3>1. ASSUME NEW r \in Reader
          PROVE  reader'[r] \in Readings /\ HasHashed(reader'[r])
      <4>1. reader[r] \in Readings /\ HasHashed(reader[r])
        BY DEF PretrainingTypeOK
      <4>2. CASE reader'[r] = reader[r]
        BY <4>1, <4>2
      <4>3. CASE reader[r].replaced < Enough /\ reader'[r] = [reader[r] EXCEPT !.replaced = @ + 1]
        BY <4>1, <4>3 DEF Readings, HasHashed
      <4>4. QED
        BY <2>1, <4>2, <4>3 DEF InstallOracle
    <3>2. reader' = [r \in Reader |-> reader'[r]]
      BY <2>1 DEF InstallOracle
    <3>3. QED
      BY <3>1, <3>2
  <2>2. CASE UNCHANGED reader
    BY <2>2 DEF PretrainingTypeOK
  <2>3. QED
    BY <2>1, <2>2 DEF Begin, Publishes, InstallModel, NoteModel, Return, UndoModel, Disturbs,
                      Fail, UndoFails, Interrupt, Kill
<1>3. QED
  BY <1>1, <1>2 DEF PretrainingTypeOK

LEMMA InspectionReads ==
    ASSUME NEW r \in Reader, Inspects(r)
    PROVE  \E reading : Reads(r, reader[r].at, reading)
<1>1. CASE ReadOracle(r)
  BY <1>1 DEF ReadOracle
<1>2. ASSUME NEW from, NEW condition, NEW reading, Checks(r, from, condition, reading)
      PROVE  \E any : Reads(r, reader[r].at, any)
  BY <1>2 DEF Checks, Reads
<1>3. QED
  BY <1>1, <1>2 DEF Inspects, CheckOracle, HashOracle, HashModel, RereadOracle,
                    RecheckOracle, RehashOracle, RehashModel

(* A job either starts over or goes on with what its check allows.          *)
LEMMA InspectingTyping ==
    ASSUME PretrainingTypeOK, NEW r \in Reader, Inspects(r)
    PROVE  PretrainingTypeOK'
<1> USE DEF Reads
<1>1. reader[r] \in Readings /\ HasHashed(reader[r]) /\ oracle \in Content /\ model \in Content
  BY DEF PretrainingTypeOK
<1>2. /\ UNCHANGED <<model, oracle, publisher, disturbed>>
      /\ reader' = [reader EXCEPT ![r] = reader'[r]]
  <2>1. \E reading : Reads(r, reader[r].at, reading)
    BY InspectionReads
  <2>2. PICK reading : reader' = [reader EXCEPT ![r] = reading]
    BY <2>1
  <2>3. UNCHANGED <<model, oracle, publisher, disturbed>>
    BY <2>1
  <2>4. reader \in [Reader -> Readings]
    BY DEF PretrainingTypeOK
  <2>5. reader'[r] = reading
    BY <2>2, <2>4
  <2>6. QED
    BY <2>2, <2>3, <2>5
<1>3. reader'[r] \in Readings /\ HasHashed(reader'[r])
  <2> USE <1>1 DEF PretrainingTypeOK, Checks, HasHashed
  <2>1. CASE reader'[r] = NoReading
    BY <2>1 DEF NoReading, Readings, Content
  <2>2. CASE ReadOracle(r)
    <3>1. reader'[r] = NoReading \/ reader'[r] = [NoReading EXCEPT !.at = "check", !.names = oracle]
      BY <2>2 DEF ReadOracle
    <3>2. NoReading \in Readings /\ NoReading.at = "new"
      BY DEF NoReading, Readings, Content
    <3>3. QED
      BY <3>1, <3>2 DEF NoReading, Readings, Reading
  <2>3. CASE CheckOracle(r) /\ reader'[r] # NoReading
    BY <2>3 DEF CheckOracle, Readings, Reading
  <2>4. CASE HashOracle(r) /\ reader'[r] # NoReading
    BY <2>4 DEF HashOracle, Readings, Reading
  <2>5. CASE HashModel(r) /\ reader'[r] # NoReading
    BY <2>5 DEF HashModel, Names, Readings, Reading
  <2>6. CASE RereadOracle(r) /\ reader'[r] # NoReading
    BY <2>6 DEF RereadOracle, Readings, Reading
  <2>7. CASE RecheckOracle(r) /\ reader'[r] # NoReading
    BY <2>7 DEF RecheckOracle, Readings, Reading
  <2>8. CASE RehashOracle(r) /\ reader'[r] # NoReading
    BY <2>8 DEF RehashOracle, Readings, Reading
  <2>9. CASE RehashModel(r) /\ reader'[r] # NoReading
    BY <2>9 DEF RehashModel, Readings
  <2>10. QED
    BY <2>1, <2>2, <2>3, <2>4, <2>5, <2>6, <2>7, <2>8, <2>9 DEF Inspects
<1>4. QED
  BY <1>2, <1>3 DEF PretrainingTypeOK

LEMMA StepTyping == PretrainingTypeOK /\ [PretrainingNext]_pretrainingVars => PretrainingTypeOK'
<1>1. ASSUME PretrainingTypeOK, UNCHANGED pretrainingVars
      PROVE  PretrainingTypeOK'
  BY <1>1 DEF PretrainingTypeOK, pretrainingVars
<1>2. QED
  BY <1>1, PublishingTyping, InspectingTyping DEF PretrainingNext

(* Type correctness of the two files and of whoever writes or reads them;   *)
(* a job never goes on with the hash of a file that is missing.             *)
THEOREM PretrainingTyping == PretrainingSpec => []PretrainingTypeOK
BY InitialTyping, StepTyping, PTL DEF PretrainingSpec

-----------------------------------------------------------------------------
(* The rollback *)

(* What a publisher that works undisturbed has done, label by label.        *)
Installs(p) ==
    /\ publisher[p].at = "install_model" => model = oracle /\ publisher[p].found = model
    /\ publisher[p].at \in {"model_in", "install_oracle"} =>
          model = Makes[p] /\ publisher[p].found = oracle
    /\ publisher[p].at = "oracle_in" => model = Makes[p] /\ oracle = model
    /\ publisher[p].at = "undo_model" => publisher[p].found = oracle

RollInv ==
    disturbed = {} =>
        /\ Publishing = {} => Matched
        /\ \A p, q \in Publishing : p = q
        /\ \A p \in Publishing : Installs(p)

LEMMA InitialRoll == PretrainingInit => RollInv
BY DEF PretrainingInit, RollInv, Publishing, Stopped, Matched

(* Begins at files that belong together, unless somebody else is at work.   *)
LEMMA BeginRolls ==
    ASSUME PretrainingTypeOK, RollInv, NEW p \in Publisher, Begin(p)
    PROVE  RollInv'
<1> SUFFICES ASSUME disturbed' = {}
             PROVE  /\ Publishing' = {} => Matched'
                    /\ \A q, r \in Publishing' : q = r
                    /\ \A q \in Publishing' : Installs(q)'
  BY DEF RollInv
<1>1. disturbed = {} /\ Publishing = {} /\ Matched
  BY DEF Begin, RollInv
<1>2. Publishing' = {p}
  BY <1>1 DEF Begin, Publishing, Stopped, PretrainingTypeOK
<1>3. Installs(p)'
  BY <1>1 DEF Begin, Installs, Matched, PretrainingTypeOK
<1>4. QED
  BY <1>2, <1>3

(* The one publisher at work takes its next step, or an exception.          *)
LEMMA WorkRolls ==
    ASSUME PretrainingTypeOK, RollInv, NEW p \in Publisher, Publishes(p) \/ Disturbs(p)
    PROVE  RollInv'
<1> SUFFICES ASSUME disturbed' = {}
             PROVE  /\ Publishing' = {} => Matched'
                    /\ \A q, r \in Publishing' : q = r
                    /\ \A q \in Publishing' : Installs(q)'
  BY DEF RollInv
<1> USE DEF Goes, Leaves
<1>1. disturbed = {} /\ (Publishes(p) \/ Fail(p))
  BY DEF Publishes, InstallModel, NoteModel, InstallOracle, Return, UndoModel,
         Disturbs, Fail, UndoFails, Interrupt, Kill
<1>2. p \in Publishing
  BY <1>1 DEF Publishes, InstallModel, NoteModel, InstallOracle, Return, UndoModel, Fail,
              Publishing, Stopped
<1>3. Publishing = {p} /\ Installs(p)
  BY <1>1, <1>2 DEF RollInv
<1>4. \A q \in Publisher \ {p} : publisher'[q] = publisher[q]
  BY <1>1 DEF Publishes, InstallModel, NoteModel, InstallOracle, Return, UndoModel, Fail,
              PretrainingTypeOK
<1>5. Publishing' \subseteq {p}
  BY <1>3, <1>4 DEF Publishing
<1>6. IF p \in Publishing' THEN Installs(p)' ELSE Matched'
  <2> USE <1>3 DEF Publishing, Stopped, Installs, Matched, PretrainingTypeOK
  <2>1. CASE InstallModel(p) \/ NoteModel(p)
    BY <2>1 DEF InstallModel, NoteModel
  <2>2. CASE InstallOracle(p) \/ Return(p)
    BY <2>2 DEF InstallOracle, Return
  <2>3. CASE UndoModel(p)
    BY <2>3 DEF UndoModel
  <2>4. CASE Fail(p)
    BY <2>4 DEF Fail
  <2>5. QED
    BY <1>1, <2>1, <2>2, <2>3, <2>4 DEF Publishes
<1>7. QED
  BY <1>5, <1>6

LEMMA StepRolls ==
    PretrainingTypeOK /\ RollInv /\ [PretrainingNext]_pretrainingVars => RollInv'
<1> SUFFICES ASSUME PretrainingTypeOK, RollInv, [PretrainingNext]_pretrainingVars
             PROVE  RollInv'
  OBVIOUS
<1>1. CASE UNCHANGED <<model, oracle, publisher, disturbed>>
  BY <1>1 DEF RollInv, Publishing, Matched, Installs
<1>2. ASSUME NEW r \in Reader, Inspects(r)
      PROVE  UNCHANGED <<model, oracle, publisher, disturbed>>
  BY <1>2 DEF Inspects, ReadOracle, CheckOracle, HashOracle, HashModel, RereadOracle,
              RecheckOracle, RehashOracle, RehashModel, Checks, Reads
<1>3. QED
  BY <1>1, <1>2, BeginRolls, WorkRolls DEF PretrainingNext, pretrainingVars

(* Whatever exception of a file operation build_pretraining handles, the    *)
(* files belong together when it is done: for every number of reruns.       *)
THEOREM ExceptionsRollBack == PretrainingSpec => []RollsBack
<1>1. RollInv => RollsBack
  BY DEF RollInv, RollsBack
<1>2. QED
  BY <1>1, InitialTyping, StepTyping, InitialRoll, StepRolls, PTL DEF PretrainingSpec

-----------------------------------------------------------------------------
(* The checks of a job *)

(* What the values read so far tell about replacements: a hash that is not  *)
(* of the artifact loaded first takes one, to load that one again another,  *)
(* and to find the hash confirmed a third.                                  *)
Remembers(r) ==
    LET n == reader[r].replaced
        differs == reader[r].hash # reader[r].names
    IN  /\ reader[r].at \in {"check", "hash"} /\ n = 0 => oracle = reader[r].names
        /\ reader[r].at \in {"hash_model", "reread"} =>
              /\ n = 0 => oracle = reader[r].names /\ ~differs
              /\ n = 1 /\ differs => oracle = reader[r].hash
        /\ reader[r].at = "recheck" /\ differs /\ reader[r].again = reader[r].names =>
              n >= 2 /\ (n = 2 => oracle = reader[r].names)
        /\ reader[r].at = "rehash" /\ differs => n >= 2 /\ (n = 2 => oracle = reader[r].names)
        /\ reader[r].at \in {"rehash_model", "accepted"} /\ differs => n >= Enough
        /\ reader[r].at \in {"reread", "recheck", "rehash", "rehash_model", "accepted"} =>
              reader[r].file = reader[r].names

ReadInv == \A r \in Reader : Remembers(r)

LEMMA InitialRead == PretrainingInit => ReadInv
BY DEF PretrainingInit, ReadInv, Remembers, NoReading

(* A replaced oracle is counted by everybody who has begun to read.         *)
LEMMA ReplacedIsRemembered ==
    ASSUME PretrainingTypeOK, ReadInv, NEW p \in Publisher, InstallOracle(p)
    PROVE  ReadInv'
<1> SUFFICES ASSUME NEW r \in Reader PROVE Remembers(r)'
  BY DEF ReadInv
<1>1. reader[r] \in Readings /\ Remembers(r)
  BY DEF PretrainingTypeOK, ReadInv
<1>2. CASE reader[r].at \in Reading /\ reader[r].replaced < Enough
  <2>1. reader'[r] = [reader[r] EXCEPT !.replaced = @ + 1]
    BY <1>2 DEF InstallOracle
  <2>2. QED
    BY <1>1, <1>2, <2>1 DEF Remembers, Readings, Reading
<1>3. CASE ~(reader[r].at \in Reading /\ reader[r].replaced < Enough)
  <2>1. reader'[r] = reader[r]
    BY <1>3 DEF InstallOracle
  <2>2. QED
    BY <1>1, <1>3, <2>1 DEF Remembers, Readings, Reading
<1>4. QED
  BY <1>2, <1>3

LEMMA InspectionIsRemembered ==
    ASSUME PretrainingTypeOK, ReadInv, NEW r \in Reader, Inspects(r)
    PROVE  ReadInv'
<1> SUFFICES ASSUME NEW q \in Reader PROVE Remembers(q)'
  BY DEF ReadInv
<1> USE DEF Checks, Reads
<1>1. oracle' = oracle /\ model' = model
  BY DEF Inspects, ReadOracle, CheckOracle, HashOracle, HashModel, RereadOracle,
         RecheckOracle, RehashOracle, RehashModel
<1>2. Remembers(q) /\ reader[q] \in Readings
  BY DEF ReadInv, PretrainingTypeOK
<1>3. CASE reader'[q] = NoReading
  BY <1>3 DEF Remembers, NoReading
<1>4. CASE reader'[q] = reader[q]
  BY <1>1, <1>2, <1>4 DEF Remembers
<1>5. CASE q = r /\ reader'[q] # NoReading
  <2> USE <1>1, <1>2, <1>5 DEF Remembers, Readings, PretrainingTypeOK
  <2>1. CASE ReadOracle(r)
    <3>1. reader'[r] = [NoReading EXCEPT !.at = "check", !.names = oracle]
      BY <2>1 DEF ReadOracle
    <3>2. QED
      BY <3>1 DEF NoReading
  <2>8. CASE CheckOracle(r)
    BY <2>8 DEF CheckOracle
  <2>2. CASE HashOracle(r)
    BY <2>2 DEF HashOracle
  <2>3. CASE HashModel(r)
    BY <2>3 DEF HashModel, Names
  <2>4. CASE RereadOracle(r)
    BY <2>4 DEF RereadOracle
  <2>5. CASE RecheckOracle(r)
    BY <2>5 DEF RecheckOracle
  <2>6. CASE RehashOracle(r) \/ RehashModel(r)
    BY <2>6 DEF RehashOracle, RehashModel
  <2>7. QED
    BY <2>1, <2>2, <2>3, <2>4, <2>5, <2>6, <2>8 DEF Inspects
<1>6. q # r => reader'[q] = reader[q]
  BY DEF Inspects, ReadOracle, CheckOracle, HashOracle, HashModel, RereadOracle,
         RecheckOracle, RehashOracle, RehashModel, PretrainingTypeOK
<1>7. QED
  BY <1>3, <1>4, <1>5, <1>6

LEMMA StepRead ==
    PretrainingTypeOK /\ ReadInv /\ [PretrainingNext]_pretrainingVars => ReadInv'
<1> SUFFICES ASSUME PretrainingTypeOK, ReadInv, [PretrainingNext]_pretrainingVars
             PROVE  ReadInv'
  OBVIOUS
<1>1. CASE UNCHANGED <<oracle, reader>>
  BY <1>1 DEF ReadInv, Remembers
<1>2. ASSUME NEW p \in Publisher, Begin(p) \/ Publishes(p) \/ Disturbs(p), ~InstallOracle(p)
      PROVE  UNCHANGED <<oracle, reader>>
  BY <1>2 DEF Begin, Publishes, InstallModel, NoteModel, Return, UndoModel,
              Disturbs, Fail, UndoFails, Interrupt, Kill
<1>3. QED
  BY <1>1, <1>2, ReplacedIsRemembered, InspectionIsRemembered DEF PretrainingNext, pretrainingVars

(* A fixed_oracle job that passes every check of _run_sweep_job and run_job *)
(* records the artifact and the model it ran with, unless the oracle was    *)
(* replaced three times meanwhile, whatever happens to the publishers.      *)
THEOREM AcceptedBelongTogether == PretrainingSpec => []AcceptedIsConsistent
<1>1. PretrainingTypeOK /\ ReadInv => AcceptedIsConsistent
  BY DEF PretrainingTypeOK, Readings, ReadInv, Remembers, AcceptedIsConsistent
<1>2. QED
  BY <1>1, InitialTyping, StepTyping, InitialRead, StepRead, PTL DEF PretrainingSpec
=============================================================================
