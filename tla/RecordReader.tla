----------------------------- MODULE RecordReader -----------------------------
(***************************************************************************)
(* The raw record of a job, written and read: simulate_job_records yields  *)
(* a row per round with its decisions and training samples, and records.py *)
(* reads the rows of a completed job back, checks each against the job and *)
(* against the rows before it, and reduces them; _load_pretraining_inputs  *)
(* takes the training samples from there.                                  *)
(*                                                                         *)
(* The reader comes later than the writer.  What it does depends on the    *)
(* rows alone, so here it reads each row as it is yielded.  A context is   *)
(* told by the round of its decision.                                      *)
(***************************************************************************)
EXTENDS Simulation

CONSTANTS
    Policies,         \* the policies the job may have
    RequiredArm       \* the arm of a fixed_oracle or a pretrain_arm job

OneArmed == {"fixed_oracle", "pretrain_arm"}
Deciding == {"adaptive_db_lbt"} \cup OneArmed

ASSUME PoliciesAssumption ==
    /\ Policies # {} /\ Policies \subseteq Deciding \cup {"tmc_db_lbt"}
    /\ Adaptive # {} => Policies \subseteq Deciding
    /\ RequiredArm \in Arms

VARIABLES
    policy,           \* JobSpec.policy
    agents,           \* agents[n]: decision_context and the updates of n's agent
    decisions,        \* decisions[n]: the decision of n in this round, if it made one
    contexts,         \* contexts[n]: previous_decision_context of n, or 0
    sequences,        \* local_sequences
    reader            \* the local variables of the reader and of the reduction

journal  == <<decisions, contexts, sequences, reader>>
readVars == <<simVars, policy, agents, journal>>

-----------------------------------------------------------------------------
(* The writer *)

(* FixedArmSelector selects one arm for ever.                               *)
FollowsPolicy == policy \in OneArmed => \A n \in Decisions : arm'[n] = RequiredArm

(* The DecisionRecord of this round, as _decision_value writes it.          *)
RecordOf(n) ==
    [round |-> contentionRound + 1, previous |-> arm[n], arm |-> arm'[n],
     rewarded |-> n \in Rewarded]

(* online_updates: the agents of the other policies never learn (nor do     *)
(* those of the ablation frozen_online, which is left out).                 *)
Online == policy = "adaptive_db_lbt"

(* Mutant: the arm that was just chosen is credited.                     *)
CreditsNewArm(n) == [context |-> agents[n].context, arm |-> arm'[n]]

(* LinUCB.update at a boundary: the reward of the interval goes to the arm  *)
(* in force and to the context it was chosen in.                            *)
Credits(n) == [context |-> agents[n].context, arm |-> arm[n]]

Decided(n) ==
    [context |-> contentionRound + 1,
     learned |-> IF Online /\ n \in Rewarded THEN Append(agents[n].learned, Credits(n))
                 ELSE agents[n].learned]

Contends ==
    /\ Contend
    /\ FollowsPolicy
    /\ agents' = [n \in Adaptive |-> IF n \in Decisions THEN Decided(n) ELSE agents[n]]
    /\ decisions' = [n \in Decisions |-> RecordOf(n)]
    /\ UNCHANGED <<contexts, sequences, reader>>

RewardedNodes == {n \in DOMAIN decisions : decisions[n].rewarded}

(* Only pretraining leaves samples: the arm and the context of the decision *)
(* before, with the reward of this one.                                     *)
Sampled == IF policy = "pretrain_arm" THEN RewardedNodes ELSE {}

(* Mutant: the context of the decision that earned the reward.           *)
SamplesOfThisDecision ==
    [n \in Sampled |->
        [context |-> decisions[n].round, arm |-> decisions[n].previous,
         sequence |-> sequences[n]]]

Samples ==
    [n \in Sampled |->
        [context |-> contexts[n], arm |-> decisions[n].previous, sequence |-> sequences[n]]]

ContextsAfter ==
    [n \in Adaptive |-> IF n \in DOMAIN decisions THEN decisions[n].round ELSE contexts[n]]

SendersValue ==
    [n \in senders |->
        [delay     |-> IF Success THEN result.delay ELSE Never,
         effective |-> IF Success THEN result.effective ELSE 0]]

RowValue ==
    [round_id       |-> contentionRound - 1,
     tx_start_us    |-> result.start,
     round_end_us   |-> now,
     kind           |-> IF Success THEN "success" ELSE "collision",
     collision_size |-> IF Success THEN 0 ELSE Cardinality(senders),
     reservation_us |-> result.reservation,
     effective_us   |-> result.effective,
     node_ids       |-> senders,
     active         |-> row.active,
     backlogged     |-> row.backlogged,
     phase          |-> IF Phases = <<>> THEN <<>> ELSE <<row.phase, row.phaseRound>>,
     change_point   |-> row.change,
     senders        |-> SendersValue,
     decisions      |-> decisions,
     samples        |-> Samples]

-----------------------------------------------------------------------------
(* _validate_row: one row against the job and its place in the record *)

IdentityIsRight(w) == w.round_id = reader.rows /\ w.tx_start_us < w.round_end_us

(* The phase is computed from the number of the row.                        *)
ExpectedPhase(r) ==
    IF Phases = <<>> THEN <<>> ELSE <<PhaseAt(r), PhaseRound(r)>>

ExpectedChange(r) == Phases # <<>> /\ (r = 0 \/ PhaseRound(r) = 0)

PhaseIsRight(w) ==
    w.phase = ExpectedPhase(reader.rows) /\ w.change_point = ExpectedChange(reader.rows)

(* Likewise who is active.                                                  *)
ExpectedActive(r) ==
    IF Phases # <<>> THEN {n \in Node : InPhase(n, PhaseAt(r))}
    ELSE IF JoinInterval = 0 THEN Node
    ELSE LET at == r % ((Cardinality(Node) - 1) * JoinInterval + Lifetime)
         IN  {n \in Node : at - Index[n] * JoinInterval \in 0 .. Lifetime - 1}

MembersAreRight(w) ==
    /\ w.active = ExpectedActive(reader.rows)
    /\ w.node_ids \subseteq w.backlogged /\ w.backlogged \subseteq w.active

OutcomeIsRight(w) ==
    IF w.kind = "success"
    THEN /\ Cardinality(w.node_ids) = 1 /\ w.collision_size = 0
         /\ w.effective_us > 0
         /\ \A n \in w.node_ids : w.senders[n].effective = w.effective_us
    ELSE /\ w.collision_size = Cardinality(w.node_ids) /\ w.collision_size >= 2
         /\ w.reservation_us = 0 /\ w.effective_us = 0
         /\ \A n \in w.node_ids : w.senders[n] = [delay |-> Never, effective |-> 0]

(* _validate_decision                                                       *)
DecisionIsRight(w, n) ==
    LET d == w.decisions[n]
    IN  /\ d.round = w.round_id + 1 /\ d.round % DecisionInterval = 0
        /\ n \in w.active
        /\ d.arm \in Arms /\ d.previous \in Arms \cup {NoArm}
        /\ policy \in OneArmed =>
              d.arm = RequiredArm /\ d.previous \in {NoArm, RequiredArm}

DecisionsAreRight(w) ==
    /\ DOMAIN w.decisions # {} => policy \in Deciding
    /\ \A n \in DOMAIN w.decisions : DecisionIsRight(w, n)
    /\ DOMAIN w.samples # {} => policy = "pretrain_arm"

-----------------------------------------------------------------------------
(* The rows before it: _iter_rows, aggregate_rows, _load_pretraining_inputs *)

(* The training samples are those of the rewarded decisions, and each tells *)
(* the arm and the context of the decision that the reader saw last.        *)
SamplesAreRight(w) ==
    policy = "pretrain_arm" =>
        /\ DOMAIN w.samples = {n \in DOMAIN w.decisions : w.decisions[n].rewarded}
        /\ \A n \in DOMAIN w.samples :
              /\ w.samples[n].arm = w.decisions[n].previous
              /\ reader.contexts[n] # 0 /\ w.samples[n].context = reader.contexts[n]

FollowsRows(w) == reader.rows = 0 \/ reader.end <= w.tx_start_us

(* The loader wants the sequence of each contender from zero, without gaps. *)
SequencesContinue(w) == \A n \in DOMAIN w.samples : w.samples[n].sequence = reader.loaded[n]

(* The reduction finds the winner declared active, and no more data than    *)
(* time.                                                                    *)
IsReducible(w) ==
    /\ w.kind = "success" => w.node_ids \subseteq reader.declared \cup w.active
    /\ reader.effective + w.effective_us <= w.round_end_us

Accepts(w) ==
    /\ IdentityIsRight(w) /\ PhaseIsRight(w) /\ MembersAreRight(w) /\ OutcomeIsRight(w)
    /\ DecisionsAreRight(w) /\ SamplesAreRight(w) /\ FollowsRows(w)
    /\ SequencesContinue(w) /\ IsReducible(w)

(* What a reader of the record takes an agent to have learned.              *)
Replays(w, n) ==
    IF n \in DOMAIN w.decisions /\ w.decisions[n].rewarded /\ Online
    THEN <<[context |-> reader.contexts[n], arm |-> w.decisions[n].previous]>>
    ELSE <<>>

Read(w) ==
    reader' =
        [rows      |-> reader.rows + 1,
         end       |-> w.round_end_us,
         contexts  |-> [n \in Adaptive |->
             IF n \in DOMAIN w.decisions THEN w.decisions[n].round ELSE reader.contexts[n]],
         loaded    |-> [n \in Adaptive |->
             IF n \in DOMAIN w.samples THEN reader.loaded[n] + 1 ELSE reader.loaded[n]],
         declared  |-> reader.declared \cup w.active,
         effective |-> reader.effective + w.effective_us,
         replayed  |-> [n \in Adaptive |-> reader.replayed[n] \o Replays(w, n)]]

Yields ==
    /\ Yield
    /\ sequences' = [n \in Adaptive |->
          IF n \in Sampled THEN sequences[n] + 1 ELSE sequences[n]]
    /\ contexts' = ContextsAfter
    /\ decisions' = [n \in {} |-> 0]
    /\ Read(RowValue)
    /\ UNCHANGED agents

Elsewhere ==
    /\ \/ OpenRound \/ Activate \/ Activated \/ Wake \/ Idle \/ NobodyActive \/ IdleTooLong
       \/ IdleEnds \/ Interfere \/ Dequeue \/ Sample
    /\ UNCHANGED <<agents, journal>>

-----------------------------------------------------------------------------
(* Specification *)

ReadInit ==
    /\ SimInit
    /\ policy \in Policies
    /\ agents = [n \in Adaptive |-> [context |-> 0, learned |-> <<>>]]
    /\ decisions = [n \in {} |-> 0]
    /\ contexts = [n \in Adaptive |-> 0]
    /\ sequences = [n \in Adaptive |-> 0]
    /\ reader = [rows |-> 0, end |-> 0, contexts |-> [n \in Adaptive |-> 0],
                 loaded |-> [n \in Adaptive |-> 0], declared |-> {}, effective |-> 0,
                 replayed |-> [n \in Adaptive |-> <<>>]]

ReadNext == (Contends \/ Yields \/ Elsewhere) /\ UNCHANGED <<job, policy>>

ReadSpec == ReadInit /\ [][ReadNext]_readVars

-----------------------------------------------------------------------------
(* Properties *)

(* Whatever the simulation writes can be read: no row of it is refused by   *)
(* the checks of the reader, of the reduction or of the training loader,    *)
(* which compute from the number of the row and from the rows before it     *)
(* what the loop reached step by step.                                      *)
RowIsAccepted == stage = "yield" /\ waking = {} => Accepts(RowValue)

(* The check "phase metadata does not match configured schedule" alone.     *)
PhaseIsAccepted == stage = "yield" /\ waking = {} => PhaseIsRight(RowValue)

(* The record explains the agents: whoever replays its decisions finds each *)
(* agent's updates, in order, from the contender's own rewards, each with   *)
(* the context and the arm it belongs to, and none of another contender.    *)
AgentsReplay ==
    \A n \in Adaptive :
        agents[n].learned =
            reader.replayed[n] \o (IF DOMAIN decisions = {} THEN <<>> ELSE Replays(RowValue, n))

(* What pretraining learns from the record is what an online agent would    *)
(* have learned: a contender's samples name its own earlier decisions, in   *)
(* order, none twice, and never the decision that earned the reward.        *)
SamplesPrecedeRewards ==
    \A n \in Adaptive :
        /\ reader.contexts[n] <= contentionRound /\ reader.loaded[n] = sequences[n]
        /\ n \in Sampled =>
              /\ contexts[n] + DecisionInterval <= decisions[n].round
              /\ contexts[n] % DecisionInterval = 0 /\ decisions[n].previous # NoArm
=============================================================================
