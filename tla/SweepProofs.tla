------------------------------ MODULE SweepProofs ------------------------------
(***************************************************************************)
(* Proofs about Sweep, for any number of invocations, matrices, workers    *)
(* and models, and any failures.  The invariant says, for each invocation, *)
(* how its local variables fit its futures and the jobs in the store that  *)
(* nothing can take away: those whose provenance depends on no model.      *)
(***************************************************************************)
EXTENDS Sweep, FiniteSetTheorems, SequenceTheorems, WellFoundedInduction, TLAPS

-----------------------------------------------------------------------------
(* The invariant *)

Modelless == [agent |-> Nothing, file |-> Nothing]

(* The jobs that are complete and stay so.                                  *)
Kept == {j \in Job \ Learners : store[j] # Nothing}

SoundManifest(m, j) ==
    m # Nothing =>
        /\ m \in Manifests /\ m.job = j
        /\ j \notin Learners => m.execution = Modelless

SoundFuture(f, j) ==
    /\ f.at \in Working =>
          f.execution \in Executions /\ (j \notin Learners => f.execution = Modelless)
    /\ f.at = "returned" => f.outcome \in Manifests /\ f.outcome.job = j

(* The jobs of c are taken from the matrix in order.                        *)
Ordered(s, c) ==
    /\ c.stage \in Preparing => c.cursor \in DOMAIN Matrix[s]
    /\ c.stage \in {"expect", "configure"} => c.pending = <<>>
    /\ c.stage = "configure" => c.cursor = 1
    /\ \A i \in DOMAIN c.pending :
          /\ c.pending[i] \in JobsOf(s)
          /\ c.stage = "resume" => c.pending[i] < Matrix[s][c.cursor]
          /\ \A k \in DOMAIN c.pending : i < k => c.pending[i] < c.pending[k]

(* What is expected of a job is of the agent that was loaded.               *)
Expected(s, c) ==
    \A i \in DOMAIN Matrix[s] :
        \/ c.stage = "expect" /\ i < c.cursor
        \/ c.stage \in {"configure", "resume", "submit", "wait", "returned"}
        => \E m \in Models : c.expected[Matrix[s][i]] = Execution(Matrix[s][i], c.agent, m)

(* A job the invocation has looked at is complete for good or pending.      *)
Covered(s, c, kept) ==
    \A i \in DOMAIN Matrix[s] :
        /\ Matrix[s][i] \notin Learners
        /\ c.stage \in {"submit", "wait"} \/ (c.stage = "resume" /\ i < c.cursor)
        => Matrix[s][i] \in kept \cup {c.pending[k] : k \in DOMAIN c.pending}

(* The pool, the iterator and the results account for one another.          *)
Pooled(c) ==
    c.stage = "wait" =>
        /\ IsFiniteSet(c.inFlight) /\ c.batch \subseteq c.inFlight
        /\ c.inFlight \cap Collected(c) = {}
        /\ c.submitted <= Len(c.pending)
        /\ Pending(c, 1, c.submitted) = c.inFlight \cup Collected(c)
        /\ Cardinality(c.inFlight) + Len(c.results) = c.submitted
        /\ Cardinality(c.inFlight) <= MaxWorkers
        /\ c.submitted < Len(c.pending) => Cardinality(c.inFlight) = MaxWorkers

(* No process but those the pool knows of.                                  *)
Contained(c, f) ==
    /\ c.stage \in Preparing \cup {"submit"} => \A j \in Job : f[j].at = "idle"
    /\ c.stage = "wait" => \A j \in Job : f[j].at # "idle" => j \in c.inFlight
    /\ c.stage \in Finished => \A j \in Job : f[j].at \notin Working \cup {"queued"}

(* What was collected is of the agent, or stays.                            *)
Delivered(c, kept) ==
    /\ c.stage \in Preparing \cup {"submit"} => c.results = <<>> /\ c.batch = {}
    /\ \A i \in DOMAIN c.results :
          IF c.results[i].job \in Learners
          THEN c.results[i].execution.agent = c.agent
          ELSE c.results[i].job \in kept

(* A job the invocation has looked at is pending, or was seen complete for  *)
(* what is expected of it; a result is for what is expected as well.        *)
Passed(c) == {m.job : m \in c.skipped}

PendingJobs(c) == {c.pending[k] : k \in DOMAIN c.pending}

AsExpected(c) ==
    /\ \A m \in c.skipped : m.execution = c.expected[m.job]
    /\ \A i \in DOMAIN c.results : c.results[i].execution = c.expected[c.results[i].job]

Answered(s, c) ==
    /\ c.stage \in {"expect", "configure"} => c.skipped = {}
    /\ c.stage \in {"resume", "submit", "wait", "returned"} => AsExpected(c)
    /\ \A i \in DOMAIN Matrix[s] :
          /\ c.stage \in {"submit", "wait"} \/ (c.stage = "resume" /\ i < c.cursor)
             => Matrix[s][i] \in Passed(c) \cup PendingJobs(c)
          /\ c.stage = "returned" => Matrix[s][i] \in Passed(c) \cup Collected(c)

Whole(s, c, kept) == c.stage = "returned" => JobsOf(s) \ Learners \subseteq kept

Consistent(s, c, f, kept) ==
    /\ Ordered(s, c) /\ Expected(s, c) /\ Covered(s, c, kept)
    /\ Pooled(c) /\ Contained(c, f) /\ Delivered(c, kept) /\ Whole(s, c, kept)
    /\ Answered(s, c)

Sound ==
    \A j \in Job : /\ SoundManifest(store[j], j)
                   /\ \A s \in Sweeper : SoundFuture(future[s][j], j)

SweepInv ==
    /\ SweepTypeOK /\ Sound
    /\ \A s \in Sweeper : Consistent(s, call[s], future[s], Kept)
-----------------------------------------------------------------------------
(* The constants and the records *)

LEMMA MatrixFields ==
  ASSUME NEW s \in Sweeper
  PROVE  /\ Len(Matrix[s]) \in Nat \ {0} /\ DOMAIN Matrix[s] = 1 .. Len(Matrix[s])
         /\ JobsOf(s) \subseteq Job /\ JobsOf(s) \subseteq Nat
         /\ \A i \in DOMAIN Matrix[s] : Matrix[s][i] \in JobsOf(s)
         /\ \A i, k \in DOMAIN Matrix[s] : i < k => Matrix[s][i] < Matrix[s][k]
<1>1. Matrix[s] \in Seq(Nat) /\ Matrix[s] # <<>>
  BY SweepAssumption
<1>2. /\ Len(Matrix[s]) \in Nat \ {0} /\ DOMAIN Matrix[s] = 1 .. Len(Matrix[s])
      /\ \A i \in DOMAIN Matrix[s] : Matrix[s][i] \in Nat
  BY <1>1, EmptySeq, LenProperties
<1>3. JobsOf(s) \subseteq Job
  BY Zenon DEF Job
<1>4. \A i, k \in DOMAIN Matrix[s] : i < k => Matrix[s][i] < Matrix[s][k]
  BY SweepAssumption
<1> QED
  BY <1>2, <1>3, <1>4 DEF JobsOf

LEMMA JobsAreNumbers == Job \subseteq Nat
  BY MatrixFields DEF Job

LEMMA ExecutionOf ==
  ASSUME NEW j \in Job, NEW agent \in Models \cup {Nothing}, NEW content \in Models \cup {Nothing}
  PROVE  /\ Execution(j, agent, content) \in Executions
         /\ j \notin Learners => Execution(j, agent, content) = Modelless
         /\ j \in Learners => Execution(j, agent, content).agent = agent
  BY DEF Execution, Executions, Modelless

LEMMA CallFields ==
  ASSUME NEW c \in Calls
  PROVE  /\ c.agent \in Models \cup {Nothing} /\ c.expected \in [Job -> Executions \cup {Nothing}]
         /\ c.cursor \in Nat \ {0} /\ c.pending \in Seq(Job) /\ c.submitted \in Nat
         /\ c.inFlight \subseteq Job /\ c.batch \subseteq Job /\ c.results \in Seq(Manifests)
         /\ c.skipped \subseteq Manifests
         /\ Len(c.pending) \in Nat /\ DOMAIN c.pending = 1 .. Len(c.pending)
         /\ Len(c.results) \in Nat /\ DOMAIN c.results = 1 .. Len(c.results)
         /\ \A i \in DOMAIN c.pending : c.pending[i] \in Job
         /\ \A i \in DOMAIN c.results : c.results[i] \in Manifests
<1>1. /\ c.agent \in Models \cup {Nothing} /\ c.expected \in [Job -> Executions \cup {Nothing}]
      /\ c.cursor \in Nat \ {0} /\ c.pending \in Seq(Job) /\ c.submitted \in Nat
      /\ c.inFlight \subseteq Job /\ c.batch \subseteq Job /\ c.results \in Seq(Manifests)
      /\ c.skipped \subseteq Manifests
  BY DEF Calls
<1> QED
  BY <1>1, LenProperties

Stages == Ended \cup Preparing \cup {"submit", "wait", "cancel", "shutdown"}

LEMMA CallSet ==
  Calls = [stage : Stages, agent : Models \cup {Nothing},
           expected : [Job -> Executions \cup {Nothing}], cursor : Nat \ {0},
           pending : Seq(Job), submitted : Nat, inFlight : SUBSET Job, batch : SUBSET Job,
           results : Seq(Manifests), skipped : SUBSET Manifests]
  BY Zenon DEF Calls, Stages

LEMMA CallRecord ==
  ASSUME NEW st \in Stages, NEW a \in Models \cup {Nothing},
         NEW x \in [Job -> Executions \cup {Nothing}], NEW k \in Nat \ {0}, NEW p \in Seq(Job),
         NEW n \in Nat, NEW i \in SUBSET Job, NEW b \in SUBSET Job, NEW r \in Seq(Manifests),
         NEW w \in SUBSET Manifests
  PROVE  [stage |-> st, agent |-> a, expected |-> x, cursor |-> k, pending |-> p,
          submitted |-> n, inFlight |-> i, batch |-> b, results |-> r,
          skipped |-> w] \in Calls
  BY DEF Calls, Stages

LEMMA StageOfCall ==
  ASSUME NEW c \in Calls, NEW st \in Stages
  PROVE  [c EXCEPT !.stage = st] \in Calls
  BY DEF Calls, Stages

LEMMA EndOfLoop ==
  ASSUME NEW c \in Calls, NEW st \in Stages, NEW k \in Nat \ {0}
  PROVE  [c EXCEPT !.cursor = k, !.stage = st] \in Calls
  BY CallSet

LEMMA RoundOfLoop ==
  ASSUME NEW c \in Calls, NEW k \in Nat \ {0}
  PROVE  [c EXCEPT !.cursor = k] \in Calls
  BY CallSet

LEMMA NoCallType == NoCall \in Calls
<1>1. <<>> \in Seq(Job) /\ <<>> \in Seq(Manifests)
  BY EmptySeq
<1>2. [j \in Job |-> Nothing] \in [Job -> Executions \cup {Nothing}]
  OBVIOUS
<1>3. "new" \in Stages /\ 1 \in Nat \ {0} /\ 0 \in Nat /\ Nothing \in Models \cup {Nothing}
  BY DEF Stages, Ended
<1>4. {} \in SUBSET Job /\ {} \in SUBSET Manifests
  OBVIOUS
<1> QED
  BY <1>1, <1>2, <1>3, <1>4, CallRecord, Zenon DEF NoCall

LEMMA FutureTypes ==
  /\ Idle \in Futures
  /\ [Idle EXCEPT !.at = "queued"] \in Futures
  /\ [Idle EXCEPT !.at = "raised"] \in Futures
  BY DEF Futures, Idle, Finished

LEMMA FutureSounds ==
  ASSUME NEW j
  PROVE  /\ SoundFuture(Idle, j)
         /\ SoundFuture([Idle EXCEPT !.at = "queued"], j)
         /\ SoundFuture([Idle EXCEPT !.at = "raised"], j)
  BY DEF SoundFuture, Idle, Working, Executing

-----------------------------------------------------------------------------
(* What a step leaves alone *)

(* Nothing is asked of the store but that kept jobs stay.                   *)
LEMMA KeepingIsEnough ==
  ASSUME NEW s, NEW c, NEW f, NEW kept, NEW more, kept \subseteq more,
         Consistent(s, c, f, kept)
  PROVE  Consistent(s, c, f, more)
<1>1. Covered(s, c, more)
  BY DEF Consistent, Covered
<1>2. Delivered(c, more) /\ Whole(s, c, more)
  BY DEF Consistent, Delivered, Whole
<1> QED
  BY <1>1, <1>2 DEF Consistent

(* A step of one invocation, on its variables and on its futures.           *)
LEMMA CallStep ==
  ASSUME SweepInv, NEW s \in Sweeper, NEW c \in Calls, NEW f \in [Job -> Futures],
         UNCHANGED <<model, store>>,
         call' = [call EXCEPT ![s] = c], future' = [future EXCEPT ![s] = f],
         \A j \in Job : SoundFuture(f[j], j),
         Consistent(s, c, f, Kept)
  PROVE  SweepInv'
<1>1. SweepTypeOK'
  BY DEF SweepInv, SweepTypeOK
<1>2. \A r \in Sweeper : /\ call'[r] = IF r = s THEN c ELSE call[r]
                         /\ future'[r] = IF r = s THEN f ELSE future[r]
  BY DEF SweepInv, SweepTypeOK
<1>3. Sound'
  BY <1>2 DEF SweepInv, Sound
<1>4. Kept' = Kept
  BY DEF Kept
<1>5. \A r \in Sweeper : Consistent(r, call'[r], future'[r], Kept')
  BY <1>2, <1>4, Zenon DEF SweepInv
<1> QED
  BY <1>1, <1>3, <1>5 DEF SweepInv

LEMMA LocalStep ==
  ASSUME SweepInv, NEW s \in Sweeper, NEW c \in Calls,
         UNCHANGED <<model, store, future>>,
         call' = [call EXCEPT ![s] = c],
         Consistent(s, c, future[s], Kept)
  PROVE  SweepInv'
<1>1. future' = [future EXCEPT ![s] = future[s]] /\ future[s] \in [Job -> Futures]
  BY DEF SweepInv, SweepTypeOK
<1>2. \A j \in Job : SoundFuture(future[s][j], j)
  BY DEF SweepInv, Sound
<1> QED
  BY <1>1, <1>2, CallStep

(* A step of a worker, which may publish or clear.                          *)
LEMMA WorkerStep ==
  ASSUME SweepInv, NEW s \in Sweeper, NEW j \in Job, NEW g \in Futures,
         future[s][j].at \in Working \cup {"queued"}, SoundFuture(g, j),
         future' = [future EXCEPT ![s][j] = g], UNCHANGED <<model, call>>,
         store' \in [Job -> Manifests \cup {Nothing}],
         \A k \in Job : SoundManifest(store'[k], k), Kept \subseteq Kept'
  PROVE  SweepInv'
<1> DEFINE f == [future[s] EXCEPT ![j] = g]
<1>1. future' = [future EXCEPT ![s] = f] /\ f \in [Job -> Futures]
  BY DEF SweepInv, SweepTypeOK
<1>2. SweepTypeOK'
  BY <1>1 DEF SweepInv, SweepTypeOK
<1>3. \A r \in Sweeper : future'[r] = IF r = s THEN f ELSE future[r]
  BY <1>1 DEF SweepInv, SweepTypeOK
<1>4. \A k \in Job : f[k] = IF k = j THEN g ELSE future[s][k]
  BY DEF SweepInv, SweepTypeOK
<1>5. Sound'
  BY <1>3, <1>4 DEF SweepInv, Sound
<1>6. Contained(call[s], f)
  <2>1. Contained(call[s], future[s])
    BY DEF SweepInv, Consistent
  <2> QED
    BY <1>4, <2>1 DEF Contained, Working, Executing
<1>7. Consistent(s, call[s], f, Kept)
  BY <1>6 DEF SweepInv, Consistent
<1>8. \A r \in Sweeper : Consistent(r, call[r], future'[r], Kept)
  BY <1>3, <1>7, Zenon DEF SweepInv
<1>9. \A r \in Sweeper : Consistent(r, call'[r], future'[r], Kept')
  BY <1>8, KeepingIsEnough
<1> QED
  BY <1>2, <1>5, <1>9 DEF SweepInv

-----------------------------------------------------------------------------
(* Before the pool *)

(* An invocation that is over, or not yet begun, asks for nothing.          *)
LEMMA BlankIsConsistent ==
  ASSUME NEW s \in Sweeper, NEW c, NEW f, NEW kept,
         c.stage \in {"new", "raised", "killed"}, c.pending = <<>>, c.results = <<>>,
         c.stage = "raised" => \A j \in Job : f[j].at \notin Working \cup {"queued"}
  PROVE  Consistent(s, c, f, kept)
<1>1. DOMAIN c.pending = {} /\ DOMAIN c.results = {}
  OBVIOUS
<1>2. Ordered(s, c) /\ Expected(s, c) /\ Covered(s, c, kept)
  BY <1>1 DEF Ordered, Expected, Covered, Preparing
<1>3. Pooled(c) /\ Contained(c, f) /\ Delivered(c, kept) /\ Whole(s, c, kept)
  BY <1>1 DEF Pooled, Contained, Delivered, Whole, Preparing, Finished
<1>4. Answered(s, c)
  BY DEF Answered
<1> QED
  BY <1>2, <1>3, <1>4 DEF Consistent

LEMMA InitialSweep == SweepInit => SweepInv
<1> SUFFICES ASSUME SweepInit PROVE SweepInv
  OBVIOUS
<1>1. NoCall.stage = "new" /\ NoCall.pending = <<>> /\ NoCall.results = <<>>
  BY DEF NoCall
<1>3. SweepTypeOK
  BY NoCallType, FutureTypes DEF SweepInit, SweepTypeOK
<1>4. Sound
  BY FutureSounds DEF SweepInit, Sound, SoundManifest
<1>5. \A s \in Sweeper : Consistent(s, NoCall, future[s], Kept)
  BY <1>1, BlankIsConsistent
<1> QED
  BY <1>3, <1>4, <1>5 DEF SweepInv, SweepInit

LEMMA StartStep == ASSUME SweepInv, NEW s \in Sweeper, Start(s) PROVE SweepInv'
<1> DEFINE c == [NoCall EXCEPT !.stage = "expect", !.agent = model]
           f == [j \in Job |-> Idle]
<1>1. model \in Models
  BY DEF SweepInv, SweepTypeOK
<1>4. c \in Calls
  BY <1>1, NoCallType DEF Calls, Preparing
<1>5. /\ c.stage = "expect" /\ c.cursor = 1
      /\ c.pending = <<>> /\ c.results = <<>> /\ c.batch = {} /\ c.skipped = {}
  BY DEF NoCall
<1>a. DOMAIN c.pending = {} /\ DOMAIN c.results = {}
  BY <1>5
<1>6. \A j \in Job : f[j] = Idle /\ f[j].at = "idle" /\ SoundFuture(f[j], j)
  BY FutureSounds DEF Idle
<1>7. f \in [Job -> Futures]
  BY FutureTypes
<1>8. call' = [call EXCEPT ![s] = c] /\ future' = [future EXCEPT ![s] = f]
      /\ UNCHANGED <<model, store>>
  BY DEF Start
<1> HIDE DEF c, f
<1>9. Ordered(s, c) /\ Expected(s, c) /\ Covered(s, c, Kept)
  BY <1>5, <1>a, MatrixFields DEF Ordered, Expected, Covered
<1>10. Pooled(c) /\ Contained(c, f) /\ Delivered(c, Kept) /\ Whole(s, c, Kept)
  BY <1>5, <1>a, <1>6 DEF Pooled, Contained, Delivered, Whole, Finished
<1>11. Answered(s, c)
  BY <1>5 DEF Answered
<1> QED
  BY <1>4, <1>6, <1>7, <1>8, <1>9, <1>10, <1>11, CallStep DEF Consistent

(* Where a loop over the matrix goes on: c is the record it is applied to.  *)
LEMMA AdvancedCall ==
  ASSUME SweepTypeOK, NEW s \in Sweeper, NEW c \in Calls,
         NEW next \in {"configure", "submit", "returned"}, Advances(s, c, next)
  PROVE  \E d \in Calls :
            /\ call' = [call EXCEPT ![s] = d]
            /\ d.agent = c.agent /\ d.expected = c.expected /\ d.pending = c.pending
            /\ d.submitted = c.submitted /\ d.inFlight = c.inFlight
            /\ d.batch = c.batch /\ d.results = c.results /\ d.skipped = c.skipped
            /\ IF c.cursor < Len(Matrix[s])
               THEN d.stage = c.stage /\ d.cursor = c.cursor + 1
               ELSE d.stage = next /\ d.cursor = 1
<1>1. c.cursor \in Nat \ {0}
  BY CallFields
<1>2. CASE c.cursor < Len(Matrix[s])
  <2> DEFINE d == [c EXCEPT !.cursor = @ + 1]
  <2>1. d \in Calls /\ call' = [call EXCEPT ![s] = d]
    <3>1. c.cursor + 1 \in Nat \ {0}
      BY <1>1
    <3>2. d \in Calls
      BY <3>1, RoundOfLoop, Zenon
    <3> QED
      BY <1>2, <3>2 DEF Advances
  <2>2. /\ d.agent = c.agent /\ d.expected = c.expected /\ d.pending = c.pending
        /\ d.submitted = c.submitted /\ d.inFlight = c.inFlight
        /\ d.batch = c.batch /\ d.results = c.results /\ d.skipped = c.skipped
        /\ d.stage = c.stage /\ d.cursor = c.cursor + 1
    BY DEF Calls
  <2> HIDE DEF d
  <2> QED BY <1>2, <2>1, <2>2
<1>3. CASE ~(c.cursor < Len(Matrix[s]))
  <2> DEFINE d == [c EXCEPT !.cursor = 1, !.stage = next]
  <2>1. d \in Calls /\ call' = [call EXCEPT ![s] = d]
    <3>1. next \in Stages
      BY DEF Stages, Ended, Preparing
    <3>2. 1 \in Nat \ {0}
      OBVIOUS
    <3>3. d \in Calls
      BY <3>1, <3>2, EndOfLoop, Zenon
    <3> QED
      BY <1>3, <3>3 DEF Advances
  <2>2. /\ d.agent = c.agent /\ d.expected = c.expected /\ d.pending = c.pending
        /\ d.submitted = c.submitted /\ d.inFlight = c.inFlight
        /\ d.batch = c.batch /\ d.results = c.results /\ d.skipped = c.skipped
        /\ d.stage = next /\ d.cursor = 1
    BY DEF Calls
  <2> HIDE DEF d
  <2> QED BY <1>3, <2>1, <2>2
<1> QED
  BY <1>2, <1>3

LEMMA ExpectStep == ASSUME SweepInv, NEW s \in Sweeper, Expect(s) PROVE SweepInv'
<1> DEFINE c == call[s]
           j == Matrix[s][c.cursor]
           e == [c EXCEPT !.expected[j] = Execution(j, c.agent, model)]
<1>1. /\ c \in Calls /\ c.stage = "expect" /\ c.cursor \in DOMAIN Matrix[s]
      /\ SweepTypeOK /\ model \in Models /\ Consistent(s, c, future[s], Kept)
  BY DEF SweepInv, SweepTypeOK, Expect, Consistent, Ordered, Preparing
<1>2. j \in Job
  BY <1>1, MatrixFields
<1>3. Execution(j, c.agent, model) \in Executions
  BY <1>1, <1>2, CallFields, ExecutionOf
<1>4. /\ e.stage = "expect" /\ e.cursor = c.cursor /\ e.agent = c.agent
      /\ e.pending = c.pending /\ e.submitted = c.submitted /\ e.inFlight = c.inFlight
      /\ e.batch = c.batch /\ e.results = c.results /\ e.skipped = c.skipped
      /\ e.expected = [c.expected EXCEPT ![j] = Execution(j, c.agent, model)]
  BY <1>1 DEF Calls
<1>5. e \in Calls
  BY <1>1, <1>2, <1>3 DEF Calls
<1>6. Advances(s, e, "configure") /\ UNCHANGED <<model, store, future>>
  BY DEF Expect
<1> HIDE DEF e
<1>7. PICK d \in Calls :
            /\ call' = [call EXCEPT ![s] = d]
            /\ d.agent = e.agent /\ d.expected = e.expected /\ d.pending = e.pending
            /\ d.submitted = e.submitted /\ d.inFlight = e.inFlight
            /\ d.batch = e.batch /\ d.results = e.results /\ d.skipped = e.skipped
            /\ IF e.cursor < Len(Matrix[s])
               THEN d.stage = e.stage /\ d.cursor = e.cursor + 1
               ELSE d.stage = "configure" /\ d.cursor = 1
  BY <1>1, <1>5, <1>6, AdvancedCall
<1> HIDE DEF c
<1>8. Ordered(s, d)
  <2>1. c.pending = <<>>
    BY <1>1 DEF Consistent, Ordered
  <2> QED
    BY <1>1, <1>4, <1>7, <2>1, MatrixFields DEF Ordered
<1>9. Expected(s, d)
  <2> SUFFICES ASSUME NEW i \in DOMAIN Matrix[s],
                      \/ d.stage = "expect" /\ i < d.cursor
                      \/ d.stage = "configure"
               PROVE  \E m \in Models : d.expected[Matrix[s][i]]
                                          = Execution(Matrix[s][i], d.agent, m)
    BY <1>4, <1>7 DEF Expected
  <2>1. i <= c.cursor
    BY <1>1, <1>4, <1>7, MatrixFields
  <2>2. CASE i = c.cursor
    <3>1. d.expected[Matrix[s][i]] = Execution(Matrix[s][i], d.agent, model)
      BY <1>1, <1>2, <1>4, <1>7, <2>2, CallFields
    <3> QED BY <1>1, <3>1
  <2>3. CASE i < c.cursor
    <3>1. Matrix[s][i] # j
      BY <1>1, <2>3, MatrixFields
    <3>2. d.expected[Matrix[s][i]] = c.expected[Matrix[s][i]]
      BY <1>1, <1>4, <1>7, <3>1, CallFields, MatrixFields
    <3>3. \E m \in Models : c.expected[Matrix[s][i]] = Execution(Matrix[s][i], c.agent, m)
      BY <1>1, <2>3 DEF Consistent, Expected
    <3> QED BY <1>4, <1>7, <3>2, <3>3
  <2> QED
    BY <1>1, <2>1, <2>2, <2>3, MatrixFields
<1>10. Covered(s, d, Kept)
  BY <1>4, <1>7 DEF Covered
<1>11. Pooled(d) /\ Contained(d, future[s]) /\ Delivered(d, Kept) /\ Whole(s, d, Kept)
  <2>1. Contained(c, future[s]) /\ Delivered(c, Kept)
    BY <1>1 DEF Consistent
  <2>2. d.stage \in {"expect", "configure"}
    BY <1>4, <1>7
  <2> QED
    BY <1>1, <1>4, <1>7, <2>1, <2>2
       DEF Pooled, Contained, Delivered, Whole, Preparing, Finished
<1>12. Answered(s, d)
  BY <1>1, <1>4, <1>7 DEF Consistent, Answered
<1> QED
  BY <1>6, <1>7, <1>8, <1>9, <1>10, <1>11, <1>12, LocalStep DEF Consistent

LEMMA ConfigureStep == ASSUME SweepInv, NEW s \in Sweeper, Configure(s) PROVE SweepInv'
<1> DEFINE c == call[s]
           d == [c EXCEPT !.stage = "resume"]
<1>1. /\ c \in Calls /\ c.stage = "configure" /\ Consistent(s, c, future[s], Kept)
      /\ call' = [call EXCEPT ![s] = d] /\ UNCHANGED <<model, store, future>>
  BY DEF SweepInv, SweepTypeOK, Configure, Goes
<1>2. d \in Calls
  BY <1>1, StageOfCall DEF Stages, Preparing
<1>3. /\ d.stage = "resume" /\ d.cursor = c.cursor /\ d.agent = c.agent
      /\ d.expected = c.expected /\ d.pending = c.pending /\ d.results = c.results
      /\ d.batch = c.batch /\ d.skipped = c.skipped
  BY <1>1 DEF Calls
<1> HIDE DEF c, d
<1>4. c.pending = <<>> /\ c.cursor = 1 /\ DOMAIN d.pending = {}
  BY <1>1, <1>3 DEF Consistent, Ordered
<1>5. Ordered(s, d) /\ Expected(s, d)
  BY <1>1, <1>3, <1>4, MatrixFields DEF Consistent, Ordered, Expected, Preparing
<1>6. Covered(s, d, Kept)
  BY <1>3, <1>4, MatrixFields DEF Covered
<1>7. Pooled(d) /\ Contained(d, future[s]) /\ Delivered(d, Kept) /\ Whole(s, d, Kept)
  <2>1. Contained(c, future[s]) /\ Delivered(c, Kept)
    BY <1>1 DEF Consistent
  <2>2. d.results = <<>> /\ DOMAIN d.results = {} /\ d.batch = {}
    BY <1>1, <1>3, <2>1 DEF Delivered, Preparing
  <2> QED
    BY <1>1, <1>3, <2>1, <2>2
       DEF Pooled, Contained, Delivered, Whole, Preparing, Finished
<1>8. Answered(s, d)
  <2>1. d.skipped = {} /\ DOMAIN d.results = {}
    BY <1>1, <1>3 DEF Consistent, Answered, Delivered, Preparing
  <2> QED
    BY <1>3, <1>4, <2>1, MatrixFields DEF Answered, AsExpected
<1> QED
  BY <1>1, <1>2, <1>5, <1>6, <1>7, <1>8, LocalStep DEF Consistent

(* An invocation that ends with nothing left running.                       *)
LEMMA EndStep ==
  ASSUME SweepInv, NEW s \in Sweeper, NEW label \in {"raised", "killed"}, Ends(s, label),
         NEW f \in [Job -> Futures], future' = [future EXCEPT ![s] = f],
         UNCHANGED <<model, store>>, \A j \in Job : f[j] \in {future[s][j], Idle},
         label = "raised" => \A j \in Job : f[j].at \notin Working \cup {"queued"}
  PROVE  SweepInv'
<1> DEFINE c == [NoCall EXCEPT !.stage = label]
<1>1. c \in Calls
  BY NoCallType, StageOfCall DEF Stages, Ended
<1>2. c.stage = label /\ c.pending = <<>> /\ c.results = <<>>
  BY DEF NoCall
<1>3. call' = [call EXCEPT ![s] = c]
  BY DEF Ends
<1> HIDE DEF c
<1>4. Consistent(s, c, f, Kept)
  BY <1>2, BlankIsConsistent
<1>5. \A j \in Job : SoundFuture(f[j], j)
  BY FutureSounds DEF SweepInv, Sound
<1> QED
  BY <1>1, <1>3, <1>4, <1>5, CallStep

LEMMA EndQuietly ==
  ASSUME SweepInv, NEW s \in Sweeper, Ends(s, "raised"), UNCHANGED <<model, store, future>>,
         \A j \in Job : future[s][j].at \notin Working \cup {"queued"}
  PROVE  SweepInv'
<1>1. future' = [future EXCEPT ![s] = future[s]] /\ future[s] \in [Job -> Futures]
  BY DEF SweepInv, SweepTypeOK
<1> QED
  BY <1>1, EndStep

LEMMA ConfigureBlockedStep ==
  ASSUME SweepInv, NEW s \in Sweeper, ConfigureBlocked(s) PROVE SweepInv'
<1>1. Contained(call[s], future[s]) /\ call[s].stage = "configure"
  BY DEF SweepInv, Consistent, ConfigureBlocked
<1>2. \A j \in Job : future[s][j].at \notin Working \cup {"queued"}
  BY <1>1 DEF Contained, Preparing, Working, Executing
<1> QED
  BY <1>2, EndQuietly DEF ConfigureBlocked

LEMMA ResumeStep == ASSUME SweepInv, NEW s \in Sweeper, Resume(s) PROVE SweepInv'
<1> DEFINE c     == call[s]
           j     == Matrix[s][c.cursor]
           found == IF CompleteFor(s, j) THEN c.pending ELSE Append(c.pending, j)
           seen  == IF CompleteFor(s, j) THEN c.skipped \cup {store[j]} ELSE c.skipped
           e     == [c EXCEPT !.pending = found, !.skipped = seen]
           next  == IF found = <<>> THEN "returned" ELSE "submit"
<1>1. /\ c \in Calls /\ c.stage = "resume" /\ c.cursor \in DOMAIN Matrix[s]
      /\ SweepTypeOK /\ Consistent(s, c, future[s], Kept)
  BY DEF SweepInv, SweepTypeOK, Resume, Consistent, Ordered, Preparing
<1>2. j \in JobsOf(s) /\ j \in Job /\ j \in Nat
  BY <1>1, MatrixFields
<1>3. /\ c.pending \in Seq(Job) /\ DOMAIN c.pending = 1 .. Len(c.pending)
      /\ Len(c.pending) \in Nat
  BY <1>1, CallFields
<1>4. /\ found \in Seq(Job) /\ Len(found) \in Nat /\ DOMAIN found = 1 .. Len(found)
      /\ Len(c.pending) <= Len(found)
      /\ \A i \in DOMAIN c.pending : found[i] = c.pending[i]
      /\ \A i \in DOMAIN found \ DOMAIN c.pending : found[i] = j /\ i = Len(c.pending) + 1
      /\ ~CompleteFor(s, j) => j \in {found[k] : k \in DOMAIN found}
  <2>1. CASE CompleteFor(s, j)
    BY <1>3, <2>1
  <2>2. CASE ~CompleteFor(s, j)
    <3>1. /\ found \in Seq(Job) /\ Len(found) = Len(c.pending) + 1
          /\ \A i \in 1 .. Len(c.pending) : found[i] = c.pending[i]
          /\ found[Len(c.pending) + 1] = j
      BY <1>2, <1>3, <2>2, AppendProperties
    <3>2. DOMAIN found = 1 .. Len(c.pending) + 1
      BY <3>1, LenProperties
    <3> HIDE DEF found
    <3> QED BY <1>3, <3>1, <3>2
  <2> QED BY <2>1, <2>2
<1>5. ~(j \in Kept) /\ j \notin Learners => ~CompleteFor(s, j)
  BY <1>2 DEF Kept, CompleteFor
<1>6. Advances(s, e, next) /\ UNCHANGED <<model, store, future>>
  BY DEF Resume
<1>a. seen \in SUBSET Manifests /\ c.skipped \subseteq seen
  <2>1. c.skipped \subseteq Manifests
    BY <1>1, CallFields
  <2>2. CompleteFor(s, j) => store[j] \in Manifests
    BY <1>1, <1>2 DEF SweepTypeOK, CompleteFor
  <2> QED BY <2>1, <2>2
<1>b. \A m \in seen \ c.skipped : m = store[j] /\ CompleteFor(s, j) /\ m.job = j
  BY <1>2 DEF SweepInv, Sound, SoundManifest, CompleteFor
<1>c. CompleteFor(s, j) => store[j] \in seen /\ store[j].job = j
  BY <1>2 DEF SweepInv, Sound, SoundManifest, CompleteFor
<1> HIDE DEF found, seen
<1>7. /\ e.stage = "resume" /\ e.cursor = c.cursor /\ e.agent = c.agent
      /\ e.expected = c.expected /\ e.submitted = c.submitted /\ e.inFlight = c.inFlight
      /\ e.batch = c.batch /\ e.results = c.results /\ e.pending = found
      /\ e.skipped = seen
  BY <1>1 DEF Calls
<1>8. e \in Calls
  BY <1>1, <1>4, <1>a DEF Calls
<1>9. next \in {"configure", "submit", "returned"}
  OBVIOUS
<1>10. next = "returned" => DOMAIN found = {}
  BY <1>4
<1> HIDE DEF e, next
<1>11. PICK d \in Calls :
            /\ call' = [call EXCEPT ![s] = d]
            /\ d.agent = e.agent /\ d.expected = e.expected /\ d.pending = e.pending
            /\ d.submitted = e.submitted /\ d.inFlight = e.inFlight
            /\ d.batch = e.batch /\ d.results = e.results /\ d.skipped = e.skipped
            /\ IF e.cursor < Len(Matrix[s])
               THEN d.stage = e.stage /\ d.cursor = e.cursor + 1
               ELSE d.stage = next /\ d.cursor = 1
  BY <1>1, <1>6, <1>8, <1>9, AdvancedCall
<1> HIDE DEF c, j
<1>12. Ordered(s, d)
  <2>1. \A i \in DOMAIN c.pending :
            /\ c.pending[i] \in JobsOf(s) /\ c.pending[i] < j
            /\ \A k \in DOMAIN c.pending : i < k => c.pending[i] < c.pending[k]
    BY <1>1 DEF Consistent, Ordered, j
  <2>2. \A i \in DOMAIN found : found[i] \in JobsOf(s) /\ found[i] \in Nat /\ found[i] <= j
    BY <1>2, <1>3, <1>4, <2>1, MatrixFields
  <2>3. \A i, k \in DOMAIN found : i < k => found[i] < found[k]
    BY <1>3, <1>4, <2>1
  <2>4. d.stage = "resume" => d.cursor \in DOMAIN Matrix[s] /\ j < Matrix[s][d.cursor]
    BY <1>1, <1>7, <1>9, <1>11, MatrixFields DEF j, next
  <2>5. d.stage \in {"resume", "submit", "returned"} /\ d.pending = found
    BY <1>7, <1>11 DEF next
  <2>6. \A i \in DOMAIN found : d.stage = "resume" => found[i] < Matrix[s][d.cursor]
    BY <1>2, <2>2, <2>4, MatrixFields
  <2> QED
    BY <2>2, <2>3, <2>4, <2>5, <2>6 DEF Ordered, Preparing
<1>13. Expected(s, d)
  BY <1>1, <1>7, <1>11 DEF Consistent, Expected
<1>14. \A i \in DOMAIN Matrix[s] : Matrix[s][i] \notin Learners /\ i <= c.cursor
            => Matrix[s][i] \in Kept \cup {found[k] : k \in DOMAIN found}
  <2> SUFFICES ASSUME NEW i \in DOMAIN Matrix[s], Matrix[s][i] \notin Learners, i <= c.cursor
               PROVE  Matrix[s][i] \in Kept \cup {found[k] : k \in DOMAIN found}
    OBVIOUS
  <2>1. CASE i = c.cursor
    BY <1>4, <1>5, <2>1 DEF j
  <2>2. CASE i < c.cursor
    BY <1>1, <1>3, <1>4, <2>2 DEF Consistent, Covered
  <2> QED
    BY <1>1, <2>1, <2>2, MatrixFields
<1>15. Covered(s, d, Kept)
  BY <1>1, <1>7, <1>11, <1>14, MatrixFields DEF Covered, next
<1>16. Whole(s, d, Kept)
  <2> SUFFICES ASSUME d.stage = "returned" PROVE JobsOf(s) \ Learners \subseteq Kept
    BY DEF Whole
  <2>1. ~(e.cursor < Len(Matrix[s])) /\ DOMAIN found = {}
    BY <1>7, <1>10, <1>11
  <2>2. \A i \in DOMAIN Matrix[s] : i <= c.cursor
    BY <1>1, <1>7, <2>1, MatrixFields
  <2> QED
    BY <1>14, <2>1, <2>2 DEF JobsOf
<1>17. Pooled(d) /\ Contained(d, future[s]) /\ Delivered(d, Kept)
  <2>1. Contained(c, future[s]) /\ Delivered(c, Kept)
    BY <1>1 DEF Consistent
  <2>2. d.stage \in {"resume", "submit", "returned"}
    BY <1>7, <1>11 DEF next
  <2>3. d.results = <<>> /\ DOMAIN d.results = {} /\ d.batch = {}
    BY <1>1, <1>7, <1>11, <2>1 DEF Delivered, Preparing
  <2> QED
    BY <1>1, <2>1, <2>2, <2>3
       DEF Pooled, Contained, Delivered, Preparing, Finished, Working, Executing
<1>18. \A i \in DOMAIN Matrix[s] : i <= c.cursor => Matrix[s][i] \in Passed(d) \cup PendingJobs(d)
  <2> SUFFICES ASSUME NEW i \in DOMAIN Matrix[s], i <= c.cursor
               PROVE  Matrix[s][i] \in {m.job : m \in seen} \cup {found[k] : k \in DOMAIN found}
    BY <1>7, <1>11 DEF Passed, PendingJobs
  <2>1. CASE i = c.cursor
    BY <1>4, <1>c, <2>1 DEF j
  <2>2. CASE i < c.cursor
    <3>1. Matrix[s][i] \in Passed(c) \cup PendingJobs(c)
      BY <1>1, <2>2 DEF Consistent, Answered
    <3> QED BY <1>3, <1>4, <1>a, <3>1 DEF Passed, PendingJobs
  <2> QED
    BY <1>1, <2>1, <2>2, MatrixFields
<1>19. Answered(s, d)
  <2>1. AsExpected(d)
    <3>1. \A m \in c.skipped : m.execution = c.expected[m.job]
      BY <1>1 DEF Consistent, Answered, AsExpected
    <3>2. CompleteFor(s, j) => store[j].execution = c.expected[j]
      BY DEF CompleteFor, c
    <3>3. \A m \in seen : m.execution = c.expected[m.job]
      BY <1>b, <3>1, <3>2
    <3>4. DOMAIN d.results = {}
      BY <1>1, <1>7, <1>11 DEF Consistent, Delivered, Preparing
    <3> QED
      BY <1>7, <1>11, <3>3, <3>4 DEF AsExpected
  <2>2. d.stage \in {"resume", "submit", "returned"}
    BY <1>7, <1>11 DEF next
  <2>3. d.stage = "returned" => PendingJobs(d) = {}
    BY <1>7, <1>10, <1>11 DEF PendingJobs
  <2>4. \A i \in DOMAIN Matrix[s] : d.stage # "resume" \/ i < d.cursor => i <= c.cursor
    BY <1>1, <1>7, <1>11, MatrixFields
  <2> QED
    BY <1>18, <2>1, <2>2, <2>3, <2>4 DEF Answered
<1> QED
  BY <1>6, <1>11, <1>12, <1>13, <1>15, <1>16, <1>17, <1>19, LocalStep DEF Consistent

-----------------------------------------------------------------------------
(* The pool *)

LEMMA FirstOfJobs ==
  ASSUME NEW T, T \subseteq Nat, T # {}
  PROVE  First(T) \in T
<1> DEFINE R == OpToRel(<, Nat)
<1>1. IsWellFoundedOn(R, Nat)
  BY NatLessThanWellFounded
<1>2. \A i, j \in Nat : i < j => <<i, j>> \in R
  BY Zenon DEF OpToRel
<1> HIDE DEF R
<1>3. PICK x \in T : \A y \in T : ~(<<y, x>> \in R)
  BY <1>1, WFMin, Zenon
<1>4. \A y \in T : ~(y < x)
  BY <1>2, <1>3, Zenon
<1>5. \A y \in T : x <= y
  BY <1>4
<1> QED
  BY <1>5 DEF First

(* The pending jobs are different, so a position is a job.                  *)
LEMMA PendingCount ==
  ASSUME NEW s \in Sweeper, NEW c \in Calls, Ordered(s, c), NEW n \in 0 .. Len(c.pending)
  PROVE  IsFiniteSet(Pending(c, 1, n)) /\ Cardinality(Pending(c, 1, n)) = n
<1> DEFINE f == [i \in 1 .. n |-> c.pending[i]]
           P == Pending(c, 1, n)
<1>1. DOMAIN c.pending = 1 .. Len(c.pending) /\ Len(c.pending) \in Nat
  BY CallFields
<1>2. (1 .. n) \cap DOMAIN c.pending = 1 .. n
  BY <1>1
<1>3. P = {c.pending[i] : i \in 1 .. n}
  BY <1>2 DEF Pending
<1>4. \A i, k \in 1 .. n : i < k => c.pending[i] < c.pending[k]
  BY <1>1 DEF Ordered
<1>5. \A i \in 1 .. n : c.pending[i] \in Nat
  <2>1. \A i \in DOMAIN c.pending : c.pending[i] \in Nat
    BY CallFields, JobsAreNumbers
  <2> QED BY <1>1, <2>1
<1> HIDE DEF P
<1>6. \A i, k \in 1 .. n : c.pending[i] = c.pending[k] => i = k
  BY <1>4, <1>5
<1>7. f \in Bijection(1 .. n, P)
  <2>1. f \in [1 .. n -> P]
    BY <1>3
  <2>2. \A i, k \in 1 .. n : f[i] = f[k] => i = k
    BY <1>6
  <2>3. \A p \in P : \E i \in 1 .. n : f[i] = p
    BY <1>3
  <2> HIDE DEF f
  <2>4. f \in Injection(1 .. n, P)
    BY <2>1, <2>2 DEF Injection, IsInjective
  <2>5. f \in Surjection(1 .. n, P)
    BY <2>1, <2>3 DEF Surjection
  <2> QED BY <2>4, <2>5 DEF Bijection
<1>8. IsFiniteSet(1 .. n) /\ Cardinality(1 .. n) = n
  BY FS_Interval
<1>9. ExistsBijection(1 .. n, P)
  BY <1>7 DEF ExistsBijection
<1> QED
  BY <1>8, <1>9, FS_Bijection DEF P

LEMMA OpenedCall ==
  ASSUME NEW c \in Calls, NEW n \in Nat, NEW i \in SUBSET Job
  PROVE  [c EXCEPT !.stage = "wait", !.submitted = n, !.inFlight = i] \in Calls
<1>1. "wait" \in Stages
  BY DEF Stages
<1> QED
  BY <1>1, CallSet

LEMMA OpenStep == ASSUME SweepInv, NEW s \in Sweeper, Open(s) PROVE SweepInv'
<1> DEFINE c     == call[s]
           w     == Window(c)
           first == Pending(c, 1, w)
           d     == [c EXCEPT !.stage = "wait", !.submitted = w, !.inFlight = first]
           f     == Submits(s, first)
<1>1. /\ c \in Calls /\ c.stage = "submit" /\ Consistent(s, c, future[s], Kept)
      /\ future[s] \in [Job -> Futures] /\ UNCHANGED <<model, store>>
      /\ call' = [call EXCEPT ![s] = d] /\ future' = [future EXCEPT ![s] = f]
  BY DEF SweepInv, SweepTypeOK, Open
<1>2. Len(c.pending) \in Nat /\ \A i \in DOMAIN c.pending : c.pending[i] \in Job
  BY <1>1, CallFields
<1>3. /\ w \in 0 .. Len(c.pending) /\ w \in Nat /\ w <= MaxWorkers
      /\ w < Len(c.pending) => w = MaxWorkers
  BY <1>2, SweepAssumption DEF Window
<1>4. first \in SUBSET Job
  BY <1>2 DEF Pending
<1>5. d \in Calls
  BY <1>1, <1>3, <1>4, OpenedCall
<1>6. IsFiniteSet(first) /\ Cardinality(first) = w
  BY <1>1, <1>3, PendingCount DEF Consistent
<1>7. /\ d.stage = "wait" /\ d.submitted = w /\ d.inFlight = first /\ d.agent = c.agent
      /\ d.expected = c.expected /\ d.pending = c.pending /\ d.results = c.results
      /\ d.batch = c.batch /\ d.cursor = c.cursor /\ d.skipped = c.skipped
  BY <1>1 DEF Calls
<1>8. /\ f \in [Job -> Futures]
      /\ \A j \in Job : SoundFuture(f[j], j) /\ (f[j].at # "idle" => j \in first)
  <2>1. \A j \in Job : future[s][j].at = "idle" /\ SoundFuture(future[s][j], j)
    BY <1>1 DEF SweepInv, Consistent, Contained, Sound
  <2> QED
    BY <1>1, <2>1, FutureTypes, FutureSounds DEF Submits
<1>9. Pending(d, 1, w) = first
  BY <1>7 DEF Pending
<1> HIDE DEF c, d, f, first, w
<1>10. d.results = <<>> /\ d.batch = {} /\ DOMAIN d.results = {} /\ Len(d.results) = 0
  BY <1>1, <1>7 DEF Consistent, Delivered
<1>11. Collected(d) = {}
  BY <1>10 DEF Collected
<1>12. Ordered(s, d) /\ Expected(s, d) /\ Covered(s, d, Kept)
  BY <1>1, <1>7 DEF Consistent, Ordered, Expected, Covered, Preparing
<1>13. Pooled(d)
  BY <1>3, <1>6, <1>7, <1>9, <1>10, <1>11 DEF Pooled
<1>14. Contained(d, f) /\ Delivered(d, Kept) /\ Whole(s, d, Kept)
  BY <1>7, <1>8, <1>10 DEF Contained, Delivered, Whole, Preparing, Finished
<1>15. Answered(s, d)
  BY <1>1, <1>7 DEF Consistent, Answered, AsExpected, Passed, PendingJobs
<1> QED
  BY <1>1, <1>5, <1>8, <1>12, <1>13, <1>14, <1>15, CallStep DEF Consistent

LEMMA WaitStep == ASSUME SweepInv, NEW s \in Sweeper, Wait(s) PROVE SweepInv'
<1> DEFINE c == call[s]
<1>1. /\ c \in Calls /\ c.stage = "wait" /\ Consistent(s, c, future[s], Kept)
      /\ UNCHANGED <<model, store, future>>
  BY DEF SweepInv, SweepTypeOK, Wait
<1>2. PICK done \in SUBSET c.inFlight : call' = [call EXCEPT ![s] = [c EXCEPT !.batch = done]]
  BY DEF Wait
<1> DEFINE d == [c EXCEPT !.batch = done]
<1>3. d \in Calls
  BY <1>1 DEF Calls
<1>4. /\ d.stage = c.stage /\ d.submitted = c.submitted /\ d.inFlight = c.inFlight
      /\ d.agent = c.agent /\ d.expected = c.expected /\ d.pending = c.pending
      /\ d.results = c.results /\ d.batch = done /\ d.cursor = c.cursor
      /\ d.skipped = c.skipped
  BY <1>1 DEF Calls
<1>5. call' = [call EXCEPT ![s] = d]
  BY <1>2
<1> HIDE DEF c, d
<1>6. Ordered(s, d) /\ Expected(s, d) /\ Covered(s, d, Kept)
  BY <1>1, <1>4 DEF Consistent, Ordered, Expected, Covered
<1>7. Pooled(d)
  <2>1. Pending(d, 1, c.submitted) = Pending(c, 1, c.submitted) /\ Collected(d) = Collected(c)
    BY <1>4 DEF Pending, Collected
  <2> QED
    BY <1>1, <1>4, <2>1 DEF Consistent, Pooled
<1>8. Contained(d, future[s]) /\ Delivered(d, Kept) /\ Whole(s, d, Kept)
  BY <1>1, <1>4 DEF Consistent, Contained, Delivered, Whole, Preparing
<1>9. Answered(s, d)
  BY <1>1, <1>4 DEF Consistent, Answered, AsExpected, Passed, PendingJobs
<1> QED
  BY <1>1, <1>3, <1>5, <1>6, <1>7, <1>8, <1>9, LocalStep DEF Consistent

LEMMA TakenCall ==
  ASSUME NEW c \in Calls, NEW r \in Seq(Manifests), NEW b \in SUBSET Job, NEW i \in SUBSET Job,
         NEW n \in Nat
  PROVE  [c EXCEPT !.results = r, !.batch = b, !.inFlight = i, !.submitted = n] \in Calls
  BY CallSet

(* What a step of the pool that takes a result does to the jobs in flight.  *)
LEMMA TakenPool ==
  ASSUME NEW s \in Sweeper, NEW c \in Calls, NEW d \in Calls, NEW j \in Job,
         c.stage = "wait", Ordered(s, c), Pooled(c), j \in c.batch,
         NEW m \in Manifests, m.job = j,
         d.stage = c.stage, d.pending = c.pending, d.results = Append(c.results, m),
         d.batch = c.batch \ {j},
         LET next == {c.pending[i] : i \in NextPosition(c)} IN
            /\ d.inFlight = (c.inFlight \ {j}) \cup next
            /\ d.submitted = c.submitted + Cardinality(next)
  PROVE  Pooled(d)
<1> DEFINE next == {c.pending[i] : i \in NextPosition(c)}
           n    == c.submitted
<1>1. /\ n \in Nat /\ Len(c.pending) \in Nat /\ DOMAIN c.pending = 1 .. Len(c.pending)
      /\ c.results \in Seq(Manifests) /\ Len(c.results) \in Nat
      /\ DOMAIN c.results = 1 .. Len(c.results)
      /\ \A i \in DOMAIN c.pending : c.pending[i] \in Job
  BY CallFields
<1>2. /\ IsFiniteSet(c.inFlight) /\ c.batch \subseteq c.inFlight
      /\ c.inFlight \cap Collected(c) = {} /\ n <= Len(c.pending)
      /\ Pending(c, 1, n) = c.inFlight \cup Collected(c)
      /\ Cardinality(c.inFlight) + Len(c.results) = n
      /\ Cardinality(c.inFlight) <= MaxWorkers
      /\ n < Len(c.pending) => Cardinality(c.inFlight) = MaxWorkers
  BY DEF Pooled
<1>3. /\ Len(d.results) = Len(c.results) + 1
      /\ \A i \in 1 .. Len(c.results) : d.results[i] = c.results[i]
      /\ d.results[Len(c.results) + 1] = m
      /\ DOMAIN d.results = 1 .. Len(c.results) + 1
  <2>1. /\ Len(d.results) = Len(c.results) + 1
        /\ \A i \in 1 .. Len(c.results) : d.results[i] = c.results[i]
        /\ d.results[Len(c.results) + 1] = m
    BY <1>1, AppendProperties
  <2>2. DOMAIN d.results = 1 .. Len(d.results)
    BY CallFields
  <2> QED BY <2>1, <2>2
<1>4. Collected(d) = Collected(c) \cup {j}
  <2>1. \A i \in DOMAIN d.results : d.results[i].job \in Collected(c) \cup {j}
    BY <1>1, <1>3 DEF Collected
  <2>2. \A i \in DOMAIN c.results : i \in DOMAIN d.results /\ d.results[i] = c.results[i]
    BY <1>1, <1>3
  <2>3. Len(c.results) + 1 \in DOMAIN d.results
    BY <1>1, <1>3
  <2> QED BY <1>3, <2>1, <2>2, <2>3 DEF Collected
<1>5. /\ j \in c.inFlight /\ IsFiniteSet(c.inFlight \ {j}) /\ Cardinality(c.inFlight) \in Nat
      /\ Cardinality(c.inFlight \ {j}) = Cardinality(c.inFlight) - 1
  BY <1>2, FS_RemoveElement, FS_CardinalityType
<1>6. \A k : Pending(d, 1, k) = Pending(c, 1, k)
  BY DEF Pending
<1>7. CASE n = Len(c.pending)
  <2>1. next = {}
    BY <1>1, <1>7 DEF NextPosition
  <2>2. d.inFlight = (c.inFlight \ {j}) \cup next /\ d.submitted = n + Cardinality(next)
    OBVIOUS
  <2> HIDE DEF next
  <2>3. Cardinality(next) = 0
    BY <2>1, FS_EmptySet
  <2>4. d.inFlight = c.inFlight \ {j} /\ d.submitted = n
    BY <1>1, <2>1, <2>2, <2>3
  <2>5. Pending(d, 1, d.submitted) = d.inFlight \cup Collected(d)
    BY <1>2, <1>4, <1>5, <1>6, <2>4
  <2>6. d.inFlight \cap Collected(d) = {} /\ d.batch \subseteq d.inFlight
    BY <1>2, <1>4, <2>4
  <2>7. Cardinality(d.inFlight) = Cardinality(c.inFlight) - 1 /\ IsFiniteSet(d.inFlight)
    BY <1>5, <2>4
  <2> QED
    <3>1. d.submitted = Len(d.pending) /\ MaxWorkers \in Nat
      BY <1>7, <2>4, SweepAssumption
    <3>2. /\ Cardinality(d.inFlight) + Len(d.results) = d.submitted
          /\ Cardinality(d.inFlight) <= MaxWorkers
      BY <1>1, <1>2, <1>3, <1>5, <2>4, <2>7, <3>1
    <3>3. d.submitted <= Len(d.pending) /\ ~(d.submitted < Len(d.pending))
      BY <1>1, <3>1
    <3> QED
      BY <2>5, <2>6, <2>7, <3>2, <3>3, Zenon DEF Pooled
<1>8. CASE n < Len(c.pending)
  <2> DEFINE p == c.pending[n + 1]
  <2>1. NextPosition(c) = {n + 1}
    BY <1>1, <1>8 DEF NextPosition
  <2>2. next = {p}
    BY <2>1
  <2>a. d.inFlight = (c.inFlight \ {j}) \cup next /\ d.submitted = n + Cardinality(next)
    OBVIOUS
  <2>b. Cardinality({p}) = 1
    BY FS_Singleton, Zenon
  <2>3. d.inFlight = (c.inFlight \ {j}) \cup {p} /\ d.submitted = n + 1
    <3> HIDE DEF next, p
    <3> QED BY <2>2, <2>a, <2>b
  <2>4. Pending(c, 1, n + 1) = Pending(c, 1, n) \cup {p}
    <3>1. (1 .. n + 1) \cap DOMAIN c.pending = ((1 .. n) \cap DOMAIN c.pending) \cup {n + 1}
      BY <1>1, <1>8
    <3> QED BY <3>1 DEF Pending
  <2>5. p \notin Pending(c, 1, n)
    <3> SUFFICES ASSUME NEW i \in (1 .. n) \cap DOMAIN c.pending, c.pending[i] = p
                 PROVE  FALSE
      BY DEF Pending
    <3>a. i \in DOMAIN c.pending /\ n + 1 \in DOMAIN c.pending /\ i < n + 1
      BY <1>1, <1>8
    <3>1. c.pending[i] < p
      BY <3>a, Zenon DEF Ordered
    <3>2. p \in Nat
      BY <1>1, <1>8, JobsAreNumbers
    <3> QED BY <3>1, <3>2
  <2> HIDE DEF p, next
  <2>6. p \notin c.inFlight \ {j} /\ p \notin Collected(c) /\ p # j
    BY <1>2, <1>5, <2>5
  <2>7. IsFiniteSet(d.inFlight) /\ Cardinality(d.inFlight) = Cardinality(c.inFlight)
    <3>1. /\ IsFiniteSet((c.inFlight \ {j}) \cup {p})
          /\ Cardinality((c.inFlight \ {j}) \cup {p}) = Cardinality(c.inFlight \ {j}) + 1
      BY <1>5, <2>6, FS_AddElement, Zenon
    <3>2. IsFiniteSet(d.inFlight) /\ Cardinality(d.inFlight) = Cardinality(c.inFlight \ {j}) + 1
      BY <2>3, <3>1, Zenon
    <3> QED BY <1>5, <3>2
  <2>8. Pending(d, 1, d.submitted) = d.inFlight \cup Collected(d)
    BY <1>2, <1>4, <1>5, <1>6, <2>3, <2>4
  <2>9. d.inFlight \cap Collected(d) = {}
    BY <1>2, <1>4, <2>3, <2>6
  <2> QED
    <3>1. d.batch \subseteq d.inFlight
      BY <1>2, <2>3
    <3>2. Cardinality(d.inFlight) + Len(d.results) = d.submitted /\ d.submitted <= Len(d.pending)
      BY <1>1, <1>2, <1>3, <1>5, <1>8, <2>3, <2>7
    <3> QED
      BY <1>2, <1>8, <2>7, <2>8, <2>9, <3>1, <3>2 DEF Pooled
<1> QED
  BY <1>1, <1>2, <1>7, <1>8

LEMMA TakeStep == ASSUME SweepInv, NEW s \in Sweeper, Take(s) PROVE SweepInv'
<1> DEFINE c    == call[s]
           j    == First(c.batch)
           m    == future[s][j].outcome
           next == {c.pending[i] : i \in NextPosition(c)}
           r    == Append(c.results, m)
           n    == c.submitted + Cardinality(next)
           d    == [c EXCEPT !.results = r, !.batch = c.batch \ {j},
                             !.inFlight = (c.inFlight \ {j}) \cup next, !.submitted = n]
           f    == [Submits(s, next) EXCEPT ![j] = Idle]
<1>1. /\ c \in Calls /\ c.stage = "wait" /\ Consistent(s, c, future[s], Kept) /\ SweepTypeOK
      /\ future[s] \in [Job -> Futures] /\ UNCHANGED <<model, store>>
      /\ c.batch # {} /\ Validated(s, j)
  BY DEF SweepInv, SweepTypeOK, Take
<1>2. call' = [call EXCEPT ![s] = d] /\ future' = [future EXCEPT ![s] = f]
  BY DEF Take
<1>3. /\ c.batch \subseteq Job /\ c.results \in Seq(Manifests) /\ c.submitted \in Nat
      /\ c.inFlight \subseteq Job /\ \A i \in DOMAIN c.pending : c.pending[i] \in Job
      /\ DOMAIN c.results = 1 .. Len(c.results) /\ Len(c.results) \in Nat
      /\ Len(c.pending) \in Nat /\ DOMAIN c.pending = 1 .. Len(c.pending)
  BY <1>1, CallFields
<1>4. j \in c.batch /\ j \in Job
  BY <1>1, <1>3, FirstOfJobs, JobsAreNumbers
<1>5. /\ m \in Manifests /\ m.job = j /\ store[j] = m /\ m.execution = c.expected[j]
  BY <1>1, <1>4 DEF Validated, SweepInv, Sound, SoundFuture
<1>6. next \subseteq Job /\ Cardinality(next) \in Nat
  <2>1. next = {} \/ \E p : next = {p}
    <3>1. NextPosition(c) = {} \/ NextPosition(c) = {c.submitted + 1}
      BY DEF NextPosition
    <3> QED BY <3>1
  <2>2. Cardinality({}) = 0 /\ \A p : Cardinality({p}) = 1
    BY FS_EmptySet, FS_Singleton, Zenon
  <2>3. Cardinality(next) \in Nat
    <3> HIDE DEF next
    <3>1. CASE next = {}
      <4>1. Cardinality(next) = 0
        BY <2>2, <3>1, Zenon
      <4> QED BY <4>1
    <3>2. CASE \E p : next = {p}
      <4>1. Cardinality(next) = 1
        BY <2>2, <3>2, Zenon
      <4> QED BY <4>1
    <3> QED BY <2>1, <3>1, <3>2
  <2> QED
    BY <1>3, <2>3 DEF NextPosition
<1>7. r \in Seq(Manifests) /\ n \in Nat
  BY <1>3, <1>5, <1>6, AppendProperties
<1>8. d \in Calls
  <2>1. c.batch \ {j} \in SUBSET Job /\ (c.inFlight \ {j}) \cup next \in SUBSET Job
    BY <1>3, <1>6
  <2> QED
    BY <1>1, <1>7, <2>1, TakenCall
<1>9. /\ d.stage = c.stage /\ d.submitted = n /\ d.agent = c.agent /\ d.cursor = c.cursor
      /\ d.expected = c.expected /\ d.pending = c.pending /\ d.results = r
      /\ d.batch = c.batch \ {j} /\ d.inFlight = (c.inFlight \ {j}) \cup next
      /\ d.skipped = c.skipped
  BY <1>1 DEF Calls
<1>10. /\ f \in [Job -> Futures]
       /\ \A k \in Job : f[k] = IF k = j THEN Idle
                                ELSE IF k \in next THEN [Idle EXCEPT !.at = "queued"]
                                ELSE future[s][k]
  BY <1>1, <1>4, FutureTypes DEF Submits
<1> HIDE DEF d, f
<1>11. \A k \in Job : SoundFuture(f[k], k)
  BY <1>10, FutureSounds DEF SweepInv, Sound
<1>12. Pooled(d)
  <2>1. Ordered(s, c) /\ Pooled(c)
    BY <1>1 DEF Consistent
  <2> HIDE DEF c, j, m
  <2> QED
    BY <1>1, <1>4, <1>5, <1>8, <1>9, <2>1, TakenPool
<1> HIDE DEF next, r, n, m, j, c
<1>13. Ordered(s, d) /\ Expected(s, d) /\ Covered(s, d, Kept)
  BY <1>1, <1>9 DEF Consistent, Ordered, Expected, Covered, Preparing
<1>14. Contained(d, f)
  <2>1. \A k \in Job : future[s][k].at # "idle" => k \in c.inFlight
    BY <1>1 DEF Consistent, Contained
  <2>2. \A k \in Job : f[k].at # "idle" => k \in d.inFlight
    BY <1>9, <1>10, <2>1 DEF Idle
  <2> QED
    BY <1>1, <1>9, <2>2 DEF Contained, Preparing, Finished
<1>15. IF j \in Learners THEN m.execution.agent = c.agent ELSE j \in Kept
  <2>1. CASE j \notin Learners
    BY <1>4, <1>5, <2>1, ManifestAssumption DEF Kept
  <2>2. CASE j \in Learners
    <3>1. Pooled(c) /\ Ordered(s, c) /\ Expected(s, c)
      BY <1>1 DEF Consistent
    <3>2. PICK i \in DOMAIN Matrix[s] : j = Matrix[s][i]
      BY <1>1, <1>4, <3>1 DEF Pooled, Pending, Ordered, JobsOf
    <3>3. PICK x \in Models : c.expected[j] = Execution(j, c.agent, x)
      BY <1>1, <3>1, <3>2 DEF Expected
    <3>4. c.agent \in Models \cup {Nothing}
      BY <1>1, CallFields
    <3>5. Execution(j, c.agent, x).agent = c.agent
      BY <1>4, <2>2, <3>4, ExecutionOf
    <3> QED
      BY <1>5, <2>2, <3>3, <3>5
  <2> QED BY <2>1, <2>2
<1>16. Delivered(d, Kept)
  <2>1. /\ DOMAIN r = 1 .. Len(c.results) + 1 /\ r[Len(c.results) + 1] = m
        /\ \A i \in 1 .. Len(c.results) : r[i] = c.results[i]
    BY <1>3, <1>5, <1>7, AppendProperties, LenProperties DEF r
  <2>2. \A i \in DOMAIN c.results :
          IF c.results[i].job \in Learners
          THEN c.results[i].execution.agent = c.agent
          ELSE c.results[i].job \in Kept
    BY <1>1 DEF Consistent, Delivered
  <2>3. \A i \in DOMAIN r :
          IF r[i].job \in Learners THEN r[i].execution.agent = c.agent ELSE r[i].job \in Kept
    BY <1>3, <1>5, <1>15, <2>1, <2>2
  <2> QED
    BY <1>1, <1>9, <2>3 DEF Delivered, Preparing
<1>17. Whole(s, d, Kept)
  BY <1>1, <1>9 DEF Whole
<1>18. Answered(s, d)
  <2>1. AsExpected(c)
    BY <1>1 DEF Consistent, Answered
  <2>2. /\ DOMAIN r = 1 .. Len(c.results) + 1 /\ r[Len(c.results) + 1] = m
        /\ \A i \in 1 .. Len(c.results) : r[i] = c.results[i]
    BY <1>3, <1>5, <1>7, AppendProperties, LenProperties DEF r
  <2>3. \A i \in DOMAIN r : r[i].execution = c.expected[r[i].job]
    BY <1>3, <1>5, <2>1, <2>2 DEF AsExpected
  <2> QED
    BY <1>1, <1>9, <2>1, <2>3 DEF Consistent, Answered, AsExpected, Passed, PendingJobs
<1> QED
  BY <1>1, <1>2, <1>8, <1>10, <1>11, <1>12, <1>13, <1>14, <1>16, <1>17, <1>18, CallStep DEF Consistent

(* An invocation that leaves the pool for its handler.                      *)
LEMMA LeavesPool ==
  ASSUME NEW s \in Sweeper, NEW c \in Calls, NEW d \in Calls, NEW f, NEW g, NEW kept,
         Consistent(s, c, f, kept), c.stage \in {"wait", "cancel", "shutdown"},
         d.stage \in {"cancel", "shutdown"},
         d.agent = c.agent, d.pending = c.pending, d.results = c.results
  PROVE  Consistent(s, d, g, kept)
<1>1. Ordered(s, d) /\ Expected(s, d) /\ Covered(s, d, kept)
  BY DEF Consistent, Ordered, Expected, Covered, Preparing
<1>2. Pooled(d) /\ Contained(d, g) /\ Delivered(d, kept) /\ Whole(s, d, kept)
  BY DEF Consistent, Pooled, Contained, Delivered, Whole, Preparing, Finished
<1>3. Answered(s, d)
  BY DEF Answered
<1> QED
  BY <1>1, <1>2, <1>3 DEF Consistent

LEMMA HandlerCall ==
  ASSUME NEW c \in Calls, NEW st \in {"cancel", "shutdown"},
         NEW i \in SUBSET Job, NEW b \in SUBSET Job
  PROVE  [c EXCEPT !.stage = st, !.inFlight = i, !.batch = b] \in Calls
<1>1. st \in Stages
  BY DEF Stages
<1> QED
  BY <1>1, CallSet

LEMMA RefuseStep == ASSUME SweepInv, NEW s \in Sweeper, Refuse(s) PROVE SweepInv'
<1> DEFINE c == call[s]
           j == First(c.batch)
           d == [c EXCEPT !.stage = "cancel", !.inFlight = c.inFlight \ {j}, !.batch = {}]
           f == [future[s] EXCEPT ![j] = Idle]
<1>1. /\ c \in Calls /\ c.stage = "wait" /\ Consistent(s, c, future[s], Kept)
      /\ future[s] \in [Job -> Futures] /\ UNCHANGED <<model, store>>
      /\ call' = [call EXCEPT ![s] = d]
      /\ future' = [future EXCEPT ![s] = f]
  BY DEF SweepInv, SweepTypeOK, Refuse
<1>2. c.inFlight \ {j} \in SUBSET Job /\ {} \in SUBSET Job
  BY <1>1, CallFields
<1>3. d \in Calls
  BY <1>1, <1>2, HandlerCall
<1>4. /\ d.stage = "cancel" /\ d.agent = c.agent /\ d.pending = c.pending
      /\ d.results = c.results
  BY <1>1 DEF Calls
<1>5. f \in [Job -> Futures] /\ \A k \in Job : SoundFuture(f[k], k)
  BY <1>1, FutureTypes, FutureSounds DEF SweepInv, Sound
<1> HIDE DEF d, f
<1>6. Consistent(s, d, f, Kept)
  BY <1>1, <1>3, <1>4, LeavesPool
<1> QED
  BY <1>1, <1>3, <1>5, <1>6, CallStep

LEMMA ReturnStep == ASSUME SweepInv, NEW s \in Sweeper, Return(s) PROVE SweepInv'
<1> DEFINE c == call[s]
           d == [c EXCEPT !.stage = "returned"]
<1>1. /\ c \in Calls /\ c.stage = "wait" /\ Consistent(s, c, future[s], Kept)
      /\ c.inFlight = {} /\ call' = [call EXCEPT ![s] = d] /\ UNCHANGED <<model, store, future>>
  BY DEF SweepInv, SweepTypeOK, Return, Goes
<1>2. d \in Calls
  BY <1>1, StageOfCall DEF Stages, Ended
<1>3. /\ d.stage = "returned" /\ d.cursor = c.cursor /\ d.agent = c.agent
      /\ d.expected = c.expected /\ d.pending = c.pending /\ d.results = c.results
      /\ d.skipped = c.skipped
  BY <1>1 DEF Calls
<1> HIDE DEF c, d
<1>4. Ordered(s, d) /\ Expected(s, d) /\ Covered(s, d, Kept)
  BY <1>1, <1>3 DEF Consistent, Ordered, Expected, Covered, Preparing
<1>5. Pooled(d) /\ Contained(d, future[s]) /\ Delivered(d, Kept)
  BY <1>1, <1>3 DEF Consistent, Pooled, Contained, Delivered, Preparing, Finished,
     Working, Executing
<1>6. {c.pending[k] : k \in DOMAIN c.pending} = Collected(c)
  <2>1. /\ c.submitted <= Len(c.pending)
        /\ Pending(c, 1, c.submitted) = c.inFlight \cup Collected(c)
        /\ c.submitted < Len(c.pending) => Cardinality(c.inFlight) = MaxWorkers
    BY <1>1 DEF Consistent, Pooled
  <2>2. /\ c.submitted \in Nat /\ Len(c.pending) \in Nat
        /\ DOMAIN c.pending = 1 .. Len(c.pending)
    BY <1>1, CallFields
  <2>3. Cardinality(c.inFlight) = 0
    BY <1>1, FS_EmptySet, Zenon
  <2>4. c.submitted = Len(c.pending)
    BY <2>1, <2>2, <2>3, SweepAssumption
  <2>5. (1 .. Len(c.pending)) \cap DOMAIN c.pending = DOMAIN c.pending
    BY <2>2
  <2> QED
    BY <1>1, <2>1, <2>4, <2>5 DEF Pending
<1>7. Whole(s, d, Kept)
  <2>1. \A i \in DOMAIN c.results :
          c.results[i].job \notin Learners => c.results[i].job \in Kept
    BY <1>1 DEF Consistent, Delivered
  <2>2. \A j \in Collected(c) \ Learners : j \in Kept
    BY <2>1 DEF Collected
  <2>3. \A i \in DOMAIN Matrix[s] : Matrix[s][i] \notin Learners => Matrix[s][i] \in Kept
    BY <1>1, <1>6, <2>2 DEF Consistent, Covered
  <2> QED
    BY <2>3 DEF Whole, JobsOf
<1>8. Answered(s, d)
  <2>1. \A i \in DOMAIN Matrix[s] : Matrix[s][i] \in Passed(d) \cup Collected(d)
    BY <1>1, <1>3, <1>6 DEF Consistent, Answered, Passed, PendingJobs, Collected
  <2> QED
    BY <1>1, <1>3, <2>1 DEF Consistent, Answered, AsExpected
<1> QED
  BY <1>1, <1>2, <1>4, <1>5, <1>7, <1>8, LocalStep DEF Consistent

LEMMA CancelStep == ASSUME SweepInv, NEW s \in Sweeper, Cancel(s) PROVE SweepInv'
<1> DEFINE c == call[s]
           d == [c EXCEPT !.stage = "shutdown"]
<1>1. /\ c \in Calls /\ c.stage = "cancel" /\ Consistent(s, c, future[s], Kept)
      /\ future[s] \in [Job -> Futures] /\ call' = [call EXCEPT ![s] = d]
      /\ UNCHANGED <<model, store>>
  BY DEF SweepInv, SweepTypeOK, Cancel, Goes
<1>2. d \in Calls
  BY <1>1, StageOfCall DEF Stages
<1>3. d.stage = "shutdown" /\ d.agent = c.agent /\ d.pending = c.pending /\ d.results = c.results
  BY <1>1 DEF Calls
<1>4. PICK gone \in SUBSET Queued(s) :
        future' = [future EXCEPT ![s] = [j \in Job |-> IF j \in gone THEN Idle ELSE future[s][j]]]
  BY DEF Cancel, SweepInv, SweepTypeOK
<1> DEFINE f == [j \in Job |-> IF j \in gone THEN Idle ELSE future[s][j]]
<1>5. f \in [Job -> Futures] /\ \A k \in Job : SoundFuture(f[k], k)
  BY <1>1, FutureTypes, FutureSounds DEF SweepInv, Sound
<1>6. future' = [future EXCEPT ![s] = f]
  BY <1>4
<1> HIDE DEF d, f
<1>7. Consistent(s, d, f, Kept)
  BY <1>1, <1>2, <1>3, LeavesPool
<1> QED
  BY <1>1, <1>2, <1>5, <1>6, <1>7, CallStep

LEMMA RaiseStep == ASSUME SweepInv, NEW s \in Sweeper, Raise(s) PROVE SweepInv'
<1>1. \A j \in Job : future[s][j].at \notin Working \cup {"queued"}
  BY DEF Raise, Active, Queued
<1> QED
  BY <1>1, EndQuietly DEF Raise

-----------------------------------------------------------------------------
(* The workers *)

LEMMA NothingPublished ==
  ASSUME SweepInv, UNCHANGED store
  PROVE  /\ store' \in [Job -> Manifests \cup {Nothing}]
         /\ \A k \in Job : SoundManifest(store'[k], k)
         /\ Kept \subseteq Kept'
  BY DEF SweepInv, SweepTypeOK, Sound, Kept

LEMMA FailsStep ==
  ASSUME SweepInv, NEW s \in Sweeper, NEW j \in Job, Fails(s, j),
         future[s][j].at \in Working \cup {"queued"}, UNCHANGED <<model, store, call>>
  PROVE  SweepInv'
  BY FutureTypes, FutureSounds, NothingPublished, WorkerStep DEF Fails

LEMMA LoadStep ==
  ASSUME SweepInv, NEW s \in Sweeper, NEW j \in Job, Load(s, j) PROVE SweepInv'
<1> DEFINE g == [Idle EXCEPT !.at = "loaded", !.execution = Execution(j, model, Nothing)]
<1>1. /\ Execution(j, model, Nothing) \in Executions
      /\ j \notin Learners => Execution(j, model, Nothing) = Modelless
  BY ExecutionOf DEF SweepInv, SweepTypeOK
<1>2. g \in Futures /\ SoundFuture(g, j)
  BY <1>1 DEF Futures, Idle, Working, SoundFuture
<1> QED
  BY <1>2, NothingPublished, WorkerStep DEF Load

LEMMA HashStep ==
  ASSUME SweepInv, NEW s \in Sweeper, NEW j \in Job, Hash(s, j) PROVE SweepInv'
<1> DEFINE o == future[s][j]
           x == Execution(j, o.execution.agent, model)
           g == [o EXCEPT !.at = "hashed", !.execution = x]
<1>1. o \in Futures /\ model \in Models /\ o.at = "loaded" /\ SoundFuture(o, j)
  BY DEF SweepInv, SweepTypeOK, Sound, Hash
<1>2. x \in Executions /\ (j \notin Learners => x = Modelless)
  <2>1. o.execution \in Executions
    BY <1>1 DEF SoundFuture, Working
  <2>2. o.execution.agent \in Models \cup {Nothing}
    BY <2>1 DEF Executions
  <2> QED
    BY <1>1, <2>2, ExecutionOf
<1>3. g \in Futures /\ SoundFuture(g, j)
  BY <1>1, <1>2 DEF Futures, Working, SoundFuture
<1>4. future' = [future EXCEPT ![s][j] = g]
  BY Zenon DEF Hash
<1> QED
  BY <1>1, <1>3, <1>4, NothingPublished, WorkerStep DEF Hash, Working

LEMMA EnterStep ==
  ASSUME SweepInv, NEW s \in Sweeper, NEW j \in Job, Enter(s, j) PROVE SweepInv'
<1> DEFINE o == future[s][j]
           g == [o EXCEPT !.at = "running"]
<1>1. o \in Futures /\ o.at = "hashed" /\ SoundFuture(o, j)
  BY DEF SweepInv, SweepTypeOK, Sound, Enter, Moves
<1>2. g \in Futures /\ SoundFuture(g, j)
  BY <1>1 DEF Futures, Working, Executing, SoundFuture
<1>3. future' = [future EXCEPT ![s][j] = g]
  BY DEF Enter, Moves
<1> QED
  BY <1>1, <1>2, <1>3, NothingPublished, WorkerStep DEF Enter, Working

LEMMA MismatchStep ==
  ASSUME SweepInv, NEW s \in Sweeper, NEW j \in Job, Mismatch(s, j) PROVE SweepInv'
  BY FailsStep DEF Mismatch, Working

LEMMA DeliverStep ==
  ASSUME SweepInv, NEW s \in Sweeper, NEW j \in Job, Deliver(s, j) PROVE SweepInv'
<1> DEFINE g == [Idle EXCEPT !.at = "returned", !.outcome = store[j]]
<1>1. store[j] \in Manifests /\ store[j].job = j
  BY DEF SweepInv, Sound, SoundManifest, Deliver, StoredFor
<1>2. g \in Futures /\ SoundFuture(g, j)
  BY <1>1 DEF Futures, Idle, Finished, Working, Executing, SoundFuture
<1> QED
  BY <1>2, NothingPublished, WorkerStep DEF Deliver, Returns, Working

(* A worker finds its job complete whenever the job is a kept one.          *)
LEMMA KeptIsFound ==
  ASSUME SweepInv, NEW s \in Sweeper, NEW j \in Job,
         future[s][j].at \in Executing, store[j] # Nothing, ~StoredFor(s, j)
  PROVE  j \in Learners
<1>1. /\ j \notin Learners => store[j].execution = Modelless
      /\ j \notin Learners => future[s][j].execution = Modelless
  BY DEF SweepInv, Sound, SoundManifest, SoundFuture, Working
<1> QED
  BY <1>1 DEF StoredFor

(* What clearing a job leaves in the store.                                 *)
LEMMA ClearedStore ==
  ASSUME SweepInv, NEW j \in Job, store' = [store EXCEPT ![j] = Nothing],
         store[j] # Nothing => j \in Learners
  PROVE  /\ store' \in [Job -> Manifests \cup {Nothing}]
         /\ \A k \in Job : SoundManifest(store'[k], k)
         /\ Kept \subseteq Kept'
<1>1. store' \in [Job -> Manifests \cup {Nothing}]
  BY DEF SweepInv, SweepTypeOK
<1>2. \A k \in Job : store'[k] = IF k = j THEN Nothing ELSE store[k]
  BY DEF SweepInv, SweepTypeOK
<1>3. \A k \in Job : SoundManifest(store'[k], k)
  BY <1>2 DEF SweepInv, Sound, SoundManifest
<1>4. Kept \subseteq Kept'
  BY <1>2 DEF Kept
<1> QED
  BY <1>1, <1>3, <1>4

LEMMA ClearStep ==
  ASSUME SweepInv, NEW s \in Sweeper, NEW j \in Job, Clear(s, j) PROVE SweepInv'
<1> DEFINE o == future[s][j]
           g == [o EXCEPT !.at = "cleared"]
<1>1. o \in Futures /\ o.at = "running" /\ SoundFuture(o, j)
  BY DEF SweepInv, SweepTypeOK, Sound, Clear, Moves
<1>2. g \in Futures /\ SoundFuture(g, j)
  BY <1>1 DEF Futures, Working, Executing, SoundFuture
<1>3. future' = [future EXCEPT ![s][j] = g]
  BY DEF Clear, Moves
<1>4. store[j] # Nothing => j \in Learners
  BY <1>1, KeptIsFound DEF Clear, Executing
<1> QED
  BY <1>1, <1>2, <1>3, <1>4, ClearedStore, WorkerStep DEF Clear, Working, Executing

LEMMA PublishStep ==
  ASSUME SweepInv, NEW s \in Sweeper, NEW j \in Job, Publish(s, j) PROVE SweepInv'
<1> DEFINE x == future[s][j].execution
           m == [job |-> j, execution |-> x, author |-> s]
           g == [Idle EXCEPT !.at = "returned", !.outcome = m]
<1>1. x \in Executions /\ (j \notin Learners => x = Modelless)
  BY DEF SweepInv, Sound, SoundFuture, Publish, Working, Executing
<1>2. m \in Manifests /\ m.job = j /\ m.execution = x
  BY <1>1 DEF Manifests
<1>3. store' = [store EXCEPT ![j] = m] /\ store[j] = Nothing
  BY DEF Publish
<1> HIDE DEF m
<1>4. /\ store' \in [Job -> Manifests \cup {Nothing}]
      /\ \A k \in Job : store'[k] = IF k = j THEN m ELSE store[k]
  BY <1>2, <1>3 DEF SweepInv, SweepTypeOK
<1>5. \A k \in Job : SoundManifest(store'[k], k)
  BY <1>1, <1>2, <1>4 DEF SweepInv, Sound, SoundManifest
<1>6. Kept \subseteq Kept'
  BY <1>3, <1>4 DEF Kept
<1>7. g \in Futures /\ SoundFuture(g, j)
  BY <1>2 DEF Futures, Idle, Finished, Working, Executing, SoundFuture
<1>8. future' = [future EXCEPT ![s][j] = g]
  BY <1>4 DEF Publish, Returns
<1> QED
  BY <1>4, <1>5, <1>6, <1>7, <1>8, WorkerStep DEF Publish, Working, Executing

LEMMA CollidesStep ==
  ASSUME SweepInv, NEW s \in Sweeper, NEW j \in Job, Collides(s, j) PROVE SweepInv'
<1>1. j \in Learners
  BY KeptIsFound DEF Collides, Executing
<1>2. /\ store' \in [Job -> Manifests \cup {Nothing}]
      /\ \A k \in Job : SoundManifest(store'[k], k)
      /\ Kept \subseteq Kept'
  BY <1>1, NothingPublished, ClearedStore DEF Collides
<1> QED
  BY <1>2, FutureTypes, FutureSounds, WorkerStep DEF Collides, Fails, Working, Executing

LEMMA BlockedStep ==
  ASSUME SweepInv, NEW s \in Sweeper, NEW j \in Job, Blocked(s, j) PROVE SweepInv'
  BY FailsStep DEF Blocked, Working

LEMMA WorksStep ==
  ASSUME SweepInv, NEW s \in Sweeper, NEW j \in Job, Works(s, j) PROVE SweepInv'
  BY LoadStep, HashStep, EnterStep, MismatchStep, DeliverStep, ClearStep, PublishStep,
     CollidesStep, BlockedStep DEF Works

-----------------------------------------------------------------------------
(* What goes wrong *)

LEMMA FailStep ==
  ASSUME SweepInv, NEW s \in Sweeper, NEW j \in Job, Fail(s, j) PROVE SweepInv'
  BY FailsStep DEF Fail

LEMMA BreakStep == ASSUME SweepInv, NEW s \in Sweeper, Break(s) PROVE SweepInv'
<1> DEFINE c == call[s]
           dead == Active(s) \cup Queued(s)
           f == [j \in Job |-> IF j \in dead THEN [Idle EXCEPT !.at = "raised"]
                               ELSE future[s][j]]
<1>1. /\ c \in Calls /\ c.stage \in {"wait", "cancel", "shutdown"}
      /\ Consistent(s, c, future[s], Kept)
      /\ future[s] \in [Job -> Futures] /\ UNCHANGED <<model, store>>
      /\ call' = [call EXCEPT ![s] = c]
  BY DEF SweepInv, SweepTypeOK, Break
<1>2. future' = [future EXCEPT ![s] = f]
  BY DEF Break, SweepInv, SweepTypeOK
<1>3. f \in [Job -> Futures] /\ \A k \in Job : SoundFuture(f[k], k)
  BY <1>1, FutureTypes, FutureSounds DEF SweepInv, Sound
<1>4. \A k \in Job : f[k].at # "idle" => future[s][k].at # "idle"
  BY DEF Active, Queued, Working, Executing
<1> HIDE DEF f
<1>5. Contained(c, f)
  BY <1>1, <1>4 DEF Consistent, Contained, Preparing, Finished
<1>6. Consistent(s, c, f, Kept)
  BY <1>1, <1>5 DEF Consistent
<1> QED
  BY <1>1, <1>2, <1>3, <1>6, CallStep

LEMMA InterruptStep == ASSUME SweepInv, NEW s \in Sweeper, Interrupt(s) PROVE SweepInv'
<1> DEFINE c == call[s]
           d == [c EXCEPT !.stage = "cancel", !.inFlight = c.inFlight, !.batch = {}]
<1>1. /\ c \in Calls /\ Consistent(s, c, future[s], Kept)
      /\ UNCHANGED <<model, store, future>>
  BY DEF SweepInv, SweepTypeOK, Interrupt
<1>2. CASE c.stage \in Preparing /\ Ends(s, "raised")
  <2>1. \A j \in Job : future[s][j].at \notin Working \cup {"queued"}
    BY <1>1, <1>2 DEF Consistent, Contained, Working, Executing
  <2> QED
    BY <1>1, <1>2, <2>1, EndQuietly
<1>3. CASE c.stage = "wait" /\ call' = [call EXCEPT ![s] = [@ EXCEPT !.stage = "cancel", !.batch = {}]]
  <2>1. c.inFlight \in SUBSET Job /\ {} \in SUBSET Job
    BY <1>1, CallFields
  <2>2. d \in Calls
    BY <1>1, <2>1, HandlerCall
  <2>3. call' = [call EXCEPT ![s] = d]
    BY <1>1, <1>3 DEF Calls, SweepInv, SweepTypeOK
  <2>4. /\ d.stage = "cancel" /\ d.agent = c.agent /\ d.pending = c.pending
        /\ d.results = c.results
    BY <1>1 DEF Calls
  <2> HIDE DEF d
  <2>5. Consistent(s, d, future[s], Kept)
    BY <1>1, <1>3, <2>2, <2>4, LeavesPool
  <2> QED
    BY <1>1, <2>2, <2>3, <2>5, LocalStep
<1> QED
  BY <1>2, <1>3 DEF Interrupt

LEMMA KillStep == ASSUME SweepInv, NEW s \in Sweeper, Kill(s) PROVE SweepInv'
<1>1. PICK gone \in SUBSET Queued(s) :
        future' = [future EXCEPT ![s] = [j \in Job |-> IF j \in gone THEN Idle ELSE future[s][j]]]
  BY DEF Kill, SweepInv, SweepTypeOK
<1> DEFINE f == [j \in Job |-> IF j \in gone THEN Idle ELSE future[s][j]]
<1>2. f \in [Job -> Futures] /\ \A j \in Job : f[j] \in {future[s][j], Idle}
  BY FutureTypes DEF SweepInv, SweepTypeOK
<1>3. future' = [future EXCEPT ![s] = f]
  BY <1>1
<1> HIDE DEF f
<1> QED
  BY <1>2, <1>3, EndStep DEF Kill

LEMMA ReplaceStep == ASSUME SweepInv, Replace PROVE SweepInv'
<1>1. SweepTypeOK' /\ Sound' /\ Kept' = Kept
  BY DEF Replace, SweepInv, SweepTypeOK, Sound, Kept
<1> QED
  BY <1>1 DEF SweepInv, Replace

LEMMA QuietStep == ASSUME SweepInv, UNCHANGED sweepVars PROVE SweepInv'
<1>1. SweepTypeOK' /\ Sound' /\ Kept' = Kept
  BY DEF sweepVars, SweepInv, SweepTypeOK, Sound, Kept
<1> QED
  BY <1>1 DEF SweepInv, sweepVars

-----------------------------------------------------------------------------
(* The theorems *)

LEMMA SweepStep == SweepInv /\ [SweepNext]_sweepVars => SweepInv'
<1> SUFFICES ASSUME SweepInv, [SweepNext]_sweepVars PROVE SweepInv'
  OBVIOUS
<1>1. ASSUME NEW s \in Sweeper, Prepares(s) PROVE SweepInv'
  BY <1>1, ExpectStep, ConfigureStep, ConfigureBlockedStep, ResumeStep DEF Prepares
<1>2. ASSUME NEW s \in Sweeper, Collects(s) PROVE SweepInv'
  BY <1>2, OpenStep, WaitStep, TakeStep, RefuseStep, ReturnStep, CancelStep, RaiseStep
     DEF Collects
<1>3. ASSUME NEW s \in Sweeper, Faults(s) PROVE SweepInv'
  BY <1>3, FailStep, BreakStep, InterruptStep, KillStep DEF Faults
<1> QED
  BY <1>1, <1>2, <1>3, StartStep, WorksStep, ReplaceStep, QuietStep DEF SweepNext

LEMMA SweepInvariant == SweepSpec => []SweepInv
  BY InitialSweep, SweepStep, PTL DEF SweepSpec

(* The variables of run_sweep stay what the module says they are, whatever  *)
(* fails: SweepTypeOK for every matrix, pool and model.                     *)
THEOREM SweepTyping == SweepSpec => []SweepTypeOK
<1>1. SweepInv => SweepTypeOK
  BY DEF SweepInv
<1> QED
  BY <1>1, SweepInvariant, PTL

(* The bounded pool is never short of a future while a job is pending, and  *)
(* loses or repeats none, for every number of workers and jobs.             *)
THEOREM FullPool == SweepSpec => []PoolIsFull
<1>1. SweepInv => PoolIsFull
  BY DEF SweepInv, Consistent, Pooled, PoolIsFull
<1> QED
  BY <1>1, SweepInvariant, PTL

(* run_sweep leaves no process behind, whichever way it ends and whatever   *)
(* the other invocations do.                                                *)
THEOREM NoneOutlives == SweepSpec => []NothingOutlives
<1>1. SweepInv => NothingOutlives
  BY DEF SweepInv, Consistent, Contained, NothingOutlives, Active, Queued
<1> QED
  BY <1>1, SweepInvariant, PTL

(* No run of run_sweep collects results of two agents, however often the    *)
(* model file is replaced while its workers load it.                        *)
THEOREM OneAgentPerSweep == SweepSpec => []OneAgent
<1>1. SweepInv => OneAgent
  BY DEF SweepInv, Consistent, Delivered, OneAgent
<1> QED
  BY <1>1, SweepInvariant, PTL

(* A sweep that returns has seen each job of its matrix complete for the    *)
(* agent it loaded, and no other sweep, crash or collision undoes what      *)
(* depends on no model.                                                     *)
THEOREM WholeReturns == SweepSpec => []ReturnIsComplete
<1>1. ASSUME SweepInv, NEW s \in Sweeper, call[s].stage = "returned",
             NEW j \in JobsOf(s) \ Learners
      PROVE  CompleteFor(s, j)
  <2>1. j \in Kept
    BY <1>1 DEF SweepInv, Consistent, Whole
  <2>2. store[j] # Nothing /\ store[j].execution = Modelless
    <3>1. j \in Job \ Learners /\ store[j] # Nothing
      BY <2>1 DEF Kept
    <3>2. SoundManifest(store[j], j)
      BY <1>1, <3>1 DEF SweepInv, Sound
    <3> QED
      BY <3>1, <3>2 DEF SoundManifest
  <2>3. PICK i \in DOMAIN Matrix[s] : j = Matrix[s][i]
    BY DEF JobsOf
  <2>4. PICK m \in Models : call[s].expected[j] = Execution(j, call[s].agent, m)
    BY <1>1, <2>3 DEF SweepInv, Consistent, Expected
  <2>5. call[s].expected[j] = Modelless
    BY <1>1, <2>4 DEF Execution, Modelless
  <2> QED
    BY <2>2, <2>5 DEF CompleteFor
<1>2. ASSUME SweepInv, NEW s \in Sweeper, call[s].stage = "returned", NEW j \in JobsOf(s)
      PROVE  SeenComplete(call[s], j)
  <2> DEFINE c == call[s]
  <2>1. Answered(s, c)
    BY <1>2 DEF SweepInv, Consistent
  <2>2. AsExpected(c) /\ j \in Passed(c) \cup Collected(c)
    BY <1>2, <2>1 DEF Answered, JobsOf
  <2> HIDE DEF c
  <2>3. SeenComplete(c, j)
    BY <2>2 DEF SeenComplete, AsExpected, Passed, Collected
  <2> QED BY <2>3 DEF c
<1>3. SweepInv => ReturnIsComplete
  BY <1>1, <1>2 DEF ReturnIsComplete
<1> QED
  BY <1>3, SweepInvariant, PTL

=============================================================================
