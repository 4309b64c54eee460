--------------------------------- MODULE Sweep ---------------------------------
(***************************************************************************)
(* run_sweep of workflows.py: one invocation resumes a matrix, runs the    *)
(* incomplete jobs in a bounded pool of processes, a future per job, and   *)
(* returns their manifests or raises.  Several invocations may share one   *)
(* directory, and the model file they read may be replaced at any time.    *)
(*                                                                         *)
(* A worker runs one job: it loads its inputs, derives the execution       *)
(* provenance from what is on disk and calls run_job, of which this module *)
(* keeps who publishes, clears and is refused.                             *)
(***************************************************************************)
EXTENDS Integers, FiniteSets, Sequences

CONSTANTS
    Sweeper,       \* the invocations that share the directory
    Matrix,        \* Matrix[s]: the jobs of its matrix, by their run ids, in order
    MaxWorkers,    \* effective_worker_count of the request
    Learners,      \* the jobs whose policy loads the model
    Models,        \* the contents the model file may have
    Nothing        \* no provenance, no manifest

ASSUME SweepAssumption ==
    /\ Matrix \in [Sweeper -> Seq(Nat)] /\ MaxWorkers \in Nat \ {0}
    /\ \A s \in Sweeper :
          /\ Matrix[s] # <<>>
          /\ \A i, k \in DOMAIN Matrix[s] : i < k => Matrix[s][i] < Matrix[s][k]
    /\ Nothing \notin Models

JobsOf(s) == {Matrix[s][i] : i \in DOMAIN Matrix[s]}

Job == UNION {JobsOf(s) : s \in Sweeper}

(* What a job is computed from: the agent loaded and the file hashed.       *)
Execution(j, agent, content) ==
    IF j \in Learners THEN [agent |-> agent, file |-> content]
    ELSE [agent |-> Nothing, file |-> Nothing]

Executions == [agent : Models \cup {Nothing}, file : Models \cup {Nothing}]
Manifests  == [job : Job, execution : Executions, author : Sweeper]

ASSUME ManifestAssumption == Nothing \notin Manifests

VARIABLES
    model,         \* what the model file holds
    store,         \* store[j]: the manifest of job j, or Nothing
    call,          \* call[s]: where an invocation is, and its local variables
    future         \* future[s][j]: the process of a job, what it derived and returned

sweepVars == <<model, store, call, future>>

Ended     == {"new", "returned", "raised", "killed"}
Preparing == {"expect", "configure", "resume"}
Executing == {"running", "cleared"}
Working   == {"loaded", "hashed"} \cup Executing
Finished  == {"returned", "raised"}

NoCall ==
    [stage |-> "new", agent |-> Nothing, expected |-> [j \in Job |-> Nothing], cursor |-> 1,
     pending |-> <<>>, submitted |-> 0, inFlight |-> {}, batch |-> {}, results |-> <<>>,
     skipped |-> {}]     \* history: the manifests jobs_to_run was content with

Idle == [at |-> "idle", execution |-> Nothing, outcome |-> Nothing]

Active(s) == {j \in Job : future[s][j].at \in Working}
Queued(s) == {j \in Job : future[s][j].at = "queued"}
Others(s, j) == {r \in Sweeper \ {s} : future[r][j].at \in Executing}

Goes(s, from, to) ==
    call[s].stage = from /\ call' = [call EXCEPT ![s].stage = to]

Ends(s, label) == call' = [call EXCEPT ![s] = [NoCall EXCEPT !.stage = label]]

(* The next job of a loop over the matrix, or the stage after the loop.     *)
Advances(s, c, next) ==
    call' = [call EXCEPT ![s] =
        IF c.cursor < Len(Matrix[s]) THEN [c EXCEPT !.cursor = @ + 1]
        ELSE [c EXCEPT !.cursor = 1, !.stage = next]]

-----------------------------------------------------------------------------
(* Before the pool: expectations, configuration files, incomplete jobs *)

(* An invocation starts once the processes of its predecessor are gone.     *)
Start(s) ==
    /\ call[s].stage \in Ended
    /\ Active(s) \cup Queued(s) = {}
    /\ call' = [call EXCEPT ![s] = [NoCall EXCEPT !.stage = "expect", !.agent = model]]
    /\ future' = [future EXCEPT ![s] = [j \in Job |-> Idle]]
    /\ UNCHANGED <<model, store>>

(* The file is hashed for each job anew.                                    *)
Expect(s) ==
    LET c == call[s]
        j == Matrix[s][c.cursor]
    IN  /\ c.stage = "expect"
        /\ Advances(s, [c EXCEPT !.expected[j] = Execution(j, c.agent, model)], "configure")
        /\ UNCHANGED <<model, store, future>>

(* ensure_job_config takes the lock of every job.                           *)
Configure(s) == Goes(s, "configure", "resume") /\ UNCHANGED <<model, store, future>>

ConfigureBlocked(s) ==
    /\ call[s].stage = "configure"
    /\ \E j \in JobsOf(s) : Others(s, j) # {}
    /\ Ends(s, "raised")
    /\ UNCHANGED <<model, store, future>>

(* Mutant: any complete job is skipped, whatever it was computed from.   *)
CompleteAnyhow(s, j) == store[j] # Nothing

CompleteFor(s, j) == store[j] # Nothing /\ store[j].execution = call[s].expected[j]

(* jobs_to_run, which holds no lock.                                        *)
Resume(s) ==
    LET c     == call[s]
        j     == Matrix[s][c.cursor]
        found == IF CompleteFor(s, j) THEN c.pending ELSE Append(c.pending, j)
        seen  == IF CompleteFor(s, j) THEN c.skipped \cup {store[j]} ELSE c.skipped
    IN  /\ c.stage = "resume"
        /\ Advances(s, [c EXCEPT !.pending = found, !.skipped = seen],
                    IF found = <<>> THEN "returned" ELSE "submit")
        /\ UNCHANGED <<model, store, future>>

-----------------------------------------------------------------------------
(* The pool *)

(* The pending jobs at positions first .. last.                             *)
Pending(c, first, last) == {c.pending[i] : i \in (first .. last) \cap DOMAIN c.pending}

Submits(s, jobs) ==
    [j \in Job |-> IF j \in jobs THEN [Idle EXCEPT !.at = "queued"] ELSE future[s][j]]

(* Mutant: the pool is opened one short.                                 *)
WindowShort(c) == IF Len(c.pending) < MaxWorkers THEN Len(c.pending) ELSE MaxWorkers - 1

Window(c) == IF Len(c.pending) < MaxWorkers THEN Len(c.pending) ELSE MaxWorkers

Open(s) ==
    LET c     == call[s]
        first == Pending(c, 1, Window(c))
    IN  /\ c.stage = "submit"
        /\ call' = [call EXCEPT ![s] =
              [c EXCEPT !.stage = "wait", !.submitted = Window(c), !.inFlight = first]]
        /\ future' = [future EXCEPT ![s] = Submits(s, first)]
        /\ UNCHANGED <<model, store>>

(* wait(..., FIRST_COMPLETED) returns all the futures that are done by then. *)
Wait(s) ==
    LET done == {j \in call[s].inFlight : future[s][j].at \in Finished}
    IN  /\ call[s].stage = "wait" /\ call[s].batch = {}
        /\ done # {}
        /\ call' = [call EXCEPT ![s].batch = done]
        /\ UNCHANGED <<model, store, future>>

First(jobs) == CHOOSE j \in jobs : \A k \in jobs : j <= k

(* Mutant: a worker is believed without a look at its provenance.        *)
Believed(s, j) == future[s][j].at = "returned" /\ store[j] = future[s][j].outcome

(* _validated_worker_result of a future that has not raised.                *)
Validated(s, j) ==
    /\ future[s][j].at = "returned"
    /\ future[s][j].outcome.execution = call[s].expected[j]
    /\ store[j] = future[s][j].outcome

(* submit_next: the position of the job that is handed out, if any.         *)
NextPosition(c) == {c.submitted + 1} \cap DOMAIN c.pending

(* A validated result; a pending job takes the place of its future.         *)
Take(s) ==
    LET c    == call[s]
        j    == First(c.batch)
        next == {c.pending[i] : i \in NextPosition(c)}
    IN  /\ c.stage = "wait" /\ c.batch # {}
        /\ Validated(s, j)
        /\ call' = [call EXCEPT ![s] =
              [c EXCEPT !.results = Append(@, future[s][j].outcome),
                        !.batch = @ \ {j},
                        !.inFlight = (@ \ {j}) \cup next,
                        !.submitted = @ + Cardinality(next)]]
        /\ future' = [future EXCEPT ![s] = [Submits(s, next) EXCEPT ![j] = Idle]]
        /\ UNCHANGED <<model, store>>

(* The future raised, or its result is refused.                             *)
Refuse(s) ==
    LET c == call[s]
        j == First(c.batch)
    IN  /\ c.stage = "wait" /\ c.batch # {}
        /\ ~Validated(s, j)
        /\ call' = [call EXCEPT ![s] =
              [c EXCEPT !.stage = "cancel", !.inFlight = @ \ {j}, !.batch = {}]]
        /\ future' = [future EXCEPT ![s][j] = Idle]
        /\ UNCHANGED <<model, store>>

Return(s) ==
    /\ call[s].inFlight = {}
    /\ Goes(s, "wait", "returned")
    /\ UNCHANGED <<model, store, future>>

(* Only a future that no process has taken can still be cancelled; the      *)
(* pool hands them over ahead of time, so perhaps none.                     *)
Cancel(s) ==
    /\ Goes(s, "cancel", "shutdown")
    /\ \E cancelled \in SUBSET Queued(s) :
          future' = [future EXCEPT ![s] = [j \in Job |-> IF j \in cancelled THEN Idle ELSE @[j]]]
    /\ UNCHANGED <<model, store>>

(* Mutant: shutdown does not wait for the processes.                     *)
RaisesAtOnce(s) ==
    /\ call[s].stage = "shutdown"
    /\ Ends(s, "raised")
    /\ UNCHANGED <<model, store, future>>

(* shutdown(wait=True), then the exception goes on.                         *)
Raise(s) ==
    /\ call[s].stage = "shutdown"
    /\ Active(s) \cup Queued(s) = {}
    /\ Ends(s, "raised")
    /\ UNCHANGED <<model, store, future>>

-----------------------------------------------------------------------------
(* A worker: _run_sweep_job *)

Moves(s, j, from, to) ==
    future[s][j].at = from /\ future' = [future EXCEPT ![s][j].at = to]

Fails(s, j) == future' = [future EXCEPT ![s][j] = [Idle EXCEPT !.at = "raised"]]

Returns(s, j, manifest) ==
    future' = [future EXCEPT ![s][j] = [Idle EXCEPT !.at = "returned", !.outcome = manifest]]

Load(s, j) ==
    /\ future[s][j].at = "queued"
    /\ future' = [future EXCEPT ![s][j] =
          [Idle EXCEPT !.at = "loaded", !.execution = Execution(j, model, Nothing)]]
    /\ UNCHANGED <<model, store, call>>

Hash(s, j) ==
    LET agent == future[s][j].execution.agent
    IN  /\ future[s][j].at = "loaded"
        /\ future' = [future EXCEPT ![s][j] =
              [@ EXCEPT !.at = "hashed", !.execution = Execution(j, agent, model)]]
        /\ UNCHANGED <<model, store, call>>

(* run_job derives the provenance again and compares.                       *)
SameInputs(s, j) ==
    future[s][j].execution = Execution(j, future[s][j].execution.agent, model)

Enter(s, j) ==
    /\ Moves(s, j, "hashed", "running")
    /\ SameInputs(s, j)
    /\ UNCHANGED <<model, store, call>>

Mismatch(s, j) ==
    /\ future[s][j].at = "hashed" /\ ~SameInputs(s, j)
    /\ Fails(s, j)
    /\ UNCHANGED <<model, store, call>>

(* Mutant: what another invocation completed is done again.              *)
StoredByOneself(s, j) ==
    /\ store[j] # Nothing /\ store[j].author = s
    /\ store[j].execution = future[s][j].execution

StoredFor(s, j) == store[j] # Nothing /\ store[j].execution = future[s][j].execution

(* run_job, whose steps on the files JobArtifacts describes: under its lock *)
(* it finds the job complete, or clears what it finds.                      *)
Deliver(s, j) ==
    /\ future[s][j].at \in Executing /\ StoredFor(s, j)
    /\ Returns(s, j, store[j])
    /\ UNCHANGED <<model, store, call>>

Clear(s, j) ==
    /\ Moves(s, j, "running", "cleared")
    /\ ~StoredFor(s, j)
    /\ store' = [store EXCEPT ![j] = Nothing]
    /\ UNCHANGED <<model, call>>

(* The lock was free in between; from here to the return it is held.        *)
Publish(s, j) ==
    /\ future[s][j].at = "cleared" /\ store[j] = Nothing
    /\ store' = [store EXCEPT
          ![j] = [job |-> j, execution |-> future[s][j].execution, author |-> s]]
    /\ Returns(s, j, store'[j])
    /\ UNCHANGED <<model, call>>

(* Somebody completed it under another provenance: FileExistsError, and the *)
(* job is cleared on the way out unless the lock is taken again.            *)
Collides(s, j) ==
    /\ future[s][j].at = "cleared" /\ store[j] # Nothing /\ ~StoredFor(s, j)
    /\ store' \in {store, [store EXCEPT ![j] = Nothing]}
    /\ Fails(s, j)
    /\ UNCHANGED <<model, call>>

(* The lock of the job is somebody else's.                                  *)
Blocked(s, j) ==
    /\ future[s][j].at \in Executing /\ Others(s, j) # {}
    /\ Fails(s, j)
    /\ UNCHANGED <<model, store, call>>

-----------------------------------------------------------------------------
(* What goes wrong *)

Fail(s, j) ==
    /\ future[s][j].at \in Working
    /\ Fails(s, j)
    /\ UNCHANGED <<model, store, call>>

(* A process dies: BrokenProcessPool for every future that is not done, and *)
(* the pool terminates the other processes.                                 *)
Break(s) ==
    /\ call[s].stage \in {"wait", "cancel", "shutdown"} /\ Active(s) # {}
    /\ future' = [future EXCEPT ![s] = [j \in Job |->
          IF j \in Active(s) \cup Queued(s) THEN [Idle EXCEPT !.at = "raised"] ELSE @[j]]]
    /\ UNCHANGED <<model, store, call>>

(* An exception of the parent's own, KeyboardInterrupt included.            *)
(* A second one, while the handler waits for the pool, is left out.         *)
Interrupt(s) ==
    /\ \/ call[s].stage \in Preparing /\ Ends(s, "raised")
       \/ /\ call[s].stage = "wait"
          /\ call' = [call EXCEPT ![s] = [@ EXCEPT !.stage = "cancel", !.batch = {}]]
    /\ UNCHANGED <<model, store, future>>

(* The parent is killed: jobs in a process go on, queued ones may be lost.  *)
Kill(s) ==
    /\ call[s].stage \notin Ended
    /\ Ends(s, "killed")
    /\ \E lost \in SUBSET Queued(s) :
          future' = [future EXCEPT ![s] = [j \in Job |-> IF j \in lost THEN Idle ELSE @[j]]]
    /\ UNCHANGED <<model, store>>

(* Pretraining, a rollback or an operator replaces the model.               *)
Replace == model' \in Models \ {model} /\ UNCHANGED <<store, call, future>>

-----------------------------------------------------------------------------
(* Specification *)

SweepInit ==
    /\ model \in Models
    /\ store = [j \in Job |-> Nothing]
    /\ call = [s \in Sweeper |-> NoCall]
    /\ future = [s \in Sweeper |-> [j \in Job |-> Idle]]

Prepares(s) == Expect(s) \/ Configure(s) \/ ConfigureBlocked(s) \/ Resume(s)

Collects(s) == Open(s) \/ Wait(s) \/ Take(s) \/ Refuse(s) \/ Return(s) \/ Cancel(s) \/ Raise(s)

Works(s, j) ==
    \/ Load(s, j) \/ Hash(s, j) \/ Enter(s, j) \/ Mismatch(s, j)
    \/ Deliver(s, j) \/ Clear(s, j) \/ Publish(s, j) \/ Collides(s, j) \/ Blocked(s, j)

Faults(s) == (\E j \in Job : Fail(s, j)) \/ Break(s) \/ Interrupt(s) \/ Kill(s)

SweepNext ==
    \/ Replace
    \/ \E s \in Sweeper :
          \/ Start(s) \/ Prepares(s) \/ Collects(s) \/ Faults(s)
          \/ \E j \in Job : Works(s, j)

SweepSpec == SweepInit /\ [][SweepNext]_sweepVars

-----------------------------------------------------------------------------
(* Properties *)

Calls ==
    [stage : Ended \cup Preparing \cup {"submit", "wait", "cancel", "shutdown"},
     agent : Models \cup {Nothing}, expected : [Job -> Executions \cup {Nothing}],
     cursor : Nat \ {0}, pending : Seq(Job), submitted : Nat,
     inFlight : SUBSET Job, batch : SUBSET Job, results : Seq(Manifests),
     skipped : SUBSET Manifests]

Futures ==
    [at : {"idle", "queued"} \cup Working \cup Finished,
     execution : Executions \cup {Nothing}, outcome : Manifests \cup {Nothing}]

(* What the module's variables hold.                                        *)
SweepTypeOK ==
    /\ model \in Models
    /\ store \in [Job -> Manifests \cup {Nothing}]
    /\ call \in [Sweeper -> Calls]
    /\ future \in [Sweeper -> [Job -> Futures]]

Collected(c) == {c.results[i].job : i \in DOMAIN c.results}

(* The pool neither idles nor forgets: while an invocation waits, each job  *)
(* it has submitted is in flight or collected, once, and no fewer than      *)
(* MaxWorkers are in flight as long as a pending job is left.               *)
PoolIsFull ==
    \A s \in Sweeper : call[s].stage = "wait" =>
        LET c == call[s]
        IN  /\ Pending(c, 1, c.submitted) = c.inFlight \cup Collected(c)
            /\ Cardinality(c.inFlight) + Len(c.results) = c.submitted
            /\ Cardinality(c.inFlight) <= MaxWorkers
            /\ c.submitted < Len(c.pending) => Cardinality(c.inFlight) = MaxWorkers

(* Whoever fails and in whatever order, an invocation that has returned or  *)
(* raised has left no process behind that still writes to the directory.    *)
NothingOutlives ==
    \A s \in Sweeper : call[s].stage \in Finished => Active(s) \cup Queued(s) = {}

(* A manifest that is returned was computed by the agent the invocation     *)
(* loaded when it started, although its workers load the file again later.  *)
OneAgent ==
    \A s \in Sweeper : \A i \in DOMAIN call[s].results :
        call[s].results[i].job \in Learners =>
            call[s].results[i].execution.agent = call[s].agent

(* The invocation has seen job j complete, for what it expects of it.       *)
SeenComplete(c, j) ==
    \E m \in c.skipped \cup {c.results[i] : i \in DOMAIN c.results} :
        m.job = j /\ m.execution = c.expected[j]

(* No job is forgotten: a sweep that returns has seen each job of its       *)
(* matrix complete for the agent it loaded, in jobs_to_run or as the result *)
(* of a worker.  A job that depends on a model may be redone by a sweep     *)
(* that loaded another one; the others stay complete, however many sweeps   *)
(* start, fail and clear.                                                   *)
ReturnIsComplete ==
    \A s \in Sweeper : call[s].stage = "returned" =>
        \A j \in JobsOf(s) :
            /\ SeenComplete(call[s], j)
            /\ j \notin Learners => CompleteFor(s, j)
=============================================================================
