------------------------ MODULE RepositoryProcessing ------------------------
(***************************************************************************)
(* Processing jobs of one repository (RepositoryProcessingService):        *)
(* enqueue looks for an active run, creates one and adds its BullMQ job;   *)
(* the single BullMQ worker executes processRun, which takes the           *)
(* repository through four stages.  What a stage does is left open here    *)
(* (RepositoryIndex): it ends, or it throws.                               *)
(*                                                                         *)
(* A run has a random id, which is also the id of its job: it bears the    *)
(* name of the request that created it.  A row with status RUNNING is      *)
(* given by its stage: updateStage writes both.                            *)
(***************************************************************************)
EXTENDS Naturals, FiniteSets

CONSTANTS
  Requests,       \* calls of enqueue
  MaxStalls,      \* BullMQ's maxStalledCount, 1 by default
  Faults,         \* the kinds of fault that may happen
  MaxFaults,      \* bound: number of faults
  NoRun

FaultKinds == {"crash", "database", "redis"}

ASSUME ProcessingAssumption ==
  /\ MaxStalls \in Nat /\ MaxFaults \in Nat /\ Faults \subseteq FaultKinds
  /\ NoRun \notin Requests

VARIABLES
  present,        \* the Repository row exists
  enqueue,        \* enqueue[q]: where the handler of request q is
  run,            \* run[q]: the RepositoryProcessingRun row
  job,            \* job[q]: the BullMQ job with the id of that row
  stalls,         \* stalls[q]: BullMQ's stalled counter of that job
  worker,         \* the processRun call of the worker (concurrency 1)
  faults,         \* number of faults so far
  happened        \* history: the kinds of fault, and "overlap", so far

queue == <<job, stalls>>
odd == <<faults, happened>>
processingVars == <<present, enqueue, run, queue, worker, odd>>

Stages == {"SYNCING", "INGESTING", "CHUNKING", "EMBEDDING"}
Active == {"QUEUED"} \cup Stages
RunStates == {"NONE", "COMPLETED", "FAILED"} \cup Active

\* What follows a stage.
After == [SYNCING |-> "INGESTING", INGESTING |-> "CHUNKING",
          CHUNKING |-> "EMBEDDING", EMBEDDING |-> "COMPLETED"]

IdleWorker == [at |-> "idle", stage |-> "SYNCING", run |-> NoRun]

ProcessingInit ==
  /\ present = TRUE
  /\ enqueue = [q \in Requests |-> "idle"]
  /\ run = [q \in Requests |-> "NONE"]
  /\ job = [q \in Requests |-> "absent"]
  /\ stalls = [q \in Requests |-> 0]
  /\ worker = IdleWorker
  /\ faults = 0
  /\ happened = {}

Fault(kind) ==
  /\ kind \in Faults /\ faults < MaxFaults
  /\ faults' = faults + 1
  /\ happened' = happened \cup {kind}

\* RepositoriesService.remove: the runs are deleted with the repository, the
\* jobs stay in Redis.
Remove ==
  /\ present
  /\ present' = FALSE
  /\ run' = [q \in Requests |-> "NONE"]
  /\ UNCHANGED <<enqueue, queue, worker, odd>>

\* An update of the row of a run changes nothing, and throws, if it is gone.
Update(q, state) ==
  run' = IF run[q] = "NONE" THEN run ELSE [run EXCEPT ![q] = state]

-----------------------------------------------------------------------------
(* enqueue                                                                 *)

Answer(q, place) == enqueue' = [enqueue EXCEPT ![q] = place]
SomeActive == \E q \in Requests : run[q] \in Active

\* Mutation: only a run that is RUNNING is active.
LookForRunning(q) ==
  /\ enqueue[q] = "idle"
  /\ Answer(q, IF ~present THEN "error"
               ELSE IF \E r \in Requests : run[r] \in Stages THEN "alreadyRunning"
               ELSE "creating")
  /\ happened' = IF \E r \in Requests : enqueue[r] = "creating"
                 THEN happened \cup {"overlap"} ELSE happened
  /\ UNCHANGED <<present, run, queue, worker, faults>>

\* The repository and its active run are looked for.
Look(q) ==
  /\ enqueue[q] = "idle"
  /\ Answer(q, IF ~present THEN "error"
               ELSE IF SomeActive THEN "alreadyRunning" ELSE "creating")
  /\ happened' = IF \E r \in Requests : enqueue[r] = "creating"
                 THEN happened \cup {"overlap"} ELSE happened
  /\ UNCHANGED <<present, run, queue, worker, faults>>

CreateRun(q) ==
  /\ enqueue[q] = "creating"
  /\ IF present
     THEN run' = [run EXCEPT ![q] = "QUEUED"] /\ Answer(q, "adding")
     ELSE UNCHANGED run /\ Answer(q, "error")      \* foreign key violation
  /\ UNCHANGED <<present, queue, worker, odd>>

\* A Redis error may come after the job was added.
AddJob(q) ==
  /\ enqueue[q] = "adding"
  /\ \/ /\ job' = [job EXCEPT ![q] = "waiting"]
        /\ Answer(q, "queued") /\ UNCHANGED odd
     \/ /\ Fault("redis")
        /\ job' \in {job, [job EXCEPT ![q] = "waiting"]}
        /\ Answer(q, "failing")
  /\ UNCHANGED <<present, run, stalls, worker>>

\* Mutation: the error of queue.add is answered and the row is left as it is.
LeaveQueuedRun(q) ==
  /\ enqueue[q] = "failing"
  /\ Answer(q, "error")
  /\ UNCHANGED <<present, run, queue, worker, odd>>

FailQueuedRun(q) ==
  /\ enqueue[q] = "failing"
  /\ Update(q, "FAILED")
  /\ Answer(q, "error")
  /\ UNCHANGED <<present, queue, worker, odd>>

EnqueueDatabaseFault(q) ==
  /\ enqueue[q] \in {"creating", "failing"}
  /\ Fault("database")
  /\ Answer(q, "error")
  /\ UNCHANGED <<present, run, queue, worker>>

EnqueueStep(q) ==
  CreateRun(q) \/ AddJob(q) \/ FailQueuedRun(q) \/ EnqueueDatabaseFault(q)

-----------------------------------------------------------------------------
(* processRun                                                              *)

Move(place) == worker' = [worker EXCEPT !.at = place]

\* updateStage: an error is caught, as it is awaited inside the try block.
UpdateStage ==
  /\ worker.at = "updating"
  /\ Update(worker.run, worker.stage)
  /\ Move(IF run[worker.run] = "NONE" THEN "failing" ELSE "working")
  /\ UNCHANGED <<present, enqueue, queue, odd>>

StageEnds ==
  /\ worker.at = "working"
  /\ worker' = [worker EXCEPT !.stage = After[@],
       !.at = IF After[worker.stage] \in Stages THEN "updating" ELSE "completing"]
  /\ UNCHANGED <<present, enqueue, run, queue, odd>>

\* GitHub, Ollama or the database fails in a stage, or the user who asked
\* for the run is not a member any more.
StageThrows ==
  /\ worker.at = "working"
  /\ Move("failing")
  /\ UNCHANGED <<present, enqueue, run, queue, odd>>

\* The last update is returned without await: if it rejects, the catch block
\* does not run.
Complete ==
  /\ worker.at = "completing"
  /\ Update(worker.run, "COMPLETED")
  /\ Move("ended")
  /\ UNCHANGED <<present, enqueue, queue, odd>>

\* Mutation: the error is thrown again without failing the run.
FailNothing ==
  /\ worker.at = "failing"
  /\ Move("ended")
  /\ UNCHANGED <<present, enqueue, run, queue, odd>>

FailRun ==
  /\ worker.at = "failing"
  /\ Update(worker.run, "FAILED")
  /\ Move("ended")
  /\ UNCHANGED <<present, enqueue, queue, odd>>

WorkerDatabaseFault ==
  /\ worker.at \in {"updating", "completing", "failing"}
  /\ Fault("database")
  /\ Move(IF worker.at = "updating" THEN "failing" ELSE "ended")
  /\ UNCHANGED <<present, enqueue, run, queue>>

-----------------------------------------------------------------------------
(* BullMQ                                                                  *)

Take(q) ==
  /\ worker.at = "idle" /\ job[q] = "waiting"
  /\ job' = [job EXCEPT ![q] = "active"]
  /\ worker' = [IdleWorker EXCEPT !.at = "updating", !.run = q]
  /\ UNCHANGED <<present, enqueue, run, stalls, odd>>

\* Mutation: the worker does not forget the job.
FinishKeepsRun ==
  /\ worker.at = "ended"
  /\ job' = [job EXCEPT ![worker.run] = "ended"]
  /\ Move("idle")
  /\ UNCHANGED <<present, enqueue, run, stalls, odd>>

\* processRun has resolved or rejected: the job is completed or failed.
Finish ==
  /\ worker.at = "ended"
  /\ job' = [job EXCEPT ![worker.run] = "ended"]
  /\ worker' = IdleWorker
  /\ UNCHANGED <<present, enqueue, run, stalls, odd>>

\* The lock of an active job that no worker holds expires.
Stall(q) ==
  /\ job[q] = "active" /\ worker.run # q
  /\ stalls' = [stalls EXCEPT ![q] = @ + 1]
  /\ job' = [job EXCEPT ![q] = IF stalls[q] < MaxStalls THEN "waiting" ELSE "ended"]
  /\ UNCHANGED <<present, enqueue, run, worker, odd>>

Interrupted(place) == IF place \in {"creating", "adding", "failing"}
                      THEN "error" ELSE place

\* The API process, with its handlers and its worker, dies and restarts.
Crash ==
  /\ Fault("crash")
  /\ enqueue' = [q \in Requests |-> Interrupted(enqueue[q])]
  /\ worker' = IdleWorker
  /\ UNCHANGED <<present, run, queue>>

-----------------------------------------------------------------------------
WorkerStep ==
  UpdateStage \/ StageEnds \/ StageThrows \/ Complete \/ FailRun
  \/ WorkerDatabaseFault \/ Finish

ProcessingNext ==
  \/ \E q \in Requests : Look(q) \/ EnqueueStep(q) \/ Take(q) \/ Stall(q)
  \/ WorkerStep \/ Remove \/ Crash

\* The process goes on with what it has begun and BullMQ serves the queue.
\* Nobody has to enqueue, remove or crash.
ProcessingFairness ==
  /\ \A q \in Requests : WF_processingVars(EnqueueStep(q))
  /\ WF_processingVars(\E q \in Requests : Take(q))
  /\ \A q \in Requests : WF_processingVars(Stall(q))
  /\ WF_processingVars(WorkerStep)

ProcessingSpec == ProcessingInit /\ [][ProcessingNext]_processingVars
ProcessingFairSpec == ProcessingSpec /\ ProcessingFairness

-----------------------------------------------------------------------------
\* Every variable has its type, and a busy worker holds an active job.
ProcessingTypeOK ==
  /\ present \in BOOLEAN
  /\ enqueue \in [Requests -> {"idle", "creating", "adding", "failing",
                               "queued", "alreadyRunning", "error"}]
  /\ run \in [Requests -> RunStates]
  /\ job \in [Requests -> {"absent", "waiting", "active", "ended"}]
  /\ stalls \in [Requests -> Nat]
  /\ worker \in [at : {"idle", "updating", "working", "completing", "failing",
                       "ended"},
                 stage : Stages \cup {"COMPLETED"}, run : Requests \cup {NoRun}]
  /\ worker.at \in {"updating", "working"} => worker.stage \in Stages
  /\ IF worker.at = "idle" THEN worker.run = NoRun
     ELSE worker.run \in Requests /\ job[worker.run] = "active"
  /\ faults \in 0..MaxFaults
  /\ happened \subseteq FaultKinds \cup {"overlap"}

\* An active run has something that will end it: its job, or the handler
\* that is about to add it.  Otherwise enqueue would answer for ever that
\* processing is already running.
ActiveRunHasJob ==
  "database" \notin happened =>
    \A q \in Requests : run[q] \in Active =>
      \/ job[q] \in {"waiting", "active"}
      \/ enqueue[q] \in {"adding", "failing"}
      \/ run[q] = "QUEUED" /\ "crash" \in happened
      \/ stalls[q] > MaxStalls

\* A repository has at most one active run, unless two calls of enqueue have
\* looked before either had created its run, a crashed job was executed
\* again, or Redis added a job and reported an error.
OneActiveRun ==
  happened \cap {"overlap", "crash", "redis"} = {} =>
    Cardinality({q \in Requests : run[q] \in Active}) <= 1

\* "Persists a failed stage so the run can be retried"
\* (repository-processing.service.spec.ts:182): every active run ends, after
\* which enqueue creates another one, unless the database failed or the
\* process died; a RUNNING run ends although the process dies, as long as
\* BullMQ executes its job again.
ActiveRunsEnd ==
  \A q \in Requests :
    /\ run[q] \in Active ~> \/ run[q] \notin Active
                            \/ happened \cap {"database", "crash"} # {}
    /\ run[q] \in Stages ~> \/ run[q] \notin Stages
                            \/ "database" \in happened
                            \/ stalls[q] > MaxStalls
=============================================================================
