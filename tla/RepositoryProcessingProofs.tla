--------------------- MODULE RepositoryProcessingProofs ---------------------
(***************************************************************************)
(* For any number of requests, stalls and faults: the type invariant of    *)
(* RepositoryProcessing, that an active run has something that ends it,    *)
(* and that requests which do not overlap start one run at a time.         *)
(***************************************************************************)
EXTENDS RepositoryProcessing, FiniteSetTheorems, TLAPS

EnqueuePlaces == {"idle", "creating", "adding", "failing", "queued",
                  "alreadyRunning", "error"}
JobStates == {"absent", "waiting", "active", "ended"}

\* The type invariant, in the parts that a step leaves alone or not.
RowsTyped ==
  /\ present \in BOOLEAN
  /\ enqueue \in [Requests -> EnqueuePlaces]
  /\ run \in [Requests -> RunStates]
JobsTyped ==
  /\ job \in [Requests -> JobStates]
  /\ stalls \in [Requests -> Nat]
WorkerTyped ==
  /\ worker \in [at : {"idle", "updating", "working", "completing", "failing",
                       "ended"},
                 stage : Stages \cup {"COMPLETED"}, run : Requests \cup {NoRun}]
  /\ worker.at \in {"updating", "working"} => worker.stage \in Stages
  /\ IF worker.at = "idle" THEN worker.run = NoRun
     ELSE worker.run \in Requests /\ job[worker.run] = "active"
OddTyped == faults \in 0..MaxFaults /\ happened \subseteq FaultKinds \cup {"overlap"}

LEMMA TypeSplit ==
  ProcessingTypeOK <=> RowsTyped /\ JobsTyped /\ WorkerTyped /\ OddTyped
  BY DEF ProcessingTypeOK, RowsTyped, JobsTyped, WorkerTyped, OddTyped,
         EnqueuePlaces, JobStates

\* The parts give the whole after a step.
LEMMA TypeJoin ==
  ASSUME RowsTyped', JobsTyped', WorkerTyped', OddTyped'
  PROVE  ProcessingTypeOK'
  BY DEF ProcessingTypeOK, RowsTyped, JobsTyped, WorkerTyped, OddTyped,
         EnqueuePlaces, JobStates

\* A request that has not added its job yet has no job: without this, the
\* type invariant is not inductive.
AddedOnce ==
  \A q \in Requests : enqueue[q] \in {"idle", "creating", "adding"} => job[q] = "absent"

LEMMA IdleFact ==
  /\ IdleWorker.at = "idle" /\ IdleWorker.run = NoRun
  /\ IdleWorker \in [at : {"idle"}, stage : Stages, run : {NoRun}]
  BY DEF IdleWorker, Stages

LEMMA FaultTyped ==
  ASSUME OddTyped, NEW kind, Fault(kind)
  PROVE  OddTyped'
  BY ProcessingAssumption DEF OddTyped, Fault, FaultKinds

\* An update of a row, or an answer, keeps the types of the rows.
LEMMA UpdateTyped ==
  ASSUME RowsTyped, NEW q \in Requests, NEW state \in RunStates, Update(q, state)
  PROVE  run' \in [Requests -> RunStates]
  BY DEF RowsTyped, Update
LEMMA AnswerTyped ==
  ASSUME RowsTyped, NEW q \in Requests, NEW place \in EnqueuePlaces,
         Answer(q, place)
  PROVE  enqueue' \in [Requests -> EnqueuePlaces]
  BY DEF RowsTyped, Answer

\* The worker goes to another place with the same job and stage.
LEMMA MoveTyped ==
  ASSUME WorkerTyped, worker.at # "idle", UNCHANGED job,
         NEW place \in {"working", "failing", "ended"}, Move(place),
         place = "working" => worker.stage \in Stages
  PROVE  WorkerTyped'
  BY DEF WorkerTyped, Move

LEMMA ProcessingTypeInit == ProcessingInit => ProcessingTypeOK
<1> SUFFICES ASSUME ProcessingInit PROVE ProcessingTypeOK
  OBVIOUS
<1>1. RowsTyped /\ JobsTyped
  BY DEF ProcessingInit, RowsTyped, JobsTyped, EnqueuePlaces, JobStates, RunStates
<1>2. WorkerTyped /\ OddTyped
  BY IdleFact, ProcessingAssumption DEF ProcessingInit, WorkerTyped, OddTyped
<1> QED
  BY <1>1, <1>2, TypeSplit

\* The steps of enqueue.
LEMMA EnqueueTypeStep ==
  ASSUME ProcessingTypeOK, AddedOnce, NEW q \in Requests,
         Look(q) \/ EnqueueStep(q)
  PROVE  ProcessingTypeOK'
<1>0. RowsTyped /\ JobsTyped /\ WorkerTyped /\ OddTyped
  BY TypeSplit
<1>1. CASE Look(q)
  <2>1. RowsTyped'
    BY <1>0, <1>1 DEF Look, Answer, RowsTyped, EnqueuePlaces
  <2>2. JobsTyped' /\ WorkerTyped' /\ OddTyped'
    BY <1>0, <1>1 DEF Look, JobsTyped, WorkerTyped, OddTyped, queue
  <2> QED
    BY <2>1, <2>2, TypeJoin
<1>2. CASE CreateRun(q)
  <2>1. RowsTyped'
    BY <1>0, <1>2 DEF CreateRun, Answer, RowsTyped, EnqueuePlaces, RunStates, Active
  <2>2. JobsTyped' /\ WorkerTyped' /\ OddTyped'
    BY <1>0, <1>2 DEF CreateRun, JobsTyped, WorkerTyped, OddTyped, queue, odd
  <2> QED
    BY <2>1, <2>2, TypeJoin
<1>3. CASE AddJob(q)
  <2>1. job' \in {job, [job EXCEPT ![q] = "waiting"]} /\ UNCHANGED <<stalls, worker>>
    BY <1>3 DEF AddJob
  <2>2. RowsTyped' /\ JobsTyped'
    BY <1>0, <1>3 DEF AddJob, Answer, RowsTyped, JobsTyped, EnqueuePlaces, JobStates
  <2>3. OddTyped'
    BY <1>0, <1>3, FaultTyped DEF AddJob, odd, OddTyped
  <2>4. job[q] = "absent"
    BY <1>3 DEF AddJob, AddedOnce
  <2>5. WorkerTyped'
    BY <1>0, <2>1, <2>4 DEF WorkerTyped, JobsTyped
  <2> QED
    BY <2>2, <2>3, <2>5, TypeJoin
<1>4. CASE FailQueuedRun(q)
  <2>1. RowsTyped'
    BY <1>0, <1>4, UpdateTyped, AnswerTyped
       DEF FailQueuedRun, RowsTyped, EnqueuePlaces, RunStates
  <2>2. JobsTyped' /\ WorkerTyped' /\ OddTyped'
    BY <1>0, <1>4 DEF FailQueuedRun, JobsTyped, WorkerTyped, OddTyped, queue, odd
  <2> QED
    BY <2>1, <2>2, TypeJoin
<1>5. CASE EnqueueDatabaseFault(q)
  <2>1. RowsTyped'
    BY <1>0, <1>5, AnswerTyped DEF EnqueueDatabaseFault, RowsTyped, EnqueuePlaces
  <2>2. JobsTyped' /\ WorkerTyped'
    BY <1>0, <1>5 DEF EnqueueDatabaseFault, JobsTyped, WorkerTyped, queue
  <2>3. OddTyped'
    BY <1>0, <1>5, FaultTyped DEF EnqueueDatabaseFault
  <2> QED
    BY <2>1, <2>2, <2>3, TypeJoin
<1> QED
  BY <1>1, <1>2, <1>3, <1>4, <1>5 DEF EnqueueStep

\* The steps of the worker.
LEMMA WorkerTypeStep ==
  ASSUME ProcessingTypeOK, WorkerStep
  PROVE  ProcessingTypeOK'
<1>0. RowsTyped /\ JobsTyped /\ WorkerTyped /\ OddTyped
  BY TypeSplit
<1>1. CASE UpdateStage
  <2>1. worker.run \in Requests /\ worker.stage \in RunStates
    BY <1>0, <1>1 DEF UpdateStage, WorkerTyped, RunStates, Active
  <2>2. RowsTyped'
    BY <1>0, <1>1, <2>1, UpdateTyped DEF UpdateStage, RowsTyped
  <2>3. WorkerTyped'
    BY <1>0, <1>1 DEF UpdateStage, WorkerTyped, Move, queue
  <2>4. JobsTyped' /\ OddTyped'
    BY <1>0, <1>1 DEF UpdateStage, JobsTyped, OddTyped, queue, odd
  <2> QED
    BY <2>2, <2>3, <2>4, TypeJoin
<1>2. CASE StageEnds
  <2>1. worker.stage \in Stages
    BY <1>0, <1>2 DEF StageEnds, WorkerTyped
  <2>2. After[worker.stage] \in Stages \cup {"COMPLETED"}
    BY <2>1 DEF Stages, After
  <2>3. WorkerTyped'
    BY <1>0, <1>2, <2>2 DEF StageEnds, WorkerTyped, queue
  <2>4. RowsTyped' /\ JobsTyped' /\ OddTyped'
    BY <1>0, <1>2 DEF StageEnds, RowsTyped, JobsTyped, OddTyped, queue, odd
  <2> QED
    BY <2>3, <2>4, TypeJoin
<1>3. CASE StageThrows
  <2>1. WorkerTyped'
    BY <1>0, <1>3, MoveTyped DEF StageThrows, queue
  <2>2. RowsTyped' /\ JobsTyped' /\ OddTyped'
    BY <1>0, <1>3 DEF StageThrows, RowsTyped, JobsTyped, OddTyped, queue, odd
  <2> QED
    BY <2>1, <2>2, TypeJoin
<1>4. CASE Complete \/ FailRun
  <2>1. worker.at # "idle" /\ worker.run \in Requests
    BY <1>0, <1>4 DEF Complete, FailRun, WorkerTyped
  <2>2. RowsTyped'
    BY <1>0, <1>4, <2>1, UpdateTyped DEF Complete, FailRun, RowsTyped, RunStates
  <2>3. WorkerTyped'
    BY <1>0, <1>4, <2>1, MoveTyped DEF Complete, FailRun, queue
  <2>4. JobsTyped' /\ OddTyped'
    BY <1>0, <1>4 DEF Complete, FailRun, JobsTyped, OddTyped, queue, odd
  <2> QED
    BY <2>2, <2>3, <2>4, TypeJoin
<1>5. CASE WorkerDatabaseFault
  <2>1. WorkerTyped'
    BY <1>0, <1>5, MoveTyped DEF WorkerDatabaseFault, queue
  <2>2. OddTyped'
    BY <1>0, <1>5, FaultTyped DEF WorkerDatabaseFault
  <2>3. RowsTyped' /\ JobsTyped'
    BY <1>0, <1>5 DEF WorkerDatabaseFault, RowsTyped, JobsTyped, queue
  <2> QED
    BY <2>1, <2>2, <2>3, TypeJoin
<1>6. CASE Finish
  <2>1. worker.run \in Requests
    BY <1>0, <1>6 DEF Finish, WorkerTyped
  <2>2. JobsTyped'
    BY <1>0, <1>6, <2>1 DEF Finish, JobsTyped, JobStates
  <2>3. WorkerTyped'
    BY <1>6, IdleFact DEF Finish, WorkerTyped
  <2>4. RowsTyped' /\ OddTyped'
    BY <1>0, <1>6 DEF Finish, RowsTyped, OddTyped, odd
  <2> QED
    BY <2>2, <2>3, <2>4, TypeJoin
<1> QED
  BY <1>1, <1>2, <1>3, <1>4, <1>5, <1>6 DEF WorkerStep

\* The steps of BullMQ, of the users and the crash.
LEMMA OtherTypeStep ==
  ASSUME ProcessingTypeOK,
         (\E q \in Requests : Take(q) \/ Stall(q)) \/ Remove \/ Crash
  PROVE  ProcessingTypeOK'
<1>0. RowsTyped /\ JobsTyped /\ WorkerTyped /\ OddTyped
  BY TypeSplit
<1>1. ASSUME NEW q \in Requests, Take(q) PROVE ProcessingTypeOK'
  <2>1. JobsTyped'
    BY <1>0, <1>1 DEF Take, JobsTyped, JobStates
  <2>2. WorkerTyped'
    BY <1>0, <1>1, IdleFact DEF Take, WorkerTyped, JobsTyped, IdleWorker, Stages
  <2>3. RowsTyped' /\ OddTyped'
    BY <1>0, <1>1 DEF Take, RowsTyped, OddTyped, odd
  <2> QED
    BY <2>1, <2>2, <2>3, TypeJoin
<1>2. ASSUME NEW q \in Requests, Stall(q) PROVE ProcessingTypeOK'
  <2>1. JobsTyped'
    BY <1>0, <1>2 DEF Stall, JobsTyped, JobStates
  <2>2. WorkerTyped'
    BY <1>0, <1>2 DEF Stall, WorkerTyped, JobsTyped
  <2>3. RowsTyped' /\ OddTyped'
    BY <1>0, <1>2 DEF Stall, RowsTyped, OddTyped, odd
  <2> QED
    BY <2>1, <2>2, <2>3, TypeJoin
<1>3. CASE Remove
  <2>1. RowsTyped'
    BY <1>0, <1>3 DEF Remove, RowsTyped, RunStates
  <2>2. JobsTyped' /\ WorkerTyped' /\ OddTyped'
    BY <1>0, <1>3 DEF Remove, JobsTyped, WorkerTyped, OddTyped, queue, odd
  <2> QED
    BY <2>1, <2>2, TypeJoin
<1>4. CASE Crash
  <2>1. RowsTyped'
    BY <1>0, <1>4 DEF Crash, RowsTyped, Interrupted, EnqueuePlaces
  <2>2. WorkerTyped'
    BY <1>4, IdleFact DEF Crash, WorkerTyped
  <2>3. OddTyped'
    BY <1>0, <1>4, FaultTyped DEF Crash
  <2>4. JobsTyped'
    BY <1>0, <1>4 DEF Crash, JobsTyped, queue
  <2> QED
    BY <2>1, <2>2, <2>3, <2>4, TypeJoin
<1> QED
  BY <1>1, <1>2, <1>3, <1>4

LEMMA ProcessingTypeStep ==
  ASSUME ProcessingTypeOK, AddedOnce, [ProcessingNext]_processingVars
  PROVE  ProcessingTypeOK'
<1>1. CASE UNCHANGED processingVars
  BY <1>1 DEF ProcessingTypeOK, processingVars, queue, odd
<1> QED
  BY <1>1, EnqueueTypeStep, WorkerTypeStep, OtherTypeStep DEF ProcessingNext

LEMMA AddedOnceStep ==
  ASSUME ProcessingTypeOK, AddedOnce, [ProcessingNext]_processingVars
  PROVE  AddedOnce'
<1> USE DEF ProcessingTypeOK, AddedOnce, queue, odd
<1>1. CASE UNCHANGED processingVars
  BY <1>1 DEF processingVars
<1>2. ASSUME NEW q \in Requests, Look(q) \/ EnqueueStep(q) PROVE AddedOnce'
  BY <1>2 DEF Look, EnqueueStep, CreateRun, AddJob, FailQueuedRun,
              EnqueueDatabaseFault, Answer
<1>3. CASE WorkerStep
  BY <1>3 DEF WorkerStep, UpdateStage, StageEnds, StageThrows, Complete, FailRun,
              WorkerDatabaseFault, Finish
<1>4. ASSUME NEW q \in Requests, Take(q) \/ Stall(q) PROVE AddedOnce'
  BY <1>4 DEF Take, Stall
<1>5. CASE Remove
  BY <1>5 DEF Remove
<1>6. CASE Crash
  BY <1>6 DEF Crash, Interrupted
<1> QED
  BY <1>1, <1>2, <1>3, <1>4, <1>5, <1>6 DEF ProcessingNext

LEMMA TypeAndAddedOnce == ProcessingSpec => [](ProcessingTypeOK /\ AddedOnce)
<1>1. ProcessingInit => AddedOnce
  BY DEF ProcessingInit, AddedOnce
<1> QED
  BY <1>1, ProcessingTypeInit, ProcessingTypeStep, AddedOnceStep, PTL
     DEF ProcessingSpec

\* Every variable has its type, and a busy worker holds an active job.
THEOREM ProcessingTypeCorrect == ProcessingSpec => []ProcessingTypeOK
  BY TypeAndAddedOnce, PTL

-----------------------------------------------------------------------------
(* An active run has a job                                                 *)

\* Nothing but the execution of its job makes a run RUNNING, and the job does
\* not end before the run, unless it has stalled too often.
RunByItsJob ==
  \A q \in Requests :
    /\ job[q] = "absent" => run[q] \in {"NONE", "QUEUED", "FAILED"}
    /\ "database" \notin happened /\ job[q] = "ended" /\ run[q] \in Active
         => stalls[q] > MaxStalls

\* processRun does not resolve or reject while its run is active.
EndedRunSettled ==
  "database" \notin happened /\ worker.at = "ended" => run[worker.run] \notin Active

ActiveInv == RunByItsJob /\ EndedRunSettled /\ ActiveRunHasJob

LEMMA ActiveInit == ProcessingInit => ActiveInv
  BY IdleFact DEF ProcessingInit, ActiveInv, RunByItsJob, EndedRunSettled,
                  ActiveRunHasJob, Active, Stages

LEMMA EnqueueActiveStep ==
  ASSUME ProcessingTypeOK, AddedOnce, ActiveInv,
         NEW q \in Requests, Look(q) \/ EnqueueStep(q)
  PROVE  ActiveInv'
<1> USE DEF AddedOnce, ActiveInv, RunByItsJob, EndedRunSettled, ActiveRunHasJob,
            Active, Stages, ProcessingTypeOK, queue, odd, Answer
<1>1. CASE Look(q)
  BY <1>1 DEF Look
<1>2. CASE CreateRun(q)
  BY <1>2 DEF CreateRun
<1>3. CASE AddJob(q)
  BY <1>3 DEF AddJob, Fault
<1>4. CASE FailQueuedRun(q)
  BY <1>4 DEF FailQueuedRun, Update
<1>5. CASE EnqueueDatabaseFault(q)
  BY <1>5 DEF EnqueueDatabaseFault, Fault
<1> QED
  BY <1>1, <1>2, <1>3, <1>4, <1>5 DEF EnqueueStep

LEMMA WorkerActiveStep ==
  ASSUME ProcessingTypeOK, AddedOnce, ActiveInv, WorkerStep
  PROVE  ActiveInv'
<1> USE DEF AddedOnce, ActiveInv, RunByItsJob, EndedRunSettled, ActiveRunHasJob,
            Active, Stages, ProcessingTypeOK, queue, odd, Move
<1>1. CASE UpdateStage
  BY <1>1 DEF UpdateStage, Update
<1>2. CASE StageEnds
  BY <1>2 DEF StageEnds
<1>3. CASE StageThrows
  BY <1>3 DEF StageThrows
<1>4. CASE Complete
  BY <1>4 DEF Complete, Update
<1>5. CASE FailRun
  BY <1>5 DEF FailRun, Update
<1>6. CASE WorkerDatabaseFault
  BY <1>6 DEF WorkerDatabaseFault, Fault
<1>7. CASE Finish
  BY <1>7, IdleFact DEF Finish
<1> QED
  BY <1>1, <1>2, <1>3, <1>4, <1>5, <1>6, <1>7 DEF WorkerStep

LEMMA OtherActiveStep ==
  ASSUME ProcessingTypeOK, AddedOnce, ActiveInv,
         (\E q \in Requests : Take(q) \/ Stall(q)) \/ Remove \/ Crash
  PROVE  ActiveInv'
<1> USE DEF AddedOnce, ActiveInv, RunByItsJob, EndedRunSettled, ActiveRunHasJob,
            Active, Stages, ProcessingTypeOK, queue, odd
<1>1. ASSUME NEW q \in Requests, Take(q) PROVE ActiveInv'
  <2>1. /\ job[q] = "waiting" /\ job' = [job EXCEPT ![q] = "active"]
        /\ UNCHANGED <<enqueue, run, stalls, happened>>
    BY <1>1 DEF Take
  <2>2. worker'.at = "updating"
    BY <1>1, IdleFact DEF Take, IdleWorker
  <2> QED
    BY <2>1, <2>2
<1>2. ASSUME NEW q \in Requests, Stall(q) PROVE ActiveInv'
  BY <1>2, ProcessingAssumption DEF Stall
<1>3. CASE Remove
  BY <1>3 DEF Remove
<1>4. CASE Crash
  <2>1. UNCHANGED <<run, job, stalls>> /\ worker'.at = "idle"
    BY <1>4, IdleFact DEF Crash
  <2>2. "crash" \in happened' /\ happened \subseteq happened'
    BY <1>4 DEF Crash, Fault
  <2>3. RunByItsJob' /\ EndedRunSettled'
    BY <2>1, <2>2
  <2>4. ASSUME "database" \notin happened', NEW q \in Requests, run'[q] \in Active
        PROVE  \/ job'[q] \in {"waiting", "active"}
               \/ enqueue'[q] \in {"adding", "failing"}
               \/ run'[q] = "QUEUED" /\ "crash" \in happened'
               \/ stalls'[q] > MaxStalls
    BY <2>1, <2>2, <2>3, <2>4
  <2> QED
    BY <2>3, <2>4
<1> QED
  BY <1>1, <1>2, <1>3, <1>4

LEMMA ActiveStep ==
  ASSUME ProcessingTypeOK, AddedOnce, ActiveInv, [ProcessingNext]_processingVars
  PROVE  ActiveInv'
<1>1. CASE UNCHANGED processingVars
  BY <1>1 DEF ActiveInv, RunByItsJob, EndedRunSettled, ActiveRunHasJob,
              processingVars, queue, odd
<1> QED
  BY <1>1, EnqueueActiveStep, WorkerActiveStep, OtherActiveStep DEF ProcessingNext

\* An active run has a job, or a handler about to add it, as long as the
\* database answers, apart from what a crash or too many stalls explain.
THEOREM ActiveRunsHaveJobs == ProcessingSpec => []ActiveRunHasJob
<1>1. ActiveInv => ActiveRunHasJob
  BY DEF ActiveInv
<1> QED
  BY <1>1, ActiveInit, ActiveStep, TypeAndAddedOnce, PTL DEF ProcessingSpec

-----------------------------------------------------------------------------
(* One active run                                                          *)

\* No two calls of enqueue overlapped, the process did not die, and Redis has
\* answered.
Undisturbed == happened \cap {"overlap", "crash", "redis"} = {}

\* Inductive: only the worker's job is executing; a job that waits, or is about
\* to be added, has not been executed, and the worker makes no run active that
\* was not; at most one handler is about to create a run, and only while no run
\* is active.
SerialInv ==
  Undisturbed =>
    /\ \A q \in Requests :
         /\ enqueue[q] # "failing"
         /\ enqueue[q] = "adding" => run[q] \in {"QUEUED", "NONE"}
         /\ job[q] = "active" => worker.run = q
         /\ job[q] = "waiting" => run[q] \in {"QUEUED", "NONE"}
         /\ worker.run = q /\ worker.at # "ended" => run[q] \in Active \cup {"NONE"}
    /\ \A q, r \in Requests :
         /\ run[q] \in Active /\ run[r] \in Active => q = r
         /\ enqueue[q] = "creating" => run[r] \notin Active
         /\ enqueue[q] = "creating" /\ enqueue[r] = "creating" => q = r

\* A history that is undisturbed was so before.
LEMMA UndisturbedBefore ==
  ASSUME [ProcessingNext]_processingVars, Undisturbed'
  PROVE  Undisturbed
<1>1. happened \subseteq happened'
  BY DEF ProcessingNext, processingVars, odd, Look, EnqueueStep, CreateRun, AddJob,
         FailQueuedRun, EnqueueDatabaseFault, Take, Stall, WorkerStep, UpdateStage,
         StageEnds, StageThrows, Complete, FailRun, WorkerDatabaseFault, Finish, Remove,
         Crash, Fault
<1> QED
  BY <1>1 DEF Undisturbed

LEMMA EnqueueSerialStep ==
  ASSUME ProcessingTypeOK, AddedOnce, SerialInv, Undisturbed, Undisturbed',
         NEW q \in Requests, Look(q) \/ EnqueueStep(q)
  PROVE  SerialInv'
<1> USE DEF SerialInv, AddedOnce, ProcessingTypeOK, Active, Stages, RunStates, queue, odd, Answer
<1>1. CASE Look(q)
  BY <1>1 DEF Look, SomeActive, Undisturbed
<1>2. CASE CreateRun(q)
  BY <1>2 DEF CreateRun
<1>3. CASE AddJob(q)
  BY <1>3 DEF AddJob, Fault, Undisturbed
<1>4. CASE FailQueuedRun(q)
  BY <1>4 DEF FailQueuedRun, Update
<1>5. CASE EnqueueDatabaseFault(q)
  BY <1>5 DEF EnqueueDatabaseFault
<1> QED
  BY <1>1, <1>2, <1>3, <1>4, <1>5 DEF EnqueueStep

\* An update makes no row, and no other run active.
LEMMA UpdateFact ==
  ASSUME RowsTyped, NEW q \in Requests, NEW state, Update(q, state)
  PROVE  /\ run'[q] = IF run[q] = "NONE" THEN "NONE" ELSE state
         /\ \A r \in Requests \ {q} : run'[r] = run[r]
  BY DEF RowsTyped, Update

\* An update of an active run, made by the worker that executes it, keeps the
\* run of the worker the only one that may be active.
LEMMA UpdateSerial ==
  ASSUME ProcessingTypeOK, AddedOnce, SerialInv, Undisturbed, NEW state \in RunStates,
         worker.at \notin {"idle", "ended"}, Update(worker.run, state),
         UNCHANGED <<enqueue, job>>, worker'.run = worker.run,
         state \in Active \/ worker'.at = "ended"
  PROVE  SerialInv'
<1> DEFINE w == worker.run
<1>1. w \in Requests /\ job[w] = "active" /\ run[w] \in Active \cup {"NONE"}
  BY DEF ProcessingTypeOK, SerialInv
<1>2. /\ run'[w] = IF run[w] = "NONE" THEN "NONE" ELSE state
      /\ \A r \in Requests \ {w} : run'[r] = run[r]
  BY <1>1, UpdateFact, TypeSplit
<1>3. \A r \in Requests : run'[r] \in Active => run[r] \in Active
  BY <1>1, <1>2 DEF Active, Stages
<1>4. enqueue[w] # "adding"
  BY <1>1 DEF AddedOnce
<1> HIDE DEF w
<1> QED
  BY <1>1, <1>2, <1>3, <1>4 DEF SerialInv, w

LEMMA WorkerSerialStep ==
  ASSUME ProcessingTypeOK, AddedOnce, SerialInv, Undisturbed, Undisturbed', WorkerStep
  PROVE  SerialInv'
<1> USE DEF SerialInv, ProcessingTypeOK, Active, Stages, RunStates, queue, odd, Move
<1>1. CASE UpdateStage
  <2>1. worker.at = "updating" /\ worker.stage \in Stages
    BY <1>1 DEF UpdateStage
  <2>2. worker'.run = worker.run
    BY <1>1 DEF UpdateStage
  <2> QED
    BY <1>1, <2>1, <2>2, UpdateSerial DEF UpdateStage
<1>2. CASE StageEnds
  BY <1>2 DEF StageEnds
<1>3. CASE StageThrows
  BY <1>3 DEF StageThrows
<1>4. CASE Complete
  <2>1. worker'.run = worker.run /\ worker'.at = "ended"
    BY <1>4 DEF Complete
  <2> QED
    BY <1>4, <2>1, UpdateSerial DEF Complete
<1>5. CASE FailRun
  <2>1. worker'.run = worker.run /\ worker'.at = "ended"
    BY <1>5 DEF FailRun
  <2> QED
    BY <1>5, <2>1, UpdateSerial DEF FailRun
<1>6. CASE WorkerDatabaseFault
  BY <1>6 DEF WorkerDatabaseFault
<1>7. CASE Finish
  BY <1>7, IdleFact, ProcessingAssumption DEF Finish
<1> QED
  BY <1>1, <1>2, <1>3, <1>4, <1>5, <1>6, <1>7 DEF WorkerStep

LEMMA OtherSerialStep ==
  ASSUME ProcessingTypeOK, AddedOnce, SerialInv, Undisturbed, Undisturbed',
         (\E q \in Requests : Take(q) \/ Stall(q)) \/ Remove \/ Crash
  PROVE  SerialInv'
<1> USE DEF SerialInv, ProcessingTypeOK, Active, Stages, RunStates, queue, odd
<1>1. ASSUME NEW q \in Requests, Take(q) PROVE SerialInv'
  <2>1. worker'.run = q /\ worker'.at = "updating"
    BY <1>1 DEF Take, IdleWorker
  <2>2. /\ job[q] = "waiting" /\ worker.at = "idle" /\ job' = [job EXCEPT ![q] = "active"]
        /\ UNCHANGED <<enqueue, run>>
    BY <1>1 DEF Take
  <2> QED
    BY <2>1, <2>2, ProcessingAssumption
<1>2. ASSUME NEW q \in Requests, Stall(q) PROVE SerialInv'
  BY <1>2 DEF Stall
<1>3. CASE Remove
  BY <1>3 DEF Remove
<1>4. CASE Crash
  BY <1>4 DEF Crash, Fault, Undisturbed
<1> QED
  BY <1>1, <1>2, <1>3, <1>4

LEMMA SerialStep ==
  ASSUME ProcessingTypeOK, AddedOnce, SerialInv, [ProcessingNext]_processingVars
  PROVE  SerialInv'
<1> SUFFICES ASSUME Undisturbed' PROVE SerialInv'
  BY DEF SerialInv
<1>1. Undisturbed
  BY UndisturbedBefore
<1>2. CASE UNCHANGED processingVars
  BY <1>1, <1>2 DEF SerialInv, processingVars, queue, odd
<1> QED
  BY <1>1, <1>2, EnqueueSerialStep, WorkerSerialStep, OtherSerialStep DEF ProcessingNext

\* A set has at most one element if all its elements are equal.
LEMMA AtMostOne ==
  ASSUME NEW S, \A x, y \in S : x = y
  PROVE  Cardinality(S) <= 1
<1>1. CASE S = {}
  BY <1>1, FS_EmptySet
<1>2. CASE S # {}
  <2>1. PICK x \in S : TRUE
    BY <1>2
  <2>2. S = {x}
    BY <2>1
  <2> QED
    BY <2>2, FS_Singleton
<1> QED
  BY <1>1, <1>2

\* A repository has at most one active run, as long as no two calls of enqueue
\* overlap, the process does not die and Redis answers.
THEOREM RunsAreSerial == ProcessingSpec => []OneActiveRun
<1>1. ProcessingInit => SerialInv
  BY IdleFact, ProcessingAssumption DEF ProcessingInit, SerialInv, Active, Stages
<1>2. SerialInv => OneActiveRun
  BY AtMostOne DEF SerialInv, OneActiveRun, Undisturbed
<1> QED
  BY <1>1, <1>2, SerialStep, TypeAndAddedOnce, PTL DEF ProcessingSpec
=============================================================================
