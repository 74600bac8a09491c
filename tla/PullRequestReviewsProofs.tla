---------------------- MODULE PullRequestReviewsProofs ----------------------
(***************************************************************************)
(* Proofs about PullRequestReviews, for every set of repositories and      *)
(* commits, any number of pushes, redeliveries and faults, and whatever    *)
(* Redis keeps.  Each property has a section with the invariant that       *)
(* carries it; the sections on what a step changes serve all of them.      *)
(***************************************************************************)
EXTENDS PullRequestReviews, SequenceTheorems, TLAPS

-----------------------------------------------------------------------------
(* Types.                                                                  *)

\* The key of a busy worker is that of a run: NoKey is not one.
LEMMA NoKeyFact == NoKey \notin Keys
  BY ConstantsAssumption DEF NoKey, Keys

\* The answers of the handler and the idle processes have their types.
LEMMA IdleFact ==
  /\ \A reply \in HandlerReply : IdleHandler(reply) \in HandlerType
  /\ \A reply \in HandlerReply : IdleHandler(reply).pc = "idle"
  /\ IdleWorker \in WorkerType
  /\ IdleWorker.pc = "idle" /\ IdleWorker.key = NoKey /\ IdleWorker.check = "none"
  BY DEF IdleHandler, IdleWorker, HandlerType, WorkerType, HandlerPc, RunStatus,
         WorkerPc

\* The handler of a delivery works on the key of a run.
LEMMA HandlerKeyFact ==
  ASSUME TypeOK, NEW d \in Deliveries,
         handler[d].pc \in {"find", "save", "add", "fail"}
  PROVE  HandlerKey(d) \in Keys
  BY DEF TypeOK, GithubTypeOK, HandlersTypeOK, HandlerKey, Keys

\* A handler stays well-typed when its new record is.
LEMMA HandlerMoves ==
  ASSUME TypeOK, UNCHANGED pushes, NEW d \in Deliveries, d <= pushes,
         NEW next \in HandlerType,
         next.pc = "upsert" => next.todo # {},
         next.pc \in {"find", "save", "add", "fail"} => next.repo \in Repositories,
         handler' = [handler EXCEPT ![d] = next]
  PROVE  HandlersTypeOK'
  BY DEF TypeOK, HandlersTypeOK

\* Answering with an error keeps the handler well-typed.
LEMMA AbortTypes ==
  ASSUME TypeOK, UNCHANGED github, NEW d \in Deliveries, Abort(d)
  PROVE  HandlersTypeOK'
  BY IdleFact DEF Abort, TypeOK, GithubTypeOK, HandlersTypeOK, HandlerReply, github

\* Going on to the next repository keeps the handler well-typed.
LEMMA NextRepositoryTypes ==
  ASSUME TypeOK, UNCHANGED github, NEW d \in Deliveries, NEW added \in BOOLEAN,
         handler[d].pc # "idle", NextRepository(d, added)
  PROVE  HandlersTypeOK'
<1> DEFINE h == handler[d]
           some == h.queued \/ added
           next == IF h.todo = {}
                   THEN IdleHandler(IF some THEN "queued" ELSE "alreadyReviewed")
                   ELSE [h EXCEPT !.pc = "upsert", !.repo = NoRepository,
                                  !.queued = some]
<1>1. handler' = [handler EXCEPT ![d] = next]
  BY DEF NextRepository
<1>2. h \in HandlerType /\ some \in BOOLEAN
  BY DEF TypeOK, HandlersTypeOK, HandlerType
<1>3. next \in HandlerType
  <2>1. CASE h.todo = {}
    BY <2>1, IdleFact DEF HandlerReply
  <2>2. CASE h.todo # {}
    BY <1>2, <2>2 DEF HandlerType, HandlerPc
  <2> QED
    BY <2>1, <2>2
<1>4. next.pc = "idle" \/ (next.pc = "upsert" /\ next.todo # {})
  BY <1>2, IdleFact DEF HandlerType, HandlerReply
<1>5. d <= pushes /\ UNCHANGED pushes
  BY DEF TypeOK, HandlersTypeOK, github
<1> HIDE DEF next
<1> QED
  BY <1>1, <1>3, <1>4, <1>5, HandlerMoves

\* In the initial state every variable has its type.
LEMMA TypeInit == Init => TypeOK
<1> SUFFICES ASSUME Init PROVE TypeOK
  OBVIOUS
<1>1. GithubTypeOK
  BY ConstantsAssumption DEF Init, GithubTypeOK, Deliveries
<1>2. HandlersTypeOK
  BY IdleFact DEF Init, HandlersTypeOK, HandlerReply
<1>3. RowsTypeOK /\ QueueTypeOK /\ PostedTypeOK
  BY DEF Init, RowsTypeOK, QueueTypeOK, PostedTypeOK, RunStatus, JobState,
         Conclusions
<1>4. WorkerTypeOK /\ CheckCounted
  BY IdleFact DEF Init, WorkerTypeOK, CheckCounted
<1>5. OddTypeOK
  BY ConstantsAssumption DEF Init, OddTypeOK
<1> QED
  BY <1>1, <1>2, <1>3, <1>4, <1>5 DEF TypeOK

\* A part of the state that a step leaves alone keeps its type.
LEMMA Frame ==
  ASSUME TypeOK
  PROVE  /\ UNCHANGED github => GithubTypeOK'
         /\ UNCHANGED <<github, handler>> => HandlersTypeOK'
         /\ UNCHANGED rows => RowsTypeOK'
         /\ UNCHANGED queue => QueueTypeOK'
         /\ UNCHANGED worker => WorkerTypeOK'
         /\ UNCHANGED posted => PostedTypeOK'
         /\ UNCHANGED <<worker, posted>> => CheckCounted'
         /\ UNCHANGED odd => OddTypeOK'
  BY DEF TypeOK, GithubTypeOK, HandlersTypeOK, RowsTypeOK, QueueTypeOK, WorkerTypeOK,
         PostedTypeOK, CheckCounted, OddTypeOK, github, rows, queue, posted, odd

\* Every step of the handlers, the worker, BullMQ, GitHub and the users keeps
\* the types.
LEMMA TypeStep == TypeOK /\ [Next]_vars => TypeOK'
<1> SUFFICES ASSUME TypeOK, [Next]_vars PROVE TypeOK'
  OBVIOUS
<1>0. CASE UNCHANGED vars
  BY <1>0, Frame DEF vars, TypeOK
<1>1. ASSUME NEW c \in Commits, Push(c) PROVE TypeOK'
  <2>1. GithubTypeOK'
    BY <1>1, ConstantsAssumption DEF TypeOK, GithubTypeOK, Push, Deliveries,
                                     github
  <2>2. HandlersTypeOK'
    BY <1>1 DEF TypeOK, GithubTypeOK, HandlersTypeOK, Push, Deliveries,
                github, HandlerType, HandlerPc, HandlerReply, RunStatus
  <2> QED
    BY <1>1, <2>1, <2>2, Frame DEF TypeOK, Push
<1>2. CASE ToggleConnection
  <2>1. GithubTypeOK'
    BY <1>2, ConstantsAssumption DEF TypeOK, GithubTypeOK, ToggleConnection,
                                     github
  <2>2. HandlersTypeOK'
    BY <1>2 DEF TypeOK, GithubTypeOK, HandlersTypeOK, ToggleConnection,
                github, HandlerType, HandlerPc, HandlerReply, RunStatus
  <2> QED
    BY <1>2, <2>1, <2>2, Frame DEF TypeOK, ToggleConnection
<1>3. ASSUME NEW r \in Repositories, RemoveRepository(r) PROVE TypeOK'
  <2>1. GithubTypeOK'
    BY <1>3, ConstantsAssumption DEF TypeOK, GithubTypeOK, RemoveRepository,
                                     github
  <2>2. RowsTypeOK'
    BY <1>3 DEF TypeOK, RowsTypeOK, GithubTypeOK, RemoveRepository, github,
                RunStatus
  <2>3. HandlersTypeOK'
    BY <1>3 DEF TypeOK, GithubTypeOK, HandlersTypeOK, RemoveRepository,
                github, HandlerType, HandlerPc, HandlerReply, RunStatus
  <2> QED
    BY <1>3, <2>1, <2>2, <2>3, Frame DEF TypeOK, RemoveRepository
<1>4. ASSUME NEW d \in Deliveries, Receive(d) PROVE TypeOK'
  <2>1. GithubTypeOK'
    BY <1>4, IdleFact, ConstantsAssumption DEF TypeOK, GithubTypeOK, Receive,
                                               Odd, Deliveries, github
  <2>2. HandlersTypeOK'
    <3> DEFINE found == IF connected THEN imported ELSE {}
               next == IF found = {} THEN IdleHandler("ignored")
                       ELSE [IdleHandler("none") EXCEPT !.pc = "upsert", !.todo = found]
    <3>1. handler' = [handler EXCEPT ![d] = next] /\ d <= pushes /\ UNCHANGED pushes
      BY <1>4 DEF Receive
    <3>2. found \in SUBSET Repositories
      BY DEF TypeOK, GithubTypeOK
    <3>3. next \in HandlerType
      BY <3>2, IdleFact DEF HandlerType, HandlerPc, HandlerReply
    <3>4. next.pc = "idle" \/ (next.pc = "upsert" /\ next.todo # {})
      BY IdleFact DEF HandlerType, HandlerReply
    <3> HIDE DEF next
    <3> QED
      BY <3>1, <3>3, <3>4, HandlerMoves
  <2>3. OddTypeOK'
    BY <1>4, IdleFact, ConstantsAssumption DEF TypeOK, OddTypeOK, Receive,
                                               Odd, Deliveries, github,
                                               FaultKinds
  <2> QED
    BY <1>4, <2>1, <2>2, <2>3, Frame DEF TypeOK, Receive
<1>5. ASSUME NEW d \in Deliveries, UpsertPullRequest(d) PROVE TypeOK'
  <2>1. HandlersTypeOK'
    <3>1. ASSUME NEW r \in Repositories,
                 handler' = [handler EXCEPT ![d].pc = "find", ![d].repo = r,
                                            ![d].todo = @ \ {r}]
          PROVE  HandlersTypeOK'
      BY <1>5, <3>1 DEF TypeOK, GithubTypeOK, HandlersTypeOK, HandlerType, HandlerPc,
           UpsertPullRequest, github
    <3>2. handler[d].todo \in SUBSET Repositories
      BY DEF TypeOK, HandlersTypeOK, HandlerType
    <3> QED
      BY <1>5, <3>1, <3>2, AbortTypes DEF UpsertPullRequest
  <2>2. RowsTypeOK'
    BY <1>5, IdleFact DEF TypeOK, RowsTypeOK, GithubTypeOK, UpsertPullRequest,
                          Abort, rows, github, RunStatus
  <2> QED
    BY <1>5, <2>1, <2>2, Frame DEF TypeOK, UpsertPullRequest
<1>6. ASSUME NEW d \in Deliveries, FindRun(d) PROVE TypeOK'
  <2>1. HandlersTypeOK'
    <3>1. CASE run[HandlerKey(d)] \in {"NONE", "FAILED"}
      <4> DEFINE next == [handler[d] EXCEPT !.pc = "save", !.seen = run[HandlerKey(d)]]
      <4>1. handler' = [handler EXCEPT ![d] = next]
        BY <1>6, <3>1 DEF FindRun, TypeOK, HandlersTypeOK
      <4>2. handler[d] \in HandlerType /\ handler[d].repo \in Repositories
        BY <1>6 DEF TypeOK, HandlersTypeOK, FindRun
      <4>3. next \in HandlerType /\ next.pc = "save" /\ next.repo \in Repositories
        BY <3>1, <4>2 DEF HandlerType, HandlerPc, RunStatus
      <4>4. d <= pushes /\ UNCHANGED pushes
        BY <1>6 DEF TypeOK, HandlersTypeOK, FindRun, github
      <4> HIDE DEF next
      <4> QED
        BY <4>1, <4>3, <4>4, HandlerMoves
    <3>2. CASE run[HandlerKey(d)] \notin {"NONE", "FAILED"}
      BY <1>6, <3>2, NextRepositoryTypes DEF FindRun
    <3> QED
      BY <3>1, <3>2
  <2> QED
    BY <1>6, <2>1, Frame DEF TypeOK, FindRun
<1>7. ASSUME NEW d \in Deliveries, SaveRun(d) PROVE TypeOK'
  <2>1. HandlersTypeOK'
    <3>1. CASE handler' = [handler EXCEPT ![d].pc = "add"]
      BY <1>7, <3>1 DEF TypeOK, GithubTypeOK, HandlersTypeOK, HandlerType, HandlerPc,
           SaveRun, github
    <3> QED
      BY <1>7, <3>1, AbortTypes DEF SaveRun
  <2>2. RowsTypeOK'
    BY <1>7, IdleFact, HandlerKeyFact DEF TypeOK, RowsTypeOK, GithubTypeOK,
                                          SaveRun, Abort, rows, github,
                                          RunStatus
  <2> QED
    BY <1>7, <2>1, <2>2, Frame DEF TypeOK, SaveRun
<1>8. ASSUME NEW d \in Deliveries, AddJob(d) PROVE TypeOK'
  <2>1. HandlersTypeOK'
    <3>1. CASE NextRepository(d, TRUE)
      BY <1>8, <3>1, NextRepositoryTypes DEF AddJob
    <3>2. CASE handler' = [handler EXCEPT ![d].pc = "fail"]
      BY <1>8, <3>2 DEF TypeOK, GithubTypeOK, HandlersTypeOK, HandlerType, HandlerPc,
           AddJob, github
    <3> QED
      BY <1>8, <3>1, <3>2 DEF AddJob
  <2>2. QueueTypeOK'
    BY <1>8, IdleFact, HandlerKeyFact DEF TypeOK, QueueTypeOK, AddJob, Enqueue,
                                          NextRepository, Fault, queue, odd,
                                          github, JobState
  <2>3. OddTypeOK'
    BY <1>8, IdleFact, HandlerKeyFact, ConstantsAssumption DEF TypeOK,
                                                               OddTypeOK,
                                                               AddJob,
                                                               NextRepository,
                                                               Fault, queue,
                                                               odd, github,
                                                               FaultKinds
  <2> QED
    BY <1>8, <2>1, <2>2, <2>3, Frame DEF TypeOK, AddJob
<1>9. ASSUME NEW d \in Deliveries, FailQueuedRun(d) PROVE TypeOK'
  <2>1. HandlersTypeOK'
    BY <1>9, AbortTypes DEF FailQueuedRun
  <2>2. RowsTypeOK'
    BY <1>9, IdleFact, HandlerKeyFact DEF TypeOK, RowsTypeOK, GithubTypeOK,
                                          FailQueuedRun, SetStatus, Abort,
                                          rows, github, RunStatus
  <2> QED
    BY <1>9, <2>1, <2>2, Frame DEF TypeOK, FailQueuedRun
<1>10. ASSUME NEW d \in Deliveries, HandlerDatabaseFault(d) PROVE TypeOK'
  <2>1. HandlersTypeOK'
    BY <1>10, AbortTypes DEF HandlerDatabaseFault
  <2>2. OddTypeOK'
    BY <1>10, IdleFact, ConstantsAssumption DEF TypeOK, OddTypeOK,
                                                HandlerDatabaseFault, Fault,
                                                Abort, github, FaultKinds
  <2> QED
    BY <1>10, <2>1, <2>2, Frame DEF TypeOK, HandlerDatabaseFault
<1>11. ASSUME NEW k \in Keys, Take(k) PROVE TypeOK'
  <2>1. QueueTypeOK'
    BY <1>11, NoKeyFact DEF TypeOK, QueueTypeOK, Take, IdleWorker, queue,
                            JobState
  <2>2. WorkerTypeOK'
    BY <1>11, NoKeyFact DEF TypeOK, WorkerTypeOK, Take, IdleWorker, queue,
                            WorkerType, WorkerPc, InsideTry
  <2>3. CheckCounted'
    BY <1>11, NoKeyFact DEF TypeOK, WorkerTypeOK, PostedTypeOK, CheckCounted,
                            Take, IdleWorker, queue, WorkerType
  <2> QED
    BY <1>11, <2>1, <2>2, <2>3, Frame DEF TypeOK, Take
<1>12. ASSUME NEW k \in Keys, Stall(k) PROVE TypeOK'
  <2>1. QueueTypeOK'
    BY <1>12 DEF TypeOK, QueueTypeOK, Stall, Retire, Odd, queue, odd, JobState
  <2>2. OddTypeOK'
    BY <1>12, ConstantsAssumption DEF TypeOK, OddTypeOK, Stall, Retire, Odd,
                                      queue, odd, FaultKinds
  <2> QED
    BY <1>12, <2>1, <2>2, Frame DEF TypeOK, Stall
<1>13. CASE Start
  <2>1. RowsTypeOK'
    BY <1>13, NoKeyFact DEF TypeOK, RowsTypeOK, GithubTypeOK, Start,
                            UpdateRun, SetStatus, Throw, Goto, rows, posted,
                            RunStatus
  <2>2. WorkerTypeOK'
    BY <1>13, NoKeyFact DEF TypeOK, WorkerTypeOK, Start, UpdateRun, SetStatus,
                            Throw, Goto, rows, posted, WorkerType, WorkerPc,
                            InsideTry
  <2>3. CheckCounted'
    BY <1>13, NoKeyFact DEF TypeOK, WorkerTypeOK, PostedTypeOK, CheckCounted,
                            Start, UpdateRun, SetStatus, Throw, Goto, rows,
                            posted, WorkerType
  <2> QED
    BY <1>13, <2>1, <2>2, <2>3, Frame DEF TypeOK, Start, UpdateRun
<1>14. CASE Load
  <2>1. WorkerTypeOK'
    BY <1>14, NoKeyFact DEF TypeOK, WorkerTypeOK, Load, Throw, Goto, posted,
                            WorkerType, WorkerPc, InsideTry
  <2>2. CheckCounted'
    BY <1>14, NoKeyFact DEF TypeOK, WorkerTypeOK, PostedTypeOK, CheckCounted,
                            Load, Throw, Goto, posted, WorkerType
  <2> QED
    BY <1>14, <2>1, <2>2, Frame DEF TypeOK, Load
<1>15. CASE Skip
  <2>1. RowsTypeOK'
    BY <1>15, NoKeyFact DEF TypeOK, RowsTypeOK, GithubTypeOK, Skip, UpdateRun,
                            SetStatus, Throw, Goto, rows, posted, RunStatus
  <2>2. WorkerTypeOK'
    BY <1>15, NoKeyFact DEF TypeOK, WorkerTypeOK, Skip, UpdateRun, SetStatus,
                            Throw, Goto, rows, posted, WorkerType, WorkerPc,
                            InsideTry
  <2>3. CheckCounted'
    BY <1>15, NoKeyFact DEF TypeOK, WorkerTypeOK, PostedTypeOK, CheckCounted,
                            Skip, UpdateRun, SetStatus, Throw, Goto, rows,
                            posted, WorkerType
  <2> QED
    BY <1>15, <2>1, <2>2, <2>3, Frame DEF TypeOK, Skip, UpdateRun
<1>16. CASE CreateCheck
  <2>1. WorkerTypeOK'
    BY <1>16, NoKeyFact DEF TypeOK, WorkerTypeOK, CreateCheck, Replied, Throw,
                            Goto, Fault, posted, odd, WorkerType, WorkerPc,
                            InsideTry
  <2>2. PostedTypeOK'
    BY <1>16, NoKeyFact DEF TypeOK, PostedTypeOK, CheckCounted, WorkerTypeOK,
                            CreateCheck, Replied, Throw, Goto, Fault, posted,
                            odd, WorkerType, WorkerPc, InsideTry, Conclusions
  <2>3. CheckCounted'
    <3>1. worker.key \in Keys
      BY <1>16 DEF TypeOK, WorkerTypeOK, WorkerType, CreateCheck
    <3>2. worker'.key = worker.key
      BY <1>16 DEF TypeOK, WorkerTypeOK, WorkerType, CreateCheck, Replied, Throw, Goto
    <3>3. openChecks'[worker.key] > 0
      BY <1>16, <3>1 DEF TypeOK, PostedTypeOK, CreateCheck
    <3> QED
      BY <3>2, <3>3 DEF CheckCounted
  <2>4. OddTypeOK'
    BY <1>16, NoKeyFact, ConstantsAssumption DEF TypeOK, OddTypeOK,
                                                 CreateCheck, Replied, Throw,
                                                 Goto, Fault, posted, odd,
                                                 FaultKinds
  <2> QED
    BY <1>16, <2>1, <2>2, <2>3, <2>4, Frame DEF TypeOK, CreateCheck
<1>17. CASE SaveCheck
  <2>1. RowsTypeOK'
    BY <1>17, NoKeyFact DEF TypeOK, RowsTypeOK, GithubTypeOK, SaveCheck,
                            UpdateRun, SetStatus, Throw, Goto, rows, posted,
                            RunStatus
  <2>2. WorkerTypeOK'
    BY <1>17, NoKeyFact DEF TypeOK, WorkerTypeOK, SaveCheck, UpdateRun,
                            SetStatus, Throw, Goto, rows, posted, WorkerType,
                            WorkerPc, InsideTry
  <2>3. CheckCounted'
    BY <1>17, NoKeyFact DEF TypeOK, WorkerTypeOK, PostedTypeOK, CheckCounted,
                            SaveCheck, UpdateRun, SetStatus, Throw, Goto,
                            rows, posted, WorkerType
  <2> QED
    BY <1>17, <2>1, <2>2, <2>3, Frame DEF TypeOK, SaveCheck, UpdateRun
<1>18. CASE ReadSources
  <2>1. WorkerTypeOK'
    <3>1. CurrentHead \in Commits \cup {NoCommit}
      BY DEF TypeOK, GithubTypeOK, CurrentHead, Deliveries
    <3> QED
      BY <1>18, <3>1 DEF TypeOK, WorkerTypeOK, ReadSources, WorkerType, WorkerPc,
                         InsideTry
  <2>2. CheckCounted'
    BY <1>18 DEF TypeOK, WorkerTypeOK, PostedTypeOK, CheckCounted,
                 ReadSources, CurrentHead, GithubTypeOK, Deliveries, posted,
                 WorkerType
  <2> QED
    BY <1>18, <2>1, <2>2, Frame DEF TypeOK, ReadSources
<1>19. CASE Generate
  <2>1. WorkerTypeOK'
    BY <1>19 DEF TypeOK, WorkerTypeOK, Generate, Goto, posted, WorkerType,
                 WorkerPc, InsideTry
  <2>2. CheckCounted'
    BY <1>19 DEF TypeOK, WorkerTypeOK, PostedTypeOK, CheckCounted, Generate,
                 Goto, posted, WorkerType
  <2> QED
    BY <1>19, <2>1, <2>2, Frame DEF TypeOK, Generate
<1>20. CASE PostReview
  <2>1. WorkerTypeOK'
    BY <1>20, NoKeyFact DEF TypeOK, WorkerTypeOK, PostReview, Replied, Throw,
                            Goto, Fault, posted, odd, WorkerType, WorkerPc,
                            InsideTry
  <2>2. PostedTypeOK'
    BY <1>20, NoKeyFact DEF TypeOK, PostedTypeOK, CheckCounted, WorkerTypeOK,
                            PostReview, Replied, Throw, Goto, Fault, posted,
                            odd, WorkerType, WorkerPc, InsideTry, Conclusions
  <2>3. CheckCounted'
    BY <1>20, NoKeyFact DEF TypeOK, WorkerTypeOK, PostedTypeOK, CheckCounted,
                            PostReview, Replied, Throw, Goto, Fault, posted,
                            odd, WorkerType
  <2>4. OddTypeOK'
    BY <1>20, NoKeyFact, ConstantsAssumption DEF TypeOK, OddTypeOK,
                                                 PostReview, Replied, Throw,
                                                 Goto, Fault, posted, odd,
                                                 FaultKinds
  <2> QED
    BY <1>20, <2>1, <2>2, <2>3, <2>4, Frame DEF TypeOK, PostReview
<1>21. CASE CompleteCheck
  <2>1. WorkerTypeOK'
    BY <1>21, NoKeyFact DEF TypeOK, WorkerTypeOK, CompleteCheck, CloseCheck,
                            Fault, posted, odd, WorkerType, WorkerPc,
                            InsideTry
  <2>2. PostedTypeOK'
    BY <1>21, NoKeyFact DEF TypeOK, PostedTypeOK, CheckCounted, WorkerTypeOK,
                            CompleteCheck, CloseCheck, Fault, posted, odd,
                            WorkerType, WorkerPc, InsideTry, Conclusions
  <2>3. CheckCounted'
    BY <1>21, NoKeyFact DEF TypeOK, WorkerTypeOK, PostedTypeOK, CheckCounted,
                            CompleteCheck, CloseCheck, Fault, posted, odd,
                            WorkerType
  <2>4. OddTypeOK'
    BY <1>21, NoKeyFact, ConstantsAssumption DEF TypeOK, OddTypeOK,
                                                 CompleteCheck, CloseCheck,
                                                 Fault, posted, odd,
                                                 FaultKinds
  <2> QED
    BY <1>21, <2>1, <2>2, <2>3, <2>4, Frame DEF TypeOK, CompleteCheck,
                                                CloseCheck
<1>22. CASE SaveCompleted
  <2>1. RowsTypeOK'
    BY <1>22, NoKeyFact DEF TypeOK, RowsTypeOK, GithubTypeOK, SaveCompleted,
                            UpdateRun, SetStatus, Throw, Goto, rows, posted,
                            RunStatus
  <2>2. WorkerTypeOK'
    BY <1>22, NoKeyFact DEF TypeOK, WorkerTypeOK, SaveCompleted, UpdateRun,
                            SetStatus, Throw, Goto, rows, posted, WorkerType,
                            WorkerPc, InsideTry
  <2>3. CheckCounted'
    BY <1>22, NoKeyFact DEF TypeOK, WorkerTypeOK, PostedTypeOK, CheckCounted,
                            SaveCompleted, UpdateRun, SetStatus, Throw, Goto,
                            rows, posted, WorkerType
  <2> QED
    BY <1>22, <2>1, <2>2, <2>3, Frame DEF TypeOK, SaveCompleted, UpdateRun
<1>23. CASE FailCheck
  <2>1. WorkerTypeOK'
    BY <1>23, NoKeyFact DEF TypeOK, WorkerTypeOK, FailCheck, CloseCheck,
                            posted, WorkerType, WorkerPc, InsideTry
  <2>2. PostedTypeOK'
    BY <1>23, NoKeyFact DEF TypeOK, PostedTypeOK, CheckCounted, WorkerTypeOK,
                            FailCheck, CloseCheck, posted, WorkerType,
                            WorkerPc, InsideTry, Conclusions
  <2>3. CheckCounted'
    BY <1>23, NoKeyFact DEF TypeOK, WorkerTypeOK, PostedTypeOK, CheckCounted,
                            FailCheck, CloseCheck, posted, WorkerType
  <2> QED
    BY <1>23, <2>1, <2>2, <2>3, Frame DEF TypeOK, FailCheck, CloseCheck
<1>24. CASE FailRun
  <2>1. RowsTypeOK'
    BY <1>24, NoKeyFact DEF TypeOK, RowsTypeOK, GithubTypeOK, FailRun,
                            UpdateRun, SetStatus, Throw, Goto, rows, posted,
                            RunStatus
  <2>2. WorkerTypeOK'
    BY <1>24, NoKeyFact DEF TypeOK, WorkerTypeOK, FailRun, UpdateRun,
                            SetStatus, Throw, Goto, rows, posted, WorkerType,
                            WorkerPc, InsideTry
  <2>3. CheckCounted'
    BY <1>24, NoKeyFact DEF TypeOK, WorkerTypeOK, PostedTypeOK, CheckCounted,
                            FailRun, UpdateRun, SetStatus, Throw, Goto, rows,
                            posted, WorkerType
  <2> QED
    BY <1>24, <2>1, <2>2, <2>3, Frame DEF TypeOK, FailRun, UpdateRun
<1>25. CASE Finish
  <2>1. QueueTypeOK'
    BY <1>25, IdleFact, NoKeyFact DEF TypeOK, QueueTypeOK, Finish, Retire,
                                      Odd, queue, odd, JobState
  <2>2. WorkerTypeOK'
    BY <1>25, IdleFact, NoKeyFact DEF TypeOK, WorkerTypeOK, Finish, Retire,
                                      Odd, queue, odd, WorkerType, WorkerPc,
                                      InsideTry
  <2>3. CheckCounted'
    BY <1>25, IdleFact, NoKeyFact DEF TypeOK, WorkerTypeOK, PostedTypeOK,
                                      CheckCounted, Finish, Retire, Odd,
                                      queue, odd, WorkerType
  <2>4. OddTypeOK'
    BY <1>25, IdleFact, NoKeyFact, ConstantsAssumption DEF TypeOK, OddTypeOK,
                                                           Finish, Retire,
                                                           Odd, queue, odd,
                                                           FaultKinds
  <2> QED
    BY <1>25, <2>1, <2>2, <2>3, <2>4, Frame DEF TypeOK, Finish
<1>26. CASE WorkerDatabaseFault
  <2>1. WorkerTypeOK'
    BY <1>26, NoKeyFact DEF TypeOK, WorkerTypeOK, WorkerDatabaseFault, Fault,
                            Throw, Goto, posted, WorkerType, WorkerPc,
                            InsideTry
  <2>2. CheckCounted'
    BY <1>26, NoKeyFact DEF TypeOK, WorkerTypeOK, PostedTypeOK, CheckCounted,
                            WorkerDatabaseFault, Fault, Throw, Goto, posted,
                            WorkerType
  <2>3. OddTypeOK'
    BY <1>26, NoKeyFact, ConstantsAssumption DEF TypeOK, OddTypeOK,
                                                 WorkerDatabaseFault, Fault,
                                                 Throw, Goto, posted,
                                                 FaultKinds
  <2> QED
    BY <1>26, <2>1, <2>2, <2>3, Frame DEF TypeOK, WorkerDatabaseFault
<1>27. CASE GithubRefuses
  <2>1. WorkerTypeOK'
    BY <1>27, NoKeyFact DEF TypeOK, WorkerTypeOK, GithubRefuses, Fault, Throw,
                            Goto, posted, WorkerType, WorkerPc, InsideTry
  <2>2. CheckCounted'
    BY <1>27, NoKeyFact DEF TypeOK, WorkerTypeOK, PostedTypeOK, CheckCounted,
                            GithubRefuses, Fault, Throw, Goto, posted,
                            WorkerType
  <2>3. OddTypeOK'
    BY <1>27, NoKeyFact, ConstantsAssumption DEF TypeOK, OddTypeOK,
                                                 GithubRefuses, Fault, Throw,
                                                 Goto, posted, FaultKinds
  <2> QED
    BY <1>27, <2>1, <2>2, <2>3, Frame DEF TypeOK, GithubRefuses
<1>28. CASE OllamaFails
  <2>1. WorkerTypeOK'
    BY <1>28, NoKeyFact DEF TypeOK, WorkerTypeOK, OllamaFails, Fault, Throw,
                            Goto, posted, WorkerType, WorkerPc, InsideTry
  <2>2. CheckCounted'
    BY <1>28, NoKeyFact DEF TypeOK, WorkerTypeOK, PostedTypeOK, CheckCounted,
                            OllamaFails, Fault, Throw, Goto, posted,
                            WorkerType
  <2>3. OddTypeOK'
    BY <1>28, NoKeyFact, ConstantsAssumption DEF TypeOK, OddTypeOK,
                                                 OllamaFails, Fault, Throw,
                                                 Goto, posted, FaultKinds
  <2> QED
    BY <1>28, <2>1, <2>2, <2>3, Frame DEF TypeOK, OllamaFails
<1>29. CASE Crash
  <2>1. HandlersTypeOK'
    BY <1>29, IdleFact DEF TypeOK, GithubTypeOK, HandlersTypeOK, Crash, Fault,
                           github, HandlerType, HandlerPc, HandlerReply,
                           RunStatus
  <2>2. WorkerTypeOK'
    BY <1>29, IdleFact DEF TypeOK, WorkerTypeOK, Crash, Fault, github,
                           WorkerType, WorkerPc, InsideTry
  <2>3. CheckCounted'
    BY <1>29, IdleFact DEF TypeOK, WorkerTypeOK, PostedTypeOK, CheckCounted,
                           Crash, Fault, github, WorkerType
  <2>4. OddTypeOK'
    BY <1>29, IdleFact, ConstantsAssumption DEF TypeOK, OddTypeOK, Crash,
                                                Fault, github, FaultKinds
  <2> QED
    BY <1>29, <2>1, <2>2, <2>3, <2>4, Frame DEF TypeOK, Crash
<1> QED
  BY <1>0, <1>1, <1>2, <1>3, <1>4, <1>5, <1>6, <1>7, <1>8, <1>9,
             <1>10, <1>11, <1>12, <1>13, <1>14, <1>15, <1>16, <1>17, <1>18,
             <1>19, <1>20, <1>21, <1>22, <1>23, <1>24, <1>25, <1>26, <1>27,
             <1>28, <1>29
  DEF Next, HandlerStep, WorkerStep

\* The handlers, the rows, the queue, the worker and what was posted to GitHub
\* always have their types.
THEOREM TypeCorrect == Spec => []TypeOK
  BY TypeInit, TypeStep, PTL DEF Spec

-----------------------------------------------------------------------------
(* A COMPLETED run is published.                                           *)

\* The worker is between the start of processRun and its last update.
Executing == WorkerPc \ {"idle", "start", "jobDone", "jobFailed"}

\* Inductive: the review is posted before the check run is closed, and both come
\* before the COMPLETED status; a run that is COMPLETED already, because its job
\* stalled, is RUNNING again before anything else is done for it.
PublishedInv ==
  /\ CompletedIsPublished
  /\ worker.pc \in {"completeCheck", "saveCompleted"} =>
       reviews[worker.key] # << >>
  /\ worker.pc = "saveCompleted" => conclusion[worker.key] = "reviewed"
  /\ worker.pc \in Executing => run[worker.key] # "COMPLETED"

\* Posting a review for the worker's run leaves at least one.
LEMMA PostFact ==
  ASSUME TypeOK, worker.key \in Keys
  PROVE  Append(reviews[worker.key], worker.read) # << >>
<1>1. reviews[worker.key] \in Seq(Commits \cup {NoCommit})
  BY DEF TypeOK, PostedTypeOK
<1>2. worker.read \in Commits \cup {NoCommit}
  BY DEF TypeOK, WorkerTypeOK, WorkerType
<1> QED
  BY <1>1, <1>2, AppendProperties

\* Every step keeps PublishedInv.
LEMMA PublishedStep == TypeOK /\ PublishedInv /\ [Next]_vars => PublishedInv'
<1> SUFFICES ASSUME TypeOK, PublishedInv, [Next]_vars PROVE PublishedInv'
  OBVIOUS
<1> USE NoKeyFact DEF PublishedInv, CompletedIsPublished, Executing, TypeOK,
           RowsTypeOK, QueueTypeOK, WorkerTypeOK, PostedTypeOK, WorkerType,
           WorkerPc, InsideTry, github, rows, queue, posted, odd
<1>0. CASE UNCHANGED vars
  BY <1>0 DEF vars
<1>1. ASSUME NEW c \in Commits, Push(c) PROVE PublishedInv'
  BY <1>1 DEF Push
<1>2. CASE ToggleConnection
  BY <1>2 DEF ToggleConnection
<1>3. ASSUME NEW r \in Repositories, RemoveRepository(r) PROVE PublishedInv'
  BY <1>3 DEF RemoveRepository
<1>4. ASSUME NEW d \in Deliveries, Receive(d) PROVE PublishedInv'
  BY <1>4 DEF Receive, Odd
<1>5. ASSUME NEW d \in Deliveries, UpsertPullRequest(d) PROVE PublishedInv'
  BY <1>5 DEF UpsertPullRequest
<1>6. ASSUME NEW d \in Deliveries, FindRun(d) PROVE PublishedInv'
  BY <1>6 DEF FindRun
<1>7. ASSUME NEW d \in Deliveries, SaveRun(d) PROVE PublishedInv'
  BY <1>7 DEF SaveRun
<1>8. ASSUME NEW d \in Deliveries, AddJob(d) PROVE PublishedInv'
  BY <1>8 DEF AddJob, Fault
<1>9. ASSUME NEW d \in Deliveries, FailQueuedRun(d) PROVE PublishedInv'
  BY <1>9 DEF FailQueuedRun, SetStatus
<1>10. ASSUME NEW d \in Deliveries, HandlerDatabaseFault(d) PROVE PublishedInv'
  BY <1>10 DEF HandlerDatabaseFault, Fault
<1>11. ASSUME NEW k \in Keys, Take(k) PROVE PublishedInv'
  BY <1>11 DEF Take, IdleWorker
<1>12. ASSUME NEW k \in Keys, Stall(k) PROVE PublishedInv'
  BY <1>12 DEF Stall, Retire, Odd
<1>13. CASE Start
  BY <1>13 DEF Start, UpdateRun, SetStatus, Throw, Goto
<1>14. CASE Load
  BY <1>14 DEF Load, Throw, Goto
<1>15. CASE Skip
  BY <1>15 DEF Skip, UpdateRun, SetStatus, Throw, Goto
<1>16. CASE CreateCheck
  BY <1>16 DEF CreateCheck, Replied, Throw, Goto, Fault
<1>17. CASE SaveCheck
  BY <1>17 DEF SaveCheck, UpdateRun, SetStatus, Throw, Goto
<1>18. CASE ReadSources
  BY <1>18 DEF ReadSources
<1>19. CASE Generate
  BY <1>19 DEF Generate, Goto
<1>20. CASE PostReview
  <2>1. worker.key \in Keys /\ worker.pc = "post"
    BY <1>20 DEF PostReview, TypeOK, WorkerTypeOK, WorkerType
  <2>2. worker'.key = worker.key
    BY <1>20 DEF PostReview, Replied, Throw, Goto, TypeOK, WorkerTypeOK, WorkerType
  <2>3. worker'.pc \in {"completeCheck", "failCheck", "failRun"}
    BY <1>20, <2>1 DEF PostReview, Replied, Throw, Goto, TypeOK, WorkerTypeOK, WorkerType,
                     InsideTry
  <2>5. reviews' = [reviews EXCEPT ![worker.key] =
                      Append(reviews[worker.key], worker.read)]
    BY <1>20 DEF PostReview
  <2>6. Append(reviews[worker.key], worker.read) # << >>
    BY <2>1, PostFact
  <2>8. \A k \in Keys : k = worker.key \/ reviews[k] # << >> => reviews'[k] # << >>
    BY <2>1, <2>5, <2>6 DEF TypeOK, PostedTypeOK
  <2>7. run' = run /\ conclusion' = conclusion
    BY <1>20 DEF PostReview, rows
  <2> QED
    BY <2>1, <2>2, <2>3, <2>7, <2>8
    DEF PublishedInv, CompletedIsPublished, Executing, WorkerPc, InsideTry
<1>21. CASE CompleteCheck
  BY <1>21 DEF CompleteCheck, CloseCheck, Fault
<1>22. CASE SaveCompleted
  BY <1>22 DEF SaveCompleted, UpdateRun, SetStatus, Throw, Goto
<1>23. CASE FailCheck
  BY <1>23 DEF FailCheck, CloseCheck
<1>24. CASE FailRun
  BY <1>24 DEF FailRun, UpdateRun, SetStatus, Throw, Goto
<1>25. CASE Finish
  BY <1>25 DEF Finish, Retire, Odd, IdleWorker
<1>26. CASE WorkerDatabaseFault
  BY <1>26 DEF WorkerDatabaseFault, Fault, Throw, Goto
<1>27. CASE GithubRefuses
  BY <1>27 DEF GithubRefuses, Fault, Throw, Goto
<1>28. CASE OllamaFails
  BY <1>28 DEF OllamaFails, Fault, Throw, Goto
<1>29. CASE Crash
  BY <1>29 DEF Crash, Fault, IdleWorker
<1> QED
  BY <1>0, <1>1, <1>2, <1>3, <1>4, <1>5, <1>6, <1>7, <1>8, <1>9, <1>10,
           <1>11, <1>12, <1>13, <1>14, <1>15, <1>16, <1>17, <1>18, <1>19,
           <1>20, <1>21, <1>22, <1>23, <1>24, <1>25, <1>26, <1>27, <1>28, <1>29
  DEF Next, HandlerStep, WorkerStep

\* A run shown as COMPLETED has a review on GitHub and a check run closed with
\* its result.
THEOREM CompletedPublished == Spec => []CompletedIsPublished
<1>1. Init => PublishedInv
  BY DEF Init, PublishedInv, CompletedIsPublished, IdleWorker, Executing, WorkerPc,
         InsideTry
<1>2. PublishedInv => CompletedIsPublished
  BY DEF PublishedInv
<1> QED
  BY <1>1, <1>2, TypeCorrect, PublishedStep, PTL DEF Spec

-----------------------------------------------------------------------------
(* A RUNNING run has a job.                                                *)

\* Inductive: the worker executes only the active job it took, and processRun
\* does not resolve or reject while its run is RUNNING.
JobInv ==
  /\ BusyWorkerHoldsJob
  /\ RunningHasJob
  /\ "database" \notin happened /\ worker.pc \in {"jobDone", "jobFailed"} =>
       run[worker.key] # "RUNNING"

\* Every step keeps JobInv.
LEMMA JobStep == TypeOK /\ JobInv /\ [Next]_vars => JobInv'
<1> SUFFICES ASSUME TypeOK, JobInv, [Next]_vars PROVE JobInv'
  OBVIOUS
<1> USE NoKeyFact DEF JobInv, BusyWorkerHoldsJob, RunningHasJob, TypeOK,
           RowsTypeOK, QueueTypeOK, WorkerTypeOK, PostedTypeOK, WorkerType,
           WorkerPc, InsideTry, github, rows, queue, posted, odd
<1>0. CASE UNCHANGED vars
  BY <1>0 DEF vars
<1>1. ASSUME NEW c \in Commits, Push(c) PROVE JobInv'
  BY <1>1 DEF Push
<1>2. CASE ToggleConnection
  BY <1>2 DEF ToggleConnection
<1>3. ASSUME NEW r \in Repositories, RemoveRepository(r) PROVE JobInv'
  BY <1>3 DEF RemoveRepository
<1>4. ASSUME NEW d \in Deliveries, Receive(d) PROVE JobInv'
  BY <1>4 DEF Receive, Odd
<1>5. ASSUME NEW d \in Deliveries, UpsertPullRequest(d) PROVE JobInv'
  BY <1>5 DEF UpsertPullRequest
<1>6. ASSUME NEW d \in Deliveries, FindRun(d) PROVE JobInv'
  BY <1>6 DEF FindRun
<1>7. ASSUME NEW d \in Deliveries, SaveRun(d) PROVE JobInv'
  BY <1>7 DEF SaveRun
<1>8. ASSUME NEW d \in Deliveries, AddJob(d) PROVE JobInv'
  BY <1>8 DEF AddJob, Enqueue, Fault
<1>9. ASSUME NEW d \in Deliveries, FailQueuedRun(d) PROVE JobInv'
  BY <1>9 DEF FailQueuedRun, SetStatus
<1>10. ASSUME NEW d \in Deliveries, HandlerDatabaseFault(d) PROVE JobInv'
  BY <1>10 DEF HandlerDatabaseFault, Fault
<1>11. ASSUME NEW k \in Keys, Take(k) PROVE JobInv'
  BY <1>11 DEF Take, IdleWorker
<1>12. ASSUME NEW k \in Keys, Stall(k) PROVE JobInv'
  <2>1. /\ stalls' = [stalls EXCEPT ![k] = stalls[k] + 1]
        /\ worker' = worker /\ run' = run /\ worker.key # k
        /\ happened \subseteq happened'
    BY <1>12 DEF Stall, Retire, Odd, rows, odd
  <2>2. CASE stalls[k] < MaxStalls
    <3>1. job' = [job EXCEPT ![k] = "waiting"]
      BY <1>12, <2>2 DEF Stall
    <3>2. \A j \in Keys : j # k => job'[j] = job[j] /\ stalls'[j] = stalls[j]
      BY <2>1, <3>1 DEF TypeOK, QueueTypeOK
    <3>3. job'[k] = "waiting"
      BY <3>1 DEF TypeOK, QueueTypeOK
    <3>4. worker.pc # "idle" => worker.key \in Keys
      BY <2>1 DEF TypeOK, WorkerTypeOK, WorkerType
    <3> QED
      BY <2>1, <3>2, <3>3, <3>4 DEF JobInv, BusyWorkerHoldsJob, RunningHasJob
  <2>3. CASE ~(stalls[k] < MaxStalls)
    <3>1. stalls'[k] > MaxStalls
      BY <2>1, <2>3, ConstantsAssumption DEF TypeOK, QueueTypeOK
    <3>2. \A j \in Keys \ {k} :
            job'[j] = job[j] \/ (job[j] = "failed" /\ job'[j] = "absent")
      <4> DEFINE ended == [job EXCEPT ![k] = "failed"]
                 kept  == {j \in Keys \ {k} : job[j] = "failed"}
      <4>1. job' = ended \/ \E old \in kept : job' = [ended EXCEPT ![old] = "absent"]
        BY <1>12, <2>3 DEF Stall, Retire
      <4>2. /\ ended \in [Keys -> JobState]
            /\ \A j \in Keys \ {k} : ended[j] = job[j]
        BY DEF TypeOK, QueueTypeOK, JobState
      <4> HIDE DEF ended, kept
      <4>3. ASSUME NEW old \in kept, job' = [ended EXCEPT ![old] = "absent"],
                   NEW j \in Keys \ {k}
            PROVE  job'[j] = job[j] \/ (job[j] = "failed" /\ job'[j] = "absent")
        BY <4>2, <4>3 DEF kept
      <4> QED
        BY <4>1, <4>2, <4>3
    <3>3. \A j \in Keys \ {k} : stalls'[j] = stalls[j]
      BY <2>1 DEF TypeOK, QueueTypeOK
    <3>4. worker.pc # "idle" => worker.key \in Keys \ {k}
      BY <2>1 DEF TypeOK, WorkerTypeOK, WorkerType
    <3>5. BusyWorkerHoldsJob'
      BY <2>1, <3>2, <3>4 DEF JobInv, BusyWorkerHoldsJob
    <3>6. RunningHasJob'
      BY <2>1, <3>1, <3>2, <3>3 DEF JobInv, RunningHasJob
    <3> QED
      BY <2>1, <3>5, <3>6 DEF JobInv
  <2> QED
    BY <2>2, <2>3
<1>13. CASE Start
  BY <1>13 DEF Start, UpdateRun, SetStatus, Throw, Goto
<1>14. CASE Load
  BY <1>14 DEF Load, Throw, Goto
<1>15. CASE Skip
  BY <1>15 DEF Skip, UpdateRun, SetStatus, Throw, Goto
<1>16. CASE CreateCheck
  BY <1>16 DEF CreateCheck, Replied, Throw, Goto, Fault
<1>17. CASE SaveCheck
  BY <1>17 DEF SaveCheck, UpdateRun, SetStatus, Throw, Goto
<1>18. CASE ReadSources
  BY <1>18 DEF ReadSources
<1>19. CASE Generate
  BY <1>19 DEF Generate, Goto
<1>20. CASE PostReview
  BY <1>20 DEF PostReview, Replied, Throw, Goto, Fault
<1>21. CASE CompleteCheck
  BY <1>21 DEF CompleteCheck, CloseCheck, Fault
<1>22. CASE SaveCompleted
  BY <1>22 DEF SaveCompleted, UpdateRun, SetStatus, Throw, Goto
<1>23. CASE FailCheck
  BY <1>23 DEF FailCheck, CloseCheck
<1>24. CASE FailRun
  BY <1>24 DEF FailRun, UpdateRun, SetStatus, Throw, Goto
<1>25. CASE Finish
  BY <1>25 DEF Finish, Retire, Odd, IdleWorker
<1>26. CASE WorkerDatabaseFault
  BY <1>26 DEF WorkerDatabaseFault, Fault, Throw, Goto
<1>27. CASE GithubRefuses
  BY <1>27 DEF GithubRefuses, Fault, Throw, Goto
<1>28. CASE OllamaFails
  BY <1>28 DEF OllamaFails, Fault, Throw, Goto
<1>29. CASE Crash
  BY <1>29 DEF Crash, Fault, IdleWorker
<1> QED
  BY <1>0, <1>1, <1>2, <1>3, <1>4, <1>5, <1>6, <1>7, <1>8, <1>9, <1>10,
           <1>11, <1>12, <1>13, <1>14, <1>15, <1>16, <1>17, <1>18, <1>19,
           <1>20, <1>21, <1>22, <1>23, <1>24, <1>25, <1>26, <1>27, <1>28, <1>29
  DEF Next, HandlerStep, WorkerStep

\* The worker executes active jobs, and RUNNING runs have theirs.
LEMMA JobInvariant == Spec => []JobInv
<1>1. Init => JobInv
  BY DEF Init, JobInv, BusyWorkerHoldsJob, RunningHasJob, IdleWorker
<1> QED
  BY <1>1, TypeCorrect, JobStep, PTL DEF Spec

\* As long as the database has answered, a RUNNING run has a job that can settle
\* it, unless the job has stalled too often.
THEOREM RunningHasItsJob == Spec => []RunningHasJob
<1>1. JobInv => RunningHasJob
  BY DEF JobInv
<1> QED
  BY <1>1, JobInvariant, PTL

-----------------------------------------------------------------------------
(* Check runs are closed.                                                  *)

\* Inductive: the catch block knows the id of every check run in progress.
CheckInv ==
  /\ ChecksClosed
  /\ worker.pc \in {"start", "load", "skip", "createCheck"} =>
       worker.check = "none"
  /\ worker.pc \in {"saveCheck", "sources", "generate", "post", "completeCheck"} =>
       worker.check = "open"
  /\ happened \cap {"crash", "github", "lostReply"} = {} /\ worker.check = "open" =>
       worker.pc \in {"saveCheck", "sources", "generate", "post", "completeCheck",
                      "failCheck"}

\* Every step keeps CheckInv.
LEMMA CheckStep == TypeOK /\ CheckInv /\ [Next]_vars => CheckInv'
<1> SUFFICES ASSUME TypeOK, CheckInv, [Next]_vars PROVE CheckInv'
  OBVIOUS
<1> USE NoKeyFact DEF CheckInv, ChecksClosed, TypeOK, RowsTypeOK, QueueTypeOK,
           WorkerTypeOK, PostedTypeOK, WorkerType, WorkerPc, InsideTry, github,
           rows, queue, posted, odd
<1>0. CASE UNCHANGED vars
  BY <1>0 DEF vars
<1>1. ASSUME NEW c \in Commits, Push(c) PROVE CheckInv'
  BY <1>1 DEF Push
<1>2. CASE ToggleConnection
  BY <1>2 DEF ToggleConnection
<1>3. ASSUME NEW r \in Repositories, RemoveRepository(r) PROVE CheckInv'
  BY <1>3 DEF RemoveRepository
<1>4. ASSUME NEW d \in Deliveries, Receive(d) PROVE CheckInv'
  BY <1>4 DEF Receive, Odd
<1>5. ASSUME NEW d \in Deliveries, UpsertPullRequest(d) PROVE CheckInv'
  BY <1>5 DEF UpsertPullRequest
<1>6. ASSUME NEW d \in Deliveries, FindRun(d) PROVE CheckInv'
  BY <1>6 DEF FindRun
<1>7. ASSUME NEW d \in Deliveries, SaveRun(d) PROVE CheckInv'
  BY <1>7 DEF SaveRun
<1>8. ASSUME NEW d \in Deliveries, AddJob(d) PROVE CheckInv'
  BY <1>8 DEF AddJob, Fault
<1>9. ASSUME NEW d \in Deliveries, FailQueuedRun(d) PROVE CheckInv'
  BY <1>9 DEF FailQueuedRun, SetStatus
<1>10. ASSUME NEW d \in Deliveries, HandlerDatabaseFault(d) PROVE CheckInv'
  BY <1>10 DEF HandlerDatabaseFault, Fault
<1>11. ASSUME NEW k \in Keys, Take(k) PROVE CheckInv'
  BY <1>11 DEF Take, IdleWorker
<1>12. ASSUME NEW k \in Keys, Stall(k) PROVE CheckInv'
  BY <1>12 DEF Stall, Retire, Odd
<1>13. CASE Start
  BY <1>13 DEF Start, UpdateRun, SetStatus, Throw, Goto
<1>14. CASE Load
  BY <1>14 DEF Load, Throw, Goto
<1>15. CASE Skip
  BY <1>15 DEF Skip, UpdateRun, SetStatus, Throw, Goto
<1>16. CASE CreateCheck
  <2>1. worker.key \in Keys /\ worker.pc = "createCheck" /\ worker.check = "none"
    BY <1>16 DEF CreateCheck, TypeOK, WorkerTypeOK, WorkerType, CheckInv
  <2>2. \A k \in Keys : openChecks'[k] = IF k = worker.key THEN openChecks[k] + 1
                                                            ELSE openChecks[k]
    BY <1>16, <2>1 DEF CreateCheck, TypeOK, PostedTypeOK
  <2>3. CASE worker' = [worker EXCEPT !.pc = "saveCheck", !.check = "open"]
             /\ UNCHANGED odd
    BY <2>1, <2>2, <2>3 DEF CheckInv, ChecksClosed, TypeOK, WorkerTypeOK, WorkerType, odd
  <2>4. CASE Fault("lostReply") /\ Throw
    BY <2>1, <2>4 DEF CheckInv, ChecksClosed, Fault, Throw, Goto, InsideTry, TypeOK,
                      WorkerTypeOK, WorkerType
  <2> QED
    BY <1>16, <2>3, <2>4 DEF CreateCheck, Replied
<1>17. CASE SaveCheck
  BY <1>17 DEF SaveCheck, UpdateRun, SetStatus, Throw, Goto
<1>18. CASE ReadSources
  BY <1>18 DEF ReadSources
<1>19. CASE Generate
  BY <1>19 DEF Generate, Goto
<1>20. CASE PostReview
  BY <1>20 DEF PostReview, Replied, Throw, Goto, Fault
<1>21. CASE CompleteCheck
  <2>1. worker.key \in Keys /\ worker.pc = "completeCheck" /\ worker.check = "open"
    BY <1>21 DEF CompleteCheck, TypeOK, WorkerTypeOK, WorkerType, CheckInv
  <2>2. \A k \in Keys : openChecks'[k] = IF k = worker.key THEN openChecks[k] - 1
                                                            ELSE openChecks[k]
    BY <1>21, <2>1 DEF CompleteCheck, CloseCheck, TypeOK, PostedTypeOK
  <2>3. /\ worker'.pc \in {"saveCompleted", "failCheck"}
        /\ worker'.check = "closed"
        /\ happened \subseteq happened'
    BY <1>21 DEF CompleteCheck, Fault, odd, TypeOK, WorkerTypeOK, WorkerType
  <2>4. ASSUME happened' \cap {"crash", "github", "lostReply"} = {}, NEW k \in Keys
        PROVE  openChecks'[k] = 0
    <3>1. openChecks[k] = IF k = worker.key THEN 1 ELSE 0
      BY <2>1, <2>3, <2>4 DEF CheckInv, ChecksClosed
    <3> QED
      BY <2>1, <2>2, <3>1
  <2> QED
    BY <2>3, <2>4 DEF CheckInv, ChecksClosed
<1>22. CASE SaveCompleted
  BY <1>22 DEF SaveCompleted, UpdateRun, SetStatus, Throw, Goto
<1>23. CASE FailCheck
  BY <1>23 DEF FailCheck, CloseCheck
<1>24. CASE FailRun
  BY <1>24 DEF FailRun, UpdateRun, SetStatus, Throw, Goto
<1>25. CASE Finish
  BY <1>25 DEF Finish, Retire, Odd, IdleWorker
<1>26. CASE WorkerDatabaseFault
  BY <1>26 DEF WorkerDatabaseFault, Fault, Throw, Goto
<1>27. CASE GithubRefuses
  <2>1. "github" \in happened'
    BY <1>27 DEF GithubRefuses, Fault
  <2>2. worker'.check = worker.check /\ worker'.pc \in {"failCheck", "failRun", "jobFailed"}
    BY <1>27 DEF GithubRefuses, Throw, Goto
  <2> QED
    BY <2>1, <2>2
<1>28. CASE OllamaFails
  BY <1>28 DEF OllamaFails, Fault, Throw, Goto
<1>29. CASE Crash
  BY <1>29 DEF Crash, Fault, IdleWorker
<1> QED
  BY <1>0, <1>1, <1>2, <1>3, <1>4, <1>5, <1>6, <1>7, <1>8, <1>9, <1>10,
           <1>11, <1>12, <1>13, <1>14, <1>15, <1>16, <1>17, <1>18, <1>19,
           <1>20, <1>21, <1>22, <1>23, <1>24, <1>25, <1>26, <1>27, <1>28, <1>29
  DEF Next, HandlerStep, WorkerStep

\* processRun leaves no check run in progress, unless the process died or a
\* request to GitHub failed.
THEOREM ChecksAreClosed == Spec => []ChecksClosed
<1>1. Init => CheckInv
  BY NoKeyFact DEF Init, CheckInv, ChecksClosed, IdleWorker
<1>2. CheckInv => ChecksClosed
  BY DEF CheckInv
<1> QED
  BY <1>1, <1>2, TypeCorrect, CheckStep, PTL DEF Spec

-----------------------------------------------------------------------------
(* What the steps leave alone.                                             *)

\* The states of processRun before it posts its review.
BeforePosting == {"start", "load", "skip", "createCheck", "saveCheck", "sources",
                  "generate", "post"}

\* A step of processRun, which is every step of the worker but Finish, leaves
\* GitHub's state, the handlers and the queue alone; it works on one run, of
\* which it neither makes nor deletes the row.
LEMMA ExecutionFrame ==
  ASSUME TypeOK, WorkerStep, ~Finish
  PROVE  /\ UNCHANGED <<github, handler, pullRequest, queue>>
         /\ worker.pc # "idle" /\ worker.key \in Keys
         /\ worker'.key = worker.key
         /\ worker'.pc \in BeforePosting => worker.pc \in BeforePosting
         /\ \A k \in Keys : /\ k # worker.key => run'[k] = run[k]
                            /\ run'[k] = "NONE" <=> run[k] = "NONE"
         /\ happened \subseteq happened'
         /\ happened' \subseteq happened \cup FaultKinds
<1> USE NoKeyFact DEF TypeOK, RowsTypeOK, WorkerTypeOK, WorkerType, WorkerPc, InsideTry,
        BeforePosting, FaultKinds, SetStatus, UpdateRun, Throw, Goto, Fault, rows, queue,
        odd, RunStatus
<1>1. CASE Start
  BY <1>1 DEF Start
<1>2. CASE Load
  BY <1>2 DEF Load
<1>3. CASE Skip
  BY <1>3 DEF Skip
<1>4. CASE CreateCheck
  BY <1>4 DEF CreateCheck, Replied
<1>5. CASE SaveCheck
  BY <1>5 DEF SaveCheck
<1>6. CASE ReadSources
  BY <1>6 DEF ReadSources
<1>7. CASE Generate
  BY <1>7 DEF Generate
<1>8. CASE PostReview
  BY <1>8 DEF PostReview, Replied
<1>9. CASE CompleteCheck
  BY <1>9 DEF CompleteCheck, CloseCheck
<1>10. CASE SaveCompleted
  BY <1>10 DEF SaveCompleted
<1>11. CASE FailCheck
  BY <1>11 DEF FailCheck, CloseCheck
<1>12. CASE FailRun
  BY <1>12 DEF FailRun
<1>13. CASE WorkerDatabaseFault
  BY <1>13 DEF WorkerDatabaseFault
<1>14. CASE GithubRefuses
  BY <1>14 DEF GithubRefuses
<1>15. CASE OllamaFails
  BY <1>15 DEF OllamaFails
<1> QED
  BY <1>1, <1>2, <1>3, <1>4, <1>5, <1>6, <1>7, <1>8, <1>9, <1>10, <1>11, <1>12, <1>13,
     <1>14, <1>15 DEF WorkerStep

\* The reviews are those of before unless one was posted.
LEMMA ReviewsFrame ==
  ASSUME WorkerStep, ~PostReview
  PROVE  UNCHANGED reviews
  BY DEF WorkerStep, Start, Load, Skip, CreateCheck, SaveCheck, ReadSources, Generate,
         CompleteCheck, SaveCompleted, FailCheck, FailRun, Finish, WorkerDatabaseFault,
         GithubRefuses, OllamaFails, UpdateRun, CloseCheck, posted

\* A step of a handler leaves GitHub and the worker alone.
LEMMA HandlerFrame ==
  ASSUME NEW d \in Deliveries, HandlerStep(d)
  PROVE  /\ UNCHANGED <<github, worker, posted>>
         /\ ~AddJob(d) => UNCHANGED queue
         /\ happened \subseteq happened'
         /\ happened' \subseteq happened \cup FaultKinds
  BY DEF HandlerStep, UpsertPullRequest, FindRun, SaveRun, AddJob, FailQueuedRun,
         HandlerDatabaseFault, Fault, odd, FaultKinds

\* When a job ends, the others stay as they are, except that one that ended
\* before may be dropped, which is an eviction.
LEMMA RetireFact ==
  ASSUME TypeOK, NEW k \in Keys, NEW state \in {"completed", "failed"},
         Retire(k, state)
  PROVE  /\ job'[k] = state
         /\ \A j \in Keys \ {k} :
              \/ job'[j] = job[j]
              \/ job[j] = state /\ job'[j] = "absent" /\ "eviction" \in happened'
         /\ happened \subseteq happened'
         /\ happened' \subseteq happened \cup {"eviction"}
<1> DEFINE kept  == {j \in Keys \ {k} : job[j] = state}
           ended == [job EXCEPT ![k] = state]
           full  == Cardinality(kept) >= Retained
<1>1. /\ ended \in [Keys -> JobState] /\ ended[k] = state
      /\ \A j \in Keys \ {k} : ended[j] = job[j]
  BY DEF TypeOK, QueueTypeOK, JobState
<1>2. /\ full => \E old \in kept : job' = [ended EXCEPT ![old] = "absent"]
      /\ ~full => job' = ended
      /\ happened' = IF full THEN happened \cup {"eviction"} ELSE happened
  BY DEF Retire, Odd
<1> HIDE DEF ended, full
<1>3. CASE full
  <2>1. PICK old \in kept : job' = [ended EXCEPT ![old] = "absent"]
    BY <1>2, <1>3
  <2> QED
    BY <1>1, <1>2, <1>3, <2>1
<1>4. CASE ~full
  BY <1>1, <1>2, <1>4
<1> QED
  BY <1>3, <1>4

-----------------------------------------------------------------------------
(* At most one review per execution.                                       *)

\* Inductive: a job that Redis does not know has posted nothing, and a job that
\* waits, or has not posted in this execution, has posted at most once in each
\* execution before, all of which stalled.
ReviewsCounted ==
  "eviction" \notin happened => \A k \in Keys :
    /\ Len(reviews[k]) <= 1 + stalls[k]
    /\ job[k] = "absent" => reviews[k] = << >>
    /\ job[k] = "waiting" \/ (worker.key = k /\ worker.pc \in BeforePosting) =>
         Len(reviews[k]) <= stalls[k]

\* Every step keeps ReviewsCounted; BusyWorkerHoldsJob says that a job that
\* ends, or posts, is not a waiting one.
LEMMA CountStep ==
  TypeOK /\ BusyWorkerHoldsJob /\ ReviewsCounted /\ [Next]_vars => ReviewsCounted'
<1> SUFFICES ASSUME TypeOK, BusyWorkerHoldsJob, ReviewsCounted, [Next]_vars
             PROVE  ReviewsCounted'
  OBVIOUS
<1> USE NoKeyFact
<1>a. /\ job \in [Keys -> JobState] /\ stalls \in [Keys -> Nat]
      /\ \A k \in Keys : reviews[k] \in Seq(Commits \cup {NoCommit})
      /\ \A k \in Keys : Len(reviews[k]) \in Nat
  BY DEF TypeOK, QueueTypeOK, PostedTypeOK
<1>1. CASE UNCHANGED <<queue, worker, reviews>> /\ happened \subseteq happened'
  BY <1>1 DEF ReviewsCounted, queue
<1>2. ASSUME NEW d \in Deliveries, AddJob(d) PROVE ReviewsCounted'
  <2> DEFINE k == HandlerKey(d)
  <2>1. k \in Keys
    BY <1>2, HandlerKeyFact DEF AddJob
  <2>2. UNCHANGED <<worker, reviews>> /\ happened \subseteq happened'
    BY <1>2, HandlerFrame DEF HandlerStep, posted
  <2>3. CASE UNCHANGED queue
    BY <1>1, <2>2, <2>3
  <2>4. CASE /\ job[k] = "absent"
             /\ job' = [job EXCEPT ![k] = "waiting"]
             /\ stalls' = [stalls EXCEPT ![k] = 0]
    <3>1. \A j \in Keys \ {k} : job'[j] = job[j] /\ stalls'[j] = stalls[j]
      BY <2>1, <2>4, <1>a
    <3>2. job'[k] = "waiting" /\ stalls'[k] = 0
      BY <2>1, <2>4, <1>a
    <3>3. "eviction" \notin happened => Len(reviews[k]) = 0
      BY <2>1, <2>4 DEF ReviewsCounted
    <3> HIDE DEF k
    <3> QED
      BY <2>1, <2>2, <3>1, <3>2, <3>3 DEF ReviewsCounted
  <2> QED
    BY <1>2, <2>3, <2>4 DEF AddJob, Enqueue
<1>3. ASSUME NEW k \in Keys, Take(k) PROVE ReviewsCounted'
  BY <1>a, <1>3 DEF Take, IdleWorker, ReviewsCounted, posted, odd, BeforePosting
<1>4. ASSUME NEW k \in Keys, Stall(k) PROVE ReviewsCounted'
  <2>1. /\ UNCHANGED <<worker, reviews>> /\ worker.key # k /\ job[k] = "active"
        /\ stalls'[k] = stalls[k] + 1
        /\ \A j \in Keys \ {k} : stalls'[j] = stalls[j]
    BY <1>a, <1>4 DEF Stall, posted
  <2>2. /\ job'[k] \in {"waiting", "failed"} /\ happened \subseteq happened'
        /\ "eviction" \notin happened' => \A j \in Keys \ {k} : job'[j] = job[j]
    BY <1>a, <1>4, RetireFact DEF Stall, odd
  <2> QED
    BY <1>a, <2>1, <2>2 DEF ReviewsCounted
<1>5. CASE WorkerStep /\ ~Finish /\ ~PostReview
  BY <1>a, <1>5, ExecutionFrame, ReviewsFrame DEF ReviewsCounted, queue
<1>6. CASE PostReview
  <2> DEFINE k == worker.key
  <2>1. /\ k \in Keys /\ worker'.key = k /\ UNCHANGED queue
        /\ happened \subseteq happened'
    BY <1>6, ExecutionFrame DEF WorkerStep, PostReview, Finish
  <2>2. worker.pc = "post" /\ job[k] = "active"
    BY <1>6 DEF PostReview, BusyWorkerHoldsJob
  <2>3. worker'.pc \notin BeforePosting
    BY <1>6, <2>2 DEF PostReview, Replied, Throw, Goto, InsideTry, BeforePosting, TypeOK,
       WorkerTypeOK, WorkerType
  <2>4. /\ Len(reviews'[k]) = Len(reviews[k]) + 1
        /\ \A j \in Keys \ {k} : reviews'[j] = reviews[j]
    BY <1>6, <2>1, PostFact, AppendProperties
    DEF PostReview, TypeOK, PostedTypeOK, WorkerTypeOK, WorkerType
  <2>5. "eviction" \notin happened => Len(reviews[k]) <= stalls[k]
    BY <2>1, <2>2 DEF ReviewsCounted, BeforePosting
  <2> HIDE DEF k
  <2> QED
    BY <1>a, <2>1, <2>2, <2>3, <2>4, <2>5 DEF ReviewsCounted, queue
<1>7. CASE Finish
  <2> DEFINE k == worker.key
  <2>1. k \in Keys /\ worker' = IdleWorker /\ UNCHANGED <<reviews, stalls>>
    BY <1>7 DEF Finish, TypeOK, WorkerTypeOK, WorkerType, posted
  <2>2. /\ job'[k] \in {"completed", "failed"} /\ happened \subseteq happened'
        /\ "eviction" \notin happened' => \A j \in Keys \ {k} : job'[j] = job[j]
    BY <1>7, <2>1, RetireFact DEF Finish
  <2> HIDE DEF k
  <2> QED
    BY <1>a, <2>1, <2>2, IdleFact DEF ReviewsCounted, BeforePosting, IdleWorker
<1>8. CASE Crash
  BY <1>a, <1>8 DEF Crash, Fault, IdleWorker, ReviewsCounted, queue, posted, BeforePosting
<1> QED
  BY <1>1, <1>2, <1>3, <1>4, <1>5, <1>6, <1>7, <1>8, HandlerFrame
  DEF Next, HandlerStep, vars, Push, ToggleConnection, RemoveRepository, Receive, Odd, posted, odd

\* As long as Redis has kept every finished job, a head commit gets at most one
\* review per execution of its job, however often its delivery is repeated.
THEOREM OneReviewEach == Spec => []OneReviewPerExecution
<1>1. Init => ReviewsCounted
  BY NoKeyFact DEF Init, ReviewsCounted, IdleWorker
<1>2. ReviewsCounted => OneReviewPerExecution
  BY DEF ReviewsCounted, OneReviewPerExecution
<1>3. JobInv => BusyWorkerHoldsJob
  BY DEF JobInv
<1> QED
  BY <1>1, <1>2, <1>3, JobInvariant, TypeCorrect, CountStep, PTL DEF Spec

-----------------------------------------------------------------------------
(* A review is of the sources of its commit, or of later ones.             *)

\* The commits that were pushed, and the pairs of one and of one pushed later.
Heads == {commitOf[d] : d \in 1..pushes}
Later == {p \in Heads \X Heads :
            \E d, e \in 1..pushes : d <= e /\ commitOf[d] = p[1] /\ commitOf[e] = p[2]}

\* Inductive: jobs, and the run that is executed, are of commits that were
\* pushed, so that what the worker reads at the head is not older.
SourcesInv ==
  /\ ReviewIsNotOlder
  /\ \A k \in Keys : job[k] # "absent" => k[2] \in Heads
  /\ worker.pc # "idle" => worker.key[2] \in Heads
  /\ worker.pc \in {"generate", "post"} => <<worker.key[2], worker.read>> \in Later

\* What was pushed stays so.
LEMMA PushesStay ==
  ASSUME TypeOK, [Next]_vars
  PROVE  /\ pushes \in Nat /\ pushes' \in Nat /\ pushes <= pushes'
         /\ \A d \in 1..pushes : commitOf'[d] = commitOf[d]
<1>0. pushes \in Nat
  BY ConstantsAssumption DEF TypeOK, GithubTypeOK
<1>1. CASE UNCHANGED <<pushes, commitOf>>
  BY <1>0, <1>1
<1>2. ASSUME NEW c \in Commits, Push(c)
      PROVE  /\ pushes \in Nat /\ pushes' \in Nat /\ pushes <= pushes'
             /\ \A d \in 1..pushes : commitOf'[d] = commitOf[d]
  BY <1>2, ConstantsAssumption DEF Push, TypeOK, GithubTypeOK, Deliveries
<1>3. CASE \E d \in Deliveries : HandlerStep(d)
  BY <1>1, <1>3, HandlerFrame DEF github
<1>4. CASE WorkerStep
  BY <1>1, <1>4, ExecutionFrame DEF github, Finish
<1>5. \/ UNCHANGED <<pushes, commitOf>>
      \/ \E c \in Commits : Push(c)
      \/ \E d \in Deliveries : HandlerStep(d)
      \/ WorkerStep
  BY DEF Next, vars, github, ToggleConnection, RemoveRepository, Receive, Take, Stall, Crash
<1> QED
  BY <1>1, <1>2, <1>3, <1>4, <1>5

\* A commit that was pushed, or pushed after another, stays so.
LEMMA PushedStays ==
  ASSUME TypeOK, [Next]_vars
  PROVE  /\ Heads \subseteq Heads'
         /\ Later \subseteq Later'
  BY PushesStay DEF Heads, Later

\* What the worker has read changes when it reads the sources only.
LEMMA ReadFrame ==
  ASSUME TypeOK, WorkerStep, ~ReadSources, worker'.pc \in {"generate", "post"}
  PROVE  worker.pc \in {"generate", "post"} /\ worker'.read = worker.read
<1> USE DEF TypeOK, WorkerTypeOK, WorkerType, Throw, Goto, UpdateRun, InsideTry
<1>1. CASE Start \/ Load \/ Skip \/ SaveCheck \/ SaveCompleted \/ FailRun
  BY <1>1 DEF Start, Load, Skip, SaveCheck, SaveCompleted, FailRun
<1>2. CASE CreateCheck \/ PostReview
  BY <1>2 DEF CreateCheck, PostReview, Replied
<1>3. CASE CompleteCheck \/ FailCheck \/ Generate
  BY <1>3 DEF CompleteCheck, FailCheck, Generate
<1>4. CASE Finish
  BY <1>4 DEF Finish, IdleWorker
<1>5. CASE WorkerDatabaseFault \/ GithubRefuses \/ OllamaFails
  BY <1>5 DEF WorkerDatabaseFault, GithubRefuses, OllamaFails
<1> QED
  BY <1>1, <1>2, <1>3, <1>4, <1>5 DEF WorkerStep

\* A job that Redis did not know before was added by a handler.
LEMMA JobsFrame ==
  ASSUME TypeOK, BusyWorkerHoldsJob, [Next]_vars, NEW k \in Keys,
         job[k] = "absent", job'[k] # "absent"
  PROVE  \E d \in Deliveries : AddJob(d) /\ k = HandlerKey(d)
<1>a. job \in [Keys -> JobState]
  BY DEF TypeOK, QueueTypeOK
<1>1. ASSUME NEW d \in Deliveries, AddJob(d)
      PROVE  \E e \in Deliveries : AddJob(e) /\ k = HandlerKey(e)
  BY <1>a, <1>1 DEF AddJob, Enqueue, queue
<1>2. ASSUME NEW j \in Keys, Take(j) PROVE FALSE
  BY <1>a, <1>2 DEF Take
<1>3. ASSUME NEW j \in Keys, Stall(j) PROVE FALSE
  BY <1>a, <1>3, RetireFact DEF Stall
<1>4. CASE Finish
  <2>1. worker.key \in Keys
    BY <1>4, NoKeyFact DEF Finish, TypeOK, WorkerTypeOK, WorkerType
  <2>2. CASE k = worker.key
    BY <1>4, <2>2 DEF Finish, BusyWorkerHoldsJob
  <2> QED
    BY <1>4, <2>1, <2>2, RetireFact DEF Finish
<1>5. CASE WorkerStep /\ ~Finish
  BY <1>5, ExecutionFrame DEF queue
<1>6. ASSUME NEW d \in Deliveries, HandlerStep(d), ~AddJob(d) PROVE FALSE
  BY <1>6, HandlerFrame DEF queue
<1>7. \/ UNCHANGED job
      \/ \E d \in Deliveries : HandlerStep(d)
      \/ \E j \in Keys : Take(j) \/ Stall(j)
      \/ WorkerStep
  BY DEF Next, vars, queue, Push, ToggleConnection, RemoveRepository, Receive, Crash
<1> QED
  BY <1>1, <1>2, <1>3, <1>4, <1>5, <1>6, <1>7

\* Every step keeps SourcesInv.
LEMMA SourcesStep ==
  TypeOK /\ BusyWorkerHoldsJob /\ SourcesInv /\ [Next]_vars => SourcesInv'
<1> SUFFICES ASSUME TypeOK, BusyWorkerHoldsJob, SourcesInv, [Next]_vars PROVE SourcesInv'
  OBVIOUS
<1>a. ASSUME NEW k \in Keys, job'[k] # "absent" PROVE k[2] \in Heads'
  <2>1. CASE job[k] # "absent"
    BY <2>1, PushedStays DEF SourcesInv
  <2>2. CASE job[k] = "absent"
    <3>1. PICK d \in Deliveries : AddJob(d) /\ k = HandlerKey(d)
      BY <1>a, <2>2, JobsFrame
    <3>2. d \in 1..pushes
      BY <3>1 DEF AddJob, TypeOK, HandlersTypeOK, GithubTypeOK, Deliveries
    <3>3. k[2] \in Heads
      BY <3>1, <3>2 DEF Heads, HandlerKey
    <3> QED
      BY <3>3, PushedStays
  <2> QED
    BY <2>1, <2>2
<1>b. ReviewIsNotOlder <=>
        \A k \in Keys : \A i \in 1..Len(reviews[k]) : <<k[2], reviews[k][i]>> \in Later
  <2> DEFINE After(a, b) == \E d, e \in 1..pushes :
                              d <= e /\ commitOf[d] = a /\ commitOf[e] = b
  <2>1. \A a, b : <<a, b>> \in Later <=> After(a, b)
    BY DEF Heads, Later
  <2>2. ReviewIsNotOlder <=>
          \A k \in Keys : \A i \in 1..Len(reviews[k]) : After(k[2], reviews[k][i])
    BY DEF ReviewIsNotOlder
  <2> HIDE DEF After
  <2> QED
    BY <2>1, <2>2
<1>c. ReviewIsNotOlder' <=>
        \A k \in Keys : \A i \in 1..Len(reviews'[k]) : <<k[2], reviews'[k][i]>> \in Later'
  <2> DEFINE After(a, b) == \E d, e \in 1..pushes' :
                              d <= e /\ commitOf'[d] = a /\ commitOf'[e] = b
  <2>1. \A a, b : <<a, b>> \in Later' <=> After(a, b)
    BY DEF Heads, Later
  <2>2. ReviewIsNotOlder' <=>
          \A k \in Keys : \A i \in 1..Len(reviews'[k]) : After(k[2], reviews'[k][i])
    BY DEF ReviewIsNotOlder
  <2> HIDE DEF After
  <2> QED
    BY <2>1, <2>2
<1>d. UNCHANGED reviews => ReviewIsNotOlder'
  BY <1>b, <1>c, PushedStays DEF SourcesInv
<1>e. /\ ReviewIsNotOlder'
      /\ worker'.pc # "idle" => worker'.key[2] \in Heads'
      /\ worker'.pc \in {"generate", "post"} => <<worker'.key[2], worker'.read>> \in Later'
      => SourcesInv'
  BY <1>a DEF SourcesInv
<1>1. CASE UNCHANGED <<worker, reviews>>
  BY <1>1, <1>d, <1>e, PushedStays DEF SourcesInv
<1>2. ASSUME NEW k \in Keys, Take(k) PROVE SourcesInv'
  <2>1. /\ job[k] = "waiting" /\ UNCHANGED reviews
        /\ worker'.pc = "start" /\ worker'.key = k
    BY <1>2 DEF Take, IdleWorker, posted
  <2>2. k[2] \in Heads'
    BY <2>1, PushedStays DEF SourcesInv
  <2> QED
    BY <1>d, <1>e, <2>1, <2>2
<1>3. CASE Crash \/ Finish
  <2>1. UNCHANGED reviews /\ worker'.pc = "idle"
    BY <1>3 DEF Crash, Finish, IdleWorker, posted
  <2> QED
    BY <1>d, <1>e, <2>1
<1>4. CASE ReadSources
  <2>1. /\ UNCHANGED <<reviews, pushes, commitOf>> /\ worker'.key = worker.key
        /\ worker'.read = CurrentHead /\ worker.pc = "sources"
    BY <1>4 DEF ReadSources, TypeOK, WorkerTypeOK, WorkerType, github, posted
  <2>2. PICK d \in 1..pushes : commitOf[d] = worker.key[2]
    BY <2>1 DEF SourcesInv, Heads
  <2>3. pushes \in Nat /\ pushes # 0 /\ pushes \in 1..pushes
    BY <2>2, PushesStay
  <2>4. <<worker'.key[2], worker'.read>> \in Later'
    BY <2>1, <2>2, <2>3 DEF Heads, Later, CurrentHead
  <2>5. worker'.key[2] \in Heads'
    BY <2>1, <2>2 DEF Heads
  <2> QED
    BY <1>d, <1>e, <2>1, <2>4, <2>5
<1>5. CASE PostReview
  <2> DEFINE k == worker.key
  <2>1. /\ k \in Keys /\ worker'.key = k /\ worker.pc = "post"
        /\ reviews' = [reviews EXCEPT ![k] = Append(@, worker.read)]
    BY <1>5, ExecutionFrame DEF WorkerStep, PostReview, Finish
  <2>2. worker'.pc \notin {"generate", "post"}
    BY <1>5, <2>1 DEF PostReview, Replied, Throw, Goto, InsideTry, TypeOK, WorkerTypeOK,
       WorkerType
  <2>3. reviews[k] \in Seq(Commits \cup {NoCommit}) /\ worker.read \in Commits \cup {NoCommit}
    BY <2>1 DEF TypeOK, PostedTypeOK, WorkerTypeOK, WorkerType
  <2>4. /\ reviews'[k] = Append(reviews[k], worker.read)
        /\ \A j \in Keys \ {k} : reviews'[j] = reviews[j]
    BY <2>1 DEF TypeOK, PostedTypeOK
  <2>5. <<k[2], worker.read>> \in Later' /\ k[2] \in Heads'
    BY <2>1, PushedStays DEF SourcesInv
  <2>6. \A i \in 1..Len(reviews'[k]) :
          \/ i \in 1..Len(reviews[k]) /\ reviews'[k][i] = reviews[k][i]
          \/ reviews'[k][i] = worker.read
    BY <2>3, <2>4, AppendProperties
  <2> HIDE DEF k
  <2>7. ReviewIsNotOlder'
    BY <1>b, <1>c, <2>1, <2>4, <2>5, <2>6, PushedStays DEF SourcesInv
  <2> QED
    BY <1>e, <2>1, <2>2, <2>5, <2>7
<1>6. CASE WorkerStep /\ ~Finish /\ ~ReadSources /\ ~PostReview
  BY <1>d, <1>e, <1>6, PushedStays, ExecutionFrame, ReviewsFrame, ReadFrame
  DEF SourcesInv
<1>7. CASE \E d \in Deliveries : HandlerStep(d)
  BY <1>1, <1>7, HandlerFrame DEF posted
<1> QED
  BY <1>1, <1>2, <1>3, <1>4, <1>5, <1>6, <1>7
  DEF Next, vars, posted, Push, ToggleConnection, RemoveRepository, Receive, Stall

\* SourcesInv holds in every state.
LEMMA SourcesInvariant == Spec => []SourcesInv
<1>1. Init => SourcesInv
  BY NoKeyFact DEF Init, SourcesInv, ReviewIsNotOlder, IdleWorker
<1>2. JobInv => BusyWorkerHoldsJob
  BY DEF JobInv
<1> QED
  BY <1>1, <1>2, JobInvariant, TypeCorrect, SourcesStep, PTL DEF Spec

\* What is posted on a commit was read at that commit, or at one pushed after it.
THEOREM ReviewsNotOlder == Spec => []ReviewIsNotOlder
<1>1. SourcesInv => ReviewIsNotOlder
  BY DEF SourcesInv
<1> QED
  BY <1>1, SourcesInvariant, PTL

-----------------------------------------------------------------------------
(* The answer of the handler covers every repository.                      *)

\* The row of a run is deleted only with its repository.
LEMMA RunFrame ==
  ASSUME TypeOK, [Next]_vars
  PROVE  /\ imported' \subseteq imported
         /\ \A r \in imported', c \in Commits :
              run[<<r, c>>] # "NONE" => run'[<<r, c>>] # "NONE"
<1>a. imported \subseteq Repositories /\ run \in [Keys -> RunStatus]
  BY DEF TypeOK, GithubTypeOK, RowsTypeOK
<1>1. CASE UNCHANGED <<imported, run>>
  BY <1>1
<1>2. ASSUME NEW r \in Repositories, RemoveRepository(r)
      PROVE  /\ imported' \subseteq imported
             /\ \A s \in imported', c \in Commits :
                  run[<<s, c>>] # "NONE" => run'[<<s, c>>] # "NONE"
  BY <1>a, <1>2 DEF RemoveRepository, Keys
<1>3. ASSUME NEW d \in Deliveries, SaveRun(d) \/ FailQueuedRun(d)
      PROVE  imported' = imported /\ \A k \in Keys : run[k] # "NONE" => run'[k] # "NONE"
  BY <1>a, <1>3, HandlerKeyFact DEF SaveRun, FailQueuedRun, SetStatus, github
<1>4. ASSUME NEW d \in Deliveries, HandlerStep(d), ~SaveRun(d), ~FailQueuedRun(d)
      PROVE  UNCHANGED <<imported, run>>
  BY <1>4 DEF HandlerStep, UpsertPullRequest, FindRun, AddJob, HandlerDatabaseFault, rows,
              github
<1>5. CASE WorkerStep /\ ~Finish
  BY <1>a, <1>5, ExecutionFrame DEF github, Keys
<1>6. \/ UNCHANGED <<imported, run>>
      \/ \E r \in Repositories : RemoveRepository(r)
      \/ \E d \in Deliveries : HandlerStep(d)
      \/ WorkerStep /\ ~Finish
  BY DEF Next, vars, github, rows, Push, ToggleConnection, Receive, Take, Stall, Finish, Crash
<1> QED
  BY <1>a, <1>1, <1>2, <1>3, <1>4, <1>5, <1>6 DEF Keys

\* Missing[d]: the repositories without a run for the commit of delivery d.
Missing == [d \in Deliveries |-> {r \in imported : run[<<r, commitOf[d]>>] = "NONE"}]

\* No repository loses the run of a delivery that was made.
LEMMA MissingShrinks ==
  ASSUME TypeOK, [Next]_vars
  PROVE  \A d \in 1..pushes : d \in Deliveries /\ Missing'[d] \subseteq Missing[d]
<1> SUFFICES ASSUME NEW d \in 1..pushes
             PROVE  d \in Deliveries /\ Missing'[d] \subseteq Missing[d]
  OBVIOUS
<1>1. d \in Deliveries /\ commitOf[d] \in Commits /\ commitOf'[d] = commitOf[d]
  BY PushesStay, ConstantsAssumption DEF TypeOK, GithubTypeOK, Deliveries
<1> QED
  BY <1>1, RunFrame DEF Missing

\* Inductive: the repositories without a run are still in the handler's todo,
\* or the one it works on; a handler that has not been called says nothing.
CoverInv ==
  \A d \in Deliveries :
    /\ handler[d].pc # "idle" => handler[d].reply = "none"
    /\ handler[d].reply # "none" => d <= pushes
    /\ handler[d].pc \in {"upsert", "add"} => Missing[d] \subseteq handler[d].todo
    /\ handler[d].pc \in {"find", "save"} =>
         Missing[d] \subseteq handler[d].todo \cup {handler[d].repo}
    /\ handler[d].reply \in {"queued", "alreadyReviewed"} => Missing[d] = {}

\* The handler's next repository is one it has still to do.
LEMMA NextCovers ==
  ASSUME TypeOK, NEW d \in Deliveries, NEW added \in BOOLEAN, NextRepository(d, added),
         handler[d].reply = "none"
  PROVE  /\ handler[d].todo = {} => handler'[d].pc = "idle"
         /\ handler[d].todo # {} =>
              /\ handler'[d].pc = "upsert" /\ handler'[d].todo = handler[d].todo
              /\ handler'[d].reply = "none"
         /\ \A e \in Deliveries \ {d} : handler'[e] = handler[e]
<1>1. handler \in [Deliveries -> HandlerType] /\ handler[d] \in HandlerType
  BY DEF TypeOK, HandlersTypeOK
<1> QED
  BY <1>1, IdleFact DEF NextRepository, HandlerReply, HandlerType

\* Every step keeps CoverInv.
LEMMA CoverStep == TypeOK /\ CoverInv /\ [Next]_vars => CoverInv'
<1> SUFFICES ASSUME TypeOK, CoverInv, [Next]_vars PROVE CoverInv'
  OBVIOUS
<1> DEFINE Inv(d) ==
             /\ handler[d].pc # "idle" => handler[d].reply = "none"
             /\ handler[d].reply # "none" => d <= pushes
             /\ handler[d].pc \in {"upsert", "add"} => Missing[d] \subseteq handler[d].todo
             /\ handler[d].pc \in {"find", "save"} =>
                  Missing[d] \subseteq handler[d].todo \cup {handler[d].repo}
             /\ handler[d].reply \in {"queued", "alreadyReviewed"} => Missing[d] = {}
<1>a. /\ handler \in [Deliveries -> HandlerType]
      /\ \A d \in Deliveries : handler[d].pc # "idle" => d \in 1..pushes
      /\ pushes \in Nat /\ pushes' \in Nat /\ pushes <= pushes' /\ Deliveries \subseteq Nat \ {0}
  BY PushesStay DEF TypeOK, HandlersTypeOK, Deliveries
<1>b. ASSUME NEW d \in Deliveries, handler'[d] = handler[d] PROVE Inv(d)'
  BY <1>a, <1>b, MissingShrinks DEF CoverInv
<1>1. ASSUME NEW d \in Deliveries, Receive(d) PROVE CoverInv'
  <2>1. \A e \in Deliveries \ {d} : handler'[e] = handler[e]
    BY <1>a, <1>1 DEF Receive
  <2>2. d <= pushes /\ UNCHANGED <<imported, pushes, commitOf, run>>
    BY <1>1 DEF Receive, rows
  <2>3. \/ handler'[d] = IdleHandler("ignored")
        \/ handler'[d].pc = "upsert" /\ handler'[d].todo = imported /\ handler'[d].reply = "none"
    BY <1>a, <1>1 DEF Receive, IdleHandler
  <2>4. Missing'[d] \subseteq imported
    BY <2>2 DEF Missing
  <2>5. Inv(d)'
    BY <2>2, <2>3, <2>4 DEF IdleHandler
  <2> QED
    BY <1>b, <2>1, <2>5 DEF CoverInv
<1>2. ASSUME NEW d \in Deliveries, HandlerStep(d) PROVE CoverInv'
  <2>a. /\ d \in 1..pushes /\ handler[d].pc # "idle" /\ handler[d].reply = "none"
        /\ Missing'[d] \subseteq Missing[d]
    BY <1>a, <1>2, MissingShrinks
    DEF CoverInv, HandlerStep, UpsertPullRequest, FindRun, SaveRun, AddJob, FailQueuedRun,
        HandlerDatabaseFault
  <2>b. UNCHANGED <<pushes, imported, commitOf>>
    BY <1>2, HandlerFrame DEF github
  <2>c. ASSUME NEW added \in BOOLEAN, NextRepository(d, added),
               Missing'[d] \subseteq handler[d].todo
        PROVE  CoverInv'
    <3>1. CASE handler[d].todo = {}
      <4>1. handler'[d].pc = "idle" /\ \A e \in Deliveries \ {d} : handler'[e] = handler[e]
        BY <2>a, <2>c, <3>1, NextCovers
      <4>2. Inv(d)'
        BY <2>a, <2>b, <2>c, <3>1, <4>1
      <4> QED
        BY <1>b, <4>1, <4>2 DEF CoverInv
    <3>2. CASE handler[d].todo # {}
      <4>1. /\ handler'[d].pc = "upsert" /\ handler'[d].todo = handler[d].todo
            /\ handler'[d].reply = "none"
            /\ \A e \in Deliveries \ {d} : handler'[e] = handler[e]
        BY <2>a, <2>c, <3>2, NextCovers
      <4>2. Inv(d)'
        BY <2>c, <4>1
      <4> QED
        BY <1>b, <4>1, <4>2 DEF CoverInv
    <3> QED
      BY <3>1, <3>2
  <2>1. CASE Abort(d)
    BY <1>a, <1>b, <2>1, <2>a, <2>b DEF Abort, IdleHandler, CoverInv
  <2>2. CASE UpsertPullRequest(d) /\ ~Abort(d)
    <3>1. PICK r \in handler[d].todo :
            handler' = [handler EXCEPT ![d].pc = "find", ![d].repo = r, ![d].todo = @ \ {r}]
      BY <2>2 DEF UpsertPullRequest
    <3>2. /\ handler'[d].pc = "find" /\ handler'[d].repo = r /\ handler'[d].reply = "none"
          /\ handler'[d].todo = handler[d].todo \ {r}
          /\ \A e \in Deliveries \ {d} : handler'[e] = handler[e]
      BY <1>a, <2>a, <3>1 DEF HandlerType
    <3>3. handler[d].pc = "upsert"
      BY <2>2 DEF UpsertPullRequest
    <3>4. Inv(d)'
      BY <2>a, <2>b, <3>2, <3>3 DEF CoverInv
    <3> QED
      BY <1>b, <3>2, <3>4 DEF CoverInv
  <2>3. CASE FindRun(d)
    <3>1. handler[d].pc = "find" /\ UNCHANGED run
      BY <2>3 DEF FindRun, rows
    <3>2. CASE run[HandlerKey(d)] \in {"NONE", "FAILED"}
      <4>1. /\ handler'[d].pc = "save" /\ handler'[d].repo = handler[d].repo
            /\ handler'[d].reply = "none" /\ handler'[d].todo = handler[d].todo
            /\ \A e \in Deliveries \ {d} : handler'[e] = handler[e]
        BY <1>a, <2>3, <2>a, <3>2 DEF FindRun, HandlerType
      <4>2. Inv(d)'
        BY <2>a, <3>1, <4>1 DEF CoverInv
      <4> QED
        BY <1>b, <4>1, <4>2 DEF CoverInv
    <3>3. CASE run[HandlerKey(d)] \notin {"NONE", "FAILED"}
      <4>1. NextRepository(d, FALSE)
        BY <2>3, <3>3 DEF FindRun
      <4>2. handler[d].repo \notin Missing[d]
        BY <3>3 DEF Missing, HandlerKey
      <4>3. Missing'[d] \subseteq handler[d].todo
        BY <2>a, <3>1, <4>2 DEF CoverInv
      <4> QED
        BY <2>c, <4>1, <4>3
    <3> QED
      BY <3>2, <3>3
  <2>4. CASE SaveRun(d) /\ ~Abort(d)
    <3>1. /\ handler'[d].pc = "add" /\ handler'[d].repo = handler[d].repo
          /\ handler'[d].reply = "none" /\ handler'[d].todo = handler[d].todo
          /\ \A e \in Deliveries \ {d} : handler'[e] = handler[e]
      BY <1>a, <2>4, <2>a DEF SaveRun, HandlerType
    <3>2. handler[d].pc = "save" /\ run' = [run EXCEPT ![HandlerKey(d)] = "QUEUED"]
      BY <2>4 DEF SaveRun
    <3>3. HandlerKey(d) \in Keys /\ run \in [Keys -> RunStatus]
      BY <3>2, HandlerKeyFact DEF TypeOK, RowsTypeOK
    <3>4. handler[d].repo \notin Missing'[d]
      BY <2>b, <3>2, <3>3 DEF Missing, HandlerKey
    <3>5. Inv(d)'
      BY <2>a, <3>1, <3>2, <3>4 DEF CoverInv
    <3> QED
      BY <1>b, <3>1, <3>5 DEF CoverInv
  <2>5. CASE AddJob(d)
    <3>1. handler[d].pc = "add" /\ Missing'[d] \subseteq handler[d].todo
      BY <2>5, <2>a DEF AddJob, CoverInv
    <3>2. CASE NextRepository(d, TRUE)
      BY <2>c, <3>1, <3>2
    <3>3. CASE handler' = [handler EXCEPT ![d].pc = "fail"]
      <4>1. /\ handler'[d].pc = "fail" /\ handler'[d].reply = "none"
            /\ \A e \in Deliveries \ {d} : handler'[e] = handler[e]
        BY <1>a, <2>a, <3>3 DEF HandlerType
      <4> QED
        BY <1>b, <4>1 DEF CoverInv
    <3> QED
      BY <2>5, <3>2, <3>3 DEF AddJob
  <2> QED
    BY <1>2, <2>1, <2>2, <2>3, <2>4, <2>5 DEF HandlerStep, FailQueuedRun, HandlerDatabaseFault
<1>3. CASE Crash
  <2>1. \A d \in Deliveries : \/ handler'[d] = handler[d]
                              \/ handler[d].pc # "idle" /\ handler'[d] = IdleHandler("error")
    BY <1>3 DEF Crash
  <2>2. ASSUME NEW d \in Deliveries, handler[d].pc # "idle",
               handler'[d] = IdleHandler("error")
        PROVE  Inv(d)'
    BY <1>a, <2>2 DEF IdleHandler
  <2> QED
    BY <1>b, <2>1, <2>2 DEF CoverInv
<1>4. CASE UNCHANGED handler
  BY <1>b, <1>4 DEF CoverInv
<1>5. CASE WorkerStep
  BY <1>4, <1>5, ExecutionFrame DEF Finish
<1> QED
  BY <1>1, <1>2, <1>3, <1>4, <1>5
  DEF Next, vars, Push, ToggleConnection, RemoveRepository, Take, Stall

\* When the handler has answered that reviews are queued or already made, every
\* repository that is still imported has a run for the commit.
THEOREM AnswersCover == Spec => []AnswerCoversEveryRepository
<1>1. Init => CoverInv
  BY DEF Init, CoverInv, IdleHandler
<1>2. CoverInv => AnswerCoversEveryRepository
  BY DEF CoverInv, AnswerCoversEveryRepository, Missing
<1> QED
  BY <1>1, <1>2, TypeCorrect, CoverStep, PTL DEF Spec

-----------------------------------------------------------------------------
(* What changes a run, a job, the worker and a handler.                    *)

\* What has happened is not forgotten.
LEMMA HappenedGrows ==
  ASSUME TypeOK, [Next]_vars
  PROVE  happened \subseteq happened'
<1>1. CASE UNCHANGED happened
  BY <1>1
<1>2. CASE \E d \in Deliveries : HandlerStep(d)
  BY <1>2, HandlerFrame
<1>3. CASE WorkerStep /\ ~Finish
  BY <1>3, ExecutionFrame
<1>4. CASE Finish
  BY <1>4 DEF Finish, Retire, Odd
<1>5. ASSUME NEW k \in Keys, Stall(k) PROVE happened \subseteq happened'
  BY <1>5 DEF Stall, Retire, Odd, odd
<1>6. \/ UNCHANGED happened \/ happened \subseteq happened'
      \/ \E d \in Deliveries : HandlerStep(d)
      \/ \E k \in Keys : Stall(k)
      \/ WorkerStep
  BY DEF Next, vars, odd, Push, ToggleConnection, RemoveRepository, Receive, Odd, Take,
         Crash, Fault
<1> QED
  BY <1>1, <1>2, <1>3, <1>4, <1>5, <1>6

\* The row of a run changes when its repository is removed, when a handler
\* saves it or sets it to FAILED, and in four states of the worker.
LEMMA RunChanges ==
  ASSUME TypeOK, [Next]_vars, NEW k \in Keys, run'[k] # run[k]
  PROVE  \/ run'[k] = "NONE" /\ k[1] \notin imported'
         \/ \E d \in Deliveries : SaveRun(d) /\ k = HandlerKey(d) /\ run'[k] = "QUEUED"
         \/ \E d \in Deliveries :
              FailQueuedRun(d) /\ k = HandlerKey(d) /\ run[k] # "NONE" /\ run'[k] = "FAILED"
         \/ /\ WorkerStep /\ k = worker.key /\ run[k] # "NONE"
            /\ \/ worker.pc = "start" /\ run'[k] = "RUNNING"
               \/ worker.pc = "skip" /\ run'[k] = "SKIPPED"
               \/ worker.pc = "saveCompleted" /\ run'[k] = "COMPLETED"
               \/ worker.pc = "failRun" /\ run'[k] = "FAILED"
<1>a. run \in [Keys -> RunStatus]
  BY DEF TypeOK, RowsTypeOK
<1>1. ASSUME NEW r \in Repositories, RemoveRepository(r)
      PROVE  run'[k] = "NONE" /\ k[1] \notin imported'
  BY <1>a, <1>1 DEF RemoveRepository
<1>2. ASSUME NEW d \in Deliveries, HandlerStep(d)
      PROVE  \/ SaveRun(d) /\ k = HandlerKey(d) /\ run'[k] = "QUEUED"
             \/ FailQueuedRun(d) /\ k = HandlerKey(d) /\ run[k] # "NONE" /\ run'[k] = "FAILED"
  BY <1>a, <1>2
  DEF HandlerStep, UpsertPullRequest, FindRun, SaveRun, AddJob, FailQueuedRun,
      HandlerDatabaseFault, SetStatus, rows
<1>3. CASE WorkerStep
  <2>1. \/ Start \/ Skip \/ SaveCheck \/ SaveCompleted \/ FailRun
    BY <1>3
    DEF WorkerStep, Load, CreateCheck, ReadSources, Generate, PostReview, CompleteCheck,
        FailCheck, Finish, WorkerDatabaseFault, GithubRefuses, OllamaFails, CloseCheck, rows
  <2> QED
    BY <1>a, <1>3, <2>1
    DEF Start, Skip, SaveCheck, SaveCompleted, FailRun, UpdateRun, SetStatus
<1>4. \/ UNCHANGED run
      \/ \E r \in Repositories : RemoveRepository(r)
      \/ \E d \in Deliveries : HandlerStep(d)
      \/ WorkerStep
  BY DEF Next, vars, rows, Push, ToggleConnection, Receive, Take, Stall, Crash
<1> QED
  BY <1>1, <1>2, <1>3, <1>4

\* A job waits because it did before, a handler added it, or it stalled; it is
\* active because it was, or the worker took it.
LEMMA JobChanges ==
  ASSUME TypeOK, [Next]_vars, NEW k \in Keys
  PROVE  /\ job'[k] = "waiting" =>
              \/ job[k] = "waiting"
              \/ \E d \in Deliveries : AddJob(d) /\ k = HandlerKey(d)
              \/ Stall(k)
         /\ job'[k] = "active" => job[k] = "active" \/ Take(k)
<1>a. job \in [Keys -> JobState]
  BY DEF TypeOK, QueueTypeOK
<1>1. CASE UNCHANGED job
  BY <1>1
<1>2. ASSUME NEW d \in Deliveries, AddJob(d), job'[k] # job[k]
      PROVE  k = HandlerKey(d) /\ job'[k] = "waiting"
  BY <1>a, <1>2 DEF AddJob, Enqueue, queue
<1>3. ASSUME NEW j \in Keys, Take(j), job'[k] # job[k] PROVE j = k /\ job'[k] = "active"
  BY <1>a, <1>3 DEF Take
<1>4. ASSUME NEW j \in Keys, Stall(j), job'[k] # job[k]
      PROVE  \/ job'[k] \in {"failed", "absent"}
             \/ j = k /\ job'[k] = "waiting"
  BY <1>a, <1>4, RetireFact DEF Stall
<1>5. CASE Finish
  <2>1. worker.key \in Keys
    BY <1>5, NoKeyFact DEF Finish, TypeOK, WorkerTypeOK, WorkerType
  <2>2. job'[k] = job[k] \/ job'[k] \in {"completed", "failed", "absent"}
    BY <1>5, <2>1, RetireFact DEF Finish
  <2> QED
    BY <2>2
<1>6. CASE WorkerStep /\ ~Finish
  BY <1>6, ExecutionFrame DEF queue
<1>7. ASSUME NEW d \in Deliveries, HandlerStep(d), ~AddJob(d) PROVE UNCHANGED job
  BY <1>7, HandlerFrame DEF queue
<1>8. \/ UNCHANGED job
      \/ \E d \in Deliveries : HandlerStep(d)
      \/ \E j \in Keys : Take(j) \/ Stall(j)
      \/ WorkerStep
  BY DEF Next, vars, queue, Push, ToggleConnection, RemoveRepository, Receive, Crash
<1> QED
  BY <1>1, <1>2, <1>3, <1>4, <1>5, <1>6, <1>7, <1>8

\* The worker holds a run because it has taken its job, or held it before; on
\* the way to its end it goes from start to RUNNING and leaves the row alone
\* until it has nothing more to do.
LEMMA WorkerChanges ==
  ASSUME TypeOK, [Next]_vars, NEW k \in Keys, worker'.key = k
  PROVE  \/ UNCHANGED worker /\ ~WorkerStep
         \/ Take(k) /\ worker'.pc = "start"
         \/ /\ WorkerStep /\ worker.key = k
            /\ worker.pc \notin {"jobDone", "jobFailed"} /\ worker'.pc # "start"
            /\ worker'.pc \notin {"jobDone", "jobFailed"} =>
                 \/ worker.pc = "start" /\ run'[k] = "RUNNING"
                 \/ worker.pc # "start" /\ run'[k] = run[k]
<1>a. worker \in WorkerType /\ run \in [Keys -> RunStatus]
  BY DEF TypeOK, RowsTypeOK, WorkerTypeOK
<1>1. CASE UNCHANGED worker /\ ~WorkerStep
  BY <1>1
<1>2. ASSUME NEW j \in Keys, Take(j) PROVE j = k /\ worker'.pc = "start"
  BY <1>2 DEF Take, IdleWorker
<1>3. CASE worker' = IdleWorker
  BY <1>3, NoKeyFact DEF IdleWorker
<1>4. CASE WorkerStep /\ ~Finish
  <2>a. worker.key = k /\ k \in Keys
    BY <1>4, ExecutionFrame
  <2> USE <1>a DEF WorkerType, Throw, Goto, InsideTry
  <2>1. CASE Start \/ Skip \/ SaveCheck \/ SaveCompleted \/ FailRun
    BY <1>4, <2>a, <2>1
    DEF Start, Skip, SaveCheck, SaveCompleted, FailRun, UpdateRun, SetStatus
  <2>2. CASE Load \/ CreateCheck \/ ReadSources \/ Generate \/ PostReview
    BY <1>4, <2>a, <2>2 DEF Load, CreateCheck, ReadSources, Generate, PostReview, Replied, rows
  <2>3. CASE CompleteCheck \/ FailCheck
    BY <1>4, <2>a, <2>3 DEF CompleteCheck, FailCheck, CloseCheck, rows
  <2>4. CASE WorkerDatabaseFault \/ GithubRefuses \/ OllamaFails
    BY <1>4, <2>a, <2>4 DEF WorkerDatabaseFault, GithubRefuses, OllamaFails, rows
  <2> QED
    BY <1>4, <2>1, <2>2, <2>3, <2>4 DEF WorkerStep
<1>5. \/ UNCHANGED worker \/ worker' = IdleWorker
      \/ \E j \in Keys : Take(j)
      \/ WorkerStep
  BY HandlerFrame
  DEF Next, vars, Push, ToggleConnection, RemoveRepository, Receive, Stall, Crash, Finish
<1> QED
  BY <1>1, <1>2, <1>3, <1>4, <1>5 DEF Finish

\* The states of a handler that has recorded the head of its repository.
Working == {"find", "save", "add", "fail"}

\* A handler is at work on a repository because it was, and did nothing, or it
\* has done one of the four steps.
LEMMA HandlerChanges ==
  ASSUME TypeOK, [Next]_vars, NEW d \in Deliveries, handler'[d].pc \in Working
  PROVE  \/ handler'[d] = handler[d] /\ ~HandlerStep(d)
         \/ /\ UpsertPullRequest(d) /\ handler'[d].pc = "find"
            /\ handler'[d].repo \in imported
            /\ pullRequest' = [pullRequest EXCEPT ![handler'[d].repo] = commitOf[d]]
         \/ /\ FindRun(d) /\ handler'[d].pc = "save" /\ handler'[d].repo = handler[d].repo
            /\ handler'[d].seen = run[HandlerKey(d)] /\ handler'[d].seen \in {"NONE", "FAILED"}
         \/ /\ SaveRun(d) /\ handler'[d].pc = "add" /\ handler'[d].repo = handler[d].repo
            /\ run' = [run EXCEPT ![HandlerKey(d)] = "QUEUED"]
         \/ /\ AddJob(d) /\ handler'[d].pc = "fail" /\ handler'[d].repo = handler[d].repo
            /\ UNCHANGED rows
<1>a. handler \in [Deliveries -> HandlerType] /\ handler[d] \in HandlerType
  BY DEF TypeOK, HandlersTypeOK
<1>b. handler'[d] # IdleHandler("error")
  BY DEF IdleHandler, Working
<1>c. ASSUME NEW added \in BOOLEAN, NextRepository(d, added) PROVE FALSE
  BY <1>a, <1>c DEF NextRepository, IdleHandler, HandlerType, Working
<1>1. CASE UpsertPullRequest(d)
  <2>1. PICK r \in handler[d].todo :
          /\ r \in imported /\ pullRequest' = [pullRequest EXCEPT ![r] = commitOf[d]]
          /\ handler' = [handler EXCEPT ![d].pc = "find", ![d].repo = r, ![d].todo = @ \ {r}]
    BY <1>a, <1>b, <1>1 DEF UpsertPullRequest, Abort
  <2>2. handler'[d].pc = "find" /\ handler'[d].repo = r
    BY <1>a, <2>1 DEF HandlerType
  <2> QED
    BY <1>1, <2>1, <2>2
<1>2. CASE FindRun(d)
  <2>1. /\ run[HandlerKey(d)] \in {"NONE", "FAILED"}
        /\ handler' = [handler EXCEPT ![d].pc = "save", ![d].seen = run[HandlerKey(d)]]
    BY <1>c, <1>2 DEF FindRun
  <2>2. /\ handler'[d].pc = "save" /\ handler'[d].repo = handler[d].repo
        /\ handler'[d].seen = run[HandlerKey(d)]
    BY <1>a, <2>1 DEF HandlerType
  <2> QED
    BY <1>2, <2>1, <2>2
<1>3. CASE SaveRun(d)
  BY <1>a, <1>b, <1>3 DEF SaveRun, HandlerType, Abort
<1>4. CASE AddJob(d)
  <2>1. handler' = [handler EXCEPT ![d].pc = "fail"] /\ UNCHANGED rows
    BY <1>c, <1>4 DEF AddJob
  <2>2. handler'[d].pc = "fail" /\ handler'[d].repo = handler[d].repo
    BY <1>a, <2>1 DEF HandlerType
  <2> QED
    BY <1>4, <2>1, <2>2
<1>5. CASE FailQueuedRun(d) \/ HandlerDatabaseFault(d)
  BY <1>a, <1>b, <1>5 DEF FailQueuedRun, HandlerDatabaseFault, Abort
<1>6. ASSUME NEW e \in Deliveries, HandlerStep(e), e # d PROVE handler'[d] = handler[d]
  BY <1>a, <1>6
  DEF HandlerStep, UpsertPullRequest, FindRun, SaveRun, AddJob, FailQueuedRun,
      HandlerDatabaseFault, Abort, NextRepository
<1>7. ASSUME NEW e \in Deliveries, Receive(e) PROVE handler'[d] = handler[d]
  BY <1>a, <1>7 DEF Receive, IdleHandler, Working
<1>8. ASSUME Crash PROVE handler'[d] = handler[d]
  BY <1>b, <1>8 DEF Crash
<1>9. ASSUME WorkerStep PROVE handler'[d] = handler[d]
  BY <1>9, ExecutionFrame DEF Finish
<1>10. \/ UNCHANGED handler
       \/ \E e \in Deliveries : HandlerStep(e) \/ Receive(e)
       \/ WorkerStep \/ Crash
  BY DEF Next, vars, Push, ToggleConnection, RemoveRepository, Take, Stall
<1>11. CASE HandlerStep(d)
  BY <1>1, <1>2, <1>3, <1>4, <1>5, <1>11 DEF HandlerStep
<1>12. CASE ~HandlerStep(d)
  BY <1>6, <1>7, <1>8, <1>9, <1>10, <1>12
<1> QED
  BY <1>11, <1>12

-----------------------------------------------------------------------------
(* The run of the head commit is not skipped.                              *)

\* The head commit recorded for a repository changes when the repository is
\* removed, and when a handler looks at it.
LEMMA HeadChanges ==
  ASSUME TypeOK, [Next]_vars, NEW r \in Repositories, pullRequest'[r] # pullRequest[r]
  PROVE  \/ r \notin imported' /\ \A c \in Commits : run'[<<r, c>>] = "NONE"
         \/ \E d \in Deliveries : /\ handler[d].pc = "upsert" /\ d \in 1..pushes
                                  /\ pullRequest'[r] = commitOf[d]
                                  /\ UNCHANGED <<pushes, commitOf, run, worker>>
<1>a. pullRequest \in [Repositories -> Commits \cup {NoCommit}] /\ run \in [Keys -> RunStatus]
  BY DEF TypeOK, RowsTypeOK
<1>1. ASSUME NEW s \in Repositories, RemoveRepository(s)
      PROVE  r \notin imported' /\ \A c \in Commits : run'[<<r, c>>] = "NONE"
  BY <1>a, <1>1 DEF RemoveRepository, Keys
<1>2. ASSUME NEW d \in Deliveries, HandlerStep(d)
      PROVE  /\ handler[d].pc = "upsert" /\ d \in 1..pushes
             /\ pullRequest'[r] = commitOf[d]
             /\ UNCHANGED <<pushes, commitOf, run, worker>>
  <2>1. UpsertPullRequest(d)
    BY <1>2 DEF HandlerStep, FindRun, SaveRun, AddJob, FailQueuedRun, HandlerDatabaseFault,
                rows
  <2>2. /\ handler[d].pc = "upsert" /\ UNCHANGED <<pushes, commitOf, run, worker>>
        /\ pullRequest'[r] = commitOf[d]
    BY <1>a, <2>1 DEF UpsertPullRequest, github
  <2> QED
    BY <2>2 DEF TypeOK, HandlersTypeOK, GithubTypeOK, Deliveries
<1>3. CASE WorkerStep
  BY <1>3, ExecutionFrame DEF Finish, rows
<1>4. \/ UNCHANGED pullRequest
      \/ \E s \in Repositories : RemoveRepository(s)
      \/ \E d \in Deliveries : HandlerStep(d)
      \/ WorkerStep
  BY DEF Next, vars, rows, Push, ToggleConnection, Receive, Take, Stall, Crash
<1> QED
  BY <1>1, <1>2, <1>3, <1>4

\* Inductive: as long as no delivery overtakes another, the deliveries have been
\* sent in order and at most one, the last that was sent, is handled.
InOrder ==
  "overtaking" \notin happened =>
    \A d, e \in Deliveries :
      /\ d < e /\ sends[e] > 0 => sends[d] > 0
      /\ handler[d].pc # "idle" /\ e > d => sends[e] = 0
      /\ handler[d].pc # "idle" /\ e # d => handler[e].pc = "idle"

\* A handler's step, or none, leaves the deliveries sent as they are, and makes
\* no other handler busy.
LEMMA BusyFrame ==
  ASSUME TypeOK, [Next]_vars
  PROVE  \/ /\ UNCHANGED sends
            /\ \A d \in Deliveries : handler'[d].pc # "idle" => handler[d].pc # "idle"
         \/ \E d \in Deliveries : Receive(d)
<1>a. handler \in [Deliveries -> HandlerType]
  BY DEF TypeOK, HandlersTypeOK
<1>1. CASE UNCHANGED <<sends, handler>>
  BY <1>1
<1>2. ASSUME NEW d \in Deliveries, HandlerStep(d)
      PROVE  /\ UNCHANGED sends
             /\ \A e \in Deliveries : handler'[e].pc # "idle" => handler[e].pc # "idle"
  <2>1. UNCHANGED sends
    BY <1>2, HandlerFrame DEF github
  <2>2. handler[d].pc # "idle" /\ \A e \in Deliveries \ {d} : handler'[e] = handler[e]
    BY <1>a, <1>2
    DEF HandlerStep, UpsertPullRequest, FindRun, SaveRun, AddJob, FailQueuedRun,
        HandlerDatabaseFault, Abort, NextRepository
  <2> QED
    BY <2>1, <2>2
<1>3. CASE Crash
  BY <1>3, IdleFact DEF Crash, github, HandlerReply
<1>4. CASE WorkerStep
  BY <1>1, <1>4, ExecutionFrame DEF Finish, github
<1> QED
  BY <1>1, <1>2, <1>3, <1>4
  DEF Next, vars, github, Push, ToggleConnection, RemoveRepository, Take, Stall

\* Every step keeps InOrder.
LEMMA OrderStep == TypeOK /\ InOrder /\ [Next]_vars => InOrder'
<1> SUFFICES ASSUME TypeOK, InOrder, [Next]_vars, "overtaking" \notin happened'
             PROVE  InOrder'
  BY DEF InOrder
<1>a. "overtaking" \notin happened
  BY HappenedGrows
<1>b. /\ handler \in [Deliveries -> HandlerType] /\ sends \in [Deliveries -> Nat]
      /\ Deliveries \subseteq Nat
  BY ConstantsAssumption DEF TypeOK, HandlersTypeOK, GithubTypeOK, Deliveries
<1>1. CASE /\ UNCHANGED sends
           /\ \A d \in Deliveries : handler'[d].pc # "idle" => handler[d].pc # "idle"
  BY <1>1, <1>a DEF InOrder
<1>2. ASSUME NEW d \in Deliveries, Receive(d) PROVE InOrder'
  <2>1. /\ sends[d] = 0
        /\ \A e \in Deliveries : e < d => sends[e] > 0
        /\ \A e \in Deliveries : handler[e].pc = "idle"
    BY <1>2, <1>b DEF Receive, Odd, Deliveries
  <2>2. /\ sends'[d] = 1 /\ \A e \in Deliveries \ {d} : sends'[e] = sends[e]
        /\ \A e \in Deliveries \ {d} : handler'[e] = handler[e]
    BY <1>2, <1>b, <2>1 DEF Receive
  <2>3. \A e \in Deliveries : e > d => sends[e] = 0
    BY <1>a, <1>b, <2>1 DEF InOrder
  <2> QED
    BY <1>b, <2>1, <2>2, <2>3 DEF InOrder
<1> QED
  BY <1>1, <1>2, BusyFrame

\* Inductive: the runs are of commits whose delivery was sent, and a handler
\* serves such a delivery.
SentInv ==
  /\ \A d \in Deliveries : handler[d].pc # "idle" => sends[d] > 0
  /\ \A k \in Keys : run[k] # "NONE" =>
       \E d \in 1..pushes : commitOf[d] = k[2] /\ sends[d] > 0

\* Every step keeps SentInv.
LEMMA SentStep == TypeOK /\ SentInv /\ [Next]_vars => SentInv'
<1> SUFFICES ASSUME TypeOK, SentInv, [Next]_vars PROVE SentInv'
  OBVIOUS
<1>a. sends \in [Deliveries -> Nat] /\ handler \in [Deliveries -> HandlerType]
  BY ConstantsAssumption DEF TypeOK, GithubTypeOK, HandlersTypeOK
<1>b. 1..pushes \subseteq Deliveries /\ pushes \in Nat
  BY ConstantsAssumption DEF TypeOK, GithubTypeOK, Deliveries
<1>c. \A d \in Deliveries : sends[d] > 0 => sends'[d] > 0
  <2>1. ASSUME NEW d \in Deliveries, Receive(d)
        PROVE  \A e \in Deliveries : sends[e] > 0 => sends'[e] > 0
    BY <1>a, <2>1 DEF Receive
  <2> QED
    BY <2>1, BusyFrame
<1>1. ASSUME NEW d \in Deliveries, handler'[d].pc # "idle" PROVE sends'[d] > 0
  <2>1. ASSUME NEW e \in Deliveries, Receive(e) PROVE sends'[d] > 0
    BY <1>1, <1>a, <2>1 DEF Receive, SentInv
  <2> QED
    BY <1>1, <2>1, BusyFrame DEF SentInv
<1>2. ASSUME NEW k \in Keys, run'[k] # "NONE"
      PROVE  \E d \in 1..pushes' : commitOf'[d] = k[2] /\ sends'[d] > 0
  <2>1. \E d \in 1..pushes : commitOf[d] = k[2] /\ sends[d] > 0
    <3>1. CASE run[k] # "NONE"
      BY <3>1 DEF SentInv
    <3>2. CASE run[k] = "NONE"
      <4>1. PICK d \in Deliveries : SaveRun(d) /\ k = HandlerKey(d)
        BY <1>2, <3>2, RunChanges
      <4>2. handler[d].pc # "idle" /\ d \in 1..pushes
        BY <4>1, <1>b DEF SaveRun, TypeOK, HandlersTypeOK, Deliveries
      <4> QED
        BY <4>1, <4>2 DEF SentInv, HandlerKey
    <3> QED
      BY <3>1, <3>2
  <2> QED
    BY <1>b, <1>c, <2>1, PushesStay
<1> QED
  BY <1>1, <1>2 DEF SentInv

\* Inductive: the head that the handler at work on a repository has recorded for
\* it is that of its delivery.
RecordedInv ==
  "overtaking" \notin happened =>
    \A d \in Deliveries :
      handler[d].pc \in Working /\ handler[d].repo \in imported =>
        pullRequest[handler[d].repo] = commitOf[d]

\* Every step keeps RecordedInv: another handler is not busy, by InOrder.
LEMMA RecordedStep == TypeOK /\ InOrder /\ RecordedInv /\ [Next]_vars => RecordedInv'
<1> SUFFICES ASSUME TypeOK, InOrder, RecordedInv, [Next]_vars,
                    "overtaking" \notin happened',
                    NEW d \in Deliveries, handler'[d].pc \in Working,
                    handler'[d].repo \in imported'
             PROVE  pullRequest'[handler'[d].repo] = commitOf'[d]
  BY DEF RecordedInv
<1> DEFINE r == handler'[d].repo
<1>a. "overtaking" \notin happened /\ r \in imported /\ r \in Repositories
  BY HappenedGrows, RunFrame DEF TypeOK, GithubTypeOK
<1>1. CASE handler'[d] = handler[d] /\ ~HandlerStep(d)
  <2>1. handler[d].pc # "idle" /\ d \in 1..pushes /\ commitOf'[d] = commitOf[d]
    BY <1>1, PushesStay DEF Working, TypeOK, HandlersTypeOK, Deliveries
  <2>2. pullRequest[r] = commitOf[d]
    BY <1>1, <1>a DEF RecordedInv
  <2>3. pullRequest'[r] = pullRequest[r]
    <3>1. SUFFICES ASSUME pullRequest'[r] # pullRequest[r] PROVE FALSE
      OBVIOUS
    <3>2. PICK e \in Deliveries : handler[e].pc = "upsert"
      BY <1>a, <3>1, HeadChanges
    <3>3. e = d
      BY <1>a, <2>1, <3>2 DEF InOrder
    <3> QED
      BY <1>1, <3>2, <3>3 DEF Working
  <2> QED
    BY <2>1, <2>2, <2>3
<1>2. CASE UpsertPullRequest(d) /\ pullRequest' = [pullRequest EXCEPT ![r] = commitOf[d]]
  BY <1>2, <1>a DEF UpsertPullRequest, github, TypeOK, RowsTypeOK
<1>3. ASSUME handler[d].pc \in Working, r = handler[d].repo,
             UNCHANGED <<pullRequest, commitOf>>
      PROVE  pullRequest'[r] = commitOf'[d]
  BY <1>3, <1>a DEF RecordedInv
<1>4. CASE FindRun(d) /\ r = handler[d].repo
  BY <1>3, <1>4 DEF FindRun, rows, github, Working
<1>5. CASE SaveRun(d) /\ r = handler[d].repo
  BY <1>3, <1>5 DEF SaveRun, github, Working
<1>6. CASE AddJob(d) /\ r = handler[d].repo
  BY <1>3, <1>6 DEF AddJob, rows, github, Working
<1> HIDE DEF r
<1>7. pullRequest'[r] = commitOf'[d]
  BY <1>1, <1>2, <1>4, <1>5, <1>6, HandlerChanges DEF r
<1> QED
  BY <1>7 DEF r

\* Inductive: the run of the head commit is not skipped, nor is the worker about
\* to skip it; its repository has the head commit recorded.
CurrentInv ==
  "overtaking" \notin happened /\ PushedOnce =>
    /\ worker.pc = "skip" => worker.key[2] # CurrentHead
    /\ \A r \in Repositories :
         CurrentHead \in Commits /\ run[<<r, CurrentHead>>] # "NONE" =>
           pullRequest[r] = CurrentHead /\ run[<<r, CurrentHead>>] # "SKIPPED"

\* The current head is among the commits that were pushed; a new one, if it was
\* pushed once, was not pushed before.
LEMMA CurrentHeadFact ==
  ASSUME TypeOK, [Next]_vars, PushedOnce'
  PROVE  /\ PushedOnce
         /\ \A d \in 1..pushes' : commitOf'[d] = CurrentHead' => d = pushes'
         /\ \/ CurrentHead' = CurrentHead
            \/ CurrentHead' \notin Heads /\ UNCHANGED <<run, worker>>
<1>a. /\ pushes \in Nat /\ pushes' \in Nat /\ pushes <= pushes'
      /\ \A d \in 1..pushes : commitOf'[d] = commitOf[d]
  BY PushesStay
<1>1. PushedOnce
  BY <1>a DEF PushedOnce
<1>2. \A d \in 1..pushes' : commitOf'[d] = CurrentHead' => d = pushes'
  BY <1>a DEF PushedOnce, CurrentHead
<1>3. CASE UNCHANGED <<pushes, commitOf>>
  BY <1>1, <1>2, <1>3 DEF CurrentHead
<1>4. ASSUME NEW c \in Commits, Push(c)
      PROVE  CurrentHead' \notin Heads /\ UNCHANGED <<run, worker>>
  <2>1. pushes' = pushes + 1 /\ UNCHANGED <<run, worker>>
    BY <1>4 DEF Push, rows
  <2> QED
    BY <1>2, <1>a, <2>1 DEF Heads
<1>5. CASE \E d \in Deliveries : HandlerStep(d)
  BY <1>3, <1>5, HandlerFrame DEF github
<1>6. CASE WorkerStep
  BY <1>3, <1>6, ExecutionFrame DEF Finish, github
<1> QED
  BY <1>1, <1>2, <1>3, <1>4, <1>5, <1>6
  DEF Next, vars, github, ToggleConnection, RemoveRepository, Receive, Take, Stall, Crash

\* The worker is about to skip a run if it was, and did nothing, or if it has
\* found another head recorded for its repository.
LEMMA SkipChanges ==
  ASSUME TypeOK, [Next]_vars, worker'.pc = "skip"
  PROVE  \/ UNCHANGED worker
         \/ /\ worker'.key = worker.key /\ worker.key \in Keys /\ UNCHANGED <<pushes, commitOf>>
            /\ run[worker.key] # "NONE" /\ pullRequest[worker.key[1]] # worker.key[2]
<1>a. worker \in WorkerType /\ run \in [Keys -> RunStatus]
  BY DEF TypeOK, RowsTypeOK, WorkerTypeOK
<1>1. worker' # IdleWorker /\ \A k \in Keys : ~Take(k)
  <2>1. ASSUME NEW k \in Keys, Take(k) PROVE worker'.pc = "start"
    BY <2>1 DEF Take, IdleWorker
  <2> QED
    BY <2>1, IdleFact
<1>2. CASE WorkerStep /\ ~Finish
  <2>a. worker.key \in Keys
    BY <1>2, ExecutionFrame
  <2> USE <1>a DEF WorkerType, Throw, Goto, InsideTry
  <2>1. CASE Start \/ Skip \/ SaveCheck \/ SaveCompleted \/ FailRun
    BY <2>a, <2>1 DEF Start, Skip, SaveCheck, SaveCompleted, FailRun, UpdateRun
  <2>2. CASE Load
    BY <2>a, <2>2 DEF Load, github
  <2>3. CASE CreateCheck \/ ReadSources \/ Generate \/ PostReview \/ CompleteCheck \/ FailCheck
    BY <2>3 DEF CreateCheck, ReadSources, Generate, PostReview, Replied, CompleteCheck, FailCheck
  <2>4. CASE WorkerDatabaseFault \/ GithubRefuses \/ OllamaFails
    BY <2>4 DEF WorkerDatabaseFault, GithubRefuses, OllamaFails
  <2> QED
    BY <1>2, <2>1, <2>2, <2>3, <2>4 DEF WorkerStep
<1>3. \/ UNCHANGED worker \/ worker' = IdleWorker
      \/ \E j \in Keys : Take(j)
      \/ WorkerStep /\ ~Finish
  BY HandlerFrame
  DEF Next, vars, Push, ToggleConnection, RemoveRepository, Receive, Stall, Crash, Finish
<1> QED
  BY <1>1, <1>2, <1>3

\* Every step keeps CurrentInv.
LEMMA CurrentStep ==
  TypeOK /\ SourcesInv /\ InOrder /\ SentInv /\ RecordedInv /\ CurrentInv /\ [Next]_vars
    => CurrentInv'
<1> SUFFICES ASSUME TypeOK, SourcesInv, InOrder, SentInv, RecordedInv, CurrentInv,
                    [Next]_vars, "overtaking" \notin happened', PushedOnce'
             PROVE  CurrentInv'
  BY DEF CurrentInv
<1>a. "overtaking" \notin happened /\ PushedOnce
  BY HappenedGrows, CurrentHeadFact
<1>b. pushes \in Nat /\ 1..pushes \subseteq Deliveries /\ Deliveries \subseteq Nat
  BY ConstantsAssumption DEF TypeOK, GithubTypeOK, Deliveries
<1>c. run \in [Keys -> RunStatus] /\ pullRequest \in [Repositories -> Commits \cup {NoCommit}]
  BY DEF TypeOK, RowsTypeOK
<1>1. ASSUME worker'.pc = "skip" PROVE worker'.key[2] # CurrentHead'
  <2>1. CASE UNCHANGED worker /\ CurrentHead' = CurrentHead
    BY <1>1, <1>a, <2>1 DEF CurrentInv
  <2>2. CASE UNCHANGED worker /\ CurrentHead' \notin Heads
    BY <1>1, <2>2 DEF SourcesInv
  <2>3. CASE /\ worker'.key = worker.key /\ worker.key \in Keys /\ UNCHANGED <<pushes, commitOf>>
             /\ run[worker.key] # "NONE" /\ pullRequest[worker.key[1]] # worker.key[2]
    <3>1. PICK r \in Repositories, c \in Commits : worker.key = <<r, c>>
      BY <2>3 DEF Keys
    <3>2. CurrentHead' = CurrentHead
      BY <2>3 DEF CurrentHead
    <3> QED
      BY <1>a, <2>3, <3>1, <3>2 DEF CurrentInv
  <2> QED
    BY <1>1, <2>1, <2>2, <2>3, SkipChanges, CurrentHeadFact
<1>2. ASSUME NEW r \in Repositories, CurrentHead' \in Commits,
             run'[<<r, CurrentHead'>>] # "NONE"
      PROVE  pullRequest'[r] = CurrentHead' /\ run'[<<r, CurrentHead'>>] # "SKIPPED"
  <2> DEFINE k == <<r, CurrentHead'>>
  <2>a. k \in Keys /\ k[1] = r /\ k[2] = CurrentHead'
    BY <1>2 DEF Keys
  <2>1. CurrentHead' = CurrentHead
    <3>1. SUFFICES ASSUME CurrentHead' \notin Heads, UNCHANGED run PROVE FALSE
      BY CurrentHeadFact
    <3>2. CurrentHead' \in Heads
      BY <1>2, <2>a, <3>1 DEF SentInv, Heads
    <3> QED
      BY <3>1, <3>2
  <2>2. run[k] # "NONE" => pullRequest[r] = CurrentHead' /\ run[k] # "SKIPPED"
    BY <1>2, <1>a, <2>1 DEF CurrentInv
  <2>3. /\ run'[k] # "SKIPPED"
        /\ run[k] = "NONE" => pullRequest[r] = CurrentHead'
    <3>1. CASE run'[k] = run[k]
      BY <1>2, <2>2, <3>1
    <3>2. ASSUME NEW d \in Deliveries, SaveRun(d), k = HandlerKey(d), run'[k] = "QUEUED",
                 run[k] = "NONE"
          PROVE  pullRequest[r] = CurrentHead'
      <4>1. handler[d].repo = r /\ commitOf[d] = CurrentHead' /\ handler[d].pc \in Working
        BY <3>2 DEF HandlerKey, SaveRun, Working
      <4>2. r \in imported
        BY <1>c, <2>a, <3>2, <4>1 DEF SaveRun
      <4> QED
        BY <1>a, <4>1, <4>2 DEF RecordedInv
    <3>3. CASE worker.pc = "skip" /\ k = worker.key
      BY <1>a, <2>1, <2>a, <3>3 DEF CurrentInv
    <3> HIDE DEF k
    <3> QED
      BY <1>2, <2>2, <2>a, <3>1, <3>2, <3>3, RunChanges DEF k
  <2>4. pullRequest'[r] = pullRequest[r]
    <3>1. SUFFICES ASSUME pullRequest'[r] # pullRequest[r], pullRequest[r] = CurrentHead'
                   PROVE  FALSE
      BY <2>2, <2>3 
    <3>2. PICK d \in Deliveries : /\ handler[d].pc = "upsert" /\ d \in 1..pushes
                                  /\ pullRequest'[r] = commitOf[d]
                                  /\ UNCHANGED <<pushes, commitOf, run, worker>>
      BY <1>2, <3>1, HeadChanges
    <3>3. PICK e \in 1..pushes : commitOf[e] = CurrentHead' /\ sends[e] > 0
      BY <1>2, <2>a, <3>2 DEF SentInv
    <3>4. e = pushes
      BY <3>2, <3>3, CurrentHeadFact
    <3>5. d = pushes
      BY <1>a, <1>b, <3>2, <3>3, <3>4 DEF InOrder
    <3> QED
      BY <3>1, <3>2, <3>3, <3>4, <3>5
  <2> QED
    BY <2>2, <2>3, <2>4
<1> QED
  BY <1>1, <1>2 DEF CurrentInv

\* As long as deliveries arrive one by one and in order, and no commit becomes
\* the head twice, the run of the head commit is not skipped as superseded.
THEOREM HeadIsReviewed == Spec => []HeadNotSkipped
<1>1. Init => InOrder /\ SentInv /\ RecordedInv /\ CurrentInv
  <2> SUFFICES ASSUME Init PROVE InOrder /\ SentInv /\ RecordedInv /\ CurrentInv
    OBVIOUS
  <2>1. InOrder /\ SentInv /\ RecordedInv
    BY DEF Init, InOrder, SentInv, RecordedInv, IdleHandler, Working
  <2>2. CurrentInv
    BY ConstantsAssumption DEF Init, CurrentInv, CurrentHead, IdleWorker
  <2> QED
    BY <2>1, <2>2
<1>2. CurrentInv => HeadNotSkipped
  BY DEF CurrentInv, HeadNotSkipped
<1> QED
  BY <1>1, <1>2, TypeCorrect, SourcesInvariant, OrderStep, SentStep, RecordedStep, CurrentStep,
     PTL DEF Spec

-----------------------------------------------------------------------------
(* A settled run is final.                                                 *)

\* Nothing has happened yet that would let run k change once it is settled.
Quiet(k) ==
  /\ stalls[k] = 0
  /\ \A d \in Deliveries : commitOf[d] = k[2] => ~Failing(d)
  /\ "overtaking" \notin happened
  /\ ~({"crash", "eviction"} \subseteq happened)

\* Run k is not executed, nor about to be.
Dormant(k) ==
  job[k] # "waiting" /\ (worker.key = k => worker.pc \in {"jobDone", "jobFailed"})

\* Inductive, whatever happens: an active job that no worker holds is of a
\* process that died, and a job that has stalled is still known to Redis unless
\* Redis has dropped it.
StallsInv ==
  \A k \in Keys :
    /\ job[k] = "active" /\ worker.key # k => "crash" \in happened
    /\ stalls[k] > 0 => "crash" \in happened /\ (job[k] = "absent" => "eviction" \in happened)

\* Inductive, whatever happens: what has failed was sent, and a handler at work
\* has not answered.
FailedInv ==
  \A d \in Deliveries :
    /\ Failing(d) => sends[d] > 0 /\ d <= pushes
    /\ handler[d].pc # "idle" => handler[d].reply = "none"

\* Inductive, whatever happens: a removed repository has no runs, and a handler
\* resets only the run that it has seen FAILED.
RowsInv ==
  /\ \A k \in Keys : k[1] \notin imported => run[k] = "NONE"
  /\ \A d \in Deliveries : handler[d].pc = "save" => handler[d].seen \in {"NONE", "FAILED"}

\* Inductive: a run whose job waits or starts is QUEUED, and the one that is
\* executed is RUNNING.
ExecutedInv ==
  \A k \in Keys : Quiet(k) /\ k[1] \in imported =>
    /\ job[k] = "waiting" => run[k] = "QUEUED"
    /\ worker.key = k =>
         /\ worker.pc = "start" => run[k] = "QUEUED"
         /\ worker.pc \notin {"start", "jobDone", "jobFailed"} => run[k] = "RUNNING"

\* Inductive: the run that a handler is about to save is as it has seen it, and
\* the one that it has saved is QUEUED and not executed yet.
SavedInv ==
  \A d \in Deliveries :
    Quiet(HandlerKey(d)) /\ handler[d].pc \in {"save", "add"} /\ handler[d].repo \in imported =>
    /\ handler[d].pc = "save" => run[HandlerKey(d)] = handler[d].seen
    /\ handler[d].pc = "add" => run[HandlerKey(d)] = "QUEUED" /\ Dormant(HandlerKey(d))

\* Every step keeps StallsInv.
LEMMA StallsStep == TypeOK /\ BusyWorkerHoldsJob /\ StallsInv /\ [Next]_vars => StallsInv'
<1> SUFFICES ASSUME TypeOK, BusyWorkerHoldsJob, StallsInv, [Next]_vars, NEW k \in Keys
             PROVE  /\ job'[k] = "active" /\ worker'.key # k => "crash" \in happened'
                    /\ stalls'[k] > 0 =>
                         "crash" \in happened' /\ (job'[k] = "absent" => "eviction" \in happened')
  BY DEF StallsInv
<1> DEFINE Kept == /\ job'[k] = "active" /\ worker'.key # k => "crash" \in happened'
                   /\ stalls'[k] > 0 =>
                        "crash" \in happened' /\ (job'[k] = "absent" => "eviction" \in happened')
<1>a. /\ job \in [Keys -> JobState] /\ stalls \in [Keys -> Nat] /\ worker \in WorkerType
      /\ happened \subseteq happened'
  BY HappenedGrows DEF TypeOK, QueueTypeOK, WorkerTypeOK
<1>b. /\ job[k] = "active" /\ worker.key # k => "crash" \in happened
      /\ stalls[k] > 0 => "crash" \in happened /\ (job[k] = "absent" => "eviction" \in happened)
  BY DEF StallsInv
<1>1. CASE UNCHANGED <<job, stalls, worker>>
  BY <1>1, <1>a, <1>b
<1>2. ASSUME NEW d \in Deliveries, HandlerStep(d) PROVE Kept
  <2>1. /\ UNCHANGED worker
        /\ \/ UNCHANGED queue
           \/ Enqueue(HandlerKey(d)) /\ handler[d].pc = "add"
    BY <1>2, HandlerFrame DEF AddJob
  <2>2. CASE UNCHANGED queue
    BY <2>1, <2>2, <1>1 DEF queue
  <2>3. CASE Enqueue(HandlerKey(d)) /\ handler[d].pc = "add"
    <3> DEFINE j == HandlerKey(d)
    <3>1. j \in Keys
      BY <2>3, HandlerKeyFact
    <3>2. \/ UNCHANGED <<job, stalls>>
          \/ job' = [job EXCEPT ![j] = "waiting"] /\ stalls' = [stalls EXCEPT ![j] = 0]
      BY <2>3 DEF Enqueue, queue
    <3> HIDE DEF j
    <3> QED
      BY <2>1, <3>1, <3>2, <1>1, <1>a, <1>b
  <2> QED
    BY <2>1, <2>2, <2>3
<1>3. ASSUME NEW j \in Keys, Take(j) PROVE Kept
  <2>1. worker.key = NoKey /\ worker'.key = j /\ UNCHANGED stalls
    BY <1>3 DEF Take, IdleWorker, TypeOK, WorkerTypeOK
  <2>2. j # k => job'[k] = job[k]
    BY <1>3, <1>a DEF Take
  <2>3. j = k => job'[k] = "active"
    BY <1>3, <1>a DEF Take
  <2>4. worker.key # k
    BY <2>1, NoKeyFact
  <2> QED
    BY <1>a, <1>b, <1>3, <2>1, <2>2, <2>3, <2>4 DEF Take
<1>4. ASSUME NEW j \in Keys, Stall(j) PROVE Kept
  <2>1. job[j] = "active" /\ worker.key # j /\ UNCHANGED worker
    BY <1>4 DEF Stall
  <2>2. "crash" \in happened'
    BY <2>1, <1>a DEF StallsInv
  <2>3. j # k => stalls'[k] = stalls[k]
    BY <1>4, <1>a DEF Stall
  <2>4. \/ job'[k] = job[k] \/ job'[k] \in {"waiting", "failed"}
        \/ (job'[k] = "absent" /\ "eviction" \in happened')
    BY <1>4, <1>a, RetireFact DEF Stall
  <2>5. j = k => job'[k] \in {"waiting", "failed"}
    BY <1>4, <1>a, RetireFact DEF Stall
  <2> QED
    BY <1>a, <1>b, <2>2, <2>3, <2>4, <2>5
<1>5. CASE Finish
  <2>1. worker.key \in Keys /\ UNCHANGED stalls
    BY <1>5, NoKeyFact DEF Finish, TypeOK, WorkerTypeOK, WorkerType
  <2>2. CASE worker.key = k
    <3>1. job'[k] \in {"completed", "failed"}
      BY <1>5, <2>2, RetireFact DEF Finish
    <3> QED
      BY <1>a, <1>b, <2>1, <3>1
  <2>3. CASE worker.key # k
    <3>1. job'[k] = job[k] \/ (job'[k] = "absent" /\ "eviction" \in happened')
      BY <1>5, <2>1, <2>3, RetireFact DEF Finish
    <3> QED
      BY <1>a, <1>b, <2>1, <2>3, <3>1
  <2> QED
    BY <2>2, <2>3
<1>6. CASE WorkerStep /\ ~Finish
  BY <1>6, <1>a, <1>b, ExecutionFrame DEF queue
<1>7. CASE Crash
  BY <1>7, <1>a, <1>b DEF Crash, Fault, queue
<1> QED
  BY <1>1, <1>2, <1>3, <1>4, <1>5, <1>6, <1>7
  DEF Next, vars, queue, Push, ToggleConnection, RemoveRepository, Receive

\* Every step keeps FailedInv.
LEMMA FailedStep == TypeOK /\ SentInv /\ FailedInv /\ [Next]_vars => FailedInv'
<1> SUFFICES ASSUME TypeOK, SentInv, FailedInv, [Next]_vars, NEW d \in Deliveries
             PROVE  /\ Failing(d)' => sends'[d] > 0 /\ d <= pushes'
                    /\ handler'[d].pc # "idle" => handler'[d].reply = "none"
  BY DEF FailedInv
<1> DEFINE Answered == handler'[d].pc # "idle" => handler'[d].reply = "none"
<1>a. /\ sends \in [Deliveries -> Nat] /\ handler \in [Deliveries -> HandlerType]
      /\ d \in Nat /\ pushes \in Nat /\ pushes' \in Nat /\ pushes <= pushes'
  BY ConstantsAssumption, PushesStay DEF TypeOK, GithubTypeOK, HandlersTypeOK, Deliveries
<1>b. handler[d].pc # "idle" => sends[d] > 0 /\ d <= pushes /\ handler[d].reply = "none"
  BY DEF SentInv, FailedInv, TypeOK, HandlersTypeOK
<1>1. ASSUME NEW e \in Deliveries, Receive(e)
      PROVE  /\ Failing(d)' => sends'[d] > 0 /\ d <= pushes
             /\ Answered
  BY <1>1, <1>a, <1>b, IdleFact DEF Receive, FailedInv, Failing, HandlerReply, IdleHandler
<1>2. CASE handler'[d] = handler[d] /\ UNCHANGED sends
  BY <1>2, <1>a DEF FailedInv, Failing
<1>3. CASE handler[d].pc # "idle" /\ UNCHANGED sends /\ Answered
  BY <1>3, <1>a, <1>b
<1>4. ASSUME NEW e \in Deliveries, HandlerStep(e)
      PROVE  UNCHANGED sends /\ (handler'[d] = handler[d] \/ (handler[d].pc # "idle" /\ Answered))
  <2>1. UNCHANGED sends
    BY <1>4, HandlerFrame DEF github
  <2>2. handler[e].pc # "idle" /\ \A f \in Deliveries \ {e} : handler'[f] = handler[f]
    BY <1>a, <1>4
    DEF HandlerStep, UpsertPullRequest, FindRun, SaveRun, AddJob, FailQueuedRun,
        HandlerDatabaseFault, Abort, NextRepository
  <2>3. CASE e = d
    <3>a. handler[d] \in HandlerType /\ IdleHandler("error").pc = "idle"
      BY <1>a, IdleFact DEF HandlerReply
    <3>b. ASSUME NEW added \in BOOLEAN, NextRepository(d, added) PROVE Answered
      BY <1>a, <1>b, <2>2, <2>3, <3>a, <3>b DEF NextRepository, IdleHandler, HandlerType
    <3>c. Abort(d) => Answered
      BY <1>a, <3>a DEF Abort
    <3>1. ASSUME UpsertPullRequest(d), ~Abort(d) PROVE Answered
      <4>1. PICK r \in Repositories :
              handler' = [handler EXCEPT ![d].pc = "find", ![d].repo = r, ![d].todo = @ \ {r}]
        BY <3>1, <3>a DEF UpsertPullRequest, HandlerType
      <4> QED
        BY <4>1, <1>a, <1>b, <2>2, <2>3, <3>a DEF HandlerType
    <3>2. ASSUME FindRun(d) PROVE Answered
      <4>1. CASE handler' = [handler EXCEPT ![d].pc = "save", ![d].seen = run[HandlerKey(d)]]
        BY <4>1, <1>a, <1>b, <2>2, <2>3, <3>a DEF HandlerType
      <4> QED
        BY <3>2, <4>1, <3>b DEF FindRun
    <3>3. ASSUME SaveRun(d) \/ AddJob(d), ~Abort(d) PROVE Answered
      <4>1. ASSUME NEW pc \in {"add", "fail"}, handler' = [handler EXCEPT ![d].pc = pc]
            PROVE  Answered
        BY <4>1, <1>a, <1>b, <2>2, <2>3, <3>a DEF HandlerType
      <4> QED
        BY <3>3, <4>1, <3>b DEF SaveRun, AddJob
    <3> QED
      BY <1>4, <2>1, <2>2, <2>3, <3>c, <3>1, <3>2, <3>3
      DEF HandlerStep, FailQueuedRun, HandlerDatabaseFault
  <2> QED
    BY <2>1, <2>2, <2>3
<1>5. CASE Crash
  BY <1>2, <1>3, <1>5, IdleFact DEF Crash, github, HandlerReply
<1>6. \/ UNCHANGED <<sends, handler>>
      \/ \E e \in Deliveries : HandlerStep(e) \/ Receive(e)
      \/ Crash
  BY ExecutionFrame
  DEF Next, vars, github, Push, ToggleConnection, RemoveRepository, Take, Stall, Finish
<1> QED
  BY <1>1, <1>2, <1>3, <1>4, <1>5, <1>6, <1>a

\* What would let run k change is not forgotten: a run that is quiet was so.
\* Such a run that no worker touches is dormant.
LEMMA QuietFact ==
  ASSUME TypeOK, InOrder, StallsInv, FailedInv, ExecutedInv, [Next]_vars,
         NEW k \in Keys, Quiet(k)'
  PROVE  /\ Quiet(k) /\ "overtaking" \notin happened
         /\ ~Stall(k)
         /\ k[1] \in imported /\ run[k] \in {"NONE", "FAILED"} => Dormant(k)
<1>a. /\ happened \subseteq happened' /\ stalls \in [Keys -> Nat] /\ job \in [Keys -> JobState]
      /\ handler \in [Deliveries -> HandlerType]
  BY HappenedGrows DEF TypeOK, QueueTypeOK, HandlersTypeOK
<1>1. "overtaking" \notin happened /\ ~({"crash", "eviction"} \subseteq happened)
  BY <1>a DEF Quiet
<1>2. ~Stall(k)
  BY <1>a DEF Quiet, Stall
<1>3. stalls[k] = 0
  <2> SUFFICES ASSUME stalls[k] # 0 PROVE FALSE
    OBVIOUS
  <2>1. job[k] # "absent" /\ stalls[k] > 0
    BY <1>1, <1>a DEF StallsInv
  <2>2. ASSUME NEW d \in Deliveries, HandlerStep(d) PROVE stalls'[k] = stalls[k]
    BY <1>a, <2>1, <2>2, HandlerFrame DEF AddJob, Enqueue, queue
  <2>3. ASSUME NEW j \in Keys, Stall(j) PROVE stalls'[k] = stalls[k]
    BY <1>2, <1>a, <2>3 DEF Stall
  <2>4. stalls'[k] = stalls[k]
    BY <2>2, <2>3, ExecutionFrame
    DEF Next, vars, queue, Push, ToggleConnection, RemoveRepository, Receive, Take, Finish,
        Crash
  <2> QED
    BY <2>1, <2>4 DEF Quiet
<1>4. ASSUME NEW d \in Deliveries, commitOf[d] = k[2], Failing(d) PROVE FALSE
  <2>1. sends[d] > 0 /\ d \in 1..pushes
    BY <1>4, ConstantsAssumption DEF FailedInv, TypeOK, GithubTypeOK, Deliveries
  <2>2. commitOf'[d] = k[2]
    BY <1>4, <2>1, PushesStay
  <2>3. ASSUME NEW e \in Deliveries, Receive(e) PROVE e # d
    BY <2>1, <2>3 DEF Receive, Odd, Quiet
  <2>4. ASSUME NEW e \in Deliveries, HandlerStep(e) PROVE Failing(d)'
    <3>1. e # d => handler'[d] = handler[d]
      BY <1>a, <2>4
      DEF HandlerStep, UpsertPullRequest, FindRun, SaveRun, AddJob, FailQueuedRun,
          HandlerDatabaseFault, Abort, NextRepository
    <3>2. e = d => handler[d].pc # "idle"
      BY <2>4 DEF HandlerStep, UpsertPullRequest, FindRun, SaveRun, AddJob, FailQueuedRun,
                  HandlerDatabaseFault
    <3>3. handler[d].pc # "idle" => handler[d].pc = "fail"
      BY <1>4 DEF Failing, FailedInv
    <3>4. CASE e = d
      <4>1. Abort(d)
        BY <2>4, <3>2, <3>3, <3>4
        DEF HandlerStep, UpsertPullRequest, FindRun, SaveRun, AddJob, FailQueuedRun,
            HandlerDatabaseFault
      <4> QED
        BY <1>a, <4>1 DEF Abort, Failing, IdleHandler
    <3>5. CASE e # d
      BY <1>4, <3>1, <3>5 DEF Failing
    <3> QED
      BY <3>4, <3>5
  <2>5. ASSUME NEW e \in Deliveries, Receive(e) PROVE Failing(d)'
    BY <1>4, <1>a, <2>3, <2>5 DEF Receive, Failing
  <2>6. ASSUME Crash PROVE Failing(d)'
    BY <1>4, <1>a, <2>6 DEF Crash, Failing, IdleHandler
  <2>7. UNCHANGED handler => Failing(d)'
    BY <1>4 DEF Failing
  <2>8. Failing(d)'
    BY <2>4, <2>5, <2>6, <2>7, ExecutionFrame
    DEF Next, vars, Push, ToggleConnection, RemoveRepository, Take, Stall, Finish
  <2> QED
    BY <2>2, <2>8 DEF Quiet
<1>5. Quiet(k)
  BY <1>1, <1>3, <1>4 DEF Quiet
<1>6. k[1] \in imported /\ run[k] \in {"NONE", "FAILED"} => Dormant(k)
  BY <1>5 DEF ExecutedInv, Dormant
<1> QED
  BY <1>1, <1>2, <1>5, <1>6

\* Every step keeps RowsInv.
LEMMA RowsStep == TypeOK /\ RowsInv /\ [Next]_vars => RowsInv'
<1> SUFFICES ASSUME TypeOK, RowsInv, [Next]_vars PROVE RowsInv'
  OBVIOUS
<1>a. run \in [Keys -> RunStatus] /\ imported' \subseteq imported
  BY RunFrame DEF TypeOK, RowsTypeOK
<1>1. ASSUME NEW k \in Keys, k[1] \notin imported', run'[k] # "NONE" PROVE FALSE
  <2>1. CASE k[1] \notin imported
    <3>1. run[k] = "NONE"
      BY <2>1 DEF RowsInv
    <3>2. PICK d \in Deliveries : SaveRun(d) /\ k = HandlerKey(d) /\ run'[k] = "QUEUED"
      BY <1>1, <3>1, RunChanges
    <3>3. handler[d].pc = "save" /\ handler[d].repo \notin imported
      BY <2>1, <3>2 DEF SaveRun, HandlerKey
    <3> QED
      BY <1>a, <3>1, <3>2, <3>3 DEF SaveRun, RowsInv
  <2>2. CASE k[1] \in imported
    <3>1. ASSUME NEW r \in Repositories, RemoveRepository(r) PROVE FALSE
      BY <1>1, <2>2, <3>1 DEF RemoveRepository
    <3>2. imported' = imported
      BY <3>1, HandlerFrame, ExecutionFrame
      DEF Next, vars, github, Push, ToggleConnection, Receive, Take, Stall, Crash, Finish
    <3> QED
      BY <1>1, <2>2, <3>2
  <2> QED
    BY <2>1, <2>2
<1>2. ASSUME NEW d \in Deliveries, handler'[d].pc = "save"
      PROVE  handler'[d].seen \in {"NONE", "FAILED"}
  BY <1>2, HandlerChanges DEF RowsInv, Working
<1> QED
  BY <1>1, <1>2 DEF RowsInv

\* A quiet run changes when a handler saves the run that it has seen, or when
\* the worker executes it.
LEMMA SavesOwnRun ==
  ASSUME TypeOK, RowsInv, ExecutedInv, SavedInv, [Next]_vars,
         NEW k \in Keys, Quiet(k), k[1] \in imported', run'[k] # run[k]
  PROVE  \/ \E d \in Deliveries :
              SaveRun(d) /\ k = HandlerKey(d) /\ run'[k] = "QUEUED" /\ run[k] \in {"NONE", "FAILED"}
         \/ /\ WorkerStep /\ k = worker.key
            /\ \/ worker.pc = "start" /\ run[k] = "QUEUED"
               \/ worker.pc \in {"skip", "saveCompleted", "failRun"} /\ run[k] = "RUNNING"
<1>a. k[1] \in imported
  BY RunFrame
<1>1. ASSUME NEW d \in Deliveries, SaveRun(d), k = HandlerKey(d)
      PROVE  run[k] \in {"NONE", "FAILED"}
  <2>1. handler[d].pc = "save" /\ handler[d].repo \in imported
    BY <1>1, <1>a DEF SaveRun, HandlerKey
  <2> QED
    BY <1>1, <1>a, <2>1 DEF SavedInv, RowsInv
<1>2. ASSUME NEW d \in Deliveries, FailQueuedRun(d), k = HandlerKey(d) PROVE FALSE
  BY <1>2, <1>a DEF FailQueuedRun, HandlerKey, Quiet, Failing
<1>3. ASSUME k = worker.key
      PROVE  /\ worker.pc = "start" => run[k] = "QUEUED"
             /\ worker.pc \in {"skip", "saveCompleted", "failRun"} => run[k] = "RUNNING"
  BY <1>3, <1>a DEF ExecutedInv
<1> QED
  BY <1>1, <1>2, <1>3, RunChanges

\* Every step keeps ExecutedInv.
LEMMA ExecutedStep ==
  TypeOK /\ BusyWorkerHoldsJob /\ InOrder /\ StallsInv /\ FailedInv /\ RowsInv /\ ExecutedInv
    /\ SavedInv /\ [Next]_vars => ExecutedInv'
<1> SUFFICES ASSUME TypeOK, BusyWorkerHoldsJob, InOrder, StallsInv, FailedInv, RowsInv,
                    ExecutedInv, SavedInv, [Next]_vars, NEW k \in Keys, Quiet(k)',
                    k[1] \in imported'
             PROVE  /\ job'[k] = "waiting" => run'[k] = "QUEUED"
                    /\ worker'.key = k =>
                         /\ worker'.pc = "start" => run'[k] = "QUEUED"
                         /\ worker'.pc \notin {"start", "jobDone", "jobFailed"} =>
                              run'[k] = "RUNNING"
  BY DEF ExecutedInv
<1>a. Quiet(k) /\ ~Stall(k) /\ k[1] \in imported
  BY QuietFact, RunFrame
<1>b. worker.key = k => job[k] = "active" /\ worker.pc # "idle"
  BY NoKeyFact DEF TypeOK, WorkerTypeOK, BusyWorkerHoldsJob
<1>2. ASSUME job'[k] = "waiting" PROVE run'[k] = "QUEUED"
  <2>1. CASE job[k] = "waiting"
    <3>1. run[k] = "QUEUED" /\ worker.key # k
      BY <1>a, <1>b, <2>1 DEF ExecutedInv
    <3> QED
      BY <1>a, <3>1, SavesOwnRun
  <2>2. ASSUME NEW d \in Deliveries, AddJob(d), k = HandlerKey(d) PROVE run'[k] = "QUEUED"
    <3>1. handler[d].pc = "add" /\ handler[d].repo \in imported /\ UNCHANGED run
      BY <2>2, <1>a DEF AddJob, HandlerKey, rows
    <3> QED
      BY <1>a, <2>2, <3>1 DEF SavedInv
  <2> QED
    BY <1>2, <1>a, <2>1, <2>2, JobChanges
<1>3. ASSUME worker'.key = k
      PROVE  /\ worker'.pc = "start" => run'[k] = "QUEUED"
             /\ worker'.pc \notin {"start", "jobDone", "jobFailed"} => run'[k] = "RUNNING"
  <2>1. CASE UNCHANGED worker /\ ~WorkerStep
    <3>1. /\ worker.pc = "start" => run[k] = "QUEUED"
          /\ worker.pc \notin {"start", "jobDone", "jobFailed"} => run[k] = "RUNNING"
      BY <1>3, <1>a, <2>1 DEF ExecutedInv
    <3>2. run'[k] # run[k] => worker.pc \in {"jobDone", "jobFailed"}
      BY <1>3, <1>a, <2>1, <3>1, SavesOwnRun, QuietFact DEF Dormant
    <3> QED
      BY <2>1, <3>1, <3>2
  <2>2. CASE Take(k) /\ worker'.pc = "start"
    BY <1>a, <2>2 DEF Take, ExecutedInv, rows
  <2>3. CASE /\ WorkerStep /\ worker.key = k
             /\ worker.pc \notin {"jobDone", "jobFailed"} /\ worker'.pc # "start"
             /\ worker'.pc \notin {"jobDone", "jobFailed"} =>
                  \/ worker.pc = "start" /\ run'[k] = "RUNNING"
                  \/ worker.pc # "start" /\ run'[k] = run[k]
    BY <1>a, <2>3 DEF ExecutedInv
  <2> QED
    BY <1>3, <2>1, <2>2, <2>3, WorkerChanges
<1> QED
  BY <1>2, <1>3

\* Every step keeps SavedInv: no other handler is busy, by InOrder, and the
\* worker does not touch a dormant run.
LEMMA SavedStep ==
  TypeOK /\ InOrder /\ StallsInv /\ FailedInv /\ RowsInv /\ ExecutedInv /\ SavedInv
    /\ [Next]_vars => SavedInv'
<1> SUFFICES ASSUME TypeOK, InOrder, StallsInv, FailedInv, RowsInv, ExecutedInv, SavedInv,
                    [Next]_vars, NEW d \in Deliveries, Quiet(HandlerKey(d))',
                    handler'[d].pc \in {"save", "add"}, handler'[d].repo \in imported'
             PROVE  /\ handler'[d].pc = "save" => run'[HandlerKey(d)'] = handler'[d].seen
                    /\ handler'[d].pc = "add" =>
                         run'[HandlerKey(d)'] = "QUEUED" /\ Dormant(HandlerKey(d))'
  BY DEF SavedInv
<1> DEFINE k == HandlerKey(d)
           Saved == /\ handler'[d].pc = "save" => run'[k] = handler'[d].seen
                    /\ handler'[d].pc = "add" =>
                         /\ run'[k] = "QUEUED" /\ job'[k] # "waiting"
                         /\ worker'.key = k => worker'.pc \in {"jobDone", "jobFailed"}
<1>a. /\ handler'[d].repo \in imported
      /\ handler \in [Deliveries -> HandlerType] /\ run \in [Keys -> RunStatus]
  BY RunFrame DEF TypeOK, HandlersTypeOK, RowsTypeOK
<1>b. ASSUME handler'[d].repo = handler[d].repo, handler[d].pc \in Working
      PROVE  /\ HandlerKey(d)' = k /\ k \in Keys /\ Quiet(k)' /\ Quiet(k)
             /\ ~Stall(k) /\ "overtaking" \notin happened
             /\ run[k] \in {"NONE", "FAILED"} => Dormant(k)
  <2>1. k \in Keys /\ d \in 1..pushes
    BY <1>b, HandlerKeyFact
    DEF Working, TypeOK, HandlersTypeOK, GithubTypeOK, Deliveries
  <2>2. HandlerKey(d)' = k
    BY <1>b, <2>1, PushesStay DEF HandlerKey
  <2>3. k[1] \in imported
    BY <1>a, <1>b DEF HandlerKey
  <2>4. Quiet(k)'
    BY <2>2 DEF Quiet
  <2> HIDE DEF k
  <2> QED
    BY <2>1, <2>2, <2>3, <2>4, QuietFact
<1>1. CASE handler'[d] = handler[d] /\ ~HandlerStep(d)
  <2>1. /\ k \in Keys /\ k[1] \in imported /\ k[1] \in imported' /\ Quiet(k)' /\ ~Stall(k)
        /\ HandlerKey(d)' = k /\ "overtaking" \notin happened
    BY <1>1, <1>a, <1>b DEF Working, HandlerKey
  <2>2. /\ handler[d].pc = "save" => run[k] \in {"NONE", "FAILED"} /\ run[k] = handler[d].seen
        /\ handler[d].pc # "save" => run[k] = "QUEUED"
        /\ Dormant(k)
    BY <1>1, <1>a, <1>b DEF SavedInv, RowsInv, Working
  <2>3. \A e \in Deliveries : ~HandlerStep(e)
    <3>1. ASSUME NEW e \in Deliveries, HandlerStep(e) PROVE handler[e].pc # "idle"
      BY <3>1 DEF HandlerStep, UpsertPullRequest, FindRun, SaveRun, AddJob, FailQueuedRun,
                  HandlerDatabaseFault
    <3>2. \A e \in Deliveries \ {d} : handler[e].pc = "idle"
      BY <1>1, <2>1 DEF InOrder
    <3> QED
      BY <1>1, <3>1, <3>2
  <2>a. Quiet(k)
    BY <1>1, <1>b DEF Working
  <2> HIDE DEF k
  <2>4. run'[k] = run[k]
    BY <2>1, <2>2, <2>3, <2>a, SavesOwnRun DEF Dormant, HandlerStep
  <2>5. job'[k] # "waiting"
    BY <2>1, <2>2, <2>3, JobChanges DEF Dormant, HandlerStep
  <2>6. ASSUME worker'.key = k PROVE worker'.pc \in {"jobDone", "jobFailed"}
    BY <2>1, <2>2, <2>6, WorkerChanges DEF Dormant, Take
  <2>7. Saved
    BY <1>1, <2>2, <2>4, <2>5, <2>6
  <2> QED
    BY <2>1, <2>7 DEF Dormant
<1>2. CASE /\ FindRun(d) /\ handler'[d].pc = "save" /\ handler'[d].repo = handler[d].repo
           /\ handler'[d].seen = run[HandlerKey(d)]
  BY <1>2, <1>b DEF FindRun, rows, Working
<1>3. CASE /\ SaveRun(d) /\ handler'[d].pc = "add" /\ handler'[d].repo = handler[d].repo
           /\ run' = [run EXCEPT ![HandlerKey(d)] = "QUEUED"]
  <2>1. /\ k \in Keys /\ Quiet(k) /\ handler[d].pc = "save" /\ HandlerKey(d)' = k
        /\ handler[d].repo \in imported
    BY <1>3, <1>a, <1>b DEF SaveRun, Working
  <2>2. run[k] \in {"NONE", "FAILED"}
    BY <2>1 DEF SavedInv, RowsInv
  <2>3. Dormant(k) /\ UNCHANGED <<job, worker>> /\ run'[k] = "QUEUED"
    BY <1>3, <1>a, <1>b, <2>1, <2>2 DEF SaveRun, queue, Working
  <2> HIDE DEF k
  <2>4. Saved
    BY <1>3, <2>3 DEF Dormant
  <2> QED
    BY <2>1, <2>4 DEF Dormant
<1> QED
  BY <1>1, <1>2, <1>3, HandlerChanges DEF Working

\* A run that is COMPLETED or SKIPPED changes no more until it is deleted, as
\* long as its job has not stalled, no delivery of its commit has failed, none
\* has overtaken another, and not both has the process died and Redis dropped a
\* finished job.
THEOREM SettledRunsAreFinal == Spec => SettledIsFinal
<1> DEFINE Inv == /\ TypeOK /\ BusyWorkerHoldsJob /\ InOrder /\ SentInv /\ StallsInv
                  /\ FailedInv /\ RowsInv /\ ExecutedInv /\ SavedInv
           Final == \A k \in Keys :
             run[k] \in {"COMPLETED", "SKIPPED"} /\ run'[k] \notin {run[k], "NONE"} =>
               \/ stalls[k] > 0
               \/ \E d \in Deliveries : commitOf[d] = k[2] /\ Failing(d)
               \/ "overtaking" \in happened
               \/ {"crash", "eviction"} \subseteq happened
<1>1. Init => /\ InOrder /\ SentInv /\ StallsInv /\ FailedInv /\ RowsInv /\ ExecutedInv
              /\ SavedInv
  <2> SUFFICES ASSUME Init
               PROVE  /\ InOrder /\ SentInv /\ StallsInv /\ FailedInv /\ RowsInv /\ ExecutedInv
                      /\ SavedInv
    OBVIOUS
  <2>1. InOrder /\ SentInv /\ RowsInv /\ SavedInv /\ FailedInv
    BY DEF Init, InOrder, SentInv, RowsInv, SavedInv, FailedInv, Failing, IdleHandler
  <2>2. ExecutedInv /\ StallsInv
    BY NoKeyFact DEF Init, ExecutedInv, StallsInv, IdleWorker
  <2> QED
    BY <2>1, <2>2
<1>2. Spec => []BusyWorkerHoldsJob
  <2>1. JobInv => BusyWorkerHoldsJob
    BY DEF JobInv
  <2> QED
    BY <2>1, JobInvariant, PTL
<1>3. Spec => []Inv
  BY <1>1, <1>2, TypeCorrect, OrderStep, SentStep, StallsStep, FailedStep, RowsStep,
     ExecutedStep, SavedStep, PTL DEF Spec
<1>4. ASSUME Inv, [Next]_vars PROVE Final
  <2>1. RowsInv'
    BY <1>4, RowsStep
  <2>2. \A k \in Keys : run'[k] # "NONE" => k[1] \in imported'
    BY <2>1 DEF RowsInv
  <2> SUFFICES ASSUME NEW k \in Keys, k[1] \in imported',
                      run[k] \in {"COMPLETED", "SKIPPED"}, run'[k] # run[k],
                      stalls[k] = 0, "overtaking" \notin happened,
                      \A d \in Deliveries : commitOf[d] = k[2] => ~Failing(d),
                      ~({"crash", "eviction"} \subseteq happened)
               PROVE  FALSE
    BY <1>4, <2>2 DEF TypeOK, QueueTypeOK
  <2>3. Quiet(k)
    BY DEF Quiet
  <2> QED
    BY <1>4, <2>3, SavesOwnRun
<1> QED
  BY <1>3, <1>4, PTL DEF Spec, SettledIsFinal
=============================================================================
