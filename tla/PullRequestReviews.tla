------------------------- MODULE PullRequestReviews -------------------------
(***************************************************************************)
(* Automatic pull request reviews (apps/api/src/github-webhooks): GitHub   *)
(* delivers a webhook, handleEvent records the head commit and a review    *)
(* run in PostgreSQL and adds a BullMQ job, and the single BullMQ worker   *)
(* executes processRun, which opens a check run, reviews the sources with  *)
(* Ollama, posts a review, closes the check run and settles the run row.   *)
(*                                                                         *)
(* One step of the model is the code between two awaits.  The model        *)
(* follows one pull request of one GitHub repository, which may be         *)
(* imported into several workspaces (Repositories).  A run row is          *)
(* identified by its key, the pair of a repository and a head commit, as   *)
(* in @@unique([pullRequestId, headSha]); the id of the row is also the    *)
(* id of its BullMQ job.                                                   *)
(***************************************************************************)
EXTENDS Integers, Sequences, FiniteSets

CONSTANTS
  Repositories,   \* rows of Repository imported from the GitHub repository
  Commits,        \* commits that may become the head of the pull request
  MaxPushes,      \* bound: head changes, one webhook delivery each
  MaxSends,       \* bound: times GitHub sends one delivery (1 = no redelivery)
  Retained,       \* finished jobs kept (removeOnComplete, removeOnFail)
  MaxStalls,      \* BullMQ's maxStalledCount, 1 by default
  Faults,         \* the kinds of fault that may happen
  MaxFaults,      \* bound: number of faults
  NoRepository, NoCommit

FaultKinds == {"crash", "database", "redis", "github", "lostReply", "ollama"}

ASSUME ConstantsAssumption ==
  /\ MaxPushes \in Nat /\ MaxSends \in Nat /\ MaxFaults \in Nat
  /\ Retained \in Nat \ {0} /\ MaxStalls \in Nat
  /\ Faults \subseteq FaultKinds
  /\ NoRepository \notin Repositories /\ NoCommit \notin Commits

VARIABLES
  connected,      \* the ProviderConnection is ACTIVE
  imported,       \* the repositories that have not been removed
  pushes,         \* head changes so far; delivery d announces the d-th
  commitOf,       \* commitOf[d]: the head commit that delivery d announces
  sends,          \* sends[d]: how often GitHub has sent delivery d
  handler,        \* handler[d]: the handleEvent call serving delivery d
  pullRequest,    \* pullRequest[r]: headSha of the GitHubPullRequest row
  run,            \* run[k]: status of the PullRequestReviewRun row
  job,            \* job[k]: state of the BullMQ job with the row's id
  stalls,         \* stalls[k]: BullMQ's stalled counter of that job
  worker,         \* the processRun call of the worker (concurrency 1)
  openChecks,     \* openChecks[k]: check runs in progress at GitHub
  conclusion,     \* conclusion[k]: conclusion of the last check run closed
  reviews,        \* reviews[k]: for each posted review, the head it was read at
  faults,         \* number of faults so far
  happened        \* history: the kinds of fault, and the odd events, so far

github == <<connected, imported, pushes, commitOf, sends>>
rows   == <<pullRequest, run>>
queue  == <<job, stalls>>
posted == <<openChecks, conclusion, reviews>>
odd    == <<faults, happened>>
vars   == <<github, handler, rows, queue, worker, posted, odd>>

Deliveries == 1..MaxPushes
Keys       == Repositories \X Commits
NoKey      == <<NoRepository, NoCommit>>

RunStatus == {"NONE", "QUEUED", "RUNNING", "COMPLETED", "FAILED", "SKIPPED"}
JobState  == {"absent", "waiting", "active", "completed", "failed"}

\* The head commit of the pull request at GitHub.
CurrentHead == IF pushes = 0 THEN NoCommit ELSE commitOf[pushes]

\* The run row, and the job, that the handler of delivery d is working on.
HandlerKey(d) == <<handler[d].repo, commitOf[d]>>

IdleHandler(reply) ==
  [pc |-> "idle", todo |-> {}, repo |-> NoRepository, seen |-> "NONE",
   queued |-> FALSE, reply |-> reply]
IdleWorker ==
  [pc |-> "idle", key |-> NoKey, check |-> "none", read |-> NoCommit]

Init ==
  /\ connected = TRUE
  /\ imported = Repositories
  /\ pushes = 0
  /\ commitOf = [d \in Deliveries |-> NoCommit]
  /\ sends = [d \in Deliveries |-> 0]
  /\ handler = [d \in Deliveries |-> IdleHandler("none")]
  /\ pullRequest = [r \in Repositories |-> NoCommit]
  /\ run = [k \in Keys |-> "NONE"]
  /\ job = [k \in Keys |-> "absent"]
  /\ stalls = [k \in Keys |-> 0]
  /\ worker = IdleWorker
  /\ openChecks = [k \in Keys |-> 0]
  /\ conclusion = [k \in Keys |-> "none"]
  /\ reviews = [k \in Keys |-> << >>]
  /\ faults = 0
  /\ happened = {}

Fault(kind) ==
  /\ kind \in Faults /\ faults < MaxFaults
  /\ faults' = faults + 1
  /\ happened' = happened \cup {kind}

\* Odd events are not faults: a delivery that is handled before another
\* is answered, after a later one or again; a finished job that Redis drops.
Odd(kind, occurs) ==
  /\ happened' = IF occurs THEN happened \cup {kind} ELSE happened
  /\ UNCHANGED faults

-----------------------------------------------------------------------------
(* GitHub and the users of the dashboard.                                  *)

\* The head moves (opened, synchronize) or is announced again (reopened).
Push(c) ==
  /\ pushes < MaxPushes
  /\ pushes' = pushes + 1
  /\ commitOf' = [commitOf EXCEPT ![pushes + 1] = c]
  /\ UNCHANGED <<connected, imported, sends, handler, rows, queue, worker,
                 posted, odd>>

\* The connection is disconnected, suspended or completed again.
ToggleConnection ==
  /\ connected' = ~connected
  /\ UNCHANGED <<imported, pushes, commitOf, sends, handler, rows, queue,
                 worker, posted, odd>>

\* RepositoriesService.remove: the delete cascades to the rows of r, but the
\* jobs of its runs stay in Redis.
RemoveRepository(r) ==
  /\ r \in imported
  /\ imported' = imported \ {r}
  /\ pullRequest' = [pullRequest EXCEPT ![r] = NoCommit]
  /\ run' = [k \in Keys |-> IF k[1] = r THEN "NONE" ELSE run[k]]
  /\ UNCHANGED <<connected, pushes, commitOf, sends, handler, queue, worker,
                 posted, odd>>

-----------------------------------------------------------------------------
(* handleEvent, one call per delivery.                                     *)

\* The repositories with an ACTIVE connection are looked up.
Receive(d) ==
  /\ d <= pushes
  /\ handler[d].pc = "idle"
  /\ sends[d] < MaxSends
  /\ sends' = [sends EXCEPT ![d] = @ + 1]
  /\ LET found == IF connected THEN imported ELSE {} IN
       handler' = [handler EXCEPT ![d] =
         IF found = {} THEN IdleHandler("ignored")
         ELSE [IdleHandler("none") EXCEPT !.pc = "upsert", !.todo = found]]
  /\ Odd("overtaking", \/ sends[d] > 0
                       \/ \E e \in 1..(d - 1) : sends[e] = 0
                       \/ \E e \in Deliveries : handler[e].pc # "idle")
  /\ UNCHANGED <<connected, imported, pushes, commitOf, rows, queue, worker,
                 posted>>

\* An uncaught error ends the request with a 5xx: the repositories left in
\* todo are not looked at.
Abort(d) == handler' = [handler EXCEPT ![d] = IdleHandler("error")]

\* Mutation: 'return' instead of 'continue' for a duplicate.
DuplicateReturns(d, added) ==
  LET h == handler[d] IN
    handler' = [handler EXCEPT ![d] =
      IF ~added \/ h.todo = {}
      THEN IdleHandler(IF h.queued \/ added THEN "queued" ELSE "alreadyReviewed")
      ELSE [h EXCEPT !.pc = "upsert", !.repo = NoRepository, !.queued = TRUE]]

\* The loop goes on to the next repository or answers the request.
NextRepository(d, added) ==
  LET h     == handler[d]
      some  == h.queued \/ added
      reply == IF some THEN "queued" ELSE "alreadyReviewed"
  IN  handler' = [handler EXCEPT ![d] =
        IF h.todo = {} THEN IdleHandler(reply)
        ELSE [h EXCEPT !.pc = "upsert", !.repo = NoRepository, !.queued = some]]

\* Mutation: the upsert does not update headSha.
UpsertKeepsHead(d) ==
  /\ handler[d].pc = "upsert"
  /\ \E r \in handler[d].todo \cap imported :
       /\ pullRequest' = [pullRequest EXCEPT ![r] =
                            IF @ = NoCommit THEN commitOf[d] ELSE @]
       /\ handler' = [handler EXCEPT ![d].pc = "find", ![d].repo = r,
                                     ![d].todo = @ \ {r}]
  /\ UNCHANGED <<github, run, queue, worker, posted, odd>>

UpsertPullRequest(d) ==
  /\ handler[d].pc = "upsert"
  /\ \E r \in handler[d].todo :
       \/ /\ r \in imported
          /\ pullRequest' = [pullRequest EXCEPT ![r] = commitOf[d]]
          /\ handler' = [handler EXCEPT ![d].pc = "find", ![d].repo = r,
                                        ![d].todo = @ \ {r}]
       \/ /\ r \notin imported          \* foreign key violation
          /\ Abort(d)
          /\ UNCHANGED pullRequest
  /\ UNCHANGED <<github, run, queue, worker, posted, odd>>

\* Mutation: only a run in progress is a duplicate.
FindUnfinishedRun(d) ==
  /\ handler[d].pc = "find"
  /\ LET status == run[HandlerKey(d)] IN
       IF status \in {"QUEUED", "RUNNING"}
       THEN NextRepository(d, FALSE)
       ELSE handler' = [handler EXCEPT ![d].pc = "save",
              ![d].seen = IF status = "NONE" THEN "NONE" ELSE "FAILED"]
  /\ UNCHANGED <<github, rows, queue, worker, posted, odd>>

\* Mutation: the run of any commit of the pull request makes a duplicate.
FindAnyRun(d) ==
  /\ handler[d].pc = "find"
  /\ IF \A c \in Commits : run[<<handler[d].repo, c>>] \in {"NONE", "FAILED"}
     THEN handler' = [handler EXCEPT ![d].pc = "save",
                                     ![d].seen = run[HandlerKey(d)]]
     ELSE NextRepository(d, FALSE)
  /\ UNCHANGED <<github, rows, queue, worker, posted, odd>>

FindRun(d) ==
  /\ handler[d].pc = "find"
  /\ LET status == run[HandlerKey(d)] IN
       IF status \in {"NONE", "FAILED"}
       THEN handler' = [handler EXCEPT ![d].pc = "save", ![d].seen = status]
       ELSE NextRepository(d, FALSE)
  /\ UNCHANGED <<github, rows, queue, worker, posted, odd>>

\* Create the run, or reset the FAILED one to QUEUED.  The decision is the one
\* made on the status that FindRun saw.
SaveRun(d) ==
  /\ handler[d].pc = "save"
  /\ LET k       == HandlerKey(d)
         exists  == run[k] # "NONE"
         succeeds == IF handler[d].seen = "FAILED" THEN exists
                     ELSE ~exists /\ handler[d].repo \in imported
     IN  \/ /\ succeeds
            /\ run' = [run EXCEPT ![k] = "QUEUED"]
            /\ handler' = [handler EXCEPT ![d].pc = "add"]
         \/ /\ ~succeeds     \* unique or foreign key violation, missing row
            /\ Abort(d)
            /\ UNCHANGED run
  /\ UNCHANGED <<github, pullRequest, queue, worker, posted, odd>>

\* Mutation: queue.add without a jobId, so that a finished job is no obstacle.
AddJobAlways(d) ==
  /\ handler[d].pc = "add"
  /\ job' = [job EXCEPT ![HandlerKey(d)] = "waiting"]
  /\ stalls' = [stalls EXCEPT ![HandlerKey(d)] = 0]
  /\ NextRepository(d, TRUE)
  /\ UNCHANGED <<github, rows, worker, posted, odd>>

\* queue.add with jobId = run.id.  BullMQ ignores an id it still holds, in
\* whatever state that job is, and the call resolves.
Enqueue(k) ==
  IF job[k] = "absent"
  THEN job' = [job EXCEPT ![k] = "waiting"] /\ stalls' = [stalls EXCEPT ![k] = 0]
  ELSE UNCHANGED queue

\* The call throws if Redis fails, before it has taken the job or after.
AddJob(d) ==
  /\ handler[d].pc = "add"
  /\ \/ /\ Enqueue(HandlerKey(d))
        /\ NextRepository(d, TRUE)
        /\ UNCHANGED odd
     \/ /\ Fault("redis")
        /\ handler' = [handler EXCEPT ![d].pc = "fail"]
        /\ Enqueue(HandlerKey(d)) \/ UNCHANGED queue
  /\ UNCHANGED <<github, rows, worker, posted>>

\* An update of a run row: it has no effect, and throws, if the row is gone.
SetStatus(k, status) ==
  run' = IF run[k] = "NONE" THEN run ELSE [run EXCEPT ![k] = status]

FailQueuedRun(d) ==
  /\ handler[d].pc = "fail"
  /\ SetStatus(HandlerKey(d), "FAILED")
  /\ Abort(d)
  /\ UNCHANGED <<github, pullRequest, queue, worker, posted, odd>>

HandlerDatabaseFault(d) ==
  /\ handler[d].pc \in {"upsert", "find", "save", "fail"}
  /\ Fault("database")
  /\ Abort(d)
  /\ UNCHANGED <<github, rows, queue, worker, posted>>

HandlerStep(d) ==
  \/ UpsertPullRequest(d) \/ FindRun(d) \/ SaveRun(d) \/ AddJob(d)
  \/ FailQueuedRun(d) \/ HandlerDatabaseFault(d)

-----------------------------------------------------------------------------
(* BullMQ's queue and worker (external code).                              *)

\* Job k ends in the given state; of the jobs that ended before in that state
\* only Retained - 1 are kept.
Retire(k, state) ==
  LET kept == {j \in Keys \ {k} : job[j] = state}
      ended == [job EXCEPT ![k] = state]
      full == Cardinality(kept) >= Retained
  IN  /\ IF full THEN \E old \in kept : job' = [ended EXCEPT ![old] = "absent"]
         ELSE job' = ended
      /\ Odd("eviction", full)

\* The worker takes a waiting job and calls processRun.
Take(k) ==
  /\ worker.pc = "idle"
  /\ job[k] = "waiting"
  /\ job' = [job EXCEPT ![k] = "active"]
  /\ worker' = [IdleWorker EXCEPT !.pc = "start", !.key = k]
  /\ UNCHANGED <<github, handler, rows, stalls, posted, odd>>

\* Mutation: the worker does not forget the job that it has finished.
FinishKeepsKey ==
  /\ worker.pc \in {"jobDone", "jobFailed"}
  /\ Retire(worker.key, IF worker.pc = "jobDone" THEN "completed" ELSE "failed")
  /\ worker' = [worker EXCEPT !.pc = "idle"]
  /\ UNCHANGED <<github, handler, rows, stalls, posted>>

\* processRun has resolved or rejected.
Finish ==
  /\ worker.pc \in {"jobDone", "jobFailed"}
  /\ Retire(worker.key, IF worker.pc = "jobDone" THEN "completed" ELSE "failed")
  /\ worker' = IdleWorker
  /\ UNCHANGED <<github, handler, rows, stalls, posted>>

\* Mutation: maxStalledCount 0, a stalled job is not executed again.
StallFails(k) ==
  /\ job[k] = "active"
  /\ worker.key # k
  /\ stalls' = [stalls EXCEPT ![k] = @ + 1]
  /\ Retire(k, "failed")
  /\ UNCHANGED <<github, handler, rows, worker, posted>>

\* The lock of an active job that no worker holds expires.
Stall(k) ==
  /\ job[k] = "active"
  /\ worker.key # k
  /\ stalls' = [stalls EXCEPT ![k] = @ + 1]
  /\ IF stalls[k] < MaxStalls
     THEN job' = [job EXCEPT ![k] = "waiting"] /\ UNCHANGED odd
     ELSE Retire(k, "failed")
  /\ UNCHANGED <<github, handler, rows, worker, posted>>

\* The API process, which runs the handlers and the worker, dies and restarts.
Crash ==
  /\ Fault("crash")
  /\ handler' = [d \in Deliveries |-> IF handler[d].pc = "idle"
                                      THEN handler[d] ELSE IdleHandler("error")]
  /\ worker' = IdleWorker
  /\ UNCHANGED <<github, rows, queue, posted>>

-----------------------------------------------------------------------------
(* processRun.                                                             *)

Goto(pc) == worker' = [worker EXCEPT !.pc = pc]

\* An exception inside the try block is caught: the check run, if its id is
\* known, is closed as failed and then the run is.  Outside the block, and for
\* the promises that the block returns without awaiting, it rejects processRun.
InsideTry == {"load", "createCheck", "saveCheck", "sources", "generate",
              "post", "completeCheck"}

\* Mutations: the catch block is missing; it does not close the check run; an
\* error while posting is only logged.
ThrowUncaught      == Goto("jobFailed")
ThrowKeepsCheck    == Goto(IF worker.pc \in InsideTry THEN "failRun" ELSE "jobFailed")
ThrowPostingLogged == Goto(IF worker.pc = "post" THEN "completeCheck"
                           ELSE IF worker.pc \in InsideTry THEN "failRun"
                           ELSE "jobFailed")

Throw ==
  Goto(IF worker.pc \notin InsideTry THEN "jobFailed"
       ELSE IF worker.check = "none" THEN "failRun" ELSE "failCheck")

\* The row of the run is updated to the given status, or is missing.
UpdateRun(status, next) ==
  /\ SetStatus(worker.key, status)
  /\ IF run[worker.key] = "NONE" THEN Throw ELSE Goto(next)
  /\ UNCHANGED <<github, handler, pullRequest, queue, posted, odd>>

Start         == worker.pc = "start" /\ UpdateRun("RUNNING", "load")
Skip          == worker.pc = "skip" /\ UpdateRun("SKIPPED", "jobDone")
SaveCheck     == worker.pc = "saveCheck" /\ UpdateRun(run[worker.key], "sources")
SaveCompleted == worker.pc = "saveCompleted" /\ UpdateRun("COMPLETED", "jobDone")
FailRun       == worker.pc = "failRun" /\ UpdateRun("FAILED", "jobFailed")

\* The run, its pull request and the status of the connection are read once.
Load ==
  /\ worker.pc = "load"
  /\ IF run[worker.key] = "NONE" \/ ~connected THEN Throw
     ELSE IF pullRequest[worker.key[1]] # worker.key[2] THEN Goto("skip")
     ELSE Goto("createCheck")
  /\ UNCHANGED <<github, handler, rows, queue, posted, odd>>

\* A request to GitHub has its effect; then the reply arrives, or is lost and
\* the call throws.
Replied(answered) ==
  \/ answered /\ UNCHANGED odd
  \/ Fault("lostReply") /\ Throw

CreateCheck ==
  /\ worker.pc = "createCheck"
  /\ openChecks' = [openChecks EXCEPT ![worker.key] = @ + 1]
  /\ Replied(worker' = [worker EXCEPT !.pc = "saveCheck", !.check = "open"])
  /\ UNCHANGED <<github, handler, rows, queue, conclusion, reviews>>

\* Mutation: the sources are read at the head that the database has recorded.
ReadRecordedSources ==
  /\ worker.pc = "sources"
  /\ worker' = [worker EXCEPT !.pc = "generate",
                              !.read = pullRequest[worker.key[1]]]
  /\ UNCHANGED <<github, handler, rows, queue, posted, odd>>

\* The files of the pull request are listed by its number: they are those of
\* the head that GitHub has now.
ReadSources ==
  /\ worker.pc = "sources"
  /\ worker' = [worker EXCEPT !.pc = "generate", !.read = CurrentHead]
  /\ UNCHANGED <<github, handler, rows, queue, posted, odd>>

Generate ==
  /\ worker.pc = "generate"
  /\ Goto("post")
  /\ UNCHANGED <<github, handler, rows, queue, posted, odd>>

\* The review is posted on the commit of the run.
PostReview ==
  /\ worker.pc = "post"
  /\ reviews' = [reviews EXCEPT ![worker.key] = Append(@, worker.read)]
  /\ Replied(Goto("completeCheck"))
  /\ UNCHANGED <<github, handler, rows, queue, openChecks, conclusion>>

\* A check run that is already closed only changes its conclusion.
CloseCheck(result) ==
  /\ conclusion' = [conclusion EXCEPT ![worker.key] = result]
  /\ openChecks' = [openChecks EXCEPT ![worker.key] =
                      IF worker.check = "open" THEN @ - 1 ELSE @]
  /\ UNCHANGED <<github, handler, rows, queue, reviews>>

\* The check run is closed as neutral or as a success, by the number of issues.
CompleteCheck ==
  /\ worker.pc = "completeCheck"
  /\ CloseCheck("reviewed")
  /\ \/ /\ worker' = [worker EXCEPT !.pc = "saveCompleted", !.check = "closed"]
        /\ UNCHANGED odd
     \/ /\ Fault("lostReply")
        /\ worker' = [worker EXCEPT !.pc = "failCheck", !.check = "closed"]

\* Whether or not this call throws, failRun is next.
FailCheck ==
  /\ worker.pc = "failCheck"
  /\ CloseCheck("failure")
  /\ worker' = [worker EXCEPT !.pc = "failRun", !.check = "closed"]
  /\ UNCHANGED odd

WorkerDatabaseFault ==
  /\ worker.pc \in {"start", "load", "skip", "saveCheck", "saveCompleted",
                    "failRun"}
  /\ Fault("database")
  /\ Throw
  /\ UNCHANGED <<github, handler, rows, queue, posted>>

\* GitHub does not serve a request: nothing is done and the call throws.
GithubRefuses ==
  /\ worker.pc \in {"createCheck", "sources", "post", "completeCheck",
                    "failCheck"}
  /\ Fault("github")
  /\ IF worker.pc = "failCheck" THEN Goto("failRun") ELSE Throw
  /\ UNCHANGED <<github, handler, rows, queue, posted>>

OllamaFails ==
  /\ worker.pc = "generate"
  /\ Fault("ollama")
  /\ Throw
  /\ UNCHANGED <<github, handler, rows, queue, posted>>

\* Whatever happens next to the call of processRun, except the crash.
WorkerStep ==
  \/ Start \/ Load \/ Skip \/ CreateCheck \/ SaveCheck \/ ReadSources
  \/ Generate \/ PostReview \/ CompleteCheck \/ SaveCompleted
  \/ FailCheck \/ FailRun \/ Finish
  \/ WorkerDatabaseFault \/ GithubRefuses \/ OllamaFails

-----------------------------------------------------------------------------
Next ==
  \/ \E c \in Commits : Push(c)
  \/ ToggleConnection
  \/ \E r \in Repositories : RemoveRepository(r)
  \/ \E d \in Deliveries : Receive(d) \/ HandlerStep(d)
  \/ \E k \in Keys : Take(k) \/ Stall(k)
  \/ WorkerStep
  \/ Crash

Spec == Init /\ [][Next]_vars

\* GitHub sends every delivery once; requests are served, the worker polls and
\* executes, and BullMQ looks for stalled jobs, as long as the process is up.
\* Nobody has to push, toggle, remove, redeliver or crash.
Fairness ==
  /\ \A d \in Deliveries : /\ WF_vars(sends[d] = 0 /\ Receive(d))
                           /\ WF_vars(HandlerStep(d))
  /\ WF_vars(\E k \in Keys : Take(k))
  /\ \A k \in Keys : WF_vars(Stall(k))
  /\ WF_vars(WorkerStep)

FairSpec == Spec /\ Fairness

-----------------------------------------------------------------------------
(* Types.                                                                  *)

HandlerPc    == {"idle", "upsert", "find", "save", "add", "fail"}
HandlerReply == {"none", "ignored", "queued", "alreadyReviewed", "error"}
WorkerPc     == InsideTry \cup {"idle", "start", "skip", "saveCompleted",
                                "failCheck", "failRun", "jobDone", "jobFailed"}
Conclusions  == {"none", "reviewed", "failure"}

HandlerType ==
  [pc : HandlerPc, todo : SUBSET Repositories,
   repo : Repositories \cup {NoRepository}, seen : RunStatus,
   queued : BOOLEAN, reply : HandlerReply]
WorkerType ==
  [pc : WorkerPc, key : Keys \cup {NoKey}, check : {"none", "open", "closed"},
   read : Commits \cup {NoCommit}]

GithubTypeOK ==
  /\ connected \in BOOLEAN
  /\ imported \in SUBSET Repositories
  /\ pushes \in 0..MaxPushes
  /\ commitOf \in [Deliveries -> Commits \cup {NoCommit}]
  /\ \A d \in Deliveries : d <= pushes => commitOf[d] \in Commits
  /\ sends \in [Deliveries -> 0..MaxSends]

\* A handler past Receive serves a delivery that was pushed; it has a repository
\* still to do in the upsert, and the repository it works on after it.
HandlersTypeOK ==
  /\ handler \in [Deliveries -> HandlerType]
  /\ \A d \in Deliveries :
       /\ handler[d].pc # "idle" => d <= pushes
       /\ handler[d].pc = "upsert" => handler[d].todo # {}
       /\ handler[d].pc \in {"find", "save", "add", "fail"}
            => handler[d].repo \in Repositories

RowsTypeOK ==
  /\ pullRequest \in [Repositories -> Commits \cup {NoCommit}]
  /\ run \in [Keys -> RunStatus]

QueueTypeOK ==
  /\ job \in [Keys -> JobState]
  /\ stalls \in [Keys -> Nat]

\* The worker has a key exactly when it is busy.
WorkerTypeOK ==
  /\ worker \in WorkerType
  /\ worker.pc = "idle" <=> worker.key = NoKey

PostedTypeOK ==
  /\ openChecks \in [Keys -> Nat]
  /\ conclusion \in [Keys -> Conclusions]
  /\ reviews \in [Keys -> Seq(Commits \cup {NoCommit})]

\* A check run that the worker has open is counted as open.
CheckCounted == worker.check = "open" => openChecks[worker.key] > 0

OddTypeOK ==
  /\ faults \in 0..MaxFaults
  /\ happened \in SUBSET (FaultKinds \cup {"overtaking", "eviction"})

\* Every variable has its type, a busy process has what it works on, and no
\* check run is closed more often than it was opened.
TypeOK ==
  /\ GithubTypeOK
  /\ HandlersTypeOK
  /\ RowsTypeOK
  /\ QueueTypeOK
  /\ WorkerTypeOK
  /\ PostedTypeOK
  /\ CheckCounted
  /\ OddTypeOK

-----------------------------------------------------------------------------
(* Safety.                                                                 *)

\* A run shown as COMPLETED has a review on GitHub and a check run that was
\* closed with its result, whatever failed, crashed or was executed twice.
CompletedIsPublished ==
  \A k \in Keys : run[k] = "COMPLETED" =>
    reviews[k] # << >> /\ conclusion[k] = "reviewed"

\* The worker's job is the only one that can be executing: a busy worker holds
\* an active job.
BusyWorkerHoldsJob == worker.pc # "idle" => job[worker.key] = "active"

\* As long as the database has answered, a run stays RUNNING only while its job
\* can still settle it, or once the job has stalled more often than BullMQ allows.
RunningHasJob ==
  "database" \notin happened =>
    \A k \in Keys : run[k] = "RUNNING" =>
      job[k] \in {"waiting", "active"} \/ stalls[k] > MaxStalls

\* processRun leaves no check run in progress behind, unless the process died
\* or a request to GitHub failed: an error in between closes it as failed.
ChecksClosed ==
  happened \cap {"crash", "github", "lostReply"} = {} =>
    \A k \in Keys :
      openChecks[k] = IF worker.key = k /\ worker.check = "open" THEN 1 ELSE 0

\* As long as Redis has kept every finished job, one head commit gets at most
\* one review, and at most one more for each time its job stalled, however
\* often its delivery is repeated and whatever fails.
OneReviewPerExecution ==
  "eviction" \notin happened =>
    \A k \in Keys : Len(reviews[k]) <= 1 + stalls[k]

\* When the handler answers that reviews are queued or already made, every
\* repository found has its run for the commit, unless it was removed since.
AnswerCoversEveryRepository ==
  \A d \in Deliveries : handler[d].reply \in {"queued", "alreadyReviewed"} =>
    \A r \in imported : run[<<r, commitOf[d]>>] # "NONE"

\* The delivery is being, or was last, answered with an error.
Failing(d) == handler[d].pc = "fail" \/ handler[d].reply = "error"

PushedOnce ==
  \A d, e \in 1..pushes : commitOf[d] = commitOf[e] => d = e

\* If deliveries have arrived one by one, in order, and no commit became the
\* head twice, the run of the current head is never skipped as superseded.
HeadNotSkipped ==
  "overtaking" \notin happened /\ PushedOnce =>
    \A r \in Repositories : CurrentHead \in Commits =>
      run[<<r, CurrentHead>>] # "SKIPPED"

\* A review posted on a commit is of the sources of that commit, or of a commit
\* that was pushed after it.
ReviewIsNotOlder ==
  \A k \in Keys : \A i \in 1..Len(reviews[k]) :
    \E d, e \in 1..pushes :
      d <= e /\ commitOf[d] = k[2] /\ commitOf[e] = reviews[k][i]

\* A run that is COMPLETED or SKIPPED changes again, before it is deleted, only
\* if its job has stalled and is executed again, if a delivery of its commit was
\* answered with an error (a queue.add that threw had taken the job, and FAILED
\* is written over what it did), or if deliveries overtook each other.  Neither
\* a restart nor the loss of a finished job in Redis is a reason of its own;
\* together they are, as the count of a job's stalls is lost with the job.
SettledIsFinal ==
  [][\A k \in Keys :
       run[k] \in {"COMPLETED", "SKIPPED"} /\ run'[k] \notin {run[k], "NONE"} =>
         \/ stalls[k] > 0
         \/ \E d \in Deliveries : commitOf[d] = k[2] /\ Failing(d)
         \/ "overtaking" \in happened
         \/ {"crash", "eviction"} \subseteq happened]_vars

-----------------------------------------------------------------------------
(* Liveness, under FairSpec.                                               *)

Settled(k) == run[k] \in {"NONE", "COMPLETED", "FAILED", "SKIPPED"}

\* Every run is settled, unless the database or the process failed, deliveries
\* overtook each other, or a commit became the head twice; a RUNNING run is
\* executed again and settled although the process dies and whatever the
\* deliveries do, as long as BullMQ executes its job again.
RunsSettle ==
  \A k \in Keys :
    /\ ~Settled(k) ~> \/ Settled(k)
                      \/ happened \cap {"database", "crash", "overtaking"} # {}
                      \/ ~PushedOnce
    /\ run[k] = "RUNNING" ~> \/ run[k] # "RUNNING"
                             \/ "database" \in happened
                             \/ stalls[k] > MaxStalls

\* If deliveries arrive one by one, in order, the head commit gets its review,
\* or a FAILED run, or a new head; or the repository is removed, or was not
\* connected, or GitHub was answered with an error (which the removal of one
\* workspace's repository also causes for another's).
HeadSettles ==
  \A c \in Commits, r \in Repositories :
    CurrentHead = c ~>
      \/ run[<<r, c>>] \in {"COMPLETED", "FAILED"}
      \/ CurrentHead # c
      \/ r \notin imported
      \/ handler[pushes].reply \in {"ignored", "error"}
      \/ happened \cap {"database", "crash", "overtaking"} # {}
      \/ ~PushedOnce

-----------------------------------------------------------------------------
(* What the answer of a handler says of the program; it is refuted.        *)

\* A run that a handler has answered for with 'Pull request review queued' has
\* a job as long as it is QUEUED.
QueuedRunsWait ==
  \A d \in Deliveries, r \in Repositories :
    handler[d].reply = "queued" /\ run[<<r, commitOf[d]>>] = "QUEUED" =>
      job[<<r, commitOf[d]>>] \in {"waiting", "active"}
=============================================================================
