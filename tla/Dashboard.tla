----------------------------- MODULE Dashboard -----------------------------
(***************************************************************************)
(* The DashboardClient of one user: the workspace that it shows, with the  *)
(* processing runs of its repositories, while it polls active runs, loads  *)
(* the dashboard anew, and sends what the user clicks.  All these requests *)
(* overlap, and their answers arrive in any order.  The runs are those of  *)
(* RepositoryProcessing: QUEUED and RUNNING are ACTIVE here.               *)
(***************************************************************************)
EXTENDS Naturals

CONSTANTS
  Workspaces, FirstWorkspace,   \* FirstWorkspace is shown unless one is asked for
  Repositories, WorkspaceOf,
  MaxLoads, MaxPolls,           \* bounds: requests that are in flight at a time
  Prepares, Operations,         \* bounds: the clicks of the user, each made once
  MaxSelections,                \* bound: choices of a workspace
  NoWorkspace, NoRepository

ASSUME DashboardAssumption ==
  /\ FirstWorkspace \in Workspaces /\ NoWorkspace \notin Workspaces
  /\ WorkspaceOf \in [Repositories -> Workspaces]
  /\ MaxLoads \in Nat \ {0} /\ MaxPolls \in Nat
  /\ Prepares \cap Operations = {} /\ MaxSelections \in Nat

VARIABLES
  run,           \* run[r]: the latest processing run of r at the server
  changes,       \* changes[r]: how often the contents of r have changed there
  shown,         \* data: the workspace, and changes of its repositories
  processing,    \* processing[r]: processingRuns of the client
  loading,
  load,          \* load[l]: a GET /api/dashboard
  poll,          \* poll[p]: a refreshProcessingRuns
  effect,        \* what the polling effect was made for
  click,         \* click[k]: a click on a button of a repository, and the
                 \* POST of process, or of sync, ingest or chunk, that it sends
  selections,
  wish,          \* history: the workspace that the user chose last
  doubtful       \* history: what is shown was read before a click had its effect,
                 \* or the answer that would have told of an effect has failed

server == <<run, changes>>
history == <<selections, wish, doubtful>>
vars == <<server, shown, processing, loading, load, poll, effect, click, history>>

NoRun == [n |-> 0, status |-> "NONE"]
IdleLoad == [at |-> "idle", kind |-> "none", workspace |-> NoWorkspace,
             runs |-> [r \in Repositories |-> NoRun],
             changes |-> [r \in Repositories |-> 0], outdated |-> FALSE]
IdlePoll == [at |-> "idle", workspace |-> NoWorkspace, waiting |-> {},
             runs |-> [r \in Repositories |-> NoRun], outdated |-> FALSE]
Unsent == [at |-> "unsent", repository |-> NoRepository, run |-> NoRun]
Over == [Unsent EXCEPT !.at = "over"]

\* A request takes the first place that is free.
Loads == 1..MaxLoads
Polls == 1..MaxPolls
Clicks == Prepares \cup Operations
FreeLoad(l) == load[l].at = "idle" /\ \A k \in 1..(l - 1) : load[k].at # "idle"
FreePoll(p) == poll[p].at = "idle" /\ \A k \in 1..(p - 1) : poll[k].at # "idle"

Ask(kind, w) == [IdleLoad EXCEPT !.at = "asked", !.kind = kind, !.workspace = w]

\* The first load is asked for when the page has been rendered.
Init ==
  /\ run = [r \in Repositories |-> NoRun] /\ changes = [r \in Repositories |-> 0]
  /\ shown = [workspace |-> NoWorkspace, changes |-> changes, new |-> FALSE]
  /\ processing = run
  /\ load = [l \in Loads |-> IF l = 1 THEN Ask("select", FirstWorkspace) ELSE IdleLoad]
  /\ loading = TRUE
  /\ poll = [p \in Polls |-> IdlePoll]
  /\ effect = [workspace |-> NoWorkspace, active |-> {}]
  /\ click = [k \in Clicks |-> Unsent]
  /\ selections = 0 /\ wish = FirstWorkspace /\ doubtful = FALSE

Active(r) == processing[r].status = "ACTIVE"
ActiveKey == {r \in Repositories : Active(r)}
Shown == {r \in Repositories : WorkspaceOf[r] = shown.workspace}

-----------------------------------------------------------------------------
(* loadDashboard                                                           *)

InFlight == {l \in Loads : load[l].at # "idle"}

\* Mutation: the load does not name the workspace.
ReloadFirst(l, w) ==
  /\ FreeLoad(l) /\ load' = [load EXCEPT ![l] = Ask("reload", FirstWorkspace)]
  /\ loading' = TRUE

\* Another load of the workspace that a request was sent for.
Reload(l, w) ==
  /\ FreeLoad(l) /\ load' = [load EXCEPT ![l] = Ask("reload", w)]
  /\ loading' = TRUE

\* GET /api/dashboard reads the repositories of the workspace last.
ServeLoad(l) ==
  LET of(f, none) == [r \in Repositories |->
                        IF WorkspaceOf[r] = load[l].workspace THEN f[r] ELSE none] IN
  /\ load[l].at = "asked"
  /\ load' = [load EXCEPT ![l].at = "served", ![l].runs = of(run, NoRun),
                          ![l].changes = of(changes, 0)]
  /\ UNCHANGED <<server, shown, processing, loading, poll, effect, click, history>>

\* What is shown is replaced, whatever was answered to later requests.
AnswerLoad(l) ==
  /\ load[l].at = "served"
  /\ shown' = [workspace |-> load[l].workspace, changes |-> load[l].changes, new |-> TRUE]
  /\ processing' = load[l].runs
  /\ doubtful' = load[l].outdated
  /\ load' = [load EXCEPT ![l] = IdleLoad] /\ loading' = FALSE
  /\ UNCHANGED <<server, poll, effect, click, selections, wish>>

\* A load that fails leaves what is shown, and the select shows it again.
FailLoad(l) ==
  /\ load[l].at # "idle"
  /\ load' = [load EXCEPT ![l] = IdleLoad] /\ loading' = FALSE
  /\ wish' = IF load[l].kind = "select" THEN shown.workspace ELSE wish
  /\ doubtful' = (doubtful \/ load[l].kind = "reload")
  /\ UNCHANGED <<server, shown, processing, poll, effect, click, selections>>

\* The select of the workspace (or of the organization) is disabled by loading,
\* which the first load to end clears for all of them.
SelectWorkspace(l, w) ==
  /\ ~loading /\ shown.workspace \notin {w, NoWorkspace}
  /\ selections < MaxSelections /\ selections' = selections + 1
  /\ FreeLoad(l) /\ load' = [load EXCEPT ![l] = Ask("select", w)]
  /\ loading' = TRUE
  /\ wish' = w
  /\ UNCHANGED <<server, shown, processing, poll, effect, click, doubtful>>

-----------------------------------------------------------------------------
(* The effect that polls                                                   *)

\* Mutation: the polls of the effect before go on.
RenderAlone ==
  /\ shown.new \/ effect.active # ActiveKey
  /\ effect' = [active |-> ActiveKey,
                workspace |-> IF ActiveKey = {} THEN NoWorkspace ELSE shown.workspace]
  /\ shown' = [shown EXCEPT !.new = FALSE]
  /\ UNCHANGED <<server, processing, loading, load, poll, click, history>>

\* React runs the effect anew when data or activeProcessingKey has changed: the
\* polls of the one before are cancelled.
Render ==
  /\ shown.new \/ effect.active # ActiveKey
  /\ effect' = [active |-> ActiveKey,
                workspace |-> IF ActiveKey = {} THEN NoWorkspace ELSE shown.workspace]
  /\ shown' = [shown EXCEPT !.new = FALSE]
  /\ poll' = [p \in Polls |-> IdlePoll]
  /\ UNCHANGED <<server, processing, loading, load, click, history>>

\* At once, and at every interval, whether or not the poll before has ended.
BeginPoll(p) ==
  /\ FreePoll(p) /\ effect.active # {}
  /\ poll' = [poll EXCEPT ![p] = [IdlePoll EXCEPT
                !.at = "asked", !.workspace = effect.workspace, !.waiting = effect.active]]
  /\ UNCHANGED <<server, shown, processing, loading, load, effect, click, history>>

\* GET process/latest finds no repository of another workspace.
ServePoll(p, r) ==
  /\ r \in poll[p].waiting
  /\ poll' = [poll EXCEPT ![p].waiting = @ \ {r},
                          ![p].runs[r] = IF WorkspaceOf[r] = poll[p].workspace
                                         THEN run[r] ELSE NoRun]
  /\ UNCHANGED <<server, shown, processing, loading, load, effect, click, history>>
\* One that is answered with an error is left out; a request that gets no
\* answer ends the whole poll.
FailPoll(p, r) ==
  /\ r \in poll[p].waiting
  /\ \/ poll' = [poll EXCEPT ![p].waiting = @ \ {r}]
     \/ poll' = [poll EXCEPT ![p] = IdlePoll]
  /\ UNCHANGED <<server, shown, processing, loading, load, effect, click, history>>

Polled(p) == [r \in Repositories |->
                IF poll[p].runs[r] = NoRun THEN processing[r] ELSE poll[p].runs[r]]
Completed(p) == \E r \in Repositories : poll[p].runs[r].status = "COMPLETED"
PollEnds(p) ==
  /\ poll[p].at = "asked" /\ poll[p].waiting = {}
  /\ processing' = Polled(p)
  /\ poll' = [poll EXCEPT ![p] = IdlePoll]
  /\ doubtful' = (doubtful \/ (poll[p].outdated /\ ~Completed(p)))
  /\ UNCHANGED <<server, shown, effect, click, selections, wish>>

\* Mutation: a completed run does not load the dashboard.
MergeOnly(p) ==
  /\ PollEnds(p) /\ UNCHANGED <<load, loading>>

\* The runs that were answered are merged; a completed one loads the dashboard
\* of the workspace that was polled, even if the user has chosen another.
AnswerPoll(p) ==
  /\ PollEnds(p)
  /\ IF Completed(p) THEN \E l \in Loads : Reload(l, poll[p].workspace)
                     ELSE UNCHANGED <<load, loading>>

-----------------------------------------------------------------------------
(* The buttons of a repository                                             *)

\* History: a load that has been served does not know of what happens now, nor
\* does a poll that was answered for r already.
OutdateLoads ==
  load' = [l \in Loads |-> [load[l] EXCEPT !.outdated = @ \/ load[l].at = "served"]]
OutdatePolls(r) ==
  poll' = [p \in Polls |-> [poll[p] EXCEPT !.outdated =
             @ \/ (poll[p].at = "asked" /\ r \notin poll[p].waiting)]]

\* Every button of r is disabled while its run is active.  (Those of sync,
\* ingest and chunk also disable each other; here they need not.)
Click(k, r) ==
  /\ r \in Shown /\ ~Active(r)
  /\ click[k].at = "unsent"
  /\ click' = [click EXCEPT ![k] = [at |-> "asked", repository |-> r, run |-> NoRun]]
  /\ UNCHANGED <<server, shown, processing, loading, load, poll, effect, history>>

\* The handler of a click at work; the client hears of its end, or has given up.
AtWork(k) == click[k].at \in {"asked", "unheard"}
Ends(k, x) == click' = [click EXCEPT ![k] =
                IF @.at = "unheard" THEN Over ELSE [@ EXCEPT !.at = "ended", !.run = x]]

\* prepareRepository asks for a run: one that is active is answered again,
\* otherwise a new one is queued.
AcceptPrepare(k) ==
  LET r == click[k].repository IN
  /\ k \in Prepares /\ AtWork(k)
  /\ IF run[r].status = "ACTIVE" THEN UNCHANGED <<run, load, poll, doubtful>>
     ELSE /\ run' = [run EXCEPT ![r] = [n |-> run[r].n + 1, status |-> "ACTIVE"]]
          /\ OutdateLoads /\ OutdatePolls(r)
          /\ doubtful' = (doubtful \/ click[k].at = "unheard")
  /\ Ends(k, run'[r])
  /\ UNCHANGED <<changes, shown, processing, loading, effect, selections, wish>>
AnswerPrepare(k) ==
  /\ k \in Prepares /\ click[k].at = "ended"
  /\ processing' = [processing EXCEPT ![click[k].repository] = click[k].run]
  /\ click' = [click EXCEPT ![k] = Over]
  /\ UNCHANGED <<server, shown, loading, load, poll, effect, history>>

\* synchronize, ingest and buildChunks.
EndOperation(k) ==
  /\ k \in Operations /\ AtWork(k)
  /\ changes' = [changes EXCEPT ![click[k].repository] = @ + 1]
  /\ Ends(k, NoRun)
  /\ OutdateLoads
  /\ doubtful' = (doubtful \/ click[k].at = "unheard")
  /\ UNCHANGED <<run, shown, processing, loading, poll, effect, selections, wish>>
\* Once the operation is answered the dashboard is loaded, with the workspace
\* that it was clicked in, even if the user has chosen another.
AnswerOperation(k) ==
  /\ k \in Operations /\ click[k].at = "ended"
  /\ click' = [click EXCEPT ![k] = Over]
  /\ \E l \in Loads : Reload(l, WorkspaceOf[click[k].repository])
  /\ UNCHANGED <<server, shown, processing, poll, effect, history>>

\* The user reads that the request has failed, and nothing is loaded.  If no
\* answer came the handler may still be at work, and end or fail in its turn.
FailClick(k) ==
  /\ click[k].at \in {"asked", "ended", "unheard"}
  /\ click' = [click EXCEPT ![k] =
       IF @.at = "asked" THEN [@ EXCEPT !.at = "unheard"] ELSE Over]
  /\ doubtful' = (doubtful \/ click[k].at = "ended")
  /\ UNCHANGED <<server, shown, processing, loading, load, poll, effect,
                 selections, wish>>

\* The worker ends the run.  One that fails may have changed some contents.
FinishRun(r) ==
  /\ run[r].status = "ACTIVE"
  /\ \E s \in {"COMPLETED", "FAILED"} : run' = [run EXCEPT ![r].status = s]
  /\ changes' = [changes EXCEPT ![r] = @ + 1]
  /\ UNCHANGED <<shown, processing, loading, load, poll, effect, click, history>>

-----------------------------------------------------------------------------
Next ==
  \/ \E l \in Loads :
       \/ ServeLoad(l) \/ AnswerLoad(l) \/ FailLoad(l)
       \/ \E w \in Workspaces : SelectWorkspace(l, w)
  \/ Render
  \/ \E p \in Polls :
       \/ BeginPoll(p) \/ AnswerPoll(p)
       \/ \E r \in Repositories : ServePoll(p, r) \/ FailPoll(p, r)
  \/ \E k \in Clicks :
       \/ \E r \in Repositories : Click(k, r)
       \/ AcceptPrepare(k) \/ AnswerPrepare(k)
       \/ EndOperation(k) \/ AnswerOperation(k) \/ FailClick(k)
  \/ \E r \in Repositories : FinishRun(r)

Spec == Init /\ [][Next]_vars

\* Requests are answered, effects run and the interval fires; runs end
\* (ActiveRunsEnd of RepositoryProcessing).  Nobody has to click anything.
Fairness ==
  /\ \A l \in Loads : WF_vars(ServeLoad(l)) /\ WF_vars(AnswerLoad(l))
  /\ WF_vars(Render) /\ WF_vars(\E p \in Polls : BeginPoll(p))
  /\ \A p \in Polls :
       /\ WF_vars(AnswerPoll(p)) /\ \A r \in Repositories : SF_vars(ServePoll(p, r))
  /\ \A k \in Clicks :
       /\ WF_vars(AcceptPrepare(k)) /\ WF_vars(AnswerPrepare(k))
       /\ WF_vars(EndOperation(k)) /\ WF_vars(AnswerOperation(k))
  /\ \A r \in Repositories : WF_vars(FinishRun(r))
FairSpec == Spec /\ Fairness

-----------------------------------------------------------------------------
Run == [n : Nat, status : {"NONE", "ACTIVE", "COMPLETED", "FAILED"}]
Places == Workspaces \cup {NoWorkspace}
ClickState ==
  [at : {"unsent", "over"}, repository : {NoRepository}, run : {NoRun}]
    \cup [at : {"asked", "unheard", "ended"}, repository : Repositories, run : Run]

\* Every variable has its type, and polls ask for the runs that were active
\* when the effect was made, of the workspace that was shown.
DashboardTypeOK ==
  /\ run \in [Repositories -> Run] /\ processing \in [Repositories -> Run]
  /\ changes \in [Repositories -> Nat]
  /\ shown \in [workspace : Places, changes : [Repositories -> Nat], new : BOOLEAN]
  /\ loading \in BOOLEAN /\ doubtful \in BOOLEAN
  /\ load \in [Loads ->
       [at : {"idle", "asked", "served"}, kind : {"none", "select", "reload"},
        workspace : Places, runs : [Repositories -> Run],
        changes : [Repositories -> Nat], outdated : BOOLEAN]]
  /\ poll \in [Polls -> [at : {"idle", "asked"}, workspace : Places,
                         waiting : SUBSET Repositories, runs : [Repositories -> Run],
                         outdated : BOOLEAN]]
  /\ effect \in [workspace : Places, active : SUBSET Repositories]
  /\ \A p \in Polls : /\ poll[p].waiting \subseteq effect.active
                      /\ poll[p].at = "asked" => poll[p].workspace = effect.workspace
  /\ click \in [Clicks -> ClickState]
  /\ selections \in 0..MaxSelections /\ wish \in Places

\* The chosen workspace is shown, and whatever could load the dashboard anew was
\* begun in it: loads, polls and the effect that makes them, operations.
Undisturbed ==
  /\ shown.workspace = wish
  /\ \A l \in InFlight : load[l].workspace = wish
  /\ \A p \in Polls : poll[p].at # "idle" => poll[p].workspace = wish
  /\ effect.active # {} => effect.workspace = wish
  /\ \A k \in Operations : click[k].at \in {"asked", "ended"} =>
       WorkspaceOf[click[k].repository] = wish

\* Then it goes on so until the user chooses another workspace: no run that
\* completes, operation that ends or load that is overtaken or fails shows
\* another one.  (The premise matters: a load, poll or operation begun in another
\* workspace, answered after the choice was shown, throws the user back.)
ChosenWorkspaceStays == [][Undisturbed => Undisturbed' \/ wish' # wish]_vars

\* The runs that are shown are the latest, and the contents too, unless the
\* latest run has failed: nothing is loaded then.
CaughtUp ==
  \A r \in Shown :
    /\ processing[r] = run[r]
    /\ run[r].status # "FAILED" => shown.changes[r] = changes[r]

\* The dashboard catches up with what its user has started, however polls,
\* loads and other answers overtake each other.  Three things leave it behind
\* until the next load: a load or a poll that was read before a click had its
\* effect and answered last; a reload that fails; and an effect that a click has
\* although its user was told, before or after, that it failed.
DashboardCatchesUp == <>[](CaughtUp \/ doubtful)
=============================================================================
