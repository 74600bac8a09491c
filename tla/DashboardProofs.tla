-------------------------- MODULE DashboardProofs --------------------------
(***************************************************************************)
(* For any workspaces, repositories and numbers of requests: every         *)
(* variable of Dashboard keeps its type, and once the chosen workspace is  *)
(* shown and whatever is under way was begun in it, it stays shown.        *)
(***************************************************************************)
EXTENDS Dashboard, TLAPS

-----------------------------------------------------------------------------
(* Values                                                                  *)

LoadState ==
  [at : {"idle", "asked", "served"}, kind : {"none", "select", "reload"},
   workspace : Places, runs : [Repositories -> Run],
   changes : [Repositories -> Nat], outdated : BOOLEAN]
PollState ==
  [at : {"idle", "asked"}, workspace : Places, waiting : SUBSET Repositories,
   runs : [Repositories -> Run], outdated : BOOLEAN]

\* What a step may not do to the workspace that is shown.
Stays == Undisturbed => Undisturbed' \/ wish' # wish

LEMMA IdleValues ==
  /\ NoRun \in Run /\ IdleLoad \in LoadState /\ IdlePoll \in PollState
  /\ Unsent \in ClickState /\ Over \in ClickState
  /\ NoWorkspace \in Places /\ FirstWorkspace \in Places
  BY DashboardAssumption DEF NoRun, Run, IdleLoad, LoadState, IdlePoll, PollState,
     Unsent, Over, ClickState, Places

LEMMA AskTyped ==
  ASSUME NEW kind \in {"select", "reload"}, NEW w \in Places
  PROVE  /\ Ask(kind, w) \in LoadState /\ Ask(kind, w).at = "asked"
         /\ Ask(kind, w).kind = kind /\ Ask(kind, w).workspace = w
  <1>1. IdleLoad \in LoadState
    BY IdleValues
  <1> QED BY <1>1 DEF Ask, IdleLoad, LoadState

LEMMA ServedTyped ==
  ASSUME NEW x \in LoadState, NEW R \in [Repositories -> Run],
         NEW C \in [Repositories -> Nat]
  PROVE  [x EXCEPT !.at = "served", !.runs = R, !.changes = C] \in LoadState
  BY DEF LoadState

LEMMA PolledTyped ==
  ASSUME NEW x \in PollState, NEW r \in Repositories, NEW v \in Run
  PROVE  /\ [x EXCEPT !.waiting = @ \ {r}, !.runs[r] = v] \in PollState
         /\ [x EXCEPT !.waiting = @ \ {r}] \in PollState
  BY DEF PollState

LEMMA LoadMarked ==
  ASSUME NEW x \in LoadState, NEW b \in BOOLEAN
  PROVE  /\ [x EXCEPT !.outdated = b] \in LoadState
         /\ [x EXCEPT !.outdated = b].at = x.at /\ [x EXCEPT !.outdated = b].kind = x.kind
         /\ [x EXCEPT !.outdated = b].workspace = x.workspace
  BY DEF LoadState

LEMMA PollMarked ==
  ASSUME NEW x \in PollState, NEW b \in BOOLEAN
  PROVE  /\ [x EXCEPT !.outdated = b] \in PollState
         /\ [x EXCEPT !.outdated = b].at = x.at
         /\ [x EXCEPT !.outdated = b].waiting = x.waiting
         /\ [x EXCEPT !.outdated = b].workspace = x.workspace
  BY DEF PollState

\* What a reload leaves of the other loads.
LEMMA ReloadKeeps ==
  ASSUME DashboardTypeOK, NEW l \in Loads, NEW w \in Places, Reload(l, w)
  PROVE  /\ load' \in [Loads -> LoadState] /\ loading' \in BOOLEAN
         /\ load' = [load EXCEPT ![l] = Ask("reload", w)]
         /\ load[l].at = "idle"
  BY AskTyped DEF Reload, FreeLoad, DashboardTypeOK, LoadState

LEMMA DashboardInitially == Init => DashboardTypeOK
  <1> SUFFICES ASSUME Init PROVE DashboardTypeOK
    OBVIOUS
  <1> USE IdleValues
  <1>1. load \in [Loads -> LoadState]
    BY AskTyped DEF Init, Loads
  <1>2. /\ run \in [Repositories -> Run] /\ processing \in [Repositories -> Run]
        /\ changes \in [Repositories -> Nat]
        /\ shown \in [workspace : Places, changes : [Repositories -> Nat], new : BOOLEAN]
    BY DEF Init
  <1>3. /\ poll \in [Polls -> PollState] /\ click \in [Clicks -> ClickState]
        /\ effect \in [workspace : Places, active : SUBSET Repositories]
        /\ \A p \in Polls : poll[p] = IdlePoll
    BY DEF Init
  <1>4. selections \in 0..MaxSelections
    BY DashboardAssumption DEF Init
  <1>5. DashboardTypeOK
    BY <1>1, <1>2, <1>3, <1>4 DEF Init, DashboardTypeOK, LoadState, PollState, IdlePoll
  <1> QED BY <1>5

-----------------------------------------------------------------------------
(* Loads                                                                   *)

LEMMA ServeLoadKeeps ==
  ASSUME DashboardTypeOK, NEW l \in Loads, ServeLoad(l)
  PROVE  DashboardTypeOK' /\ Stays
  <1>2. PICK R \in [Repositories -> Run], C \in [Repositories -> Nat] :
          load' = [load EXCEPT ![l].at = "served", ![l].runs = R, ![l].changes = C]
    <2> DEFINE of(f, none) == [r \in Repositories |->
                        IF WorkspaceOf[r] = load[l].workspace THEN f[r] ELSE none]
    <2>1. of(run, NoRun) \in [Repositories -> Run] /\ of(changes, 0) \in [Repositories -> Nat]
      BY IdleValues DEF DashboardTypeOK
    <2>2. load' = [load EXCEPT ![l].at = "served", ![l].runs = of(run, NoRun),
                               ![l].changes = of(changes, 0)]
      BY DEF ServeLoad
    <2> QED BY <2>1, <2>2
  <1>3. load' \in [Loads -> LoadState]
    <2>1. load \in [Loads -> LoadState]
      BY DEF DashboardTypeOK, LoadState
    <2>2. load[l] \in LoadState
      BY <2>1
    <2>3. [load[l] EXCEPT !.at = "served", !.runs = R, !.changes = C] \in LoadState
      BY <2>2, ServedTyped
    <2>4. load' = [load EXCEPT ![l] =
                     [load[l] EXCEPT !.at = "served", !.runs = R, !.changes = C]]
      BY <1>2, Zenon
    <2> QED BY <2>1, <2>3, <2>4, Zenon
  <1>4. DashboardTypeOK'
    BY <1>3 DEF ServeLoad, DashboardTypeOK, LoadState, server, history, ActiveKey
  <1>5. /\ InFlight' = InFlight
        /\ \A k \in Loads : load'[k].workspace = load[k].workspace /\ load'[k].kind = load[k].kind
    <2>1. load[l].at = "asked"
      BY DEF ServeLoad
    <2> QED BY <1>2, <2>1 DEF DashboardTypeOK, InFlight
  <1>6. Stays
    BY <1>5 DEF ServeLoad, Stays, Undisturbed, history, InFlight
  <1> QED BY <1>4, <1>6

LEMMA AnswerLoadKeeps ==
  ASSUME DashboardTypeOK, NEW l \in Loads, AnswerLoad(l)
  PROVE  DashboardTypeOK' /\ Stays
  <1>1. load' = [load EXCEPT ![l] = IdleLoad] /\ load' \in [Loads -> LoadState]
    BY IdleValues DEF AnswerLoad, DashboardTypeOK, LoadState
  <1>2. DashboardTypeOK'
    BY <1>1 DEF AnswerLoad, DashboardTypeOK, LoadState, server
  <1>3. InFlight' = InFlight \ {l} /\ l \in InFlight
    BY <1>1 DEF AnswerLoad, DashboardTypeOK, InFlight, IdleLoad
  <1>4. \A k \in InFlight' : load'[k] = load[k] /\ k \in InFlight
    BY <1>1, <1>3 DEF DashboardTypeOK, InFlight
  <1>5. Stays
    BY <1>3, <1>4 DEF AnswerLoad, Stays, Undisturbed
  <1> QED BY <1>2, <1>5

LEMMA FailLoadKeeps ==
  ASSUME DashboardTypeOK, NEW l \in Loads, FailLoad(l)
  PROVE  DashboardTypeOK' /\ Stays
  <1>1. load' = [load EXCEPT ![l] = IdleLoad] /\ load' \in [Loads -> LoadState]
    BY IdleValues DEF FailLoad, DashboardTypeOK, LoadState
  <1>2. DashboardTypeOK'
    BY <1>1 DEF FailLoad, DashboardTypeOK, LoadState, server
  <1>3. InFlight' = InFlight \ {l} /\ l \in InFlight
    BY <1>1 DEF FailLoad, DashboardTypeOK, InFlight, IdleLoad
  <1>4. \A k \in InFlight' : load'[k] = load[k] /\ k \in InFlight
    BY <1>1, <1>3 DEF DashboardTypeOK, InFlight
  <1>5. Stays
    BY <1>4 DEF FailLoad, Stays, Undisturbed
  <1> QED BY <1>2, <1>5

LEMMA SelectWorkspaceKeeps ==
  ASSUME DashboardTypeOK, NEW l \in Loads, NEW w \in Workspaces, SelectWorkspace(l, w)
  PROVE  DashboardTypeOK' /\ Stays
  <1>0. w \in Places
    BY DEF Places
  <1>1. /\ load' = [load EXCEPT ![l] = Ask("select", w)]
        /\ load' \in [Loads -> LoadState]
    BY <1>0, AskTyped DEF SelectWorkspace, DashboardTypeOK, LoadState
  <1>2. DashboardTypeOK'
    BY <1>0, <1>1, DashboardAssumption
    DEF SelectWorkspace, DashboardTypeOK, LoadState, server
  <1>3. Stays
    BY DEF SelectWorkspace, Stays, Undisturbed
  <1> QED BY <1>2, <1>3

-----------------------------------------------------------------------------
(* Polls, clicks and the server                                            *)

\* A step that shows no other workspace, and begins no poll or operation.
Fewer ==
  /\ UNCHANGED <<shown, wish, effect>>
  /\ \A p \in Polls : poll'[p].at # "idle" =>
       poll[p].at # "idle" /\ poll'[p].workspace = poll[p].workspace
  /\ \A k \in Operations : click'[k].at \in {"asked", "ended"} =>
       /\ click[k].at \in {"asked", "ended"}
       /\ click'[k].repository = click[k].repository

LEMMA FewerStays ==
  ASSUME Fewer, InFlight' = InFlight,
         \A l \in Loads : load'[l].workspace = load[l].workspace
  PROVE  Stays
  BY DEF Fewer, Stays, Undisturbed, InFlight

\* A reload of the workspace that was chosen.
LEMMA ReloadStays ==
  ASSUME DashboardTypeOK, Fewer, NEW l \in Loads, NEW w \in Places, Reload(l, w),
         Undisturbed => w = wish
  PROVE  Stays
  <1>1. /\ load' = [load EXCEPT ![l] = Ask("reload", w)] /\ load[l].at = "idle"
        /\ load'[l] = Ask("reload", w)
    BY ReloadKeeps DEF DashboardTypeOK
  <1>2. \A k \in InFlight' : k = l \/ (k \in InFlight /\ load'[k] = load[k])
    BY <1>1 DEF DashboardTypeOK, InFlight
  <1>3. load'[l].workspace = w
    BY <1>1, AskTyped
  <1> SUFFICES ASSUME Undisturbed PROVE Undisturbed'
    BY DEF Stays
  <1>4. \A k \in InFlight' : load'[k].workspace = wish
    BY <1>2, <1>3 DEF Undisturbed
  <1> QED BY <1>4 DEF Fewer, Undisturbed

LEMMA RenderKeeps ==
  ASSUME DashboardTypeOK, Render
  PROVE  DashboardTypeOK' /\ Stays
  <1>1. /\ shown' \in [workspace : Places, changes : [Repositories -> Nat], new : BOOLEAN]
        /\ shown'.workspace = shown.workspace
    BY DEF Render, DashboardTypeOK
  <1>2. effect' \in [workspace : Places, active : SUBSET Repositories]
    BY IdleValues DEF Render, DashboardTypeOK, ActiveKey
  <1>3. poll' \in [Polls -> PollState] /\ \A p \in Polls : poll'[p] = IdlePoll
    BY IdleValues DEF Render
  <1>4. DashboardTypeOK'
    BY <1>1, <1>2, <1>3 DEF Render, DashboardTypeOK, PollState, IdlePoll, server, history
  <1>5. effect'.active # {} => effect'.workspace = shown.workspace
    BY DEF Render
  <1>6. Stays
    BY <1>1, <1>3, <1>5 DEF Render, Stays, Undisturbed, InFlight, history, IdlePoll
  <1> QED BY <1>4, <1>6

LEMMA BeginPollKeeps ==
  ASSUME DashboardTypeOK, NEW p \in Polls, BeginPoll(p)
  PROVE  DashboardTypeOK' /\ Stays
  <1> DEFINE new == [IdlePoll EXCEPT !.at = "asked", !.workspace = effect.workspace,
                                     !.waiting = effect.active]
  <1>1. /\ new \in PollState /\ new.workspace = effect.workspace
        /\ new.waiting = effect.active
    BY IdleValues DEF DashboardTypeOK, IdlePoll, PollState
  <1>2. poll' = [poll EXCEPT ![p] = new]
    BY DEF BeginPoll
  <1> HIDE DEF new
  <1>3. /\ poll' \in [Polls -> PollState]
        /\ \A q \in Polls : poll'[q] = poll[q] \/ poll'[q] = new
    BY <1>1, <1>2 DEF DashboardTypeOK, PollState
  <1>5. \A q \in Polls : /\ poll'[q].waiting \subseteq effect.active
                        /\ poll'[q].at = "asked" => poll'[q].workspace = effect.workspace
    BY <1>1, <1>3 DEF DashboardTypeOK
  <1>6. DashboardTypeOK'
    BY <1>3, <1>5 DEF BeginPoll, DashboardTypeOK, PollState, server, history
  <1>4. effect.active # {}
    BY DEF BeginPoll
  <1>7. Stays
    BY <1>1, <1>3, <1>4 DEF BeginPoll, Stays, Undisturbed, InFlight, history
  <1> QED BY <1>6, <1>7

LEMMA ServePollKeeps ==
  ASSUME DashboardTypeOK, NEW p \in Polls, NEW r \in Repositories,
         ServePoll(p, r) \/ FailPoll(p, r)
  PROVE  DashboardTypeOK' /\ Stays
  <1>2. /\ poll' \in [Polls -> PollState]
        /\ \A q \in Polls : /\ poll'[q].waiting \subseteq poll[q].waiting
                            /\ poll'[q].at # "idle" =>
                                 poll[q].at # "idle" /\ poll'[q].workspace = poll[q].workspace
    <2>1. poll \in [Polls -> PollState] /\ poll[p] \in PollState
      BY DEF DashboardTypeOK, PollState
    <2> DEFINE less == [poll[p] EXCEPT !.waiting = @ \ {r}]
               more(v) == [poll[p] EXCEPT !.waiting = @ \ {r}, !.runs[r] = v]
    <2>2. less \in PollState /\ \A v \in Run : more(v) \in PollState
      BY <2>1, PolledTyped, IdleValues, Zenon
    <2>3. \A v : /\ less.waiting \subseteq poll[p].waiting
                 /\ more(v).waiting \subseteq poll[p].waiting
                 /\ less.at = poll[p].at /\ less.workspace = poll[p].workspace
                 /\ more(v).at = poll[p].at /\ more(v).workspace = poll[p].workspace
      BY <2>1 DEF PollState
    <2>4. PICK x \in PollState :
            /\ poll' = [poll EXCEPT ![p] = x]
            /\ \/ x = IdlePoll
               \/ x = less
               \/ \E v \in Run : x = more(v)
      <3>1. CASE ServePoll(p, r)
        <4>1. (IF WorkspaceOf[r] = poll[p].workspace THEN run[r] ELSE NoRun) \in Run
          BY IdleValues DEF DashboardTypeOK
        <4>2. poll' = [poll EXCEPT ![p] =
                more(IF WorkspaceOf[r] = poll[p].workspace THEN run[r] ELSE NoRun)]
          BY <3>1, Zenon DEF ServePoll
        <4> QED BY <2>2, <4>1, <4>2, Zenon
      <3>2. CASE FailPoll(p, r)
        BY <2>2, <3>2, IdleValues, Zenon DEF FailPoll
      <3> QED BY <3>1, <3>2
    <2>5. /\ x.waiting \subseteq poll[p].waiting
          /\ x.at # "idle" => poll[p].at # "idle" /\ x.workspace = poll[p].workspace
      <3>1. CASE x = IdlePoll
        BY <3>1 DEF IdlePoll
      <3>2. CASE x = less
        BY <2>3, <3>2, Zenon
      <3>3. CASE \E v \in Run : x = more(v)
        BY <2>3, <3>3, Zenon
      <3> QED BY <2>4, <3>1, <3>2, <3>3
    <2> HIDE DEF less, more
    <2> QED BY <2>1, <2>4, <2>5
  <1>1. UNCHANGED <<run, changes, shown, processing, loading, load, effect, click,
                   selections, wish, doubtful>>
    BY DEF ServePoll, FailPoll, server, history
  <1>3. DashboardTypeOK'
    BY <1>1, <1>2 DEF DashboardTypeOK, PollState
  <1>4. Fewer /\ UNCHANGED load
    BY <1>2 DEF ServePoll, FailPoll, Fewer, history
  <1>5. Stays
    BY <1>4, FewerStays DEF InFlight
  <1> QED BY <1>3, <1>5

LEMMA AnswerPollKeeps ==
  ASSUME DashboardTypeOK, NEW p \in Polls, AnswerPoll(p)
  PROVE  DashboardTypeOK' /\ Stays
  <1>1. /\ processing' \in [Repositories -> Run]
        /\ poll' \in [Polls -> PollState] /\ doubtful' \in BOOLEAN
        /\ \A q \in Polls : poll'[q] = poll[q] \/ poll'[q] = IdlePoll
    BY IdleValues DEF AnswerPoll, PollEnds, Polled, DashboardTypeOK, PollState
  <1>2. /\ UNCHANGED <<run, changes, shown, effect, click, selections, wish>>
    BY DEF AnswerPoll, PollEnds, server
  <1>a. Fewer
    BY <1>1, <1>2 DEF Fewer, IdlePoll
  <1>3. load' \in [Loads -> LoadState] /\ loading' \in BOOLEAN /\ Stays
    <2>1. CASE Completed(p)
      <3>1. PICK l \in Loads : Reload(l, poll[p].workspace)
        BY <2>1 DEF AnswerPoll
      <3>2. poll[p].workspace \in Places
        BY DEF DashboardTypeOK
      <3>3. Undisturbed => poll[p].workspace = wish
        BY DEF AnswerPoll, PollEnds, Undisturbed
      <3> QED BY <3>1, <3>2, <3>3, <1>a, ReloadKeeps, ReloadStays
    <2>2. CASE ~Completed(p)
      <3>1. UNCHANGED <<load, loading>>
        BY <2>2 DEF AnswerPoll
      <3>2. Stays
        BY <3>1, <1>a, FewerStays DEF InFlight
      <3> QED BY <3>1, <3>2 DEF DashboardTypeOK, LoadState
    <2> QED BY <2>1, <2>2
  <1>4. DashboardTypeOK'
    BY <1>1, <1>2, <1>3 DEF DashboardTypeOK, LoadState, PollState, IdlePoll
  <1> QED BY <1>3, <1>4

LEMMA ClickKeeps ==
  ASSUME DashboardTypeOK, NEW k \in Clicks, NEW r \in Repositories, Click(k, r)
  PROVE  DashboardTypeOK' /\ Stays
  <1>1. [at |-> "asked", repository |-> r, run |-> NoRun] \in ClickState
    BY IdleValues DEF ClickState
  <1>2. DashboardTypeOK'
    BY <1>1 DEF Click, DashboardTypeOK, server, history
  <1>3. \A j \in Clicks : click'[j] = click[j] \/ click'[j].repository = r
    BY DEF Click, DashboardTypeOK
  <1>4. /\ WorkspaceOf[r] = shown.workspace
        /\ UNCHANGED <<load, shown, poll, effect, wish>>
    BY DEF Click, Shown, history
  <1>5. Stays
    BY <1>3, <1>4 DEF Stays, Undisturbed, InFlight, Clicks
  <1> QED BY <1>2, <1>5

\* The marks of loads and polls leave what the invariant says of them.
LEMMA OutdateLoadsKeeps ==
  ASSUME DashboardTypeOK, OutdateLoads
  PROVE  /\ load' \in [Loads -> LoadState] /\ InFlight' = InFlight
         /\ \A l \in Loads : load'[l].workspace = load[l].workspace /\ load'[l].kind = load[l].kind
  <1>1. \A l \in Loads : load[l] \in LoadState
    BY DEF DashboardTypeOK, LoadState
  <1>2. \A l \in Loads : (load[l].outdated \/ load[l].at = "served") \in BOOLEAN
    OBVIOUS
  <1>3. load' = [l \in Loads |-> [load[l] EXCEPT
                  !.outdated = (load[l].outdated \/ load[l].at = "served")]]
    BY Zenon DEF OutdateLoads
  <1>4. \A l \in Loads : /\ load'[l] \in LoadState /\ load'[l].at = load[l].at
                         /\ load'[l].workspace = load[l].workspace
                         /\ load'[l].kind = load[l].kind
    BY <1>1, <1>2, <1>3, LoadMarked, Zenon
  <1>5. load' \in [Loads -> LoadState]
    BY <1>3, <1>4
  <1> QED BY <1>4, <1>5 DEF InFlight

LEMMA OutdatePollsKeeps ==
  ASSUME DashboardTypeOK, NEW r \in Repositories, OutdatePolls(r)
  PROVE  /\ poll' \in [Polls -> PollState]
         /\ \A p \in Polls : /\ poll'[p].waiting = poll[p].waiting /\ poll'[p].at = poll[p].at
                             /\ poll'[p].workspace = poll[p].workspace
  <1>1. \A p \in Polls : poll[p] \in PollState
    BY DEF DashboardTypeOK, PollState
  <1>2. \A p \in Polls :
          (poll[p].outdated \/ (poll[p].at = "asked" /\ r \notin poll[p].waiting)) \in BOOLEAN
    OBVIOUS
  <1>3. poll' = [p \in Polls |-> [poll[p] EXCEPT !.outdated =
            (poll[p].outdated \/ (poll[p].at = "asked" /\ r \notin poll[p].waiting))]]
    BY Zenon DEF OutdatePolls
  <1>4. \A p \in Polls : /\ poll'[p] \in PollState /\ poll'[p].at = poll[p].at
                         /\ poll'[p].waiting = poll[p].waiting
                         /\ poll'[p].workspace = poll[p].workspace
    BY <1>1, <1>2, <1>3, PollMarked, Zenon
  <1>5. poll' \in [Polls -> PollState]
    BY <1>3, <1>4
  <1> QED BY <1>4, <1>5

\* The repository and the run of a click that is under way.
LEMMA ClickTyped ==
  ASSUME DashboardTypeOK, NEW k \in Clicks, click[k].at \notin {"unsent", "over"}
  PROVE  /\ click[k].repository \in Repositories /\ click[k].run \in Run
         /\ \A x \in Run : /\ [click[k] EXCEPT !.at = "ended", !.run = x] \in ClickState
                           /\ [click[k] EXCEPT !.at = "ended", !.run = x].repository
                                = click[k].repository
         /\ [click[k] EXCEPT !.at = "unheard"] \in ClickState
         /\ [click[k] EXCEPT !.at = "unheard"].at = "unheard"
         /\ Over \in ClickState /\ Over.at = "over"
  <1>1. click[k] \in [at : {"asked", "unheard", "ended"}, repository : Repositories, run : Run]
    BY DEF DashboardTypeOK, ClickState
  <1>2. Over.at = "over"
    BY DEF Over, Unsent
  <1> QED BY <1>1, <1>2, IdleValues DEF ClickState

\* A step of the click k alone, that does not begin an operation.
LEMMA ClickGoes ==
  ASSUME DashboardTypeOK, NEW k \in Clicks, NEW x \in ClickState,
         click' = [click EXCEPT ![k] = x], UNCHANGED <<shown, wish, effect>>,
         \A p \in Polls : poll'[p].at = poll[p].at /\ poll'[p].workspace = poll[p].workspace,
         \/ x.at \notin {"asked", "ended"} \/ k \notin Operations
         \/ /\ click[k].at \in {"asked", "ended"}
            /\ x.repository = click[k].repository
  PROVE  click' \in [Clicks -> ClickState] /\ Fewer
  <1>1. \A j \in Clicks : click'[j] = IF j = k THEN x ELSE click[j]
    BY DEF DashboardTypeOK
  <1>2. click' \in [Clicks -> ClickState]
    BY DEF DashboardTypeOK
  <1>3. \A j \in Operations : j \in Clicks
    BY DEF Clicks
  <1> QED BY <1>1, <1>2, <1>3 DEF Fewer

\* The handler of a click ends.
LEMMA EndsKeeps ==
  ASSUME DashboardTypeOK, NEW k \in Clicks, AtWork(k), NEW x \in Run, Ends(k, x),
         UNCHANGED <<shown, wish, effect>>,
         \A p \in Polls : poll'[p].at = poll[p].at /\ poll'[p].workspace = poll[p].workspace
  PROVE  click' \in [Clicks -> ClickState] /\ Fewer
  <1>1. click[k].at \in {"asked", "unheard"}
    BY DEF AtWork
  <1>2. CASE click[k].at = "unheard"
    <2>1. click' = [click EXCEPT ![k] = Over]
      BY <1>2 DEF Ends, DashboardTypeOK
    <2> QED BY <1>1, <2>1, ClickTyped, ClickGoes
  <1>3. CASE click[k].at = "asked"
    <2> DEFINE y == [click[k] EXCEPT !.at = "ended", !.run = x]
    <2>1. click' = [click EXCEPT ![k] = y]
      BY <1>3 DEF Ends, DashboardTypeOK
    <2>2. y \in ClickState /\ y.repository = click[k].repository
      BY <1>1, ClickTyped
    <2> HIDE DEF y
    <2> QED BY <1>3, <2>1, <2>2, ClickGoes
  <1> QED BY <1>1, <1>2, <1>3

LEMMA AcceptPrepareKeeps ==
  ASSUME DashboardTypeOK, NEW k \in Clicks, AcceptPrepare(k)
  PROVE  DashboardTypeOK' /\ Stays
  <1> DEFINE r == click[k].repository
  <1>0. r \in Repositories /\ AtWork(k)
    BY ClickTyped DEF AcceptPrepare, AtWork
  <1>1. /\ run' \in [Repositories -> Run] /\ doubtful' \in BOOLEAN
        /\ load' \in [Loads -> LoadState] /\ InFlight' = InFlight
        /\ \A l \in Loads : load'[l].workspace = load[l].workspace /\ load'[l].kind = load[l].kind
        /\ poll' \in [Polls -> PollState]
        /\ \A p \in Polls : /\ poll'[p].waiting = poll[p].waiting /\ poll'[p].at = poll[p].at
                            /\ poll'[p].workspace = poll[p].workspace
    <2>1. CASE run[r].status = "ACTIVE"
      BY <2>1 DEF AcceptPrepare, DashboardTypeOK, LoadState, PollState, InFlight
    <2>2. CASE run[r].status # "ACTIVE"
      <3>1. OutdateLoads /\ OutdatePolls(r)
        BY <2>2 DEF AcceptPrepare
      <3>2. run' = [run EXCEPT ![r] = [n |-> run[r].n + 1, status |-> "ACTIVE"]]
        BY <2>2 DEF AcceptPrepare
      <3>3. run' \in [Repositories -> Run]
        BY <1>0, <3>2 DEF DashboardTypeOK, Run
      <3>4. doubtful' \in BOOLEAN
        BY <2>2 DEF AcceptPrepare, DashboardTypeOK
      <3> QED BY <1>0, <3>1, <3>3, <3>4, OutdateLoadsKeeps, OutdatePollsKeeps
    <2> QED BY <2>1, <2>2
  <1>2. UNCHANGED <<changes, shown, processing, loading, effect, selections, wish>>
    BY DEF AcceptPrepare
  <1>3. click' \in [Clicks -> ClickState] /\ Fewer
    <2>1. run'[r] \in Run /\ Ends(k, run'[r])
      BY <1>0, <1>1 DEF AcceptPrepare
    <2> QED BY <1>0, <1>1, <1>2, <2>1, EndsKeeps
  <1>4. DashboardTypeOK'
    BY <1>1, <1>2, <1>3 DEF DashboardTypeOK, LoadState, PollState
  <1>5. Stays
    BY <1>1, <1>3, FewerStays
  <1> QED BY <1>4, <1>5

LEMMA AnswerPrepareKeeps ==
  ASSUME DashboardTypeOK, NEW k \in Clicks, AnswerPrepare(k)
  PROVE  DashboardTypeOK' /\ Stays
  <1>1. /\ click' = [click EXCEPT ![k] = Over] /\ click[k].at = "ended"
        /\ UNCHANGED <<server, shown, loading, load, poll, effect, history>>
    BY DEF AnswerPrepare
  <1>2. click' \in [Clicks -> ClickState] /\ Fewer
    BY <1>1, ClickTyped, ClickGoes DEF history
  <1>3. processing' \in [Repositories -> Run]
    BY <1>1, ClickTyped DEF AnswerPrepare, DashboardTypeOK
  <1>4. DashboardTypeOK'
    BY <1>1, <1>2, <1>3 DEF DashboardTypeOK, server, history
  <1>5. Stays
    BY <1>1, <1>2, FewerStays DEF InFlight
  <1> QED BY <1>4, <1>5

LEMMA EndOperationKeeps ==
  ASSUME DashboardTypeOK, NEW k \in Clicks, EndOperation(k)
  PROVE  DashboardTypeOK' /\ Stays
  <1>1. /\ AtWork(k) /\ Ends(k, NoRun)
        /\ UNCHANGED <<run, shown, processing, loading, poll, effect, selections, wish>>
    BY DEF EndOperation
  <1>2. click' \in [Clicks -> ClickState] /\ Fewer
    BY <1>1, EndsKeeps, IdleValues
  <1>3. changes' \in [Repositories -> Nat] /\ doubtful' \in BOOLEAN
    <2>1. click[k].repository \in Repositories
      BY <1>1, ClickTyped DEF AtWork
    <2> QED BY <2>1 DEF EndOperation, DashboardTypeOK
  <1>4. /\ load' \in [Loads -> LoadState] /\ InFlight' = InFlight
        /\ \A l \in Loads : load'[l].workspace = load[l].workspace /\ load'[l].kind = load[l].kind
    BY OutdateLoadsKeeps DEF EndOperation
  <1>5. DashboardTypeOK'
    BY <1>1, <1>2, <1>3, <1>4 DEF DashboardTypeOK, LoadState
  <1>6. Stays
    BY <1>2, <1>4, FewerStays
  <1> QED BY <1>5, <1>6

LEMMA AnswerOperationKeeps ==
  ASSUME DashboardTypeOK, NEW k \in Clicks, AnswerOperation(k)
  PROVE  DashboardTypeOK' /\ Stays
  <1> DEFINE w == WorkspaceOf[click[k].repository]
  <1>1. /\ k \in Operations /\ click[k].at = "ended"
        /\ click' = [click EXCEPT ![k] = Over]
        /\ UNCHANGED <<server, shown, processing, poll, effect, history>>
    BY DEF AnswerOperation
  <1>2. click' \in [Clicks -> ClickState] /\ Fewer
    BY <1>1, ClickTyped, ClickGoes DEF history
  <1>3. w \in Places
    BY <1>1, ClickTyped, DashboardAssumption DEF Places
  <1>4. Undisturbed => w = wish
    BY <1>1 DEF Undisturbed
  <1>5. PICK l \in Loads : Reload(l, w)
    BY DEF AnswerOperation
  <1> HIDE DEF w
  <1>6. load' \in [Loads -> LoadState] /\ loading' \in BOOLEAN
    BY <1>3, <1>5, ReloadKeeps
  <1>7. DashboardTypeOK'
    BY <1>1, <1>2, <1>6 DEF DashboardTypeOK, LoadState, server, history
  <1>8. Stays
    BY <1>2, <1>3, <1>4, <1>5, ReloadStays
  <1> QED BY <1>7, <1>8

LEMMA FailClickKeeps ==
  ASSUME DashboardTypeOK, NEW k \in Clicks, FailClick(k)
  PROVE  DashboardTypeOK' /\ Stays
  <1>1. /\ click[k].at \in {"asked", "ended", "unheard"}
        /\ UNCHANGED <<server, shown, processing, loading, load, poll, effect,
                       selections, wish>>
    BY DEF FailClick
  <1>2. PICK x \in ClickState :
          x.at \in {"unheard", "over"} /\ click' = [click EXCEPT ![k] = x]
    <2>1. CASE click[k].at = "asked"
      <3> DEFINE y == [click[k] EXCEPT !.at = "unheard"]
      <3>1. click' = [click EXCEPT ![k] = y]
        BY <2>1 DEF FailClick, DashboardTypeOK
      <3>2. y \in ClickState /\ y.at = "unheard"
        BY <1>1, ClickTyped
      <3> HIDE DEF y
      <3> QED BY <3>1, <3>2
    <2>2. CASE click[k].at # "asked"
      <3>1. click' = [click EXCEPT ![k] = Over]
        BY <2>2 DEF FailClick, DashboardTypeOK
      <3> QED BY <1>1, <3>1, ClickTyped
    <2> QED BY <2>1, <2>2
  <1>3. click' \in [Clicks -> ClickState] /\ Fewer
    BY <1>1, <1>2, ClickGoes
  <1>4. doubtful' \in BOOLEAN
    BY DEF FailClick, DashboardTypeOK
  <1>5. DashboardTypeOK'
    BY <1>1, <1>3, <1>4 DEF DashboardTypeOK, server
  <1>6. Stays
    BY <1>1, <1>3, FewerStays DEF InFlight
  <1> QED BY <1>5, <1>6

LEMMA FinishRunKeeps ==
  ASSUME DashboardTypeOK, NEW r \in Repositories, FinishRun(r)
  PROVE  DashboardTypeOK' /\ Stays
  <1>1. run' \in [Repositories -> Run] /\ changes' \in [Repositories -> Nat]
    <2>1. PICK s \in {"COMPLETED", "FAILED"} : run' = [run EXCEPT ![r].status = s]
      BY DEF FinishRun
    <2>2. run[r] \in Run /\ run \in [Repositories -> Run] /\ changes \in [Repositories -> Nat]
      BY DEF DashboardTypeOK
    <2>3. [run[r] EXCEPT !.status = s] \in Run
      BY <2>2 DEF Run
    <2>4. run' = [run EXCEPT ![r] = [run[r] EXCEPT !.status = s]]
      BY <2>1, Zenon
    <2>5. changes' = [changes EXCEPT ![r] = @ + 1]
      BY DEF FinishRun
    <2> QED BY <2>2, <2>3, <2>4, <2>5
  <1>2. DashboardTypeOK'
    BY <1>1 DEF FinishRun, DashboardTypeOK, history
  <1>3. Fewer /\ UNCHANGED load
    BY DEF FinishRun, Fewer, history
  <1>4. Stays
    BY <1>3, FewerStays DEF InFlight
  <1> QED BY <1>2, <1>4

-----------------------------------------------------------------------------
(* Theorems                                                                *)

LEMMA DashboardStep == DashboardTypeOK /\ [Next]_vars => DashboardTypeOK' /\ Stays
  <1> SUFFICES ASSUME DashboardTypeOK, [Next]_vars PROVE DashboardTypeOK' /\ Stays
    OBVIOUS
  <1>1. ASSUME NEW l \in Loads,
               ServeLoad(l) \/ AnswerLoad(l) \/ FailLoad(l)
                 \/ \E w \in Workspaces : SelectWorkspace(l, w)
        PROVE  DashboardTypeOK' /\ Stays
    BY <1>1, ServeLoadKeeps, AnswerLoadKeeps, FailLoadKeeps, SelectWorkspaceKeeps
  <1>2. CASE Render
    BY <1>2, RenderKeeps
  <1>3. ASSUME NEW p \in Polls,
               BeginPoll(p) \/ AnswerPoll(p)
                 \/ \E r \in Repositories : ServePoll(p, r) \/ FailPoll(p, r)
        PROVE  DashboardTypeOK' /\ Stays
    BY <1>3, BeginPollKeeps, AnswerPollKeeps, ServePollKeeps
  <1>4. ASSUME NEW k \in Clicks,
               \/ \E r \in Repositories : Click(k, r)
               \/ AcceptPrepare(k) \/ AnswerPrepare(k)
               \/ EndOperation(k) \/ AnswerOperation(k) \/ FailClick(k)
        PROVE  DashboardTypeOK' /\ Stays
    BY <1>4, ClickKeeps, AcceptPrepareKeeps, AnswerPrepareKeeps, EndOperationKeeps,
       AnswerOperationKeeps, FailClickKeeps
  <1>5. ASSUME NEW r \in Repositories, FinishRun(r) PROVE DashboardTypeOK' /\ Stays
    BY <1>5, FinishRunKeeps
  <1>6. CASE UNCHANGED vars
    BY <1>6 DEF vars, server, history, DashboardTypeOK, Stays, Undisturbed, InFlight
  <1> QED BY <1>1, <1>2, <1>3, <1>4, <1>5, <1>6 DEF Next

\* Every variable of the dashboard has its type, and polls that are under way
\* ask for the runs that were active when the effect was made.
THEOREM DashboardTypeCorrect == Spec => []DashboardTypeOK
  BY DashboardInitially, DashboardStep, PTL DEF Spec

\* Once the chosen workspace is shown, and whatever is under way was begun in it,
\* it stays shown until the user chooses another one.
THEOREM ChosenStaysShown == Spec => ChosenWorkspaceStays
  <1>1. DashboardTypeOK /\ [Next]_vars => [Undisturbed => Undisturbed' \/ wish' # wish]_vars
    BY DashboardStep DEF Stays
  <1> QED BY <1>1, DashboardTypeCorrect, PTL DEF Spec, ChosenWorkspaceStays
=============================================================================
