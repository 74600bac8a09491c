# A TLA+ verification of NexusDevAI

NexusDevAI imports GitHub repositories, indexes them with embeddings, and
reviews repositories and pull requests with a local Ollama model. It is a
NestJS API (`src/apps/api`) over PostgreSQL (Prisma), Redis (BullMQ), GitHub and
Ollama, and a Next.js web application (`src/apps/web`) that talks to the API on
behalf of browsers. This directory models the parts of it where several
processes, requests, retries or failures meet, checks the models with TLC, and
proves the properties that matter most with TLAPS.

All paths below are relative to `src/`. `PROJECT.json` maps every definition to
the lines it translates and lists the runs, the mutants that show that each
property can fail, the hazards and the theorems.

## 1. Inventory

| Component | State | Operations | Interacts with |
|---|---|---|---|
| Automatic pull request reviews, `apps/api/src/github-webhooks/` | rows `GitHubPullRequest`, `PullRequestReviewRun`; a BullMQ queue and one worker (concurrency 1) | `handleEvent`, `processRun`, `failRun`, `findLatest` | GitHub (webhooks in, check runs and reviews out), Redis, Ollama, the connections |
| GitHub App client, `apps/api/src/provider-connections/github-app.service.ts` | none (a signed, expiring installation state) | requests to GitHub, `createInstallUrl`, `verifyState`, patch parsing | everything that reads GitHub |
| Repository processing, `apps/api/src/repositories/repository-processing.service.ts` | rows `RepositoryProcessingRun`, a second BullMQ queue and worker | `enqueue`, `processRun`, `findLatest` | Redis, the repository index |
| Repository index, `apps/api/src/repositories/repositories.service.ts` | rows of branches, commits, files, chunks with embeddings | `synchronize`, `ingestFiles`, `chunkFiles`, `embedChunks`, `searchChunks`, `answerQuestion`, `create`, `importFromGithub`, `remove` | GitHub, Ollama; called by the worker and by HTTP requests at the same time |
| Repository code review, same file, `ollama-generation.service.ts`, and `apps/web/app/dashboard/code-review-panel.tsx` | rows `RepositoryCodeReview`, `RepositoryCodeReviewRun`; the React state of a panel | `reviewRepository`, `findReviews`, `reviewCode`; `togglePanel`, `runReview` | Ollama, the index |
| Authentication sessions, `apps/api/src/auth/auth.service.ts` | rows `Session` (hash of the refresh secret, `revokedAt`, `expiresAt`) | `login`, `refreshToken`, `logout`, `register` | the web application, the users |
| Web session cookies, `apps/web/lib/auth.ts` and the login and logout routes | two cookies in the browser, nothing on the server | `apiFetch`, `authenticate`, the logout route | the API's sessions; every other route |
| Organization members, `apps/api/src/organizations/organization-members.service.ts` | rows `Membership` with a role | `add`, `updateRole`, `remove`, `findAll` | read by every service that checks a role |
| Organizations and workspaces | rows with slugs | `create`, `findAll` | members |
| Provider connections, `provider-connections.service.ts` | rows `ProviderConnection`, unique per installation and per account of an organization | `createGithubInstallUrl`, `completeGithubConnection`, `disconnect`, ... | GitHub App client, repositories, pull request reviews |
| Dashboard, `apps/web/app/dashboard/dashboard-client.tsx` | React state, fed by loads and two polling effects | load, choose a workspace, poll, start actions | the proxy routes |
| Web proxy routes, `apps/web/app/api/` | none | one forwarded request each (the dashboard's: up to five) | `apiFetch` |
| Ollama clients, health, users, Prisma, scripts | none | requests, reads, one-off set-up | |

### What is hard, and what makes each component correct

- **Pull request reviews.** Nothing spans PostgreSQL, Redis and GitHub: each
  `await` is a point where another delivery, the worker, a crash, a lost answer
  or a failed call can come in. Deliveries are repeated, overlap and overtake
  each other; BullMQ executes a stalled job again; Redis forgets finished jobs.
  Correct means: a run that says COMPLETED was published; a RUNNING run has
  something that will settle it; a check run is not left in progress; a head
  commit is not skipped, is reviewed once per execution, and by sources that
  are not older; every repository found gets its run; runs settle.
- **Sessions.** A refresh reads a row, waits for bcrypt, and writes on the
  condition that the row is as it was read; logouts and revocations do
  likewise, at the same time. Correct means: a refresh token is exchanged
  once, the new one is the only one, nothing revives an ended session.
- **Web session.** The web server is stateless and the browser applies
  cookies in the order responses arrive. Correct means: the browser is not
  left with a spent token, is told "expired" only when that is true, and a
  logout that the API answers ends the session.
- **Members.** Role checks, the count of owners and the write are separate
  queries. Correct means: an owner remains, an administrator does not touch
  owners, a user has one membership.
- **Processing and index.** Check-then-create of runs, four stages that each
  read and later write the same tables, HTTP requests that run the same
  stages at the same time, removal of the repository under way. Correct means:
  an active run has a job and settles, a run that nobody disturbed leaves the
  index of the default branch, an embedding is of its chunk's text, and no
  chunk or embedding outlives what it belongs to.
- **Connections.** The role and the signed state are checked, then GitHub is
  asked, then the connection is looked up and written, while roles change and
  installations come and go. Correct means: one organization per installation,
  a connection of somebody who asked for it as a manager, no older installation
  in the place of a newer one, and repositories imported only through the
  connection of their own account and organization.
- **Code review.** A review takes a minute or more; it reads excerpts of an
  index that is rebuilt meanwhile, replaces the stored reviews in a transaction
  that does not see those of concurrent reviews, and reads them again to answer.
  Correct means: reviews replace each other as a whole, findings lie within the
  excerpts, no passage is torn by the chunks, and the panel shows reviews that
  were stored together.
- **Dashboard.** Loads, polls and the answers to clicks overlap and are applied
  in the order in which they arrive. Correct means: the chosen workspace, once it
  is shown, stays shown until another is chosen, and what is shown catches up
  with what the user has started.

The hazards of `PROJECT.json` give these with their lines and the properties
that would catch them. Where the code is exposed to a hazard and a property must
excuse it, a note says what is accepted and what the property still rules out;
section 3 lists that behaviour.

## 2. Modules

| Module | Models | Checked by | Proofs |
|---|---|---|---|
| `PullRequestReviews` | `handleEvent`, `processRun`, queue, worker, GitHub, faults | `MCPullRequestReviews`, runs `pr_*` | `PullRequestReviewsProofs` |
| `SessionTokens` | the promise of the API about refresh tokens (abstract) | through `AuthSessions` | |
| `AuthSessions` | `login`, `refreshToken`, `logout` over the `Session` table | `MCAuthSessions`, run `auth_sessions` | `AuthSessionsProofs` |
| `WebSession` | EXTENDS `AuthSessions` with the cookies and routes of one browser | `MCWebSession`, run `web_session` | in `AuthSessionsProofs` |
| `OrganizationMembers` | `add`, `updateRole`, `remove` in one organization | `MCOrganizationMembers`, run `members` | `OrganizationMembersProofs` |
| `RepositoryProcessing` | `enqueue`, `processRun`, its queue and worker, with stages left open | `MCRepositoryProcessing`, run `processing` | `RepositoryProcessingProofs` |
| `RepositoryIndex` | EXTENDS `RepositoryProcessing` with files, chunks and embeddings, the four stages and the HTTP requests for them | `MCRepositoryIndex`, run `indexing` | `RepositoryIndexProofs` |
| `SourceExcerpts` | `createChunks` and the validation of findings, as operators | through `RepositoryReview` | in `RepositoryReviewProofs` |
| `RepositoryReview` | EXTENDS `SourceExcerpts` with `reviewRepository`, `findReviews`, `reviewCode` and the panel of one user | `MCRepositoryReview`, run `reviews` | `RepositoryReviewProofs` |
| `ProviderConnections` | `createGithubInstallUrl`, `completeGithubConnection`, `disconnect`, `create`, `importFromGithub`, `remove` | `MCProviderConnections`, run `connections` | `ProviderConnectionsProofs` |
| `Dashboard` | the `DashboardClient` of one user and the routes it calls | `MCDashboard`, run `dashboard` | `DashboardProofs` |

The modules meet at these places: `WebSession` and `RepositoryIndex` extend what
they are composed with. `RepositoryReview` has the index as `Rebuild` and
`Embed`, which is what `RepositoryIndex` does to the chunks of a file that have
an embedding. `Dashboard` has the runs of `RepositoryProcessing` with QUEUED and
RUNNING as one status, and its assumption that they end is `ActiveRunsEnd`.

In every module one action is the code between two awaited calls. Definitions
whose comment begins with "Mutation" are plausible bugs; no specification uses
them. Variables marked "history" are written but never read by the actions.

### PullRequestReviews

`handler[d]` is the `handleEvent` call for delivery `d`: `Receive` looks up the
repositories (lines 117-170 of `github-webhook.service.ts`), then for each of
them `UpsertPullRequest`, `FindRun`, `SaveRun`, `AddJob`, which follow the four
awaited calls; `Abort` is an uncaught error, which leaves the remaining
repositories without a run. `worker` is the one `processRun` call: `Start` to
`SaveCompleted` follow its awaits, `Throw` is the catch block, and the two
promises that the try block returns without `await` (`Skip`, `SaveCompleted`)
reject the job without passing through it. `Take`, `Finish`, `Stall` and
`Retire` are BullMQ: a job id that Redis still holds is not added again, a
stalled job is executed again at most `MaxStalls` times, and finished jobs
beyond `Retained` are dropped. GitHub's check runs and reviews are `openChecks`,
`conclusion` and `reviews`. Faults are a crash, a database error, a Redis error,
a refused GitHub request, a GitHub request that took effect without an answer,
and an Ollama failure. A Redis error makes `queue.add` throw before Redis took the
job or after: in the second case the job is executed, and `FailQueuedRun` writes
FAILED over what it did.

Left out: the check of the signature and of the payload and the id of the
installation, which end before anything is written; the text of reviews; several
pull requests (they share the worker and the queue only); a database write that
is committed although its call throws.

### SessionTokens and AuthSessions

Ids and secrets are random, so a session bears the name of the login that made
it and a secret the name of the call that drew it; a bcrypt hash is modelled by
its secret. `at[c]` is where call `c` waits. `Refresh` and `Logout` read the row
and decide (`RefreshVerdict`, `LogoutVerdict`), `Rotate`, `RevokeAll` and
`Revoke` are the conditional `updateMany`s. Clients may present any token ever
handed out, at any time. `SessionTokens` is what that amounts to for a client:
tokens are opened, exchanged once, ended, and never accepted again once they were
exchanged; `AuthSessions` implements it with `accepted` the tokens behind open
rows, `minted` those answered so far and `spent` those of the calls that were
answered with new ones.

Left out: `register` and malformed tokens, which touch no session; the access
token, which is a signed JWT that nothing revokes; a write that commits
although its call fails.

### WebSession

Request `c` of the browser makes at most one call of `/auth`, of the same name.
`Begin` copies the cookies, `StartFetch` to `RefreshRefused` are `apiFetch`,
the login and logout routes follow, `Receive` applies the `Set-Cookie` headers
when the response arrives. `LoseAnswer` is a `fetch` that throws: the API was never
reached, is still at work, or has answered. `ApiFails` is an API that answers 500
or dies, `LoseResponse` loses the web server's response, and `Suspend` an
administrator who suspends or reinstates the user, at any time. `disturbed`
records requests that overlapped another, or came after a loss: for these the
code promises less, as it should be read, and the properties say so. `suspended`
records the users who were ever not active: the API refuses their refreshes while
the rows of their sessions stay open.

### OrganizationMembers

A request holds what its handler has read: the actor's role (`Add`, `Ask`), the
target's role (`FindTarget`), the count of other owners (`CountOwners`). `Write`
names the row by id only, as the code does. `stale` records the handlers under
way while another one wrote. Refused requests leave no trace and their names
are used again. VIEWER and DEVELOPER are one role, since neither manages
members. A user's own status is not modelled (`add` asks for an active user).

### RepositoryProcessing

`enqueue[q]` is where request `q` waits: `Look` finds the repository and an
active run, `CreateRun` inserts the row, `AddJob` calls Redis, `FailQueuedRun`
is its catch block. `worker` is the one `processRun` call: `UpdateStage` writes
the stage, `StageEnds` and `StageThrows` stand for what the stage does,
`Complete` is the last update, which is returned without `await`, and `FailRun`
is the catch block. `Take`, `Finish` and `Stall` are BullMQ; a job stalls only
after a crash, since a live worker renews its lock. Faults are a crash, a
database error at the updates, and a Redis error, before or after the job was
added. A row with status RUNNING is represented by its stage, as `updateStage`
writes both. The failure of a stage is not a bounded fault: it may always happen.

Left out: several repositories, which share the worker only; BullMQ forgetting
finished jobs, which nothing observes, as each run has a random id; a database
write that is committed although its call throws.

### RepositoryIndex

`files[p]`, `chunks[p]` and `embeddings[p]` are contents: of the file's row, of
what its chunks were cut from (`sourceSha`), of what was embedded for them. A
file with text has at least one chunk, one whose text is blank has none.
`call[c]` is one execution of a stage, by `Worker` or by an HTTP request: what it
read (`view`), what it has still to write (`todo`), and which of the rows it read
have been deleted (`lost`). Row ids are random, so a row that takes the place of
a deleted one is another row; `lost` says so without naming ids. Each write is
one transaction: `WriteFiles` the whole ingestion, `WriteChunks` the chunks of
one file, `EmbedBatch` up to ten chunks of any files. Any awaited call may fail
(`RequestThrows`, `StageFails`), and what was written before stays. `Read` is what
`getRepositoryFiles` makes of a tree: the first `MaxFiles` of the files that it
lists (250 in the code), without the binary ones. `NoFile` in the branch stands
for all that is not listed: no file, one that is no source file, or one of more
than 100 KB. `calm` records
that nothing was pushed and no request was at work since the worker began its
run; properties about the result of a run need it, since a run that overlaps
others promises nothing about it.

Left out: how a file is cut into chunks (`SourceExcerpts`); a tree that GitHub has
truncated, which makes the stage fail (`StageFails`); branches and commits, which no other
stage reads; searching and asking, which write nothing; a change of the embedding
model, which makes all chunks unembedded. The chunks of one file are embedded
together here: a file of which some chunks are embedded is one without
embeddings, of which the next stage reads the rest. Two transactions that
replace the chunks of one file exclude each other, since the second violates
the unique index of `(fileId, chunkIndex)` and fails, or waits.

### SourceExcerpts and RepositoryReview

A file's content is the number of its lines and the set of those that are not
blank: all that `createChunks` looks at. `Windows` are the iterations of its
loop, `CreateChunks` those with text. `Located` is the test of
`parseReviewCandidates`: the range of a finding lies in the first excerpt of its
file.

`call[q]` is one request with its handler: `ReadSources` reads up to `Limit`
chunks, `Generate` and `Verify` are the two requests to Ollama, whose answers are
any, `BeginReplacing` and `CommitReviews` the transaction, and `ReadBack` the
query for the answer. The transaction runs at read committed, so its DELETE
takes the rows that were committed when it began (`doomed`) and waits for an
earlier one that is deleting some of them (`behind`). `FindReviews` is the other
handler. `panel` is the React state: `RunReview`, `OpenPanel` and `TogglePanel`
are its buttons, `Receive` and `GiveUp` what it does with answers. `Embed` embeds
some chunks that have no embedding, those of a file in their order, as the
batches of `embedChunks` do: it may stop after any of them. `seen` is a history:
the reviews that were stored when a transaction began.

Left out: the priority by which chunks are chosen (they come in any order); the
texts of findings, their severity and its filter; the summary of the run.

### ProviderConnections

`completion[q]` is one call of `completeGithubConnection`: `BeginCompletion`
checks the role and the state, `GetInstallation` asks GitHub,
`FindInstallation` looks the installation up, `WriteConnection` is the update or
the upsert. `import[m]` is one call of `importFromGithub`: `BeginImport` checks the
role, `FindActiveConnection` reads the connection, `ListAndImport` finds the
repository in GitHub's list and inserts it. `Disconnect`, `CreateRepository` and
`RemoveRepository` are one step each, for the reason their comments give. GitHub
installs, suspends and uninstalls the app at any time, members get other roles,
states expire. `overtaken` is a history: another completion of the same
connection wrote it since this one asked GitHub.

Left out: the bytes of the state and its signature (a state that was not signed
is not in `issued`), the secret of the app, the fields of a repository, and the
calls that are refused, which change nothing.

### Dashboard

`run` and `changes` are the server: the latest run of each repository and how
often its contents have changed. All else is the page. `load[l]` and `poll[p]`
are requests in flight: `ServeLoad` and `ServePoll` are when the server reads,
`AnswerLoad` and `AnswerPoll` when the page applies the answer. `Render` is
React's effect, which cancels the polls of the one before; `BeginPoll` is the
interval. `Click` to `AnswerOperation` are the buttons: a preparation shows the
run that is answered, another operation reloads. `FailLoad`, `FailPoll` and
`FailClick` may happen at any time. A click whose request failed without an answer
is `unheard`: the API may go on with it, and have its effect later.

Left out: the polling of pull request reviews, which is the same effect without a
reload; embedding, search and questions, whose answers are shown and change
nothing else; the GitHub picker, whose import reloads the dashboard as an
operation does; who may press which button; that the buttons of
the operations also disable each other (the model allows more).

## 3. Runs

Bounds are constants of the configurations; every one is named.

| Run | Instance | Properties |
|---|---|---|
| `pr_safety` | 1 repository, 2 commits, 3 pushes, 1 retained job, 1 fault of any kind | `TypeOK`, `CompletedIsPublished`, `ChecksClosed`, `HeadNotSkipped`, `ReviewIsNotOlder`, `SettledIsFinal` |
| `pr_fanout` | 2 repositories, 1 commit, 2 deliveries, 2 crashes or Redis errors | `RunningHasJob`, `OneReviewPerExecution`, `AnswerCoversEveryRepository` |
| `pr_liveness` | 1 repository, 2 commits, 2 pushes, 1 fault, under fairness | `RunsSettle`, `HeadSettles` |
| `pr_requeue` | 1 delivery sent twice, 1 Ollama failure | violates `QueuedRunsWait` |
| `auth_sessions` | 5 calls, 1 user | `AuthTypeOK`, `ImplementsSessionTokens` |
| `web_session` | 4 requests, 1 user, and either suspensions or 1 call that fails, is not answered, or whose response is lost | `WebTypeOK`, `JarNotStranded`, `SignedOutOnlyWhenOver`, `LogoutAloneEnds` |
| `members` | 3 users, 4 requests, 2 at a time | `TypeOK`, `OwnersKeptUnlessOvertaken`, `AdminsSpareOwners` |
| `processing` | 2 requests, 2 faults of any kind, removal, under fairness | `ProcessingTypeOK`, `ActiveRunHasJob`, `OneActiveRun`, `ActiveRunsEnd` |
| `indexing` | 1 run, 1 crash, 1 HTTP caller, 3 paths of which at most 2 files are ingested, 4 contents (one blank, one binary), 1 push, removal | `IndexTypeOK`, `CompletedIsIndexed`, `EmbeddingOfItsChunk`, `EmbeddingsKept` |
| `reviews` | 3 requests, 1 file of two contents, windows of 4 lines with 1 of overlap, 2 excerpts per review, 1 rebuild, embedding in batches of any size | `ReviewTypeOK`, `ReviewsReplaced`, `FindingsInExcerpts`, `NoPassageTorn`, `PanelShowsStoredReviews` |
| `connections` | 2 organizations with a workspace each, 2 users, 1 account with 2 installations, 2 completions, 1 import, 1 role taken away | `ConnectionsTypeOK`, `ConnectedByRequester`, `ImportedThroughItsConnection`, `InstallationsForward` |
| `dashboard` | 2 workspaces, 1 repository in the second, 2 loads and 2 polls at a time, 1 preparation, 1 operation, 2 choices, under fairness | `DashboardTypeOK`, `ChosenWorkspaceStays`, `DashboardCatchesUp` |

Why the bounds are enough for the cases to occur: three pushes of two commits
let the head move away and come back; one retained job makes Redis drop a job
whose run is queued again; two crashes exceed `maxStalledCount`; two
repositories are what a fan-out needs. Five calls are two logins and three
overlapping exchanges, or one login, a refresh race and a presented old token,
which revokes. Four web requests are a login, two overlapping requests, and one
after; a fault and a suspension do not come together (`OneTrouble`). Four membership requests are two additions and two handlers that race.
Two calls of `enqueue` overlap or follow each other, and two crashes exceed
`maxStalledCount` for processing too. One HTTP caller makes any number of
requests, one after the other; with the worker, two stages overlap, before,
during and after the run. The initial branch is any of the trees without the third
path (`MCInit`), so that a push adds, changes, blanks or deletes a file, or adds
the one that goes beyond `MaxFiles` and may push another out.
Three requests for reviews are two reviews that overlap and a list read beside
them, or three reviews of which two wait for one; a file of three windows has one
between two others, the last of which is blank, and one of the claims leaves its window. The
file is the longer one at first (`MCInit`), and the rebuild keeps or replaces it. Two
completions race for one account of an organization, or for one installation from
two organizations; two installations of an account are one that was removed and
one made anew. The repository of the dashboard is not in the workspace that is
shown first, so that a reload must name it; a preparation and an operation bring
on a reload beside another load, two polls overlap, and two choices lead there
and back.
Runs with symmetry check no liveness. Deadlock is checked wherever the model
goes on for ever; `web_session`, `members`, `processing`, `reviews`,
`connections` and `dashboard` stop when their requests are used up.

### Fairness

`pr_liveness` assumes weak fairness of the steps that the process takes by
itself: GitHub sends each delivery once and `handleEvent` goes on (Node's event
loop runs it; a fault is a step too), BullMQ's worker takes waiting jobs and
executes them, BullMQ's stall check runs while the process is up. Nothing makes
users push, remove, disconnect or reconnect, GitHub redeliver, or the process
crash. Each liveness property names what excuses it: a failed database, a
crash, deliveries that overtook each other, a commit that became the head twice.

`processing` assumes the same of the second queue: a call of `enqueue` that has
created its run goes on, BullMQ serves waiting jobs and finds stalled ones, and
the worker goes on with the run it has. That a stage ends, one way or the other,
rests on Node's `fetch`, which gives up a request after some minutes without an
answer; the code sets no timeout of its own. Nobody has to enqueue, remove or
crash.

`dashboard` assumes that requests are answered, that React runs effects and the
browser fires the interval, and that runs end, which `ActiveRunsEnd` says of
them unless a fault came in. The fairness of `ServePoll` is strong: a poll may be
cancelled by a new effect, or refused, before it is answered, but not every one
for ever. Nobody has to click.

### Findings

- **A failed review cannot be retried** (`pr_requeue`). A redelivery resets the
  FAILED run to QUEUED and adds a job with the run's id, which BullMQ ignores
  since the failed job of that id is kept. The answer is "queued", and nothing
  executes the run.

Behaviour that the properties allow, each with its excuse in the property, and
that a reader should know:

**Reviews, sessions, members.** The last update of `processRun` is returned without
`await` inside `try`, so that it skips the catch block when it fails: the run stays
RUNNING and the check run shows a success though the job failed (`"database" \in
happened` in `RunsSettle` and `RunningHasJob`). A `queue.add` that throws although
Redis took the job leaves FAILED over a run that was executed, COMPLETED included;
a settled run changes, too, when its job is executed again after a stall, when
deliveries overtake each other, and when a restart comes together with the loss of
a finished job (`SettledIsFinal` names the four). A logout revokes on the condition
that the hash is the one it read and ignores the count: a refresh in between keeps
the session open behind "Logged out successfully" (`LogoutAloneEnds` speaks of a
logout alone); one that the API answers with a failure, or that never reaches it,
clears the cookies and leaves the session open. A refresh for a suspended user, or
one that the API answers with a 500, signs the browser out with "Session expired"
although the session is open (`SignedOutOnlyWhenOver` names both). The count of
other owners is not in a transaction with the write, so that two owners can
remove each other (`OwnersKeptUnlessOvertaken`). Of two overlapping requests that both refresh, the loser clears the browser's cookies although the
session lives on; after a lost answer the browser keeps a spent token and its
next refresh signs it out; the removal of one workspace's repository during a
delivery makes the handler fail for the workspaces after it; a commit whose run
was SKIPPED and that becomes the head again is not reviewed.

**Processing and index.** Two overlapping calls of `enqueue` give two active
runs; a crash between the row and its job leaves a QUEUED run that makes every
later `enqueue` answer that processing is already running, and so does a failed
last update, with a RUNNING run; a COMPLETED run whose job is executed again
after a crash may end FAILED. Of two overlapping ingestions the one that writes
last wins, though it may have read an older tree; the next run repairs it. A
branch with more than 250 source files is cut, and files of more than 100 KB or
with NUL bytes are dropped, without an error: the answer to an HTTP ingestion says
so (`limited`, `skipped`), the run is COMPLETED (`Indexed`).

**Code reviews.** Reviews that overlap are all stored, since the DELETE of one does
not see what the other has not committed (`StoredReviews` keeps every review that
no later one saw). The answer to a review may list findings of another one that
committed after it, or none of its own. A finding names lines of excerpts as they
were when they were read; the file may have changed since. If embedding fails
between two batches, the rest of a file has no embeddings and is not reviewed
(`NoPassageTorn` speaks of what was embedded). The panel may be opened while it
reviews: a list that was read before the review was stored, and arrives after its
answer, takes its place (`PanelShowsStoredReviews` allows what is shown to be old,
never mixed).

**Connections.** A setup state may be used again until it expires, with another
installation. A completion that was overtaken by another one of its account can
bring an older installation back (`overtaken` in `InstallationsForward`). Whoever
asked for the state may have lost the role before the connection is written, and
a repository may be imported through a connection that was disconnected
meanwhile.

**Dashboard.** A load, or a poll, that was read before a click had its effect and
is answered after it hides what the click started until the next load
(`doubtful`): a run that was queued is shown as the one before, and nothing polls
it. So does a reload that fails, and an operation that ends after the proxy gave it
up and the user was told that it failed. A reload takes the workspace that its
request was sent for: a poll or an operation begun in the workspace just left brings
the user back to it, even long after the chosen one was shown
(`ChosenWorkspaceStays` speaks of a page on which nothing of another workspace is
under way). The contents of a run that failed are not loaded.

## 4. Proofs

TLAPS proves these for every value of the constants. TLC checked each property
first, on the instances of section 3.

| Theorem | Property | Inductive invariant |
|---|---|---|
| `PullRequestReviewsProofs!TypeCorrect` | `TypeOK` | itself; `CheckCounted` is there because closing a check run subtracts one |
| `CompletedPublished` | `CompletedIsPublished` | `PublishedInv`: while the worker is past `PostReview` its run has a review, and past `CompleteCheck` the conclusion; a settled row keeps both, because a second execution first makes the row RUNNING |
| `RunningHasItsJob` | `RunningHasJob` | `JobInv`: the busy worker holds the active job it took, and `processRun` does not end while its run is RUNNING |
| `ChecksAreClosed` | `ChecksClosed` | `CheckInv`: the catch block knows the id of every check run in progress |
| `OneReviewEach` | `OneReviewPerExecution` | `ReviewsCounted`: a job Redis does not know has posted nothing, one that waits or has not posted in this execution has posted at most once in each that stalled |
| `ReviewsNotOlder` | `ReviewIsNotOlder` | `SourcesInv`: every job is of a commit that was pushed, so what the worker reads at the head is that commit or a later one |
| `AnswersCover` | `AnswerCoversEveryRepository` | `CoverInv`: the repositories that have no run for the commit yet are still in the handler's `todo`, or the one it works on; other handlers only add runs |
| `HeadIsReviewed` | `HeadNotSkipped` | `InOrder` (without overtaking one delivery is handled at a time, the last one sent), `SentInv`, `RecordedInv` (the recorded head is that of the delivery at work) and `CurrentInv` (no run of the head is skipped, nor about to be) |
| `SettledRunsAreFinal` | `SettledIsFinal` | `RowsInv`, `StallsInv`, `FailedInv` (what was answered with an error was sent) and, for a run to which none of the excuses applies (`Quiet`), `ExecutedInv` (a run whose job waits is QUEUED, the one executed RUNNING) and `SavedInv` (what a handler is about to save is as it has read it, and no worker touches it) |
| `AuthSessionsProofs!AuthTypeCorrect` | `AuthTypeOK` | itself |
| `SpentOnce`, `SpentRefused` | `TokenSpentOnce`, `SpentTokenRefused`, which no run checks by themselves: the refinement implies them | `SessionInv`: a row holds the secret of the last call that was answered with it (`RowsInv`), calls present tokens that were handed out (`PresentedInv`), a token that was spent is not behind its row (`SpentInv`) |
| `Implementation` | `ImplementsSessionTokens` | `SessionInv`; each handler step is an `Open`, `Exchange`, `End` or a stutter |
| `WebImplementsAuth`, `WebKeepsPromise` | `AuthSpec`, `ImplementsSessionTokens`, of `WebSpec` | `WebInv`: what a request presents was handed out, so each step of the composition is one of the API or a stutter |
| `WebTypeCorrect`, `JarIsNotStranded` | `WebTypeOK`, `JarNotStranded` | `WebInv`: a token that the browser has or presents came in a response that arrived, and the token of one that has not arrived is behind its row (`DeliveredInv`); the token behind the row of the jar is the jar's, under way or lost (`JarInv`) |
| `SignedOutWhenOver`, `LogoutsAloneEnd` | `SignedOutOnlyWhenOver`, `LogoutAloneEnds` | `WebInv`: an undisturbed request is alone (`AloneInv`), presents the token behind its row (`MatchInv`) and is refused only when the session is over or its user was suspended (`OverInv`); after an undisturbed logout nothing under way carries its session (`EndedInv`) |
| `OrganizationMembersProofs!TypeCorrect` | `TypeOK` | itself, split into types and one row per user |
| `OwnersKept` | `OwnersKeptUnlessOvertaken` | `OwnerInv`: a handler that was not overtaken has read what still holds when it writes |
| `OwnersSpared` | `AdminsSpareOwners` | `ReadAsAllowed`: what a handler that was not overtaken is about to change is no owner's row, or an owner asked |
| `RepositoryProcessingProofs!ProcessingTypeCorrect` | `ProcessingTypeOK` | with `AddedOnce`: a request that has not added its job has none; otherwise adding it could take the active job from the worker |
| `ActiveRunsHaveJobs` | `ActiveRunHasJob` | `ActiveInv`: only the execution of its job makes a run RUNNING, the job does not end before the run unless it stalled too often, and `processRun` does not end while its run is active |
| `RunsAreSerial` | `OneActiveRun` | `SerialInv`: undisturbed, only the worker's job executes and no job that waits has been executed, so no run that ended becomes active again; one handler at most is about to create a run, and only while none is active |
| `RepositoryIndexProofs!IndexImplementsProcessing` | `ProcessingSpec` | none: each step of the composition is a step of the processing job or a stutter |
| `IndexTypeCorrect`, `EmbeddingsOfTheirChunks` | `IndexTypeOK`, `EmbeddingOfItsChunk` | `IndexInv`: the rows that a stage has read and not lost are there still, those of chunks unchanged (`RowsRead`) |
| `CompletedRunsAreIndexed`, `RightEmbeddingsKept` | `CompletedIsIndexed`, `EmbeddingsKept` | `CalmInv`: while a run is calm no request is at work; what the ingestion has written is `Read(branch)`, what the worker's stage has read is what is there, what it has not still to do is done (`StageAtWork`), and so are the stages before it (`StagesDone`) |
| `RepositoryReviewProofs!ReviewTypeCorrect`, `NoTear` | `ReviewTypeOK`, `NoPassageTorn` | `RInv`: the embedded chunks of a file are the first ones of `CreateChunks` of its contents (`ChunksOfContents`); the lemma `WindowOfPassage` finds the window of a passage |
| `ReviewsAreReplaced` | `ReviewsReplaced` | `RInv`: a transaction deletes all stored rows of the runs that it saw, and no others (`Transaction`) |
| `FindingsLocated` | `FindingsInExcerpts` | `RInv`: what a request has found lies in its sources, from the first answer of Ollama on (`AllLocated`) |
| `PanelShowsTheStored` | `PanelShowsStoredReviews` | `PanelInv`: what is stored was stored together, and so is every answer and what is shown (`Together`); the answer to a review has its findings or those of one that replaced it (`AnswerTo`), and what replaced another stays so |
| `ProviderConnectionsProofs!ConnectionsTypeCorrect`, `RequesterConnected`, `ImportsKeepTheirAccount`, `NoOlderInstallation` | `ConnectionsTypeOK`, `ConnectedByRequester`, `ImportedThroughItsConnection`, `InstallationsForward` | `CInv`: the installation of a connection is of its account and was made (`Sound`), installations of an account come in order (`InOrder`), a completion was issued its state and, unless overtaken, found no newer installation (`Knows`), an import reads a connection of its organization (`Through`) |
| `DashboardProofs!DashboardTypeCorrect`, `ChosenStaysShown` | `DashboardTypeOK`, `ChosenWorkspaceStays` | itself; with it every step keeps `Undisturbed` or is a new choice (`Stays`): a reload takes its workspace from a poll or an operation, and a new effect from what is shown |

The composition theorems carry results over: those of `AuthSessions` to the
browser (`WebKeepsPromise`), and those of `RepositoryProcessing` to the index
(`IndexRunsHaveJobs` is one line, and `IndexTypeCorrect` uses the type of the worker
from there).

Assumptions: `ConstantsAssumption` (bounds are naturals, at least one job is
retained, the null values are none of the others), `FoundingAssumption` (the
first user is one, the first row is made by no request), `FaultsAssumption` (the
bound is a natural, `NoToken` is no token), `ProcessingAssumption` and
`IndexAssumption` (bounds are naturals, the blank content is a content and the
null values are none of the others), `ExcerptAssumption` (a file has at least
one line, as `split` gives one, and windows overlap in at most half of their
lines, as 15 of 80 do), `ReviewAssumption`, `ConnectionAssumption` and
`DashboardAssumption` (bounds are naturals, the tables of the instance are
functions, the null values are none of the others). TLC evaluates all of them.

What "undisturbed" means in these theorems is written by the model: `stale`,
`happened`, `calm` and `disturbed` are histories that the actions write and never
read. The theorems hold of all behaviours, those that were disturbed included;
they promise less of them, as the code does.

Only model-checked: liveness (`RunsSettle`, `HeadSettles`, `ActiveRunsEnd`,
`DashboardCatchesUp`), which TLAPS cannot prove under fairness. Every other
property of a passing run is a theorem. That a `violation` run finds
`QueuedRunsWait` violated is TLC's to show.

## 5. Plan

Done: all modules of section 2, with the proofs above. What is left, in this order:

1. `RepositoryReview` over `RepositoryIndex` in one module, with a mapping from
   the embeddings of the one to the chunks of the other.
2. `parseAddedLines` of `github-app.service.ts` and the matching of findings with
   added lines, as operators against a reference definition, in a module like
   `SourceExcerpts`.
3. The second polling effect of the dashboard.

## 6. Not modelled, and why

`findLatest`, `findAll`, `findOne`, `searchChunks`, `answerQuestion`,
`discoverRepositories`, health and users only read. The requests to Ollama keep
no state; their answers and failures are inputs of the modules that ask.
`register` inserts one row, and the unique index on the e-mail address decides
which of two wins. The access token is a signed JWT that nothing revokes; its
bytes, those of the setup state and of webhook signatures are not modelled. The
limits on the files and lines of a pull request's patches only make its sources
smaller, and a truncated tree makes a stage fail, which it may do anyway. The web
proxy routes keep no state, and a request that fails or whose answer is lost is
part of the modules they serve. The dashboard's polling of pull request reviews is
its modelled effect without a reload. Scripts, Docker and server set-up have no
protocol. Roles checked before a pure insert (`organizations`, `workspaces`)
leave nothing to interleave but a unique index.
