-------------------------- MODULE RepositoryReview --------------------------
(***************************************************************************)
(* Code reviews of one repository on request (RepositoriesService.review-  *)
(* Repository and findReviews, OllamaGenerationService.reviewCode) and one *)
(* CodeReviewPanel that shows them, while other users ask for reviews too. *)
(*                                                                         *)
(* A review replaces the stored reviews in one transaction at the          *)
(* isolation level of PostgreSQL, read committed: the DELETE finds the     *)
(* rows that were committed when it began, and waits for a transaction     *)
(* that is deleting one of them.  A RepositoryCodeReviewRun has a random   *)
(* id: it, and the rows stored with it, bear the name of their call.       *)
(***************************************************************************)
EXTENDS SourceExcerpts, FiniteSets

CONSTANTS
  Calls,          \* requests for reviews: POST /review and GET /reviews
  Claims,         \* what Ollama may report: a path and a range of lines
  Limit,          \* the limit of a request, 4 in the panel
  MaxRebuilds,    \* bound: number of rebuilds of the index
  NoCall

ASSUME ReviewAssumption ==
  /\ Claims \subseteq Excerpt /\ Limit \in Nat \ {0}
  /\ MaxRebuilds \in Nat /\ NoCall \notin Calls

VARIABLES
  content,        \* content[p]: what was chunked last
  chunks,         \* the RepositoryChunk rows that have an embedding
  rebuilds,       \* number of rebuilds so far
  reviews,        \* the RepositoryCodeReview rows
  runs,           \* the calls that stored a RepositoryCodeReviewRun
  call,           \* call[q]: the request and its handler
  panel           \* the state of the CodeReviewPanel

index == <<content, chunks, rebuilds>>
stored == <<reviews, runs>>
vars == <<index, stored, call, panel>>

Review == [call : Calls, path : Paths, startLine : Nat, endLine : Nat]

IdleCall == [kind |-> "none", at |-> "idle", heard |-> FALSE, sources |-> << >>,
             found |-> {}, seen |-> {}, doomed |-> {}, behind |-> {}, view |-> {}]

Init ==
  /\ content \in [Paths -> Contents]
  /\ chunks = {} /\ rebuilds = 0
  /\ reviews = {} /\ runs = {}
  /\ call = [q \in Calls |-> IdleCall]
  /\ panel = [expanded |-> FALSE, loaded |-> FALSE, loading |-> FALSE,
              reviewing |-> FALSE, reviews |-> {}, from |-> NoCall]

Underway(q) == call[q].at \notin {"idle", "answered", "failed"}
Replacing == {q \in Calls : call[q].at = "replacing"}
\* The rows that q stores.
Rows(q) ==
  {[call |-> q, path |-> f.path, startLine |-> f.startLine,
    endLine |-> f.endLine] : f \in call[q].found}

Update(q, r) == call' = [call EXCEPT ![q] = r]
\* The handler of q goes on.
Goes(q, r) == Update(q, r) /\ UNCHANGED <<index, stored, panel>>

\* Ingestion and chunking, as RepositoryIndex has them: a file has other
\* contents, and its chunks are replaced by some that have no embedding.
Rebuild(p, c) ==
  /\ rebuilds < MaxRebuilds
  /\ rebuilds' = rebuilds + 1
  /\ content' = [content EXCEPT ![p] = c]
  /\ chunks' = {chunk \in chunks : chunk.path # p}
  /\ UNCHANGED <<stored, call, panel>>

\* The chunks of the files, with an embedding or not.
Chunked == UNION {CreateChunks(p, content[p]) : p \in Paths}

\* embedChunks goes through the chunks that have no embedding, those of a file
\* in their order, some at a time: ten in the code, any number here.  If it
\* fails, the batches before keep their embeddings.
Embed ==
  /\ \E batch \in SUBSET (Chunked \ chunks) :
       /\ batch # {}
       /\ \A c \in batch, d \in Chunked :
            d.path = c.path /\ d.startLine <= c.startLine => d \in chunks \cup batch
       /\ chunks' = chunks \cup batch
  /\ UNCHANGED <<content, rebuilds, stored, call, panel>>

-----------------------------------------------------------------------------
(* What the users do.                                                      *)

Asked(kind, heard) ==
  [IdleCall EXCEPT !.kind = kind, !.at = "asked", !.heard = heard]

OthersReview(q) ==
  /\ call[q].at = "idle"
  /\ Goes(q, Asked("review", FALSE))

\* The button is disabled while the panel loads or reviews.
RunReview(q) ==
  /\ call[q].at = "idle" /\ ~panel.reviewing /\ ~panel.loading
  /\ Update(q, Asked("review", TRUE))
  /\ panel' = [panel EXCEPT !.reviewing = TRUE]
  /\ UNCHANGED <<index, stored>>

\* togglePanel: opening the panel loads the reviews unless they were loaded,
\* even while a review is under way: a list that is read before the review is
\* stored and arrives after its answer takes the review's place in the panel.
OpenPanel(q) ==
  /\ call[q].at = "idle" /\ ~panel.expanded /\ ~panel.loaded
  /\ Update(q, Asked("load", TRUE))
  /\ panel' = [panel EXCEPT !.expanded = TRUE, !.loading = TRUE]
  /\ UNCHANGED <<index, stored>>
TogglePanel ==
  /\ panel.expanded \/ panel.loaded
  /\ panel' = [panel EXCEPT !.expanded = ~panel.expanded]
  /\ UNCHANGED <<index, stored, call>>

-----------------------------------------------------------------------------
(* The handlers.                                                           *)

\* findReviews.  (The latest run, read at the same time, is for the summary.)
FindReviews(q) ==
  /\ call[q].at = "asked" /\ call[q].kind = "load"
  /\ Goes(q, [call[q] EXCEPT !.at = "answered", !.view = reviews])

\* reviewRepository takes up to Limit chunks that have an embedding, in the
\* order of a priority that depends on their paths and contents.
ReadSources(q) ==
  /\ call[q].at = "asked" /\ call[q].kind = "review"
  /\ IF chunks = {}
     THEN Goes(q, [call[q] EXCEPT !.at = "failed"])
     ELSE \E n \in 1..Limit : \E s \in [1..n -> chunks] :
            /\ \A i, j \in 1..n : i # j => s[i] # s[j]
            /\ n = Limit \/ chunks = {s[i] : i \in 1..n}
            /\ Goes(q, [call[q] EXCEPT !.at = "reviewing", !.sources = s])

\* Ollama answers with any claims; without a claim that can be located there
\* is nothing to verify.
Generate(q) ==
  /\ call[q].at = "reviewing"
  /\ \E C \in SUBSET {c \in Claims : Located(c, call[q].sources)} :
       Goes(q, [call[q] EXCEPT !.at = IF C = {} THEN "storing" ELSE "verifying",
                               !.found = C])

\* verifyReviewCandidates keeps those that Ollama accepts when asked again.
Verify(q) ==
  /\ call[q].at = "verifying"
  /\ \E C \in SUBSET call[q].found :
       Goes(q, [call[q] EXCEPT !.at = "storing", !.found = C])

\* The DELETE of the transaction begins.
BeginReplacing(q) ==
  /\ call[q].at = "storing"
  /\ Goes(q, [call[q] EXCEPT !.at = "replacing", !.seen = runs,
                             !.doomed = reviews, !.behind = Replacing])

\* Mutation: the stored reviews are not deleted.
KeepStoredReviews(q) ==
  /\ call[q].at = "replacing"
  /\ reviews' = reviews \cup Rows(q)
  /\ runs' = runs \cup {q}
  /\ Update(q, [call[q] EXCEPT !.at = "stored", !.doomed = {}, !.behind = {}])
  /\ UNCHANGED <<index, panel>>

\* The transaction commits, having waited for those that were deleting one of
\* its rows when it began.
CommitReviews(q) ==
  /\ call[q].at = "replacing"
  /\ \A p \in call[q].behind \cap Replacing :
       call[p].doomed \cap call[q].doomed = {}
  /\ reviews' = (reviews \ call[q].doomed) \cup Rows(q)
  /\ runs' = runs \cup {q}
  /\ Update(q, [call[q] EXCEPT !.at = "stored", !.doomed = {}, !.behind = {}])
  /\ UNCHANGED <<index, panel>>

\* Mutation: the transaction is not awaited.
ReadBackUnawaited(q) ==
  /\ call[q].at \in {"replacing", "stored"}
  /\ Goes(q, [call[q] EXCEPT !.at = "answered", !.view = reviews,
                             !.doomed = {}, !.behind = {}])

\* The answer lists the reviews that are stored now.
ReadBack(q) ==
  /\ call[q].at = "stored"
  /\ Goes(q, [call[q] EXCEPT !.at = "answered", !.view = reviews])

\* A query or a request to Ollama fails, the process dies, or the repository
\* is not found: an open transaction is rolled back, and what was found is lost.
Fail(q) ==
  /\ Underway(q)
  /\ Goes(q, [(IF q \in runs THEN call[q] ELSE Asked(call[q].kind, call[q].heard))
                EXCEPT !.at = "failed"])

-----------------------------------------------------------------------------
(* The panel hears of its requests.                                        *)

\* What loadReviews and runReview do in the end, whatever was answered.
Finished(q) ==
  IF call[q].kind = "load" THEN [panel EXCEPT !.loading = FALSE]
                           ELSE [panel EXCEPT !.reviewing = FALSE]

Receive(q) ==
  /\ call[q].heard /\ call[q].at = "answered"
  /\ Update(q, [call[q] EXCEPT !.heard = FALSE, !.view = {}])
  /\ panel' = [Finished(q) EXCEPT
                 !.reviews = call[q].view, !.from = q, !.loaded = TRUE,
                 !.expanded = @ \/ call[q].kind = "review"]
  /\ UNCHANGED <<index, stored>>

\* An error is answered, or none of the answer arrives while the handler goes
\* on (the proxy's request to the API times out).
GiveUp(q) ==
  /\ call[q].heard /\ call[q].at # "answered"
  /\ Update(q, [call[q] EXCEPT !.heard = FALSE])
  /\ panel' = Finished(q)
  /\ UNCHANGED <<index, stored>>

Next ==
  \/ Embed \/ TogglePanel
  \/ \E p \in Paths, c \in Contents : Rebuild(p, c)
  \/ \E q \in Calls :
       \/ OthersReview(q) \/ RunReview(q) \/ OpenPanel(q)
       \/ FindReviews(q) \/ ReadSources(q) \/ Generate(q) \/ Verify(q)
       \/ BeginReplacing(q) \/ CommitReviews(q) \/ ReadBack(q) \/ Fail(q)
       \/ Receive(q) \/ GiveUp(q)

Spec == Init /\ [][Next]_vars

-----------------------------------------------------------------------------
RequestState ==
  [kind : {"none", "load", "review"},
   at : {"idle", "asked", "reviewing", "verifying", "storing", "replacing",
         "stored", "answered", "failed"},
   heard : BOOLEAN, sources : Seq(Excerpt), found : SUBSET Claims,
   seen : SUBSET Calls, doomed : SUBSET Review, behind : SUBSET Calls,
   view : SUBSET Review]

PanelState ==
  [expanded : BOOLEAN, loaded : BOOLEAN, loading : BOOLEAN,
   reviewing : BOOLEAN, reviews : SUBSET Review, from : Calls \cup {NoCall}]

\* Every variable has its type, and a chunk is a range of lines of its file.
ReviewTypeOK ==
  /\ content \in [Paths -> Contents]
  /\ chunks \subseteq Excerpt /\ rebuilds \in 0..MaxRebuilds
  /\ \A c \in chunks : /\ 1 <= c.startLine /\ c.startLine <= c.endLine
                       /\ c.endLine <= content[c.path].lines
  /\ reviews \subseteq Review /\ runs \subseteq Calls
  /\ call \in [Calls -> RequestState] /\ panel \in PanelState

\* What is stored are the findings of the reviews that no later one replaced:
\* none whose transaction began after theirs had committed.  Reviews that
\* overlapped are all stored.
StoredReviews ==
  UNION {Rows(q) : q \in {p \in runs : \A r \in runs : p \notin call[r].seen}}

\* Reviews replace each other as a whole, and an answer lists nothing that
\* the review it answers has replaced, although it is read after the
\* transaction and another review may have committed in between.
ReviewsReplaced ==
  /\ reviews = StoredReviews
  /\ \A q \in Calls : call[q].kind = "review" =>
       \A row \in call[q].view : row.call \notin call[q].seen

\* "Every finding must use an exact supplied file path and a line range inside
\* that source" (ollama-generation.service.ts:172): whatever Ollama reports, a
\* stored finding lies within one of the excerpts that were reviewed.
FindingsInExcerpts ==
  \A row \in reviews : \E i \in DOMAIN call[row.call].sources :
    LET s == call[row.call].sources[i] IN
    row.path = s.path /\ Within(row.startLine, s) /\ Within(row.endLine, s)

\* No passage is torn by the chunks of a file: up to Overlap + 1 lines that
\* follow each other, one of them not blank, lie in one chunk that has an
\* embedding, as far as the file has been embedded: if embedding stopped
\* between two batches of its chunks, up to the last line that it reached.
NoPassageTorn ==
  \A p \in Paths : \A i \in content[p].text : \A from \in (i - Overlap)..i :
    LET to == from + Overlap IN
    1 <= from /\ (\E c \in chunks : c.path = p /\ to <= c.endLine) =>
      \E c \in chunks : c.path = p /\ Within(from, c) /\ Within(to, c)

\* The panel shows reviews that were stored together, never one beside a review
\* that replaced it.  If it shows what was answered to its own review, those are
\* all the findings of this review, unless another review has replaced it
\* already.  (A list that was read earlier and arrives later may take their
\* place in turn: the panel does not compare the order of its answers.)
PanelShowsStoredReviews ==
  /\ \A row, other \in panel.reviews : row.call \notin call[other.call].seen
  /\ \A q \in Calls : panel.from = q /\ call[q].kind = "review" =>
       /\ \A row \in panel.reviews : row.call \notin call[q].seen
       /\ Rows(q) \subseteq panel.reviews \/ \E r \in runs : q \in call[r].seen
=============================================================================
