----------------------- MODULE RepositoryReviewProofs -----------------------
(***************************************************************************)
(* For any size of the chunks, any files, findings and number of calls:    *)
(* chunks are ranges of lines of their file and tear no short passage as   *)
(* far as the file is embedded, findings lie in the excerpts that were     *)
(* reviewed, reviews replace each other as a whole, however their          *)
(* transactions overlap, and the panel shows reviews stored together.      *)
(***************************************************************************)
EXTENDS RepositoryReview, TLAPS

-----------------------------------------------------------------------------
(* The windows of createChunks                                             *)

\* The multiple of s at or before n.
LEMMA Division ==
  ASSUME NEW n \in Nat, NEW s \in Nat \ {0}
  PROVE  \E k \in 0..n : k * s <= n /\ n < k * s + s
<1>1. n \div s \in 0..n /\ (n \div s) * s <= n /\ n < (n \div s) * s + s
  OBVIOUS
<1> QED
  BY <1>1

LEMMA StepFact ==
  /\ Step \in Nat \ {0} /\ Overlap \in Nat /\ ChunkSize = Step + Overlap
  /\ Overlap <= Step
  BY ExcerptAssumption DEF Step

\* The window after the k-th starts one step later.
LEMMA NextMultiple ==
  ASSUME NEW k \in Int
  PROVE  k * Step \in Int /\ (k - 1) * Step = k * Step - Step
<1>1. Step \in Int
  BY StepFact
<1> QED
  BY <1>1

Window(p, c, k) ==
  [path |-> p, startLine |-> k * Step + 1,
   endLine |-> IF k * Step + ChunkSize < c.lines
               THEN k * Step + ChunkSize ELSE c.lines]

Starts(c) ==
  {j \in 0..c.lines : j = 0 \/ (j - 1) * Step + ChunkSize < c.lines}

LEMMA WindowsFact ==
  ASSUME NEW p, NEW c
  PROVE  Windows(p, c) = {Window(p, c, k) : k \in Starts(c)}
  BY DEF Windows, Window, Starts

LEMMA WindowTyped ==
  ASSUME NEW p \in Paths, NEW c \in Contents, NEW k \in Starts(c)
  PROVE  LET w == Window(p, c, k) IN
         /\ w \in Excerpt /\ w.path = p
         /\ 1 <= w.startLine /\ w.startLine <= w.endLine /\ w.endLine <= c.lines
<1>1. c.lines \in Nat \ {0} /\ k \in Nat
  BY ExcerptAssumption DEF Starts
<1>2. k * Step \in Nat
  BY <1>1, StepFact
<1>3. k * Step < c.lines
  <2>1. CASE k = 0
    BY <2>1, <1>1, StepFact
  <2>2. CASE k # 0
    BY <2>2, <1>1, <1>2, NextMultiple, StepFact DEF Starts
  <2> QED
    BY <2>1, <2>2
<1> DEFINE s == k * Step
<1>4. s \in Nat /\ s < c.lines
  BY <1>2, <1>3
<1> HIDE DEF s
<1>5. LET w == [path |-> p, startLine |-> s + 1,
                endLine |-> IF s + ChunkSize < c.lines THEN s + ChunkSize ELSE c.lines]
      IN /\ w \in Excerpt /\ w.path = p
         /\ 1 <= w.startLine /\ w.startLine <= w.endLine /\ w.endLine <= c.lines
  BY <1>1, <1>4, ExcerptAssumption DEF Excerpt
<1> QED
  BY <1>5 DEF Window, s

\* Lines that follow each other, one more than windows overlap, lie in one
\* window: in the last one that starts before them, or in the one before it if
\* that has reached the end of the file already.
LEMMA WindowOfPassage ==
  ASSUME NEW p \in Paths, NEW c \in Contents, NEW from \in Nat \ {0},
         from + Overlap <= c.lines
  PROVE  \E w \in Windows(p, c) : Within(from, w) /\ Within(from + Overlap, w)
<1>1. c.lines \in Nat \ {0}
  BY ExcerptAssumption
<1> DEFINE before == from - 1
<1>a. before \in Nat /\ Step \in Nat \ {0}
  BY StepFact
<1> HIDE DEF before
<1>b. PICK k \in 0..before : k * Step <= before /\ before < k * Step + Step
  BY <1>a, Division
<1> USE DEF before
<1>2. k \in 0..(from - 1) /\ k * Step <= from - 1 /\ from - 1 < k * Step + Step
  BY <1>b
<1>3. k \in Nat /\ k * Step \in Int /\ (k - 1) * Step = k * Step - Step
  BY <1>2, NextMultiple
<1>4. CASE k \in Starts(c)
  <2>1. /\ Window(p, c, k).startLine = k * Step + 1
        /\ Window(p, c, k).endLine = IF k * Step + ChunkSize < c.lines
                                     THEN k * Step + ChunkSize ELSE c.lines
    BY DEF Window
  <2>2. Within(from, Window(p, c, k)) /\ Within(from + Overlap, Window(p, c, k))
    BY <1>1, <1>2, <1>3, <2>1, StepFact DEF Within
  <2> QED
    BY <1>4, <2>2, WindowsFact
<1>5. CASE k \notin Starts(c)
  <2>1. k # 0 /\ c.lines <= k * Step - Step + ChunkSize
    BY <1>1, <1>2, <1>3, <1>5, StepFact DEF Starts
  <2>2. k - 1 \in Int /\ (k - 2) * Step = (k - 1) * Step - Step
    BY <1>3, NextMultiple
  <2>3. k - 1 \in Starts(c)
    BY <1>1, <1>2, <1>3, <2>1, <2>2, StepFact DEF Starts
  <2>4. /\ Window(p, c, k - 1).startLine = (k - 1) * Step + 1
        /\ Window(p, c, k - 1).endLine = c.lines
    BY <1>1, <1>3, <2>1, StepFact DEF Window
  <2>5. /\ Within(from, Window(p, c, k - 1))
        /\ Within(from + Overlap, Window(p, c, k - 1))
    BY <1>1, <1>2, <1>3, <2>4, StepFact DEF Within
  <2> QED
    BY <2>3, <2>5, WindowsFact
<1> QED
  BY <1>4, <1>5

-----------------------------------------------------------------------------
(* The inductive invariant                                                 *)

Typed ==
  /\ content \in [Paths -> Contents] /\ chunks \subseteq Excerpt
  /\ rebuilds \in 0..MaxRebuilds
  /\ reviews \subseteq Review /\ runs \subseteq Calls
  /\ call \in [Calls -> RequestState]

ChunksOf(p) == {c \in chunks : c.path = p}

\* The chunks that have an embedding are the first ones of their file's contents.
ChunksOfContents ==
  \A p \in Paths :
    /\ ChunksOf(p) \subseteq CreateChunks(p, content[p])
    /\ \A e \in ChunksOf(p), d \in CreateChunks(p, content[p]) :
         d.startLine <= e.startLine => d \in chunks

\* The transaction of a call that is replacing reviews deletes those that are
\* stored of the runs that it saw.
Transaction(q, r) ==
  /\ r.seen \subseteq runs
  /\ q \in runs => r.at \in {"stored", "answered", "failed"}
  /\ r.at = "stored" => q \in runs
  /\ r.at # "answered" => r.view = {}
  /\ r.kind = "review" => \A row \in r.view : row.call \notin r.seen
  /\ r.at = "replacing" =>
       /\ \A row \in r.doomed : row.call \in r.seen
       /\ \A row \in reviews : row.call \in r.seen => row \in r.doomed

\* The findings of a request lie in its sources, once it has any.
AllLocated(r) ==
  /\ r.at \in {"idle", "asked"} => r.found = {}
  /\ \A f \in r.found : Located(f, r.sources)

RInv ==
  /\ Typed /\ ChunksOfContents
  /\ \A q \in Calls : Transaction(q, call[q]) /\ AllLocated(call[q])
  /\ reviews = StoredReviews

USE DEF Update

\* A handler changes the state of its own request only.
LEMMA OwnRequest ==
  ASSUME call \in [Calls -> RequestState], NEW q \in Calls,
         NEW r \in RequestState, Update(q, r)
  PROVE  /\ call' \in [Calls -> RequestState] /\ call'[q] = r
         /\ \A p \in Calls \ {q} : call'[p] = call[p]
  OBVIOUS

LEMMA IndexStep ==
  ASSUME RInv, Typed', ChunksOfContents', UNCHANGED <<stored, call>>
  PROVE  RInv'
<1>1. StoredReviews' = StoredReviews
  BY DEF StoredReviews, Rows, stored
<1>2. \A q \in Calls : Transaction(q, call[q])' /\ AllLocated(call[q])'
  BY DEF RInv, Transaction, AllLocated, stored
<1> QED
  BY <1>1, <1>2 DEF RInv, stored

\* A step of a request that stores nothing, and leaves alone what was stored of it.
LEMMA RequestStep ==
  ASSUME RInv, UNCHANGED <<index, stored>>, NEW q \in Calls,
         NEW r \in RequestState, Update(q, r), Transaction(q, r), AllLocated(r),
         q \in runs => r.seen = call[q].seen /\ r.found = call[q].found
  PROVE  RInv'
<1>1. /\ call' \in [Calls -> RequestState] /\ call'[q] = r
      /\ \A p \in Calls \ {q} : call'[p] = call[p]
  BY OwnRequest DEF RInv, Typed
<1>2. Typed' /\ ChunksOfContents'
  BY <1>1 DEF RInv, Typed, ChunksOfContents, ChunksOf, index, stored
<1>3. ASSUME NEW p \in Calls
      PROVE  Transaction(p, call[p])' /\ AllLocated(call[p])'
  <2>1. CASE p = q
    BY <1>1, <2>1 DEF Transaction, AllLocated, stored
  <2>2. CASE p # q
    BY <1>1, <2>2 DEF RInv, Transaction, AllLocated, stored
  <2> QED
    BY <2>1, <2>2
<1>4. \A p \in runs : call'[p].seen = call[p].seen /\ call'[p].found = call[p].found
  BY <1>1 DEF RInv, Typed
<1>5. StoredReviews' = StoredReviews
  BY <1>4 DEF StoredReviews, Rows, stored
<1> QED
  BY <1>2, <1>3, <1>5 DEF RInv, stored

-----------------------------------------------------------------------------
(* Every step preserves the invariant                                      *)

LEMMA InitHolds == Init => RInv
<1> SUFFICES ASSUME Init PROVE RInv
  OBVIOUS
<1>1. IdleCall \in RequestState
  BY DEF IdleCall, RequestState
<1>2. Typed /\ ChunksOfContents
  BY <1>1, ReviewAssumption DEF Init, Typed, ChunksOfContents, ChunksOf
<1>3. \A q \in Calls : Transaction(q, call[q]) /\ AllLocated(call[q])
  BY DEF Init, IdleCall, Transaction, AllLocated
<1>4. reviews = StoredReviews
  BY DEF Init, StoredReviews
<1> QED
  BY <1>2, <1>3, <1>4 DEF RInv

LEMMA ChunkedTyped ==
  ASSUME NEW p \in Paths, NEW c \in Contents, NEW w \in CreateChunks(p, c)
  PROVE  /\ w \in Excerpt /\ w.path = p
         /\ 1 <= w.startLine /\ w.startLine <= w.endLine /\ w.endLine <= c.lines
<1>1. PICK k \in Starts(c) : w = Window(p, c, k)
  BY WindowsFact DEF CreateChunks
<1> QED
  BY <1>1, WindowTyped

LEMMA RebuildKeeps ==
  ASSUME RInv, NEW p \in Paths, NEW c \in Contents, Rebuild(p, c)
  PROVE  RInv'
<1>1. Typed'
  BY ReviewAssumption DEF RInv, Typed, Rebuild, stored
<1>2. ChunksOfContents'
  <2> SUFFICES ASSUME NEW o \in Paths
               PROVE  /\ ChunksOf(o)' \subseteq CreateChunks(o, content'[o])
                      /\ \A e \in ChunksOf(o)', d \in CreateChunks(o, content'[o]) :
                           d.startLine <= e.startLine => d \in chunks'
    BY DEF ChunksOfContents, CreateChunks, Windows, Step, Within
  <2>1. CASE o = p
    <3>1. ChunksOf(o)' = {}
      BY <2>1 DEF Rebuild, ChunksOf
    <3> QED
      BY <3>1
  <2>2. CASE o # p
    <3>1. ChunksOf(o)' = ChunksOf(o) /\ content'[o] = content[o]
      BY <2>2 DEF RInv, Typed, Rebuild, ChunksOf
    <3>2. \A d \in CreateChunks(o, content[o]) : d.path = o /\ (d \in chunks => d \in chunks')
      BY <2>2, ChunkedTyped DEF RInv, Typed, Rebuild
    <3> QED
      BY <3>1, <3>2 DEF RInv, ChunksOfContents
  <2> QED
    BY <2>1, <2>2
<1> QED
  BY <1>1, <1>2, IndexStep DEF Rebuild, stored

LEMMA EmbedKeeps ==
  ASSUME RInv, Embed
  PROVE  RInv'
<1>1. \A p \in Paths : \A w \in CreateChunks(p, content[p]) : w \in Excerpt /\ w.path = p
  BY ChunkedTyped DEF RInv, Typed
<1>2. PICK batch \in SUBSET (Chunked \ chunks) :
        /\ \A c \in batch, d \in Chunked :
             d.path = c.path /\ d.startLine <= c.startLine => d \in chunks \cup batch
        /\ chunks' = chunks \cup batch
  BY DEF Embed
<1>3. Typed'
  BY <1>1, <1>2 DEF RInv, Typed, Embed, Chunked, stored
<1>4. ChunksOfContents'
  <2> SUFFICES ASSUME NEW p \in Paths
               PROVE  /\ ChunksOf(p)' \subseteq CreateChunks(p, content[p])
                      /\ \A c \in ChunksOf(p)', d \in CreateChunks(p, content[p]) :
                           d.startLine <= c.startLine => d \in chunks'
    BY DEF ChunksOfContents, Embed
  <2>1. ChunksOf(p) \subseteq CreateChunks(p, content[p])
    BY DEF RInv, ChunksOfContents
  <2>2. \A c \in batch : c.path = p => c \in CreateChunks(p, content[p])
    BY <1>1 DEF Chunked
  <2>3. ASSUME NEW c \in ChunksOf(p)', NEW d \in CreateChunks(p, content[p]),
               d.startLine <= c.startLine
        PROVE  d \in chunks'
    <3>1. d \in Chunked /\ d.path = p /\ c.path = p
      BY <1>1 DEF Chunked, ChunksOf
    <3>2. CASE c \in chunks
      BY <1>2, <2>3, <3>1, <3>2 DEF RInv, ChunksOfContents, ChunksOf
    <3>3. CASE c \in batch
      BY <1>2, <2>3, <3>1, <3>3
    <3> QED
      BY <1>2, <3>2, <3>3 DEF ChunksOf
  <2> QED
    BY <1>2, <2>1, <2>2, <2>3 DEF ChunksOf
<1> QED
  BY <1>3, <1>4, IndexStep DEF Embed, stored

LEMMA AskedFact ==
  ASSUME NEW k \in {"none", "load", "review"}, NEW h \in BOOLEAN
  PROVE  LET r == Asked(k, h) IN
         /\ r \in RequestState /\ r.kind = k /\ r.at = "asked" /\ r.heard = h
         /\ r.found = {} /\ r.seen = {} /\ r.view = {}
<1>1. /\ IdleCall \in RequestState
      /\ IdleCall.found = {} /\ IdleCall.seen = {} /\ IdleCall.view = {}
  BY DEF IdleCall, RequestState
<1> QED
  BY <1>1 DEF Asked, RequestState

\* A new request.
LEMMA AskKeeps ==
  ASSUME RInv, UNCHANGED <<index, stored>>, NEW q \in Calls,
         call[q].at = "idle", NEW k \in {"load", "review"}, NEW h \in BOOLEAN,
         Update(q, Asked(k, h))
  PROVE  RInv'
<1> DEFINE r == Asked(k, h)
<1>1. r \in RequestState
  BY AskedFact
<1>2. q \notin runs
  BY DEF RInv, Transaction
<1>3. Transaction(q, r) /\ AllLocated(r)
  BY <1>2, AskedFact DEF Transaction, AllLocated
<1> HIDE DEF r
<1>4. Update(q, r)
  BY DEF r
<1> QED
  BY <1>1, <1>2, <1>3, <1>4, RequestStep

\* A step of a handler, given as the state that its request gets.
LEMMA HandlerStep ==
  ASSUME RInv, UNCHANGED <<index, stored>>, NEW q \in Calls,
         NEW r \in RequestState, Update(q, r), AllLocated(r),
         r.kind = call[q].kind, r.seen = call[q].seen,
         r.found = call[q].found \/ q \notin runs,
         q \in runs => r.at \in {"stored", "answered", "failed"},
         r.at \notin {"stored", "replacing"},
         \/ r.view = {}
         \/ /\ r.at = "answered"
            /\ \A row \in r.view : r.kind = "review" => row.call \notin r.seen
  PROVE  RInv'
<1>1. Transaction(q, r)
  BY DEF RInv, Transaction
<1>2. q \in runs => r.seen = call[q].seen /\ r.found = call[q].found
  OBVIOUS
<1> QED
  BY <1>1, <1>2, RequestStep

LEMMA SourcesKeep ==
  ASSUME RInv, NEW q \in Calls, ReadSources(q)
  PROVE  RInv'
<1>1. /\ call[q] \in RequestState /\ call[q].view = {} /\ q \notin runs
      /\ Transaction(q, call[q]) /\ AllLocated(call[q])
  BY DEF RInv, Typed, Transaction, ReadSources
<1>2. CASE chunks = {}
  <2> DEFINE r == [call[q] EXCEPT !.at = "failed"]
  <2>1. /\ r \in RequestState /\ r.at = "failed" /\ r.kind = call[q].kind
        /\ r.seen = call[q].seen /\ r.found = call[q].found /\ r.view = {}
        /\ r.sources = call[q].sources
    BY <1>1 DEF RequestState
  <2>2. Update(q, r) /\ UNCHANGED <<index, stored>>
    BY <1>2 DEF ReadSources, Goes
  <2> HIDE DEF r
  <2>3. AllLocated(r)
    BY <1>1, <2>1 DEF AllLocated
  <2> QED
    BY <1>1, <2>1, <2>2, <2>3, HandlerStep
<1>3. CASE chunks # {}
  <2>1. PICK n \in 1..Limit : \E s \in [1..n -> chunks] :
          Goes(q, [call[q] EXCEPT !.at = "reviewing", !.sources = s])
    BY <1>3 DEF ReadSources
  <2>2. PICK s \in [1..n -> chunks] :
          Goes(q, [call[q] EXCEPT !.at = "reviewing", !.sources = s])
    BY <2>1
  <2>3. s \in Seq(Excerpt)
    BY ReviewAssumption DEF RInv, Typed
  <2> DEFINE r == [call[q] EXCEPT !.at = "reviewing", !.sources = s]
  <2>4. /\ r \in RequestState /\ r.at = "reviewing" /\ r.kind = call[q].kind
        /\ r.seen = call[q].seen /\ r.found = call[q].found /\ r.view = {}
    BY <1>1, <2>3 DEF RequestState
  <2>5. Update(q, r) /\ UNCHANGED <<index, stored>>
    BY <2>2 DEF Goes
  <2> HIDE DEF r
  <2>6. AllLocated(r)
    BY <1>1, <2>4 DEF AllLocated, ReadSources
  <2> QED
    BY <1>1, <2>4, <2>5, <2>6, HandlerStep
<1> QED
  BY <1>2, <1>3

LEMMA GenerateKeeps ==
  ASSUME RInv, NEW q \in Calls, Generate(q)
  PROVE  RInv'
<1>1. /\ call[q] \in RequestState /\ call[q].view = {} /\ q \notin runs
  BY DEF RInv, Typed, Transaction, Generate
<1>2. PICK C \in SUBSET {c \in Claims : Located(c, call[q].sources)} :
        Goes(q, [call[q] EXCEPT !.at = IF C = {} THEN "storing" ELSE "verifying",
                                !.found = C])
  BY DEF Generate
<1> DEFINE a == IF C = {} THEN "storing" ELSE "verifying"
           r == [call[q] EXCEPT !.at = a, !.found = C]
<1>3. a \in {"storing", "verifying"}
  OBVIOUS
<1>4. Update(q, r) /\ UNCHANGED <<index, stored>>
  BY <1>2 DEF Goes
<1> HIDE DEF a
<1>5. /\ r \in RequestState /\ r.at = a /\ r.kind = call[q].kind /\ r.found = C
      /\ r.seen = call[q].seen /\ r.view = {} /\ r.sources = call[q].sources
  BY <1>1, <1>3 DEF RequestState
<1> HIDE DEF r
<1>6. AllLocated(r)
  BY <1>3, <1>5 DEF AllLocated
<1> QED
  BY <1>1, <1>3, <1>4, <1>5, <1>6, HandlerStep

LEMMA VerifyKeeps ==
  ASSUME RInv, NEW q \in Calls, Verify(q)
  PROVE  RInv'
<1>1. /\ call[q] \in RequestState /\ call[q].view = {} /\ q \notin runs
      /\ AllLocated(call[q])
  BY DEF RInv, Typed, Transaction, Verify
<1>2. PICK C \in SUBSET call[q].found :
        Goes(q, [call[q] EXCEPT !.at = "storing", !.found = C])
  BY DEF Verify
<1> DEFINE r == [call[q] EXCEPT !.at = "storing", !.found = C]
<1>3. Update(q, r) /\ UNCHANGED <<index, stored>>
  BY <1>2 DEF Goes
<1>4. /\ r \in RequestState /\ r.at = "storing" /\ r.kind = call[q].kind
      /\ r.found = C /\ r.seen = call[q].seen /\ r.view = {}
      /\ r.sources = call[q].sources
  BY <1>1 DEF RequestState
<1> HIDE DEF r
<1>5. AllLocated(r)
  BY <1>1, <1>4 DEF AllLocated
<1> QED
  BY <1>1, <1>3, <1>4, <1>5, HandlerStep

\* Of a run that is stored no review bears another's name, and none that a
\* stored run has replaced is left.
LEMMA StoredFact ==
  ASSUME RInv
  PROVE  \A row \in reviews :
           /\ row.call \in runs /\ row \in Rows(row.call)
           /\ \A r \in runs : row.call \notin call[r].seen
<1> SUFFICES ASSUME NEW row \in reviews
             PROVE  /\ row.call \in runs /\ row \in Rows(row.call)
                    /\ \A r \in runs : row.call \notin call[r].seen
  OBVIOUS
<1>1. PICK p \in runs : row \in Rows(p) /\ \A r \in runs : p \notin call[r].seen
  BY DEF RInv, StoredReviews
<1>2. row.call = p
  BY <1>1 DEF Rows
<1> QED
  BY <1>1, <1>2

LEMMA FindKeeps ==
  ASSUME RInv, NEW q \in Calls, FindReviews(q)
  PROVE  RInv'
<1>1. /\ call[q] \in RequestState /\ reviews \subseteq Review /\ AllLocated(call[q])
      /\ call[q].kind = "load"
  BY DEF RInv, Typed, FindReviews
<1> DEFINE r == [call[q] EXCEPT !.at = "answered", !.view = reviews]
<1>2. Update(q, r) /\ UNCHANGED <<index, stored>>
  BY DEF FindReviews, Goes
<1>3. /\ r \in RequestState /\ r.at = "answered" /\ r.kind = call[q].kind
      /\ r.found = call[q].found /\ r.seen = call[q].seen /\ r.view = reviews
      /\ r.sources = call[q].sources
  BY <1>1 DEF RequestState
<1> HIDE DEF r
<1>4. AllLocated(r)
  BY <1>1, <1>3 DEF AllLocated
<1> QED
  BY <1>1, <1>2, <1>3, <1>4, HandlerStep

LEMMA ReadBackKeeps ==
  ASSUME RInv, NEW q \in Calls, ReadBack(q)
  PROVE  RInv'
<1>1. /\ call[q] \in RequestState /\ reviews \subseteq Review /\ AllLocated(call[q])
      /\ q \in runs
  BY DEF RInv, Typed, Transaction, ReadBack
<1> DEFINE r == [call[q] EXCEPT !.at = "answered", !.view = reviews]
<1>2. Update(q, r) /\ UNCHANGED <<index, stored>>
  BY DEF ReadBack, Goes
<1>3. /\ r \in RequestState /\ r.at = "answered" /\ r.kind = call[q].kind
      /\ r.found = call[q].found /\ r.seen = call[q].seen /\ r.view = reviews
      /\ r.sources = call[q].sources
  BY <1>1 DEF RequestState
<1> HIDE DEF r
<1>4. AllLocated(r)
  BY <1>1, <1>3 DEF AllLocated
<1>5. \A row \in r.view : row.call \notin r.seen
  BY <1>1, <1>3, StoredFact
<1> QED
  BY <1>2, <1>3, <1>4, <1>5, HandlerStep

LEMMA FailKeeps ==
  ASSUME RInv, NEW q \in Calls, Fail(q)
  PROVE  RInv'
<1>1. /\ call[q] \in RequestState /\ call[q].view = {} /\ AllLocated(call[q])
  BY DEF RInv, Typed, Transaction, Fail, Underway
<1>2. CASE q \in runs
  <2> DEFINE r == [call[q] EXCEPT !.at = "failed"]
  <2>1. Update(q, r) /\ UNCHANGED <<index, stored>>
    BY <1>2 DEF Fail, Goes
  <2>2. /\ r \in RequestState /\ r.at = "failed" /\ r.kind = call[q].kind
        /\ r.found = call[q].found /\ r.seen = call[q].seen /\ r.view = {}
        /\ r.sources = call[q].sources
    BY <1>1 DEF RequestState
  <2> HIDE DEF r
  <2>3. AllLocated(r)
    BY <1>1, <2>2 DEF AllLocated
  <2> QED
    BY <2>1, <2>2, <2>3, HandlerStep
<1>3. CASE q \notin runs
  <2> DEFINE asked == Asked(call[q].kind, call[q].heard)
             r == [asked EXCEPT !.at = "failed"]
  <2>a. asked \in RequestState /\ asked.found = {} /\ asked.seen = {} /\ asked.view = {}
    BY <1>1, AskedFact DEF RequestState
  <2>1. Update(q, r) /\ UNCHANGED <<index, stored>>
    BY <1>3 DEF Fail, Goes
  <2> HIDE DEF asked
  <2>2. /\ r \in RequestState /\ r.at = "failed" /\ r.found = {}
        /\ r.seen = {} /\ r.view = {}
    BY <2>a DEF RequestState
  <2> HIDE DEF r
  <2>3. AllLocated(r) /\ Transaction(q, r)
    BY <1>3, <2>2 DEF AllLocated, Transaction
  <2> QED
    BY <1>3, <2>1, <2>2, <2>3, RequestStep
<1> QED
  BY <1>2, <1>3

\* The DELETE finds all rows that are stored when it begins.
LEMMA BeginKeeps ==
  ASSUME RInv, NEW q \in Calls, BeginReplacing(q)
  PROVE  RInv'
<1>1. /\ call[q] \in RequestState /\ call[q].view = {} /\ AllLocated(call[q])
      /\ reviews \subseteq Review /\ runs \subseteq Calls /\ q \notin runs
  BY DEF RInv, Typed, Transaction, BeginReplacing
<1>2. Replacing \in SUBSET Calls
  BY DEF Replacing
<1> DEFINE r == [call[q] EXCEPT !.at = "replacing", !.seen = runs,
                                !.doomed = reviews, !.behind = Replacing]
<1>3. Update(q, r) /\ UNCHANGED <<index, stored>>
  BY DEF BeginReplacing, Goes
<1>4. /\ r \in RequestState /\ r.at = "replacing" /\ r.kind = call[q].kind
      /\ r.found = call[q].found /\ r.seen = runs /\ r.doomed = reviews
      /\ r.view = {} /\ r.sources = call[q].sources
  BY <1>1, <1>2 DEF RequestState
<1> HIDE DEF r
<1>5. AllLocated(r)
  BY <1>1, <1>4 DEF AllLocated
<1>6. Transaction(q, r)
  BY <1>1, <1>4, StoredFact DEF Transaction
<1> QED
  BY <1>1, <1>3, <1>4, <1>5, <1>6, RequestStep

\* The transaction deletes the findings of the runs that it saw, and no others.
LEMMA CommitKeeps ==
  ASSUME RInv, NEW q \in Calls, CommitReviews(q)
  PROVE  RInv'
<1>1. /\ call[q] \in RequestState /\ call[q].view = {} /\ AllLocated(call[q])
      /\ Transaction(q, call[q]) /\ q \notin runs /\ runs \subseteq Calls
      /\ call \in [Calls -> RequestState]
  BY DEF RInv, Typed, Transaction, CommitReviews
<1> DEFINE r == [call[q] EXCEPT !.at = "stored", !.doomed = {}, !.behind = {}]
<1>2. /\ Update(q, r) /\ UNCHANGED index /\ runs' = runs \cup {q}
      /\ reviews' = (reviews \ call[q].doomed) \cup Rows(q)
  BY DEF CommitReviews
<1>3. /\ r \in RequestState /\ r.at = "stored" /\ r.kind = call[q].kind
      /\ r.found = call[q].found /\ r.seen = call[q].seen /\ r.view = {}
      /\ r.sources = call[q].sources
  BY <1>1 DEF RequestState
<1> HIDE DEF r
<1>4. /\ call' \in [Calls -> RequestState] /\ call'[q] = r
      /\ \A p \in Calls \ {q} : call'[p] = call[p]
  BY <1>1, <1>2, <1>3, OwnRequest
<1>5. \A p \in Calls : call'[p].found = call[p].found /\ call'[p].seen = call[p].seen
  BY <1>3, <1>4
<1>6. \A p \in Calls : Rows(p)' = Rows(p)
  BY <1>5 DEF Rows
<1>7. Rows(q) \subseteq Review
  BY <1>1, ReviewAssumption DEF Rows, RequestState, Review, Excerpt
<1>8. Typed' /\ ChunksOfContents'
  BY <1>1, <1>2, <1>4, <1>7 DEF RInv, Typed, ChunksOfContents, ChunksOf, index
<1>9. \A row \in reviews' : (row \in reviews /\ row.call \in runs) \/ row.call = q
  BY <1>2, StoredFact DEF Rows
<1>10. ASSUME NEW p \in Calls
       PROVE  Transaction(p, call[p])' /\ AllLocated(call[p])'
  <2>1. CASE p = q
    BY <1>1, <1>2, <1>3, <1>4, <2>1 DEF Transaction, AllLocated
  <2>2. CASE p # q
    <3>1. call'[p] = call[p] /\ Transaction(p, call[p]) /\ AllLocated(call[p])
      BY <1>4, <2>2 DEF RInv
    <3>2. q \notin call[p].seen
      BY <1>1, <3>1 DEF Transaction
    <3> QED
      BY <1>2, <1>9, <2>2, <3>1, <3>2 DEF Transaction, AllLocated
  <2> QED
    BY <2>1, <2>2
<1>11. reviews' = StoredReviews'
  <2>1. \A p \in runs' : q \notin call'[p].seen
    BY <1>1, <1>2, <1>5 DEF RInv, Transaction
  <2>2. ASSUME NEW row \in reviews'
        PROVE  row \in StoredReviews'
    <3>1. CASE row \in Rows(q)
      BY <1>2, <1>6, <2>1, <3>1 DEF StoredReviews
    <3>2. CASE row \in reviews /\ row \notin call[q].doomed
      <4>1. row.call \in runs /\ row \in Rows(row.call)
        BY <3>2, StoredFact
      <4>2. row.call \notin call[q].seen
        BY <1>1, <3>2 DEF Transaction, CommitReviews
      <4>3. \A p \in runs' : row.call \notin call'[p].seen
        BY <1>1, <1>2, <1>5, <3>2, <4>2, StoredFact
      <4> QED
        BY <1>1, <1>2, <1>6, <4>1, <4>3 DEF StoredReviews
    <3> QED
      BY <1>2, <3>1, <3>2
  <2>3. ASSUME NEW row \in StoredReviews'
        PROVE  row \in reviews'
    <3>1. PICK p \in runs' : row \in Rows(p)' /\ \A o \in runs' : p \notin call'[o].seen
      BY <2>3 DEF StoredReviews
    <3>2. p \in Calls /\ row \in Rows(p)
      BY <1>1, <1>2, <1>6, <3>1
    <3>3. CASE p = q
      BY <1>2, <3>2, <3>3
    <3>4. CASE p # q
      <4>1. p \in runs /\ p \notin call[q].seen /\ \A o \in runs : p \notin call[o].seen
        BY <1>1, <1>2, <1>5, <3>1, <3>4
      <4>2. row \in reviews
        BY <3>2, <4>1 DEF RInv, StoredReviews
      <4>3. row.call = p
        BY <3>2 DEF Rows
      <4>4. row \notin call[q].doomed
        BY <1>1, <4>1, <4>3 DEF Transaction, CommitReviews
      <4> QED
        BY <1>2, <4>2, <4>4
    <3> QED
      BY <3>3, <3>4
  <2> QED
    BY <2>2, <2>3
<1> QED
  BY <1>8, <1>10, <1>11 DEF RInv

LEMMA HeardKeeps ==
  ASSUME RInv, NEW q \in Calls, Receive(q) \/ GiveUp(q)
  PROVE  RInv'
<1>1. /\ call[q] \in RequestState /\ AllLocated(call[q]) /\ Transaction(q, call[q])
  BY DEF RInv, Typed
<1> DEFINE v == IF call[q].at = "answered" THEN {} ELSE call[q].view
           r == [call[q] EXCEPT !.heard = FALSE, !.view = v]
<1>2. call[q].view = {} \/ call[q].at = "answered"
  BY <1>1 DEF Transaction
<1>3. v = {}
  BY <1>2
<1>4. UNCHANGED <<index, stored>>
  BY DEF Receive, GiveUp
<1>5. Update(q, r)
  <2>1. CASE Receive(q)
    BY <2>1, <1>3 DEF Receive
  <2>2. CASE GiveUp(q)
    <3>1. v = call[q].view /\ call' = [call EXCEPT ![q] = [call[q] EXCEPT !.heard = FALSE]]
      BY <2>2 DEF GiveUp
    <3>2. [call[q] EXCEPT !.heard = FALSE]
            = [call[q] EXCEPT !.heard = FALSE, !.view = call[q].view]
      BY <1>1 DEF RequestState
    <3> QED
      BY <3>1, <3>2
  <2> QED
    BY <2>1, <2>2
<1> HIDE DEF v
<1>6. /\ r \in RequestState /\ r.at = call[q].at /\ r.kind = call[q].kind
      /\ r.found = call[q].found /\ r.seen = call[q].seen /\ r.doomed = call[q].doomed
      /\ r.view = {} /\ r.sources = call[q].sources
  BY <1>1, <1>3 DEF RequestState
<1> HIDE DEF r
<1>7. AllLocated(r) /\ Transaction(q, r)
  BY <1>1, <1>6 DEF AllLocated, Transaction
<1> QED
  BY <1>4, <1>5, <1>6, <1>7, RequestStep

LEMMA NextKeeps ==
  ASSUME RInv, [Next]_vars
  PROVE  RInv'
<1>1. CASE UNCHANGED vars \/ TogglePanel
  <2>1. UNCHANGED <<index, stored, call>>
    BY <1>1 DEF vars, TogglePanel
  <2>2. Typed' /\ ChunksOfContents'
    BY <2>1 DEF RInv, Typed, ChunksOfContents, ChunksOf, index, stored
  <2> QED
    BY <2>1, <2>2, IndexStep
<1>2. CASE Embed \/ \E p \in Paths, c \in Contents : Rebuild(p, c)
  BY <1>2, EmbedKeeps, RebuildKeeps
<1>3. ASSUME NEW q \in Calls, OthersReview(q) \/ RunReview(q) \/ OpenPanel(q)
      PROVE  RInv'
  <2>1. /\ call[q].at = "idle" /\ UNCHANGED <<index, stored>>
        /\ \E k \in {"load", "review"}, h \in BOOLEAN : Update(q, Asked(k, h))
    BY <1>3 DEF OthersReview, RunReview, OpenPanel, Goes
  <2> QED
    BY <2>1, AskKeeps
<1>4. ASSUME NEW q \in Calls,
             \/ FindReviews(q) \/ ReadSources(q) \/ Generate(q) \/ Verify(q)
             \/ BeginReplacing(q) \/ CommitReviews(q) \/ ReadBack(q) \/ Fail(q)
             \/ Receive(q) \/ GiveUp(q)
      PROVE  RInv'
  BY <1>4, FindKeeps, SourcesKeep, GenerateKeeps, VerifyKeeps, BeginKeeps,
     CommitKeeps, ReadBackKeeps, FailKeeps, HeardKeeps
<1> QED
  BY <1>1, <1>2, <1>3, <1>4 DEF Next

\* The inductive invariant holds of every request, of any number of them.
THEOREM ReviewInvariant == Spec => []RInv
<1>1. Init => RInv
  BY InitHolds
<1>2. RInv /\ [Next]_vars => RInv'
  BY NextKeeps
<1> QED
  BY <1>1, <1>2, PTL DEF Spec

-----------------------------------------------------------------------------
(* What follows                                                            *)

LEMMA PanelTyped ==
  ASSUME RInv, panel \in PanelState, [Next]_vars
  PROVE  panel' \in PanelState
<1>1. CASE UNCHANGED panel
  BY <1>1
<1>2. CASE TogglePanel
  BY <1>2 DEF TogglePanel, PanelState
<1>3. ASSUME NEW q \in Calls, RunReview(q) \/ OpenPanel(q)
      PROVE  panel' \in PanelState
  <2>1. CASE RunReview(q)
    BY <2>1 DEF RunReview, PanelState
  <2>2. CASE OpenPanel(q)
    BY <2>2 DEF OpenPanel, PanelState
  <2> QED
    BY <1>3, <2>1, <2>2
<1>4. \A q \in Calls : Finished(q) \in PanelState
  BY DEF Finished, PanelState
<1>5. ASSUME NEW q \in Calls, Receive(q)
      PROVE  panel' \in PanelState
  <2> DEFINE f == Finished(q)
             e == f.expanded \/ call[q].kind = "review"
             v == call[q].view
  <2>1. f \in PanelState
    BY <1>4
  <2>2. call[q] \in RequestState
    BY DEF RInv, Typed
  <2>3. v \in SUBSET Review
    BY <2>2 DEF RequestState
  <2>4. panel' = [f EXCEPT !.reviews = v, !.from = q, !.loaded = TRUE, !.expanded = e]
    BY <1>5, Zenon DEF Receive
  <2>5. e \in BOOLEAN
    OBVIOUS
  <2> HIDE DEF f, e, v
  <2> QED
    BY <2>1, <2>3, <2>4, <2>5 DEF PanelState
<1>6. ASSUME NEW q \in Calls, GiveUp(q)
      PROVE  panel' \in PanelState
  BY <1>4, <1>6 DEF GiveUp
<1>7. Next => \/ UNCHANGED panel \/ TogglePanel
              \/ \E q \in Calls : RunReview(q) \/ OpenPanel(q) \/ Receive(q) \/ GiveUp(q)
  BY Zenon DEF Next, Embed, Rebuild, OthersReview, FindReviews, ReadSources, Generate,
       Verify, BeginReplacing, CommitReviews, ReadBack, Fail, Goes
<1> QED
  BY <1>1, <1>2, <1>3, <1>5, <1>6, <1>7 DEF vars

\* Every variable has its type in every reachable state, and a chunk is a
\* range of lines of the file that was chunked last.
THEOREM ReviewTypeCorrect == Spec => []ReviewTypeOK
<1>1. Init => panel \in PanelState
  BY DEF Init, PanelState
<1>2. RInv /\ panel \in PanelState => ReviewTypeOK
  <2> SUFFICES ASSUME RInv, panel \in PanelState PROVE ReviewTypeOK
    OBVIOUS
  <2>1. ASSUME NEW c \in chunks
        PROVE  /\ 1 <= c.startLine /\ c.startLine <= c.endLine
               /\ c.endLine <= content[c.path].lines
    <3>1. c \in Excerpt /\ c.path \in Paths /\ content[c.path] \in Contents
      BY DEF RInv, Typed, Excerpt
    <3>2. c \in CreateChunks(c.path, content[c.path])
      BY <3>1 DEF RInv, ChunksOfContents, ChunksOf
    <3> QED
      BY <3>1, <3>2, ChunkedTyped
  <2> QED
    BY <2>1 DEF RInv, Typed, ReviewTypeOK
<1>3. RInv /\ panel \in PanelState /\ [Next]_vars => (panel \in PanelState)'
  BY PanelTyped
<1> QED
  BY <1>1, <1>2, <1>3, ReviewInvariant, PTL DEF Spec

\* What is stored, and what a review answers, is what no later review has
\* replaced, however many transactions overlap.
THEOREM ReviewsAreReplaced == Spec => []ReviewsReplaced
<1>1. RInv => ReviewsReplaced
  BY DEF RInv, Transaction, ReviewsReplaced
<1> QED
  BY <1>1, ReviewInvariant, PTL

\* A stored finding lies within an excerpt that was reviewed, whatever Ollama
\* reported.
THEOREM FindingsLocated == Spec => []FindingsInExcerpts
<1>1. RInv => FindingsInExcerpts
  <2> SUFFICES ASSUME RInv, NEW row \in reviews
               PROVE  \E i \in DOMAIN call[row.call].sources :
                        LET s == call[row.call].sources[i] IN
                        row.path = s.path /\ Within(row.startLine, s) /\ Within(row.endLine, s)
    BY DEF FindingsInExcerpts
  <2> DEFINE q == row.call
  <2>1. q \in Calls /\ row \in Rows(q)
    BY StoredFact DEF RInv, Typed
  <2>2. call[q] \in RequestState /\ AllLocated(call[q])
    BY <2>1 DEF RInv, Typed
  <2>3. PICK f \in call[q].found : row = [call |-> q, path |-> f.path,
                                          startLine |-> f.startLine, endLine |-> f.endLine]
    BY <2>1 DEF Rows
  <2>4. f \in Excerpt /\ Located(f, call[q].sources)
    BY <2>2, <2>3, ReviewAssumption DEF RequestState, AllLocated
  <2>5. PICK i \in DOMAIN call[q].sources :
          LET s == call[q].sources[i] IN
          /\ s.path = f.path /\ s.startLine <= f.startLine
          /\ f.startLine <= f.endLine /\ f.endLine <= s.endLine
    BY <2>4 DEF Located
  <2>6. call[q].sources \in Seq(Excerpt)
    BY <2>2 DEF RequestState
  <2>7. call[q].sources[i] \in Excerpt
    BY <2>5, <2>6
  <2> QED
    BY <2>3, <2>4, <2>5, <2>7 DEF Excerpt, Within
<1> QED
  BY <1>1, ReviewInvariant, PTL

\* For any two sizes of windows and overlap, no passage as short as the
\* overlap is torn by the chunks of a file, as far as it has been embedded.
THEOREM NoTear == Spec => []NoPassageTorn
<1>1. RInv => NoPassageTorn
  <2> SUFFICES ASSUME RInv, NEW p \in Paths, NEW i \in content[p].text,
                      NEW from \in (i - Overlap)..i, 1 <= from,
                      NEW e \in chunks, e.path = p, from + Overlap <= e.endLine
               PROVE  \E c \in chunks : /\ c.path = p /\ Within(from, c)
                                        /\ Within(from + Overlap, c)
    BY DEF NoPassageTorn
  <2>1. content[p] \in Contents /\ i \in Nat /\ content[p].lines \in Nat
    BY ExcerptAssumption DEF RInv, Typed
  <2>2. from \in Nat \ {0} /\ from <= i /\ i <= from + Overlap
    BY <2>1, StepFact
  <2>3. e \in Excerpt /\ e \in CreateChunks(p, content[p])
    BY DEF RInv, Typed, ChunksOfContents, ChunksOf
  <2>4. from + Overlap <= content[p].lines
    BY <2>1, <2>2, <2>3, ChunkedTyped, StepFact DEF Excerpt
  <2>5. PICK w \in Windows(p, content[p]) : Within(from, w) /\ Within(from + Overlap, w)
    BY <2>1, <2>2, <2>4, WindowOfPassage
  <2>6. PICK k \in Starts(content[p]) : w = Window(p, content[p], k)
    BY <2>5, WindowsFact
  <2>7. w \in Excerpt
    BY <2>1, <2>6, WindowTyped
  <2>8. Within(i, w)
    BY <2>1, <2>2, <2>5, <2>7, StepFact DEF Within, Excerpt
  <2>9. w \in CreateChunks(p, content[p])
    BY <2>5, <2>8 DEF CreateChunks
  <2>10. CASE w.startLine <= e.startLine
    <3>1. w \in chunks /\ w.path = p
      BY <2>1, <2>9, <2>10, ChunkedTyped DEF RInv, ChunksOfContents, ChunksOf
    <3> QED
      BY <2>5, <3>1
  <2>11. CASE ~(w.startLine <= e.startLine)
    <3>1. Within(from, e) /\ Within(from + Overlap, e)
      BY <2>2, <2>3, <2>5, <2>7, <2>11, StepFact DEF Within, Excerpt
    <3> QED
      BY <3>1
  <2> QED
    BY <2>10, <2>11
<1> QED
  BY <1>1, ReviewInvariant, PTL

-----------------------------------------------------------------------------
(* The panel                                                               *)

\* Reviews that were stored together, and what may be answered to the review q.
Together(V) ==
  \A row \in V : row.call \in runs /\ \A other \in V : row.call \notin call[other.call].seen
AnswerTo(q, V) ==
  /\ q \in runs
  /\ \A row \in V : row.call \notin call[q].seen
  /\ Rows(q) \subseteq V \/ \E r \in runs : q \in call[r].seen

PanelInv ==
  /\ \A q \in Calls :
       /\ call[q].heard => call[q].at # "idle"
       /\ Together(call[q].view)
       /\ call[q].heard /\ call[q].at = "answered" /\ call[q].kind = "review"
            => AnswerTo(q, call[q].view)
  /\ Together(panel.reviews)
  /\ \A q \in Calls : panel.from = q =>
       /\ call[q].at # "idle"
       /\ call[q].kind = "review" => AnswerTo(q, panel.reviews)

\* A request q that goes on in another state r.
Onward(q, r) ==
  /\ Update(q, r) /\ r.at # "idle"
  /\ call[q].at = "idle" \/ r.kind = call[q].kind
  /\ q \in runs => r.seen = call[q].seen /\ r.found = call[q].found
  /\ r.view \in {{}, call[q].view, reviews}
  /\ r.heard /\ r.at = "answered" /\ r.kind = "review" => q \in runs /\ r.view = reviews

\* What is stored was stored together, and may be answered to each review of it.
LEMMA StoredTogether ==
  ASSUME RInv
  PROVE  Together(reviews) /\ \A q \in runs : AnswerTo(q, reviews)
<1>1. \A row \in reviews : row.call \in runs /\ \A r \in runs : row.call \notin call[r].seen
  BY StoredFact
<1>2. ASSUME NEW q \in runs, \A r \in runs : q \notin call[r].seen
      PROVE  Rows(q) \subseteq reviews
  BY <1>2 DEF RInv, StoredReviews
<1> QED
  BY <1>1, <1>2 DEF Together, AnswerTo

\* What was stored together once was so for ever.
LEMMA TogetherKept ==
  ASSUME RInv, runs \subseteq runs',
         \A p \in runs : call'[p].seen = call[p].seen /\ call'[p].found = call[p].found
  PROVE  /\ \A V : Together(V) => Together(V)'
         /\ \A p \in Calls : \A V : AnswerTo(p, V) => AnswerTo(p, V)'
<1>1. \A p \in runs : Rows(p)' = Rows(p)
  BY DEF Rows
<1> QED
  BY <1>1 DEF Together, AnswerTo

LEMMA OnwardStep ==
  ASSUME RInv, PanelInv, runs \subseteq runs', NEW q \in Calls, NEW r, Onward(q, r),
         \/ UNCHANGED <<panel.reviews, panel.from>>
         \/ /\ call[q].heard /\ call[q].at = "answered"
            /\ panel'.reviews = call[q].view /\ panel'.from = q
  PROVE  PanelInv'
<1>1. call'[q] = r /\ \A p \in Calls \ {q} : call'[p] = call[p]
  BY DEF Onward, RInv, Typed
<1>2. \A p \in runs : call'[p].seen = call[p].seen /\ call'[p].found = call[p].found
  BY <1>1 DEF Onward, RInv, Typed
<1>3. /\ \A V : Together(V) => Together(V)'
      /\ \A p \in Calls : \A V : AnswerTo(p, V) => AnswerTo(p, V)'
  BY <1>2, TogetherKept
<1>4. Together({})
  BY DEF Together
<1>5. \A p \in Calls : call'[p].at = "idle" => call[p].at = "idle"
  BY <1>1 DEF Onward
<1>6. ASSUME NEW p \in Calls
      PROVE  /\ call'[p].heard => call'[p].at # "idle"
             /\ Together(call'[p].view)
             /\ call'[p].heard /\ call'[p].at = "answered" /\ call'[p].kind = "review"
                  => AnswerTo(p, call'[p].view)
  <2>1. CASE p = q
    BY <1>1, <1>4, <2>1, StoredTogether DEF Onward, PanelInv
  <2>2. CASE p # q
    BY <1>1, <2>2 DEF PanelInv
  <2> QED
    BY <2>1, <2>2
<1>7. /\ Together(panel'.reviews)
      /\ \A p \in Calls : panel'.from = p =>
           /\ call'[p].at # "idle"
           /\ call'[p].kind = "review" => AnswerTo(p, panel'.reviews)
  <2>1. CASE UNCHANGED <<panel.reviews, panel.from>>
    <3>1. panel'.reviews = panel.reviews /\ panel'.from = panel.from
      BY <2>1
    <3> QED
      BY <1>1, <1>5, <3>1 DEF PanelInv, Onward
  <2>2. CASE /\ call[q].heard /\ call[q].at = "answered"
             /\ panel'.reviews = call[q].view /\ panel'.from = q
    BY <1>1, <2>2 DEF PanelInv, Onward
  <2> QED
    BY <2>1, <2>2
<1>8. \A p \in Calls :
        /\ call'[p].heard => call'[p].at # "idle"
        /\ Together(call[p].view)'
        /\ call'[p].heard /\ call'[p].at = "answered" /\ call'[p].kind = "review"
             => AnswerTo(p, call[p].view)'
  BY <1>3, <1>6 DEF Together, AnswerTo
<1>9. /\ Together(panel.reviews)'
      /\ \A p \in Calls : panel'.from = p /\ call'[p].kind = "review"
           => AnswerTo(p, panel.reviews)'
  BY <1>3, <1>7 DEF Together, AnswerTo
<1> QED
  BY <1>7, <1>8, <1>9 DEF PanelInv

\* Every request that goes on leaves what is stored of it alone.
LEMMA HandlerGoes ==
  ASSUME RInv, NEW q \in Calls,
         \/ FindReviews(q) \/ ReadSources(q) \/ Generate(q) \/ Verify(q)
         \/ BeginReplacing(q) \/ CommitReviews(q) \/ ReadBack(q) \/ Fail(q)
  PROVE  /\ runs \subseteq runs' /\ UNCHANGED panel
         /\ \E r : Onward(q, r)
<1>a. call[q] \in RequestState /\ Transaction(q, call[q])
  BY DEF RInv, Typed
<1>b. runs \subseteq runs' /\ UNCHANGED panel
  BY DEF FindReviews, ReadSources, Generate, Verify, BeginReplacing, CommitReviews,
         ReadBack, Fail, Goes, stored
<1>1. CASE FindReviews(q) \/ ReadBack(q)
  <2> DEFINE r == [call[q] EXCEPT !.at = "answered", !.view = reviews]
  <2>1. Update(q, r)
    BY <1>1 DEF FindReviews, ReadBack, Goes
  <2>2. /\ r.at = "answered" /\ r.kind = call[q].kind /\ r.view = reviews
        /\ r.seen = call[q].seen /\ r.found = call[q].found
    BY <1>a DEF RequestState
  <2>3. r.kind = "review" => q \in runs
    BY <1>a, <1>1, <2>2 DEF FindReviews, ReadBack, Transaction
  <2> HIDE DEF r
  <2>4. Onward(q, r)
    BY <2>1, <2>2, <2>3 DEF Onward
  <2> QED
    BY <1>b, <2>4
<1>2. ASSUME NEW a \in {"failed", "reviewing", "storing", "verifying", "replacing", "stored"},
             NEW r, Update(q, r), r.at = a, r.kind = call[q].kind, r.view = {},
             q \in runs => r.seen = call[q].seen /\ r.found = call[q].found
      PROVE  \E o : Onward(q, o)
  BY <1>2 DEF Onward
<1>c. call[q].at # "answered" => call[q].view = {}
  BY <1>a DEF Transaction
<1>3. CASE ReadSources(q)
  <2>1. CASE chunks = {}
    <3> DEFINE r == [call[q] EXCEPT !.at = "failed"]
    <3>1. Update(q, r)
      BY <1>3, <2>1 DEF ReadSources, Goes
    <3>2. /\ r.at = "failed" /\ r.kind = call[q].kind /\ r.view = {}
          /\ r.seen = call[q].seen /\ r.found = call[q].found
      BY <1>a, <1>c, <1>3 DEF RequestState, ReadSources
    <3> HIDE DEF r
    <3> QED
      BY <1>b, <1>2, <3>1, <3>2
  <2>2. CASE chunks # {}
    <3>1. PICK n \in 1..Limit : \E s \in [1..n -> chunks] :
            Goes(q, [call[q] EXCEPT !.at = "reviewing", !.sources = s])
      BY <1>3, <2>2 DEF ReadSources
    <3>2. PICK s \in [1..n -> chunks] :
            Goes(q, [call[q] EXCEPT !.at = "reviewing", !.sources = s])
      BY <3>1
    <3> DEFINE r == [call[q] EXCEPT !.at = "reviewing", !.sources = s]
    <3>3. Update(q, r)
      BY <3>2 DEF Goes
    <3>4. /\ r.at = "reviewing" /\ r.kind = call[q].kind /\ r.view = {}
          /\ r.seen = call[q].seen /\ r.found = call[q].found
      BY <1>a, <1>c, <1>3 DEF RequestState, ReadSources
    <3> HIDE DEF r
    <3> QED
      BY <1>b, <1>2, <3>3, <3>4
  <2> QED
    BY <2>1, <2>2
<1>4. CASE Generate(q)
  <2>1. PICK C \in SUBSET {c \in Claims : Located(c, call[q].sources)} :
          Goes(q, [call[q] EXCEPT !.at = IF C = {} THEN "storing" ELSE "verifying",
                                  !.found = C])
    BY <1>4 DEF Generate
  <2> DEFINE a == IF C = {} THEN "storing" ELSE "verifying"
             r == [call[q] EXCEPT !.at = a, !.found = C]
  <2>2. a \in {"storing", "verifying"}
    OBVIOUS
  <2>3. Update(q, r)
    BY <2>1 DEF Goes
  <2> HIDE DEF a
  <2>4. r.at = a /\ r.kind = call[q].kind /\ r.view = {} /\ q \notin runs
    BY <1>a, <1>c, <1>4 DEF RequestState, Generate, Transaction
  <2> HIDE DEF r
  <2> QED
    BY <1>b, <1>2, <2>2, <2>3, <2>4
<1>5. CASE Verify(q)
  <2>1. PICK C \in SUBSET call[q].found :
          Goes(q, [call[q] EXCEPT !.at = "storing", !.found = C])
    BY <1>5 DEF Verify
  <2> DEFINE r == [call[q] EXCEPT !.at = "storing", !.found = C]
  <2>2. Update(q, r)
    BY <2>1 DEF Goes
  <2>3. r.at = "storing" /\ r.kind = call[q].kind /\ r.view = {} /\ q \notin runs
    BY <1>a, <1>c, <1>5 DEF RequestState, Verify, Transaction
  <2> HIDE DEF r
  <2> QED
    BY <1>b, <1>2, <2>2, <2>3
<1>6. CASE BeginReplacing(q)
  <2> DEFINE r == [call[q] EXCEPT !.at = "replacing", !.seen = runs,
                                  !.doomed = reviews, !.behind = Replacing]
  <2>1. Update(q, r)
    BY <1>6 DEF BeginReplacing, Goes
  <2>2. r.at = "replacing" /\ r.kind = call[q].kind /\ r.view = {} /\ q \notin runs
    BY <1>a, <1>c, <1>6 DEF RequestState, BeginReplacing, Transaction
  <2> HIDE DEF r
  <2> QED
    BY <1>b, <1>2, <2>1, <2>2
<1>7. CASE CommitReviews(q)
  <2> DEFINE r == [call[q] EXCEPT !.at = "stored", !.doomed = {}, !.behind = {}]
  <2>1. Update(q, r)
    BY <1>7 DEF CommitReviews
  <2>2. r.at = "stored" /\ r.kind = call[q].kind /\ r.view = {} /\ q \notin runs
    BY <1>a, <1>c, <1>7 DEF RequestState, CommitReviews, Transaction
  <2> HIDE DEF r
  <2> QED
    BY <1>b, <1>2, <2>1, <2>2
<1>8. CASE Fail(q)
  <2> DEFINE x == IF q \in runs THEN call[q] ELSE Asked(call[q].kind, call[q].heard)
             r == [x EXCEPT !.at = "failed"]
  <2>1. Update(q, r)
    BY <1>8 DEF Fail, Goes
  <2>2. /\ x \in RequestState /\ x.kind = call[q].kind /\ x.view = {}
        /\ q \in runs => x.seen = call[q].seen /\ x.found = call[q].found
    <3>1. call[q].view = {} /\ call[q].kind \in {"none", "load", "review"}
          /\ call[q].heard \in BOOLEAN
      BY <1>a, <1>c, <1>8 DEF Fail, Underway, RequestState
    <3> QED
      BY <1>a, <3>1, AskedFact
  <2> HIDE DEF x
  <2>3. /\ r.at = "failed" /\ r.kind = call[q].kind /\ r.view = {}
        /\ q \in runs => r.seen = call[q].seen /\ r.found = call[q].found
    BY <2>2 DEF RequestState
  <2> HIDE DEF r
  <2> QED
    BY <1>b, <1>2, <2>1, <2>3
<1> QED
  BY <1>1, <1>3, <1>4, <1>5, <1>6, <1>7, <1>8

LEMMA PanelStep ==
  ASSUME RInv, panel \in PanelState, PanelInv, [Next]_vars
  PROVE  PanelInv'
<1>a. call \in [Calls -> RequestState]
  BY DEF RInv, Typed
<1>1. CASE \/ UNCHANGED vars \/ Embed \/ TogglePanel
           \/ \E p \in Paths, c \in Contents : Rebuild(p, c)
  <2>1. /\ UNCHANGED <<runs, call>>
        /\ panel'.reviews = panel.reviews /\ panel'.from = panel.from
    BY <1>1 DEF vars, stored, TogglePanel, Embed, Rebuild, PanelState
  <2>2. \A q \in Calls : Rows(q)' = Rows(q)
    BY <2>1 DEF Rows
  <2> QED
    BY <2>1, <2>2 DEF PanelInv, Together, AnswerTo
<1>2. ASSUME NEW q \in Calls, OthersReview(q) \/ RunReview(q) \/ OpenPanel(q)
      PROVE  PanelInv'
  <2>1. PICK k \in {"load", "review"}, h \in BOOLEAN : Update(q, Asked(k, h))
    BY <1>2 DEF OthersReview, RunReview, OpenPanel, Goes
  <2>2. /\ call[q].at = "idle" /\ runs' = runs
        /\ panel'.reviews = panel.reviews /\ panel'.from = panel.from
    BY <1>2 DEF OthersReview, RunReview, OpenPanel, Goes, stored, PanelState
  <2>3. q \notin runs
    BY <2>2 DEF RInv, Transaction
  <2>4. Onward(q, Asked(k, h))
    BY <2>1, <2>2, <2>3, AskedFact DEF Onward
  <2> QED
    BY <2>2, <2>4, OnwardStep
<1>3. ASSUME NEW q \in Calls,
             \/ FindReviews(q) \/ ReadSources(q) \/ Generate(q) \/ Verify(q)
             \/ BeginReplacing(q) \/ CommitReviews(q) \/ ReadBack(q) \/ Fail(q)
      PROVE  PanelInv'
  BY <1>3, HandlerGoes, OnwardStep
<1>4. ASSUME NEW q \in Calls, Receive(q)
      PROVE  PanelInv'
  <2> DEFINE r == [call[q] EXCEPT !.heard = FALSE, !.view = {}]
             f == Finished(q)
             e == f.expanded \/ call[q].kind = "review"
             v == call[q].view
  <2>1. /\ Update(q, r) /\ runs' = runs /\ call[q].heard /\ call[q].at = "answered"
    BY <1>4 DEF Receive, stored
  <2>2. /\ r.at = "answered" /\ r.kind = call[q].kind /\ r.view = {} /\ ~r.heard
        /\ r.seen = call[q].seen /\ r.found = call[q].found
    BY <1>a, <2>1 DEF RequestState
  <2> HIDE DEF r
  <2>3. Onward(q, r)
    BY <2>1, <2>2 DEF Onward
  <2>4. panel' = [f EXCEPT !.reviews = v, !.from = q, !.loaded = TRUE, !.expanded = e]
    BY <1>4, Zenon DEF Receive
  <2>5. f \in PanelState
    BY DEF Finished, PanelState
  <2> HIDE DEF f, e, v
  <2>6. panel'.reviews = v /\ panel'.from = q
    BY <2>4, <2>5 DEF PanelState
  <2> QED
    BY <2>1, <2>3, <2>6, OnwardStep DEF v
<1>5. ASSUME NEW q \in Calls, GiveUp(q)
      PROVE  PanelInv'
  <2> DEFINE r == [call[q] EXCEPT !.heard = FALSE]
  <2>1. /\ Update(q, r) /\ runs' = runs /\ call[q].heard /\ panel' = Finished(q)
    BY <1>5 DEF GiveUp, stored
  <2>2. /\ r.at = call[q].at /\ r.kind = call[q].kind /\ r.view = call[q].view /\ ~r.heard
        /\ r.seen = call[q].seen /\ r.found = call[q].found
    BY <1>a DEF RequestState
  <2> HIDE DEF r
  <2>3. panel'.reviews = panel.reviews /\ panel'.from = panel.from
    BY <2>1 DEF Finished, PanelState
  <2>4. call[q].at # "idle"
    BY <2>1 DEF PanelInv
  <2>5. Onward(q, r)
    BY <2>1, <2>2, <2>4 DEF Onward
  <2> QED
    BY <2>1, <2>3, <2>5, OnwardStep
<1> QED
  BY <1>1, <1>2, <1>3, <1>4, <1>5 DEF Next

\* The panel shows reviews that were stored together and, if it shows the answer
\* to its own review, all that this one found, unless it was replaced already.
THEOREM PanelShowsTheStored == Spec => []PanelShowsStoredReviews
<1>1. Init => panel \in PanelState /\ PanelInv
  <2> SUFFICES ASSUME Init PROVE panel \in PanelState /\ PanelInv
    OBVIOUS
  <2>1. \A q \in Calls : call[q].view = {} /\ call[q].at = "idle" /\ ~call[q].heard
    BY DEF Init, IdleCall
  <2>2. panel \in PanelState /\ panel.reviews = {} /\ panel.from = NoCall
    BY DEF Init, PanelState
  <2> QED
    BY <2>1, <2>2, ReviewAssumption DEF PanelInv, Together
<1>2. RInv /\ panel \in PanelState /\ PanelInv /\ [Next]_vars
        => (panel \in PanelState)' /\ PanelInv'
  BY PanelTyped, PanelStep
<1>3. PanelInv => PanelShowsStoredReviews
  BY DEF PanelInv, Together, AnswerTo, PanelShowsStoredReviews
<1> QED
  BY <1>1, <1>2, <1>3, ReviewInvariant, PTL DEF Spec
=============================================================================
