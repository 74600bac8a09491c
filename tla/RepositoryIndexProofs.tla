------------------------ MODULE RepositoryIndexProofs ------------------------
(***************************************************************************)
(* For any files, contents, requests and pushes: the index is built by     *)
(* steps of the processing jobs, its rows are nested as the foreign keys   *)
(* demand, no embedding is of another text than its chunk's, and a run     *)
(* that nothing disturbed leaves the branch indexed and keeps what was     *)
(* right.                                                                  *)
(***************************************************************************)
EXTENDS RepositoryIndex, RepositoryProcessingProofs

CallPlaces == {"idle", "asking", "writing", "written"}
CallState == [stage : Stages, at : CallPlaces, view : Tree,
              todo : SUBSET Paths, lost : SUBSET Paths]

-----------------------------------------------------------------------------
(* The index implements the processing jobs                                *)

LEMMA ProcessingSimulation ==
  ASSUME [Next]_vars
  PROVE  [ProcessingNext]_processingVars
<1>1. CASE UNCHANGED vars
  BY <1>1 DEF vars
<1>2. ASSUME NEW c \in Callers, CallStep(c) PROVE [ProcessingNext]_processingVars
  BY <1>2 DEF CallStep, End, Fetch, WriteMetadata, WriteFiles, WriteChunks, EmbedBatch,
              ProcessingNext, WorkerStep
<1>3. ASSUME NEW c \in Calls, RequestThrows(c) \/ \E s \in Stages : BeginRequest(c, s)
      PROVE  UNCHANGED processingVars
  BY <1>3 DEF RequestThrows, BeginRequest, Begin
<1>4. CASE BeginStage \/ StageFails
  BY <1>4 DEF BeginStage, Begin, StageFails, ProcessingNext, WorkerStep
<1>5. CASE \E p \in Paths, content \in Contents \cup {NoFile} : Push(p, content)
  BY <1>5 DEF Push
<1>6. CASE ToggleConnection \/ RemoveIndex \/ CrashAll
  BY <1>6 DEF ToggleConnection, RemoveIndex, CrashAll, ProcessingNext
<1>7. CASE JobStep
  BY <1>7 DEF JobStep, ProcessingNext, WorkerStep
<1> QED
  BY <1>1, <1>2, <1>3, <1>4, <1>5, <1>6, <1>7 DEF Next

\* The stages of the index are the stages that RepositoryProcessing leaves
\* open: every behaviour of the composition is one of the processing jobs.
THEOREM IndexImplementsProcessing == Spec => ProcessingSpec
<1>1. Init => ProcessingInit
  BY DEF Init
<1> QED
  BY <1>1, ProcessingSimulation, PTL DEF Spec, ProcessingSpec

-----------------------------------------------------------------------------
(* The inductive invariant                                                 *)

GithubTyped == connected \in BOOLEAN /\ calm \in BOOLEAN /\ pushes \in 0..MaxPushes
TablesTyped ==
  branch \in Tree /\ files \in Tree /\ chunks \in Tree /\ embeddings \in Tree
CallsTyped == call \in [Callers -> CallState]
Nested ==
  /\ \A p \in Paths : /\ files[p] = NoFile => chunks[p] = NoFile
                      /\ chunks[p] = NoFile => embeddings[p] = NoFile
  /\ ~present => files = Nothing

\* The rows that a stage has read and has not lost are there still.  The
\* content of a file may have changed; that of a chunk never does.
ReadBy(c) ==
  /\ call[c].at = "asking" => call[c].stage \in {"SYNCING", "INGESTING"}
  /\ call[c].stage = "CHUNKING" =>
       \A p \in call[c].todo \ call[c].lost : files[p] # NoFile /\ call[c].view[p] # NoFile
  /\ call[c].stage = "EMBEDDING" =>
       \A p \in call[c].todo \ call[c].lost : call[c].view[p] = chunks[p]
                                              /\ chunks[p] # NoFile
RowsRead == \A c \in Callers : Busy(c) => ReadBy(c)

IndexInv == GithubTyped /\ TablesTyped /\ CallsTyped /\ Nested /\ RowsRead
            /\ EmbeddingOfItsChunk

LEMMA TypeOfParts == IndexInv => IndexTypeOK /\ EmbeddingOfItsChunk
  BY DEF IndexInv, GithubTyped, TablesTyped, CallsTyped, Nested, IndexTypeOK,
         CallState, CallPlaces

LEMMA NoCallTyped ==
  /\ NoCall \in CallState /\ NoCall.at = "idle" /\ NoCall.todo = {} /\ NoCall.lost = {}
  /\ Nothing \in Tree
  BY DEF NoCall, CallState, CallPlaces, Nothing, Tree, Stages

LEMMA IndexInit == Init => IndexInv
<1> SUFFICES ASSUME Init PROVE IndexInv
  OBVIOUS
<1>1. GithubTyped
  <2>1. connected = TRUE /\ calm = FALSE /\ pushes = 0
    BY DEF Init
  <2>2. 0 \in 0..MaxPushes
    BY IndexAssumption
  <2> QED
    BY <2>1, <2>2, Zenon DEF GithubTyped
<1>2. TablesTyped
  BY NoCallTyped DEF Init, TablesTyped
<1>3. CallsTyped /\ RowsRead
  BY NoCallTyped DEF Init, CallsTyped, RowsRead, Busy
<1>4. Nested /\ EmbeddingOfItsChunk
  BY DEF Init, Nested, EmbeddingOfItsChunk, Nothing
<1> QED
  BY <1>1, <1>2, <1>3, <1>4 DEF IndexInv

\* What a call is after rows were deleted under it.
LEMMA LosingFact ==
  ASSUME CallsTyped, NEW P \in SUBSET Paths, NEW S
  PROVE  /\ Losing(P, S) \in [Callers -> CallState]
         /\ \A d \in Callers :
              /\ Losing(P, S)[d].at = call[d].at
              /\ Losing(P, S)[d].stage = call[d].stage
              /\ Losing(P, S)[d].view = call[d].view
              /\ Losing(P, S)[d].todo = call[d].todo
              /\ call[d].lost \subseteq Losing(P, S)[d].lost
              /\ Busy(d) /\ call[d].stage \in S => P \subseteq Losing(P, S)[d].lost
<1> DEFINE Lost(d) == IF Busy(d) /\ call[d].stage \in S
                      THEN [call[d] EXCEPT !.lost = @ \cup P] ELSE call[d]
<1>1. ASSUME NEW d \in Callers
      PROVE  /\ Lost(d) \in CallState
             /\ Lost(d).at = call[d].at /\ Lost(d).stage = call[d].stage
             /\ Lost(d).view = call[d].view /\ Lost(d).todo = call[d].todo
             /\ call[d].lost \subseteq Lost(d).lost
             /\ Busy(d) /\ call[d].stage \in S => P \subseteq Lost(d).lost
  <2>1. call[d] \in CallState
    BY DEF CallsTyped
  <2> QED
    BY <2>1 DEF CallState
<1>2. Losing(P, S) = [d \in Callers |-> Lost(d)]
  BY DEF Losing
<1> HIDE DEF Lost
<1> QED
  BY <1>1, <1>2

LEMMA ClearedFact ==
  ASSUME NEW f \in Tree, NEW P \in SUBSET Paths
  PROVE  /\ Cleared(f, P) \in Tree
         /\ \A p \in Paths : Cleared(f, P)[p] = IF p \in P THEN NoFile ELSE f[p]
  BY DEF Cleared, Tree

\* What call c wrote to its own state.
LEMMA OwnCall ==
  ASSUME CallsTyped, NEW c \in Callers,
         NEW L \in [Callers -> CallState], NEW r \in CallState,
         call' = [L EXCEPT ![c] = r]
  PROVE  /\ CallsTyped' /\ call'[c] = r
         /\ \A d \in Callers : d # c => call'[d] = L[d]
  BY DEF CallsTyped

-----------------------------------------------------------------------------
(* The steps of the stages                                                 *)

\* A call that ends, or has begun nothing, has nothing to have read.
LEMMA ForgottenCall ==
  ASSUME CallsTyped, RowsRead, NEW c \in Callers,
         call' = [call EXCEPT ![c] = NoCall], UNCHANGED <<files, chunks>>
  PROVE  CallsTyped' /\ RowsRead'
<1>1. CallsTyped' /\ call'[c].at = "idle"
      /\ \A d \in Callers : d # c => call'[d] = call[d]
  BY NoCallTyped, OwnCall DEF CallsTyped
<1> QED
  BY <1>1 DEF RowsRead, ReadBy, Busy

LEMMA BeginInv ==
  ASSUME IndexInv, NEW c \in Callers, NEW stage \in Stages, Begin(c, stage),
         calm' \in BOOLEAN
  PROVE  IndexInv'
<1>0. GithubTyped /\ TablesTyped /\ CallsTyped /\ Nested /\ RowsRead /\ EmbeddingOfItsChunk
  BY DEF IndexInv
<1>1. GithubTyped' /\ TablesTyped' /\ Nested' /\ EmbeddingOfItsChunk'
  BY <1>0 DEF Begin, GithubTyped, TablesTyped, Nested, EmbeddingOfItsChunk, github,
              tables, processingVars
<1>2. Begun(stage) \in CallState
  <2>1. Unchunked \in SUBSET Paths /\ Unembedded \in SUBSET Paths
    BY DEF Unchunked, Unembedded
  <2> QED
    BY <2>1, <1>0, NoCallTyped DEF Begun, CallState, CallPlaces, TablesTyped, Stages
<1>3. /\ Begun(stage).stage = stage
      /\ Begun(stage).at = "asking" => stage \in {"SYNCING", "INGESTING"}
      /\ stage = "CHUNKING" => Begun(stage).view = files /\ Begun(stage).todo = Unchunked
      /\ stage = "EMBEDDING" => Begun(stage).view = chunks /\ Begun(stage).todo = Unembedded
  BY NoCallTyped DEF Begun, NoCall, Stages
<1>4. CallsTyped' /\ call'[c] = Begun(stage)
      /\ \A d \in Callers : d # c => call'[d] = call[d]
  BY <1>0, <1>2, OwnCall DEF Begin, CallsTyped
<1>5. UNCHANGED <<files, chunks>>
  BY DEF Begin, tables
<1>6. ReadBy(c)'
  BY <1>3, <1>4, <1>5 DEF ReadBy, Unchunked, Unembedded
<1>7. RowsRead'
  BY <1>0, <1>4, <1>5, <1>6 DEF RowsRead, ReadBy, Busy
<1> QED
  BY <1>0, <1>1, <1>4, <1>7 DEF IndexInv

\* A step that ends calls and touches no row.
LEMMA EndInv ==
  ASSUME IndexInv, NEW c \in Callers, call' = [call EXCEPT ![c] = NoCall],
         UNCHANGED <<github, tables, calm, present>>
  PROVE  IndexInv'
<1>0. GithubTyped /\ TablesTyped /\ CallsTyped /\ Nested /\ RowsRead /\ EmbeddingOfItsChunk
  BY DEF IndexInv
<1>1. GithubTyped' /\ TablesTyped' /\ Nested' /\ EmbeddingOfItsChunk'
  BY <1>0 DEF GithubTyped, TablesTyped, Nested, EmbeddingOfItsChunk, github, tables
<1>2. CallsTyped' /\ RowsRead'
  BY <1>0, ForgottenCall DEF tables
<1> QED
  BY <1>1, <1>2 DEF IndexInv

\* getRepositoryFiles returns files as they are in the tree, and every text
\* file if there are no more than MaxFiles.
LEMMA ReadFact ==
  ASSUME NEW tree \in Tree
  PROVE  /\ Read(tree) \in Tree
         /\ \A p \in Paths : Read(tree)[p] # NoFile =>
              Read(tree)[p] = tree[p] /\ tree[p] # Binary
         /\ \A p \in Paths : Read(tree)[p] = NoFile /\ Cardinality(Listed(tree)) <= MaxFiles
              => tree[p] \in {NoFile, Binary}
<1> DEFINE before(p) == {q \in Listed(tree) : q < p}
<1>1. Read(tree) = [p \in Paths |->
                      IF p \in Listed(tree) /\ Cardinality(before(p)) < MaxFiles
                         /\ tree[p] # Binary THEN tree[p] ELSE NoFile]
  BY DEF Read
<1>2. ASSUME NEW p \in Listed(tree), Cardinality(Listed(tree)) <= MaxFiles
      PROVE  Cardinality(before(p)) < MaxFiles
  <2>1. Paths \subseteq Nat /\ IsFiniteSet(Paths) /\ MaxFiles \in Nat /\ p \in Nat
    BY IndexAssumption DEF Listed
  <2>2. IsFiniteSet(Listed(tree))
    BY <2>1, FS_Subset DEF Listed
  <2>3. before(p) \subseteq Listed(tree) /\ p \notin before(p)
    BY <2>1 DEF Listed
  <2>4. /\ Cardinality(before(p)) \in Nat /\ Cardinality(Listed(tree)) \in Nat
        /\ Cardinality(before(p)) < Cardinality(Listed(tree))
    <3>1. /\ IsFiniteSet(before(p))
          /\ Cardinality(before(p)) <= Cardinality(Listed(tree))
          /\ Cardinality(before(p)) = Cardinality(Listed(tree)) => before(p) = Listed(tree)
      BY <2>2, <2>3, FS_Subset
    <3>2. Cardinality(before(p)) \in Nat /\ Cardinality(Listed(tree)) \in Nat
      BY <2>2, <3>1, FS_CardinalityType
    <3>3. before(p) # Listed(tree)
      BY <2>3
    <3> HIDE DEF before
    <3> QED
      BY <3>1, <3>2, <3>3
  <2> HIDE DEF before
  <2> QED
    BY <1>2, <2>1, <2>4
<1> HIDE DEF before
<1> QED
  BY <1>1, <1>2 DEF Tree, Listed

LEMMA FetchInv ==
  ASSUME IndexInv, NEW c \in Callers, Fetch(c)
  PROVE  IndexInv'
<1>0. GithubTyped /\ TablesTyped /\ CallsTyped /\ Nested /\ RowsRead /\ EmbeddingOfItsChunk
  BY DEF IndexInv
<1>1. GithubTyped' /\ TablesTyped' /\ Nested' /\ EmbeddingOfItsChunk'
  BY <1>0 DEF Fetch, GithubTyped, TablesTyped, Nested, EmbeddingOfItsChunk, github,
              tables, processingVars
<1> DEFINE r == [call[c] EXCEPT !.at = "writing",
                   !.view = IF call[c].stage = "INGESTING" THEN Read(branch)
                                                           ELSE Nothing]
<1>2. r \in CallState /\ r.stage = call[c].stage
  BY <1>0, NoCallTyped, ReadFact DEF CallsTyped, TablesTyped, CallState, CallPlaces
<1>3. call' = [call EXCEPT ![c] = r]
  BY <1>0 DEF Fetch, CallsTyped, CallState
<1>4. CallsTyped' /\ call'[c].stage = call[c].stage
      /\ \A d \in Callers : d # c => call'[d] = call[d]
  <2>1. CallsTyped' /\ call'[c] = r /\ \A d \in Callers : d # c => call'[d] = call[d]
    <3> HIDE DEF r
    <3> QED
      BY <1>0, <1>2, <1>3, OwnCall DEF CallsTyped
  <2> QED
    BY <2>1, <1>2
<1>5. call[c].stage \in {"SYNCING", "INGESTING"} /\ UNCHANGED <<files, chunks>>
  BY <1>0 DEF Fetch, RowsRead, ReadBy, Busy, tables
<1>6. RowsRead'
  BY <1>0, <1>4, <1>5 DEF RowsRead, ReadBy, Busy
<1> QED
  BY <1>1, <1>4, <1>6 DEF IndexInv

LEMMA MetadataInv ==
  ASSUME IndexInv, NEW c \in Callers, WriteMetadata(c)
  PROVE  IndexInv'
<1>0. GithubTyped /\ TablesTyped /\ CallsTyped /\ Nested /\ RowsRead /\ EmbeddingOfItsChunk
  BY DEF IndexInv
<1>1. GithubTyped' /\ TablesTyped' /\ Nested' /\ EmbeddingOfItsChunk'
  BY <1>0 DEF WriteMetadata, GithubTyped, TablesTyped, Nested, EmbeddingOfItsChunk,
              github, tables, processingVars
<1> DEFINE r == [call[c] EXCEPT !.at = "written"]
<1>2. r \in CallState /\ r.stage = "SYNCING"
  BY <1>0 DEF WriteMetadata, CallsTyped, CallState, CallPlaces
<1>3. call' = [call EXCEPT ![c] = r]
  BY <1>0 DEF WriteMetadata, CallsTyped, CallState
<1>4. CallsTyped' /\ call'[c].stage = "SYNCING"
      /\ \A d \in Callers : d # c => call'[d] = call[d]
  BY <1>0, <1>2, <1>3, OwnCall DEF CallsTyped
<1>5. RowsRead'
  BY <1>0, <1>4 DEF WriteMetadata, RowsRead, ReadBy, Busy, tables
<1> QED
  BY <1>1, <1>4, <1>5 DEF IndexInv

LEMMA FilesInv ==
  ASSUME IndexInv, NEW c \in Callers, WriteFiles(c)
  PROVE  IndexInv'
<1>0. GithubTyped /\ TablesTyped /\ CallsTyped /\ Nested /\ RowsRead /\ EmbeddingOfItsChunk
  BY DEF IndexInv
<1> DEFINE gone == {p \in Paths : files[p] # NoFile /\ call[c].view[p] = NoFile}
           L == Losing(gone, {"CHUNKING", "EMBEDDING"})
           r == [L[c] EXCEPT !.at = "written"]
<1>1. /\ call[c].stage = "INGESTING" /\ call[c].at = "writing" /\ present
      /\ files' = call[c].view /\ chunks' = Cleared(chunks, gone)
      /\ embeddings' = Cleared(embeddings, gone)
      /\ call' = [L EXCEPT ![c].at = "written"]
      /\ UNCHANGED <<present, connected, branch, pushes, calm>>
  BY DEF WriteFiles, processingVars, github
<1>2. gone \in SUBSET Paths /\ call[c].view \in Tree
  BY <1>0 DEF CallsTyped, CallState
<1> HIDE DEF L
<1>3. /\ L \in [Callers -> CallState]
      /\ \A d \in Callers :
           /\ L[d].at = call[d].at
           /\ L[d].stage = call[d].stage
           /\ L[d].view = call[d].view
           /\ L[d].todo = call[d].todo
           /\ call[d].lost \subseteq L[d].lost
           /\ Busy(d) /\ call[d].stage \in {"CHUNKING", "EMBEDDING"}
                => gone \subseteq L[d].lost
  <2> HIDE DEF gone
  <2> QED
    BY <1>0, <1>2, LosingFact DEF L
<1>4. r \in CallState /\ r.stage = "INGESTING" /\ r.at = "written"
  BY <1>1, <1>3 DEF CallState, CallPlaces
<1>5. call' = [L EXCEPT ![c] = r]
  BY <1>1, <1>3 DEF CallState
<1> HIDE DEF r
<1>6. CallsTyped' /\ call'[c] = r /\ \A d \in Callers : d # c => call'[d] = L[d]
  BY <1>0, <1>3, <1>4, <1>5, OwnCall
<1>7. /\ chunks' \in Tree /\ embeddings' \in Tree
      /\ \A p \in Paths : /\ chunks'[p] = IF p \in gone THEN NoFile ELSE chunks[p]
                          /\ embeddings'[p] = IF p \in gone THEN NoFile ELSE embeddings[p]
  <2> HIDE DEF gone
  <2> QED
    BY <1>0, <1>1, <1>2, ClearedFact DEF TablesTyped
<1>8. GithubTyped' /\ TablesTyped' /\ Nested' /\ EmbeddingOfItsChunk'
  BY <1>0, <1>1, <1>2, <1>7 DEF GithubTyped, TablesTyped, Nested, EmbeddingOfItsChunk
<1>9. ASSUME NEW d \in Callers, d # c, Busy(d)' PROVE ReadBy(d)'
  <2>1. Busy(d) /\ ReadBy(d)
    BY <1>0, <1>3, <1>6, <1>9 DEF RowsRead, Busy
  <2>2. call[d].todo \subseteq Paths
    BY <1>0 DEF CallsTyped, CallState
  <2>3. call'[d] = L[d]
    BY <1>6, <1>9
  <2> QED
    BY <2>1, <2>2, <2>3, <1>1, <1>3, <1>7 DEF ReadBy
<1>10. RowsRead'
  BY <1>4, <1>6, <1>9 DEF RowsRead, ReadBy
<1> QED
  BY <1>6, <1>8, <1>10 DEF IndexInv

\* The chunks of file p are replaced by those of content, or by none.
Replaced(c, p, content) ==
  /\ p \notin call[c].lost
  /\ chunks' = [chunks EXCEPT ![p] = content]
  /\ embeddings' = Cleared(embeddings, {p})
  /\ call' = [Losing({p}, {"EMBEDDING"}) EXCEPT ![c].todo = @ \ {p}]

LEMMA ReplacedInv ==
  ASSUME IndexInv, NEW c \in Callers, call[c].stage = "CHUNKING", Busy(c),
         NEW p \in call[c].todo, NEW content \in {NoFile, call[c].view[p]},
         Replaced(c, p, content),
         UNCHANGED <<present, github, files, calm>>
  PROVE  IndexInv'
<1>0. GithubTyped /\ TablesTyped /\ CallsTyped /\ Nested /\ RowsRead /\ EmbeddingOfItsChunk
  BY DEF IndexInv
<1> DEFINE L == Losing({p}, {"EMBEDDING"})
           r == [L[c] EXCEPT !.todo = @ \ {p}]
<1>1. /\ p \notin call[c].lost /\ chunks' = [chunks EXCEPT ![p] = content]
      /\ embeddings' = Cleared(embeddings, {p})
      /\ call' = [L EXCEPT ![c].todo = @ \ {p}]
      /\ UNCHANGED <<present, connected, branch, pushes, files, calm>>
  BY DEF Replaced, github
<1>2. p \in Paths /\ content \in Contents \cup {NoFile} /\ {p} \in SUBSET Paths
  BY <1>0 DEF CallsTyped, CallState, Tree
<1> HIDE DEF L
<1>3. /\ L \in [Callers -> CallState]
      /\ \A d \in Callers :
           /\ L[d].at = call[d].at
           /\ L[d].stage = call[d].stage
           /\ L[d].view = call[d].view
           /\ L[d].todo = call[d].todo
           /\ call[d].lost \subseteq L[d].lost
           /\ Busy(d) /\ call[d].stage \in {"EMBEDDING"} => {p} \subseteq L[d].lost
  BY <1>0, <1>2, LosingFact DEF L
<1>4. /\ r \in CallState /\ r.stage = "CHUNKING" /\ r.at = call[c].at
      /\ r.view = call[c].view /\ r.todo \subseteq call[c].todo
      /\ call[c].lost \subseteq r.lost
  <2>1. L[c] \in CallState
    BY <1>3
  <2> QED
    BY <2>1, <1>3 DEF CallState
<1>5. call' = [L EXCEPT ![c] = r]
  BY <1>1, <1>3 DEF CallState
<1> HIDE DEF r
<1>6. CallsTyped' /\ call'[c] = r /\ \A d \in Callers : d # c => call'[d] = L[d]
  BY <1>0, <1>3, <1>4, <1>5, OwnCall
<1>7. /\ chunks' \in Tree /\ embeddings' \in Tree
      /\ \A x \in Paths : /\ chunks'[x] = IF x = p THEN content ELSE chunks[x]
                          /\ embeddings'[x] = IF x = p THEN NoFile ELSE embeddings[x]
  <2>1. chunks' \in Tree /\ \A x \in Paths : chunks'[x] = IF x = p THEN content ELSE chunks[x]
    BY <1>0, <1>1, <1>2 DEF TablesTyped, Tree
  <2> QED
    BY <2>1, <1>0, <1>1, <1>2, ClearedFact DEF TablesTyped
<1>8. files[p] # NoFile
  BY <1>0, <1>1 DEF RowsRead, ReadBy
<1>9. GithubTyped' /\ TablesTyped' /\ Nested' /\ EmbeddingOfItsChunk'
  <2>1. GithubTyped' /\ TablesTyped'
    BY <1>0, <1>1, <1>7 DEF GithubTyped, TablesTyped
  <2>2. ~present' => files' = Nothing
    BY <1>0, <1>1 DEF Nested
  <2>3. ASSUME NEW x \in Paths
        PROVE  /\ files'[x] = NoFile => chunks'[x] = NoFile
               /\ chunks'[x] = NoFile => embeddings'[x] = NoFile
               /\ embeddings'[x] # NoFile => embeddings'[x] = chunks'[x]
    <3>1. CASE x = p
      BY <3>1, <1>1, <1>7, <1>8
    <3>2. CASE x # p
      <4>1. chunks'[x] = chunks[x] /\ embeddings'[x] = embeddings[x] /\ files'[x] = files[x]
        BY <3>2, <1>1, <1>7
      <4> QED
        BY <4>1, <1>0 DEF Nested, EmbeddingOfItsChunk
    <3> QED
      BY <3>1, <3>2
  <2>4. Nested' /\ EmbeddingOfItsChunk'
    BY <2>2, <2>3 DEF Nested, EmbeddingOfItsChunk
  <2> QED
    BY <2>1, <2>4
<1>10. ReadBy(c)'
  <2>1. ReadBy(c)
    BY <1>0 DEF RowsRead
  <2> QED
    BY <2>1, <1>1, <1>4, <1>6 DEF ReadBy
<1>11. ASSUME NEW d \in Callers, d # c, Busy(d)' PROVE ReadBy(d)'
  <2>1. Busy(d) /\ ReadBy(d)
    BY <1>0, <1>3, <1>6, <1>11 DEF RowsRead, Busy
  <2>2. call[d].todo \subseteq Paths
    BY <1>0 DEF CallsTyped, CallState
  <2>3. call'[d] = L[d]
    BY <1>6, <1>11
  <2> QED
    BY <2>1, <2>2, <2>3, <1>1, <1>3, <1>7 DEF ReadBy
<1> QED
  BY <1>6, <1>9, <1>10, <1>11 DEF IndexInv, RowsRead

\* A call has done a part of its work and no row that it or another has read
\* has gone.
LEMMA LessTodo ==
  ASSUME CallsTyped, RowsRead, NEW c \in Callers, NEW done \in SUBSET Paths,
         call' = [call EXCEPT ![c].todo = @ \ done], UNCHANGED <<files, chunks>>
  PROVE  CallsTyped' /\ RowsRead'
<1> DEFINE r == [call[c] EXCEPT !.todo = @ \ done]
<1>1. /\ r \in CallState /\ r.stage = call[c].stage /\ r.at = call[c].at
      /\ r.view = call[c].view /\ r.todo \subseteq call[c].todo
      /\ r.lost = call[c].lost
  BY DEF CallsTyped, CallState
<1>2. call' = [call EXCEPT ![c] = r]
  BY DEF CallsTyped, CallState
<1> HIDE DEF r
<1>3. CallsTyped' /\ call'[c] = r /\ \A d \in Callers : d # c => call'[d] = call[d]
  BY <1>1, <1>2, OwnCall DEF CallsTyped
<1>4. ASSUME NEW d \in Callers, Busy(d)' PROVE ReadBy(d)'
  <2>1. Busy(d) /\ ReadBy(d)
    BY <1>1, <1>3, <1>4 DEF RowsRead, Busy
  <2>2. CASE d = c
    BY <2>1, <2>2, <1>1, <1>3 DEF ReadBy
  <2>3. CASE d # c
    BY <2>1, <2>3, <1>3 DEF ReadBy
  <2> QED
    BY <2>2, <2>3
<1> QED
  BY <1>3, <1>4 DEF RowsRead

LEMMA ChunksInv ==
  ASSUME IndexInv, NEW c \in Callers, WriteChunks(c)
  PROVE  IndexInv'
<1>0. GithubTyped /\ TablesTyped /\ CallsTyped /\ Nested /\ RowsRead /\ EmbeddingOfItsChunk
  BY DEF IndexInv
<1>1. /\ call[c].stage = "CHUNKING" /\ Busy(c)
      /\ UNCHANGED <<present, github, files, calm>>
  BY DEF WriteChunks, Busy, processingVars
<1>2. PICK p \in call[c].todo :
        \/ Replaced(c, p, call[c].view[p])
        \/ chunks' = Cleared(chunks, {p}) /\ p \notin call[c].lost
           /\ embeddings' = Cleared(embeddings, {p})
           /\ call' = [Losing({p}, {"EMBEDDING"}) EXCEPT ![c].todo = @ \ {p}]
        \/ UNCHANGED <<chunks, embeddings>>
           /\ call' = [call EXCEPT ![c].todo = @ \ {p}]
  BY DEF WriteChunks, Replaced
<1>3. p \in Paths
  BY <1>0 DEF CallsTyped, CallState
<1>4. CASE \E content \in {NoFile, call[c].view[p]} : Replaced(c, p, content)
  BY <1>1, <1>4, ReplacedInv
<1>5. CASE chunks' = Cleared(chunks, {p}) /\ p \notin call[c].lost
           /\ embeddings' = Cleared(embeddings, {p})
           /\ call' = [Losing({p}, {"EMBEDDING"}) EXCEPT ![c].todo = @ \ {p}]
  <2>1. Cleared(chunks, {p}) = [chunks EXCEPT ![p] = NoFile]
    BY <1>0, <1>3 DEF Cleared, TablesTyped, Tree
  <2> QED
    BY <2>1, <1>4, <1>5 DEF Replaced
<1>6. CASE UNCHANGED <<chunks, embeddings>>
           /\ call' = [call EXCEPT ![c].todo = @ \ {p}]
  <2>1. {p} \in SUBSET Paths /\ UNCHANGED <<files, chunks>>
    BY <1>1, <1>3, <1>6
  <2>2. CallsTyped' /\ RowsRead'
    BY <2>1, <1>0, <1>6, LessTodo
  <2> QED
    BY <2>2, <1>0, <1>1, <1>6 DEF IndexInv, GithubTyped, TablesTyped, Nested,
       EmbeddingOfItsChunk, github
<1> QED
  BY <1>2, <1>4, <1>5, <1>6

LEMMA EmbedInv ==
  ASSUME IndexInv, NEW c \in Callers, EmbedBatch(c)
  PROVE  IndexInv'
<1>0. GithubTyped /\ TablesTyped /\ CallsTyped /\ Nested /\ RowsRead /\ EmbeddingOfItsChunk
  BY DEF IndexInv
<1>1. /\ call[c].stage = "EMBEDDING" /\ Busy(c)
      /\ UNCHANGED <<present, connected, branch, pushes, files, chunks, calm>>
  BY DEF EmbedBatch, Busy, processingVars, github
<1>2. PICK batch \in SUBSET call[c].todo :
        /\ batch \cap call[c].lost = {}
        /\ embeddings' = [p \in Paths |-> IF p \in batch THEN call[c].view[p]
                                                         ELSE embeddings[p]]
        /\ call' = [call EXCEPT ![c].todo = @ \ batch]
  BY DEF EmbedBatch
<1>3. batch \in SUBSET Paths
  BY <1>0 DEF CallsTyped, CallState
<1>4. CallsTyped' /\ RowsRead'
  BY <1>0, <1>1, <1>2, <1>3, LessTodo
<1>5. \A p \in batch : call[c].view[p] = chunks[p] /\ chunks[p] # NoFile
  BY <1>0, <1>1, <1>2 DEF RowsRead, ReadBy
<1>6. embeddings' \in Tree
  BY <1>0, <1>2, <1>3, <1>5 DEF TablesTyped, Tree
<1>7. \A p \in Paths : embeddings'[p] = IF p \in batch THEN chunks[p] ELSE embeddings[p]
  BY <1>2, <1>5
<1>8. GithubTyped' /\ TablesTyped' /\ Nested' /\ EmbeddingOfItsChunk'
  BY <1>0, <1>1, <1>6, <1>7 DEF GithubTyped, TablesTyped, Nested, EmbeddingOfItsChunk
<1> QED
  BY <1>4, <1>8 DEF IndexInv

-----------------------------------------------------------------------------
(* The other steps                                                         *)

\* A step that touches neither a row nor a call.
LEMMA QuietInv ==
  ASSUME IndexInv, UNCHANGED <<tables, call>>,
         present' = present,
         connected' \in BOOLEAN, calm' \in BOOLEAN, pushes' \in 0..MaxPushes,
         branch' \in Tree
  PROVE  IndexInv'
<1>0. GithubTyped /\ TablesTyped /\ CallsTyped /\ Nested /\ RowsRead /\ EmbeddingOfItsChunk
  BY DEF IndexInv
<1>1. UNCHANGED <<files, chunks, embeddings, call>>
  BY DEF tables
<1>2. GithubTyped'
  BY DEF GithubTyped
<1>3. TablesTyped' /\ CallsTyped'
  BY <1>0, <1>1 DEF TablesTyped, CallsTyped
<1>4. Nested' /\ RowsRead' /\ EmbeddingOfItsChunk'
  BY <1>0, <1>1 DEF Nested, RowsRead, ReadBy, Busy, EmbeddingOfItsChunk
<1> QED
  BY <1>2, <1>3, <1>4 DEF IndexInv

LEMMA PushInv ==
  ASSUME IndexInv, NEW p \in Paths, NEW content \in Contents \cup {NoFile},
         Push(p, content)
  PROVE  IndexInv'
<1>1. UNCHANGED <<tables, call, present, connected>> /\ calm' \in BOOLEAN
  BY DEF Push, processingVars
<1>2. pushes' \in 0..MaxPushes
  BY IndexAssumption DEF Push, IndexInv, GithubTyped
<1>3. branch' \in Tree
  BY DEF Push, IndexInv, TablesTyped, Tree
<1>4. connected' \in BOOLEAN
  BY <1>1 DEF IndexInv, GithubTyped
<1> QED
  BY <1>1, <1>2, <1>3, <1>4, QuietInv

LEMMA ToggleInv ==
  ASSUME IndexInv, ToggleConnection
  PROVE  IndexInv'
<1>1. UNCHANGED <<tables, call, present, branch, pushes, calm>>
  BY DEF ToggleConnection, processingVars
<1>2. connected' \in BOOLEAN
  BY DEF ToggleConnection
<1>3. calm' \in BOOLEAN /\ pushes' \in 0..MaxPushes /\ branch' \in Tree
  BY <1>1 DEF IndexInv, GithubTyped, TablesTyped
<1> QED
  BY <1>1, <1>2, <1>3, QuietInv

LEMMA JobInv ==
  ASSUME IndexInv, JobStep
  PROVE  IndexInv'
<1>1. UNCHANGED <<tables, call, branch, pushes, connected>>
  BY DEF JobStep, github
<1>2. UNCHANGED present
  BY DEF JobStep, Look, EnqueueStep, CreateRun, AddJob, FailQueuedRun,
         EnqueueDatabaseFault, Take, Stall, UpdateStage, Complete, FailRun,
         WorkerDatabaseFault, Finish
<1>3. calm' \in BOOLEAN
  BY DEF JobStep, IndexInv, GithubTyped
<1>4. connected' \in BOOLEAN /\ pushes' \in 0..MaxPushes /\ branch' \in Tree
  BY <1>1 DEF IndexInv, GithubTyped, TablesTyped
<1> QED
  BY <1>1, <1>2, <1>3, <1>4, QuietInv

LEMMA RemoveInv ==
  ASSUME IndexInv, RemoveIndex
  PROVE  IndexInv'
<1>0. GithubTyped /\ TablesTyped /\ CallsTyped /\ Nested /\ RowsRead /\ EmbeddingOfItsChunk
  BY DEF IndexInv
<1>1. /\ files' = Nothing /\ chunks' = Nothing /\ embeddings' = Nothing
      /\ UNCHANGED <<connected, branch, pushes, calm>>
      /\ call' = Losing(Paths, Stages)
  BY DEF RemoveIndex, github
<1>2. GithubTyped' /\ TablesTyped'
  BY <1>0, <1>1, NoCallTyped DEF GithubTyped, TablesTyped
<1>3. Nested' /\ EmbeddingOfItsChunk'
  BY <1>1 DEF Nested, EmbeddingOfItsChunk, Nothing
<1> DEFINE L == Losing(Paths, Stages)
<1> HIDE DEF L
<1>4. /\ L \in [Callers -> CallState]
      /\ \A d \in Callers :
           /\ L[d].at = call[d].at
           /\ L[d].stage = call[d].stage
           /\ L[d].todo = call[d].todo
           /\ Busy(d) /\ call[d].stage \in Stages => Paths \subseteq L[d].lost
  <2>1. Paths \in SUBSET Paths
    OBVIOUS
  <2> QED
    BY <2>1, <1>0, LosingFact DEF L
<1>5. call' = L /\ CallsTyped'
  BY <1>1, <1>4 DEF L, CallsTyped
<1>6. ASSUME NEW d \in Callers, Busy(d)' PROVE ReadBy(d)'
  <2>1. Busy(d) /\ ReadBy(d)
    BY <1>0, <1>4, <1>5, <1>6 DEF RowsRead, Busy
  <2>2. call[d].todo \subseteq Paths /\ call[d].stage \in Stages
    BY <1>0 DEF CallsTyped, CallState
  <2>3. call'[d].todo \ call'[d].lost = {}
    BY <2>1, <2>2, <1>4, <1>5
  <2> QED
    BY <2>1, <2>3, <1>4, <1>5 DEF ReadBy
<1> QED
  BY <1>2, <1>3, <1>5, <1>6 DEF IndexInv, RowsRead

LEMMA CrashInv ==
  ASSUME IndexInv, CrashAll
  PROVE  IndexInv'
<1>0. GithubTyped /\ TablesTyped /\ CallsTyped /\ Nested /\ RowsRead /\ EmbeddingOfItsChunk
  BY DEF IndexInv
<1>1. /\ UNCHANGED <<present, connected, branch, pushes, files, chunks, embeddings, calm>>
      /\ call' = [c \in Callers |-> NoCall]
  BY DEF CrashAll, Crash, github, tables
<1>2. GithubTyped' /\ TablesTyped' /\ Nested' /\ EmbeddingOfItsChunk'
  BY <1>0, <1>1 DEF GithubTyped, TablesTyped, Nested, EmbeddingOfItsChunk
<1>3. CallsTyped' /\ RowsRead'
  BY <1>1, NoCallTyped DEF CallsTyped, RowsRead, Busy
<1> QED
  BY <1>2, <1>3 DEF IndexInv

LEMMA IndexStep ==
  ASSUME ProcessingTypeOK, IndexInv, [Next]_vars
  PROVE  IndexInv'
<1>0. UNCHANGED <<tables, call, present, github, calm>> => IndexInv'
  <2> SUFFICES ASSUME UNCHANGED <<tables, call, present, github, calm>> PROVE IndexInv'
    OBVIOUS
  <2>1. connected' \in BOOLEAN /\ calm' \in BOOLEAN /\ pushes' \in 0..MaxPushes
        /\ branch' \in Tree
    BY DEF IndexInv, GithubTyped, TablesTyped, github
  <2> QED
    BY <2>1, QuietInv
<1>1. CASE UNCHANGED vars
  BY <1>0, <1>1 DEF vars, processingVars
<1>2. ASSUME NEW c \in Callers, CallStep(c) PROVE IndexInv'
  <2>1. CASE End(c)
    <3>1. UNCHANGED present
      BY <2>1 DEF End, StageEnds, processingVars
    <3> QED
      BY <2>1, <3>1, EndInv DEF End
  <2> QED
    BY <2>1, <1>2, FetchInv, MetadataInv, FilesInv, ChunksInv, EmbedInv DEF CallStep
<1>3. ASSUME NEW c \in Calls, RequestThrows(c) PROVE IndexInv'
  BY <1>3, EndInv DEF RequestThrows, Callers, processingVars
<1>4. ASSUME NEW c \in Calls, NEW s \in Stages, BeginRequest(c, s) PROVE IndexInv'
  BY <1>4, BeginInv DEF BeginRequest, Callers
<1>5. CASE BeginStage
  <2>1. worker.stage \in Stages /\ Worker \in Callers
    BY <1>5 DEF BeginStage, ProcessingTypeOK, Callers
  <2>2. calm' \in BOOLEAN
    BY <1>5 DEF BeginStage, IndexInv, GithubTyped
  <2> QED
    BY <2>1, <2>2, <1>5, BeginInv DEF BeginStage
<1>6. CASE StageFails
  <2>1. Worker \in Callers /\ UNCHANGED present
    BY <1>6 DEF StageFails, StageThrows, Callers
  <2> QED
    BY <2>1, <1>6, EndInv DEF StageFails
<1> QED
  BY <1>1, <1>2, <1>3, <1>4, <1>5, <1>6, PushInv, ToggleInv, RemoveInv, CrashInv,
     JobInv DEF Next

LEMMA IndexInvariant == Spec => []IndexInv
<1>1. Spec => []ProcessingTypeOK
  BY IndexImplementsProcessing, ProcessingTypeCorrect, PTL
<1> QED
  BY <1>1, IndexInit, IndexStep, PTL DEF Spec

\* Chunks belong to files and embeddings to chunks, whatever stages overlap.
THEOREM IndexTypeCorrect == Spec => []IndexTypeOK
  BY IndexInvariant, TypeOfParts, PTL

\* An embedding is of the text of its chunk, although the batch was read
\* before Ollama answered: the chunks that were replaced have new ids.
THEOREM EmbeddingsOfTheirChunks == Spec => []EmbeddingOfItsChunk
  BY IndexInvariant, TypeOfParts, PTL

\* The composition keeps what RepositoryProcessing promises of active runs.
THEOREM IndexRunsHaveJobs == Spec => []ActiveRunHasJob
  BY IndexImplementsProcessing, ActiveRunsHaveJobs, PTL

-----------------------------------------------------------------------------
(* What an undisturbed run has done                                        *)

\* The chunks of a content: none, if it has no text.
Text(content) == IF content = Blank THEN NoFile ELSE content

\* Every file that was read has its chunks and their embeddings.
Built ==
  /\ files = Read(branch)
  /\ \A p \in Paths : chunks[p] = Text(files[p]) /\ embeddings[p] = chunks[p]

\* What the stages before have done, for the stages that follow.
StagesDone ==
  /\ worker.at \in {"updating", "working"} =>
       /\ worker.stage \in {"CHUNKING", "EMBEDDING"} => files = Read(branch)
       /\ worker.stage = "EMBEDDING" => \A p \in Paths : chunks[p] = Text(files[p])
  /\ worker.at = "completing" => Built

\* What the worker's stage has read is what is there, and what it has not still
\* to do is done.
StageAtWork ==
  LET w == call[Worker] IN
  /\ w.lost = {}
  /\ w.stage = "INGESTING" => /\ w.at = "writing" => w.view = Read(branch)
                              /\ w.at = "written" => files = Read(branch)
  /\ w.stage = "CHUNKING" =>
       /\ w.at = "writing" /\ w.view = files
       /\ \A p \in Paths : IF p \in w.todo THEN chunks[p] # files[p]
                           ELSE chunks[p] = Text(files[p])
  /\ w.stage = "EMBEDDING" =>
       /\ w.at = "writing" /\ w.view = chunks
       /\ \A p \in Paths : p \in w.todo \/ embeddings[p] = chunks[p]

\* Inductive: a run is calm as long as no request is at work; then only the
\* worker's stage writes, and what it has written stays.
CalmInv ==
  /\ \A p \in Paths : chunks[p] # Blank
  /\ Busy(Worker) => worker.at = "working" /\ call[Worker].stage = worker.stage
  /\ calm => \A c \in Calls : ~Busy(c)
  /\ calm /\ present => StagesDone /\ (Busy(Worker) => StageAtWork)

\* A call whose stage is not one of S loses nothing.
LEMMA LosesNothing ==
  ASSUME NEW P, NEW S, NEW d \in Callers, call[d].stage \notin S
  PROVE  Losing(P, S)[d] = call[d]
  BY DEF Losing

\* Deleted rows leave every call in its stage.
LEMMA LosingStage ==
  ASSUME CallsTyped, NEW P \in SUBSET Paths, NEW S, NEW d \in Callers
  PROVE  Losing(P, S)[d].stage = call[d].stage
  BY LosingFact

\* A step of a stage is one of a busy call, and leaves the stages of the others.
LEMMA StageFrame ==
  ASSUME IndexInv, NEW c \in Callers, CallStep(c)
  PROVE  /\ Busy(c) /\ UNCHANGED <<calm, present, branch>>
         /\ \A d \in Callers \ {c} : call'[d].at = call[d].at /\ call'[d].stage = call[d].stage
         /\ ~End(c) => UNCHANGED worker
<1>a. CallsTyped /\ call \in [Callers -> CallState]
  BY DEF IndexInv, CallsTyped
<1>1. CASE End(c) \/ Fetch(c) \/ WriteMetadata(c) \/ EmbedBatch(c)
  BY <1>a, <1>1
  DEF End, Fetch, WriteMetadata, EmbedBatch, Busy, StageEnds, github, processingVars
<1>2. ASSUME NEW P \in SUBSET Paths, NEW S, NEW r,
             call' = [Losing(P, S) EXCEPT ![c] = r]
      PROVE  \A d \in Callers \ {c} : call'[d].at = call[d].at /\ call'[d].stage = call[d].stage
  <2> DEFINE L == Losing(P, S)
  <2>1. /\ L \in [Callers -> CallState]
        /\ \A d \in Callers : L[d].at = call[d].at /\ L[d].stage = call[d].stage
    BY <1>a, LosingFact
  <2>2. call' = [L EXCEPT ![c] = r]
    BY <1>2
  <2> HIDE DEF L
  <2> QED
    BY <2>1, <2>2
<1>3. CASE WriteFiles(c)
  <2> DEFINE gone == {p \in Paths : files[p] # NoFile /\ call[c].view[p] = NoFile}
             L == Losing(gone, {"CHUNKING", "EMBEDDING"})
  <2>1. call' = [L EXCEPT ![c].at = "written"] /\ gone \in SUBSET Paths
    BY <1>3 DEF WriteFiles
  <2> HIDE DEF gone
  <2>2. \A d \in Callers \ {c} : call'[d].at = call[d].at /\ call'[d].stage = call[d].stage
    BY <1>2, <2>1
  <2> QED
    BY <1>3, <2>2 DEF WriteFiles, Busy, github, processingVars
<1>4. CASE WriteChunks(c)
  <2>1. PICK p \in call[c].todo :
          \/ call' = [call EXCEPT ![c].todo = @ \ {p}]
          \/ call' = [Losing({p}, {"EMBEDDING"}) EXCEPT ![c].todo = @ \ {p}]
    BY <1>4 DEF WriteChunks
  <2>2. {p} \in SUBSET Paths
    BY <1>a DEF CallState
  <2>3. \A d \in Callers \ {c} : call'[d].at = call[d].at /\ call'[d].stage = call[d].stage
    BY <1>a, <1>2, <2>1, <2>2
  <2> QED
    BY <1>4, <2>3 DEF WriteChunks, Busy, github, processingVars
<1> QED
  BY <1>1, <1>3, <1>4 DEF CallStep

\* No step makes a chunk of a content without text.
LEMMA NoBlankStep ==
  ASSUME IndexInv, \A p \in Paths : chunks[p] # Blank, [Next]_vars
  PROVE  \A p \in Paths : chunks'[p] # Blank
<1>a. chunks \in Tree /\ Blank # NoFile
  BY IndexAssumption DEF IndexInv, TablesTyped
<1>1. ASSUME NEW c \in Callers, WriteFiles(c) PROVE \A p \in Paths : chunks'[p] # Blank
  BY <1>a, <1>1 DEF WriteFiles, Cleared
<1>2. ASSUME NEW c \in Callers, WriteChunks(c) PROVE \A p \in Paths : chunks'[p] # Blank
  BY <1>a, <1>2 DEF WriteChunks, Cleared, Tree
<1>3. CASE RemoveIndex
  BY <1>a, <1>3 DEF RemoveIndex, Nothing
<1>4. ASSUME NEW c \in Callers, CallStep(c), ~WriteFiles(c), ~WriteChunks(c)
      PROVE  UNCHANGED chunks
  BY <1>4 DEF CallStep, End, Fetch, WriteMetadata, EmbedBatch, tables
<1>5. \/ UNCHANGED chunks
      \/ \E c \in Callers : CallStep(c)
      \/ RemoveIndex
  BY DEF Next, vars, tables, RequestThrows, BeginRequest, BeginStage, Begin, StageFails, Push,
         ToggleConnection, CrashAll, JobStep
<1> QED
  BY <1>1, <1>2, <1>3, <1>4, <1>5

-----------------------------------------------------------------------------
(* The worker's stage, undisturbed                                         *)

\* What the steps of the worker's own stage assume and keep.
StageAssumptions ==
  /\ ProcessingTypeOK /\ IndexInv /\ CalmInv /\ calm /\ present /\ Busy(Worker)

LEMMA StageAssumed ==
  ASSUME StageAssumptions
  PROVE  /\ worker.at = "working" /\ call[Worker].stage = worker.stage
         /\ StagesDone /\ StageAtWork
         /\ Worker \in Callers /\ call \in [Callers -> CallState] /\ call[Worker] \in CallState
         /\ \A p \in Paths : chunks[p] # Blank
  BY DEF StageAssumptions, CalmInv, IndexInv, CallsTyped, Callers

LEMMA FetchCalm ==
  ASSUME StageAssumptions, Fetch(Worker)
  PROVE  StagesDone' /\ StageAtWork'
<1>a. /\ worker.at = "working" /\ call[Worker].stage = worker.stage
      /\ StagesDone /\ StageAtWork /\ call[Worker] \in CallState
      /\ call \in [Callers -> CallState] /\ Worker \in Callers
  BY StageAssumed
<1>1. /\ UNCHANGED <<worker, branch, files, chunks, embeddings>>
      /\ call'[Worker].stage = call[Worker].stage /\ call'[Worker].lost = call[Worker].lost
      /\ call'[Worker].at = "writing"
      /\ call[Worker].stage = "INGESTING" => call'[Worker].view = Read(branch)
      /\ call[Worker].at = "asking"
  BY <1>a DEF Fetch, CallState, github, tables, processingVars
<1> QED
  BY <1>a, <1>1 DEF StagesDone, StageAtWork, Built

LEMMA MetadataCalm ==
  ASSUME StageAssumptions, WriteMetadata(Worker)
  PROVE  StagesDone' /\ StageAtWork'
<1>a. /\ StagesDone /\ StageAtWork /\ call[Worker] \in CallState
      /\ call \in [Callers -> CallState] /\ Worker \in Callers
  BY StageAssumed
<1>1. /\ UNCHANGED <<worker, branch, files, chunks, embeddings>>
      /\ call'[Worker].stage = "SYNCING" /\ call'[Worker].lost = call[Worker].lost
  BY <1>a DEF WriteMetadata, CallState, github, tables, processingVars
<1> QED
  BY <1>a, <1>1 DEF StagesDone, StageAtWork, Built

LEMMA FilesCalm ==
  ASSUME StageAssumptions, WriteFiles(Worker)
  PROVE  StagesDone' /\ StageAtWork'
<1>a. /\ worker.at = "working" /\ call[Worker].stage = worker.stage
      /\ StageAtWork /\ call[Worker] \in CallState
      /\ call \in [Callers -> CallState] /\ Worker \in Callers
  BY StageAssumed
<1> DEFINE gone == {p \in Paths : files[p] # NoFile /\ call[Worker].view[p] = NoFile}
           L == Losing(gone, {"CHUNKING", "EMBEDDING"})
<1>1. /\ call' = [L EXCEPT ![Worker].at = "written"] /\ gone \in SUBSET Paths
      /\ call[Worker].stage = "INGESTING" /\ call[Worker].at = "writing"
      /\ files' = call[Worker].view /\ UNCHANGED <<worker, branch>>
  BY DEF WriteFiles, github, processingVars
<1> HIDE DEF gone
<1>2. L[Worker] = call[Worker] /\ L \in [Callers -> CallState]
  <2>1. call[Worker].stage \notin {"CHUNKING", "EMBEDDING"} /\ CallsTyped
    BY <1>a, <1>1 DEF StageAssumptions, IndexInv
  <2>2. L[Worker] = call[Worker]
    BY <1>a, <2>1, LosesNothing
  <2>3. L \in [Callers -> CallState]
    BY <1>1, <2>1, LosingFact
  <2> QED
    BY <2>2, <2>3
<1> HIDE DEF L
<1>3. /\ call'[Worker].stage = "INGESTING" /\ call'[Worker].at = "written"
      /\ call'[Worker].lost = call[Worker].lost
  BY <1>a, <1>1, <1>2 DEF CallState
<1>4. StageAtWork'
  BY <1>a, <1>1, <1>3 DEF StageAtWork
<1>5. StagesDone'
  BY <1>a, <1>1 DEF StagesDone
<1> QED
  BY <1>4, <1>5

LEMMA ChunksCalm ==
  ASSUME StageAssumptions, WriteChunks(Worker)
  PROVE  StagesDone' /\ StageAtWork'
<1>a. /\ worker.at = "working" /\ call[Worker].stage = worker.stage
      /\ StagesDone /\ StageAtWork /\ call[Worker] \in CallState
      /\ call \in [Callers -> CallState] /\ Worker \in Callers
  BY StageAssumed
<1>b. /\ call[Worker].stage = "CHUNKING" /\ UNCHANGED <<worker, branch, files>>
      /\ call[Worker].lost = {} /\ call[Worker].view = files
  BY <1>a DEF WriteChunks, StageAtWork, github, processingVars
<1>1. PICK p \in call[Worker].todo :
        /\ \/ files[p] = Blank /\ chunks' = Cleared(chunks, {p})
           \/ files[p] # Blank /\ chunks' = [chunks EXCEPT ![p] = files[p]]
        /\ call' = [Losing({p}, {"EMBEDDING"}) EXCEPT ![Worker].todo = @ \ {p}]
  BY <1>b DEF WriteChunks
<1>2. p \in Paths /\ {p} \in SUBSET Paths /\ chunks \in Tree
  BY <1>a DEF CallState, StageAssumptions, IndexInv, TablesTyped
<1>3. \A x \in Paths : chunks'[x] = IF x = p THEN Text(files[p]) ELSE chunks[x]
  BY <1>1, <1>2 DEF Cleared, Tree, Text
<1> DEFINE L == Losing({p}, {"EMBEDDING"})
<1>4. L[Worker] = call[Worker] /\ L \in [Callers -> CallState]
  <2>1. call[Worker].stage \notin {"EMBEDDING"} /\ CallsTyped
    BY <1>b DEF StageAssumptions, IndexInv
  <2>2. L[Worker] = call[Worker]
    BY <1>a, <2>1, LosesNothing
  <2>3. L \in [Callers -> CallState]
    BY <1>2, <2>1, LosingFact
  <2> QED
    BY <2>2, <2>3
<1>5. call' = [L EXCEPT ![Worker].todo = @ \ {p}]
  BY <1>1
<1> HIDE DEF L
<1>6. /\ call'[Worker].stage = "CHUNKING" /\ call'[Worker].at = call[Worker].at
      /\ call'[Worker].lost = {} /\ call'[Worker].view = files
      /\ call'[Worker].todo = call[Worker].todo \ {p}
  BY <1>a, <1>b, <1>4, <1>5 DEF CallState
<1>7. StageAtWork'
  BY <1>a, <1>b, <1>3, <1>6 DEF StageAtWork
<1>8. StagesDone'
  BY <1>a, <1>b DEF StagesDone
<1> QED
  BY <1>7, <1>8

LEMMA EmbedCalm ==
  ASSUME StageAssumptions, EmbedBatch(Worker)
  PROVE  StagesDone' /\ StageAtWork'
<1>a. /\ worker.at = "working" /\ call[Worker].stage = worker.stage
      /\ StagesDone /\ StageAtWork /\ call[Worker] \in CallState
      /\ call \in [Callers -> CallState] /\ Worker \in Callers
  BY StageAssumed
<1>b. /\ call[Worker].stage = "EMBEDDING" /\ UNCHANGED <<worker, branch, files, chunks>>
      /\ call[Worker].view = chunks
  BY <1>a DEF EmbedBatch, StageAtWork, github, processingVars
<1>1. PICK batch \in SUBSET call[Worker].todo :
        /\ embeddings' = [p \in Paths |-> IF p \in batch THEN chunks[p] ELSE embeddings[p]]
        /\ call' = [call EXCEPT ![Worker].todo = @ \ batch]
  BY <1>b DEF EmbedBatch
<1>2. /\ call'[Worker].stage = "EMBEDDING" /\ call'[Worker].at = call[Worker].at
      /\ call'[Worker].lost = call[Worker].lost /\ call'[Worker].view = call[Worker].view
      /\ call'[Worker].todo = call[Worker].todo \ batch
  BY <1>a, <1>b, <1>1 DEF CallState
<1>3. StageAtWork'
  BY <1>a, <1>b, <1>1, <1>2 DEF StageAtWork
<1>4. StagesDone'
  BY <1>a, <1>b DEF StagesDone
<1> QED
  BY <1>3, <1>4

\* The stage ends: what it had to do is done for those that follow.
LEMMA EndCalm ==
  ASSUME StageAssumptions, End(Worker)
  PROVE  StagesDone' /\ ~Busy(Worker)'
<1>a. /\ worker.at = "working" /\ call[Worker].stage = worker.stage
      /\ StagesDone /\ StageAtWork /\ Worker \in Callers
      /\ call \in [Callers -> CallState] /\ \A p \in Paths : chunks[p] # Blank
  BY StageAssumed
<1>b. worker.stage \in Stages /\ chunks \in Tree /\ files \in Tree /\ embeddings \in Tree
  BY <1>a DEF StageAssumptions, ProcessingTypeOK, IndexInv, TablesTyped
<1>1. ~Busy(Worker)'
  BY <1>a, NoCallTyped DEF End, Busy
<1>2. /\ UNCHANGED <<branch, files, chunks, embeddings>>
      /\ worker'.stage = After[worker.stage]
      /\ worker'.at = IF After[worker.stage] \in Stages THEN "updating" ELSE "completing"
  BY DEF End, StageEnds, github, tables, StageAssumptions, ProcessingTypeOK
<1>3. CASE worker.stage = "SYNCING"
  BY <1>1, <1>2, <1>3 DEF StagesDone, After, Stages
<1>4. CASE worker.stage = "INGESTING"
  <2>1. call[Worker].at = "written"
    BY <1>a, <1>4 DEF End
  <2>2. files = Read(branch)
    BY <1>a, <1>4, <2>1 DEF StageAtWork
  <2>3. worker'.stage = "CHUNKING" /\ worker'.at = "updating"
    BY <1>2, <1>4 DEF After, Stages
  <2> QED
    BY <1>1, <1>2, <2>2, <2>3 DEF StagesDone
<1>5. CASE worker.stage = "CHUNKING"
  <2>1. call[Worker].todo = {}
    BY <1>a, <1>5 DEF End, StageAtWork
  <2>2. files = Read(branch) /\ \A p \in Paths : chunks[p] = Text(files[p])
    BY <1>a, <1>5, <2>1 DEF StagesDone, StageAtWork
  <2>3. worker'.stage = "EMBEDDING" /\ worker'.at = "updating"
    BY <1>2, <1>5 DEF After, Stages
  <2> QED
    BY <1>1, <1>2, <2>2, <2>3 DEF StagesDone
<1>6. CASE worker.stage = "EMBEDDING"
  <2>1. call[Worker].todo = {}
    BY <1>a, <1>6 DEF End, StageAtWork
  <2>2. /\ files = Read(branch)
        /\ \A p \in Paths : chunks[p] = Text(files[p]) /\ embeddings[p] = chunks[p]
    BY <1>a, <1>6, <2>1 DEF StagesDone, StageAtWork
  <2>3. worker'.at = "completing"
    BY <1>2, <1>6 DEF After, Stages
  <2> QED
    BY <1>1, <1>2, <2>2, <2>3 DEF StagesDone, Built
<1> QED
  BY <1>b, <1>1, <1>3, <1>4, <1>5, <1>6 DEF Stages

\* The stage begins: it reads what is there, and leaves out what is done.
LEMMA BeginCalm ==
  ASSUME ProcessingTypeOK, IndexInv, CalmInv, calm, present, BeginStage
  PROVE  /\ StagesDone' /\ StageAtWork'
         /\ worker'.at = "working" /\ call'[Worker].stage = worker'.stage
<1>a. /\ StagesDone /\ \A p \in Paths : chunks[p] # Blank
      /\ Nested /\ EmbeddingOfItsChunk /\ call \in [Callers -> CallState] /\ Worker \in Callers
  BY DEF CalmInv, IndexInv, CallsTyped, Callers
<1>b. /\ worker.at = "working" /\ worker.stage \in Stages /\ call'[Worker] = Begun(worker.stage)
      /\ UNCHANGED <<worker, branch, files, chunks, embeddings>>
  BY <1>a DEF BeginStage, Begin, ProcessingTypeOK, github, tables, processingVars
<1>1. StagesDone'
  BY <1>a, <1>b DEF StagesDone
<1>2. CASE worker.stage \in {"SYNCING", "INGESTING"}
  <2>1. /\ call'[Worker].stage = worker.stage /\ call'[Worker].at = "asking"
        /\ call'[Worker].lost = {}
    BY <1>b, <1>2 DEF Begun, NoCall
  <2> QED
    BY <1>1, <1>2, <1>b, <2>1 DEF StageAtWork
<1>3. CASE worker.stage = "CHUNKING"
  <2>1. /\ call'[Worker].stage = "CHUNKING" /\ call'[Worker].at = "writing"
        /\ call'[Worker].lost = {} /\ call'[Worker].view = files
        /\ call'[Worker].todo = Unchunked
    BY <1>b, <1>3 DEF Begun, NoCall
  <2>2. \A p \in Paths : IF p \in Unchunked THEN chunks[p] # files[p]
                         ELSE chunks[p] = Text(files[p])
    BY <1>a DEF Unchunked, Nested, Text
  <2> QED
    BY <1>1, <1>3, <1>b, <2>1, <2>2 DEF StageAtWork
<1>4. CASE worker.stage = "EMBEDDING"
  <2>1. /\ call'[Worker].stage = "EMBEDDING" /\ call'[Worker].at = "writing"
        /\ call'[Worker].lost = {} /\ call'[Worker].view = chunks
        /\ call'[Worker].todo = Unembedded
    BY <1>b, <1>4 DEF Begun, NoCall
  <2>2. \A p \in Paths : p \in Unembedded \/ embeddings[p] = chunks[p]
    BY <1>a DEF Unembedded, Nested, EmbeddingOfItsChunk
  <2> QED
    BY <1>1, <1>4, <1>b, <2>1, <2>2 DEF StageAtWork
<1> QED
  BY <1>b, <1>2, <1>3, <1>4 DEF Stages

-----------------------------------------------------------------------------
(* Every step keeps CalmInv                                                *)

\* A step of the processing job leaves a call of its stage alone, and moves
\* the worker only between updating, failing and ended, or to another job.
LEMMA JobStepFact ==
  ASSUME ProcessingTypeOK, JobStep
  PROVE  \/ UNCHANGED worker
         \/ /\ worker.at # "working"
            /\ worker'.at \in {"working", "updating"} =>
                 \/ worker.at = "updating" /\ worker'.stage = worker.stage
                 \/ worker'.stage = "SYNCING"
            /\ worker'.at # "completing"
<1>1. CASE \E q \in Requests : Take(q)
  BY <1>1 DEF Take, IdleWorker
<1>2. CASE UpdateStage \/ Complete \/ FailRun \/ WorkerDatabaseFault \/ Finish
  BY <1>2, IdleFact
  DEF UpdateStage, Complete, FailRun, WorkerDatabaseFault, Finish, Move, ProcessingTypeOK
<1> QED
  BY <1>1, <1>2 DEF JobStep, Look, EnqueueStep, CreateRun, AddJob, FailQueuedRun,
                    EnqueueDatabaseFault, Stall, processingVars

LEMMA JobCalm ==
  ASSUME ProcessingTypeOK, IndexInv, CalmInv, JobStep, \A p \in Paths : chunks'[p] # Blank
  PROVE  CalmInv'
<1>1. UNCHANGED <<branch, files, chunks, embeddings, call, present>>
  BY DEF JobStep, github, tables, Look, EnqueueStep, CreateRun, AddJob, FailQueuedRun,
         EnqueueDatabaseFault, Take, Stall, UpdateStage, Complete, FailRun,
         WorkerDatabaseFault, Finish
<1>2. Busy(Worker) => UNCHANGED worker
  BY JobStepFact DEF CalmInv
<1>3. /\ Busy(Worker)' => worker'.at = "working" /\ call'[Worker].stage = worker'.stage
      /\ calm' => \A c \in Calls : ~Busy(c)'
  BY <1>1, <1>2 DEF CalmInv, Busy, JobStep
<1>4. ASSUME calm', present' PROVE StagesDone' /\ (Busy(Worker)' => StageAtWork')
  <2>1. CASE worker.at = "updating" /\ worker.stage = "SYNCING"
    <3>1. /\ worker'.at \in {"updating", "working"} => worker'.stage = "SYNCING"
          /\ worker'.at # "completing" /\ ~Busy(Worker)
      BY <2>1, JobStepFact DEF CalmInv
    <3> QED
      BY <1>1, <3>1 DEF StagesDone, Busy
  <2>2. CASE ~(worker.at = "updating" /\ worker.stage = "SYNCING")
    <3>1. calm /\ present
      BY <1>1, <1>4, <2>2 DEF JobStep
    <3>2. StagesDone /\ (Busy(Worker) => StageAtWork)
      BY <3>1 DEF CalmInv
    <3>3. StagesDone'
      BY <1>1, <3>2, JobStepFact DEF StagesDone, Built
    <3> QED
      BY <1>1, <3>2, <3>3 DEF StageAtWork, Busy
  <2> QED
    BY <2>1, <2>2
<1> QED
  BY <1>3, <1>4 DEF CalmInv

LEMMA CalmStep ==
  ASSUME ProcessingTypeOK, IndexInv, CalmInv, [Next]_vars
  PROVE  CalmInv'
<1>a. \A p \in Paths : chunks'[p] # Blank
  BY NoBlankStep DEF CalmInv
<1>b. call \in [Callers -> CallState] /\ Calls \subseteq Callers /\ Worker \in Callers
      /\ Worker \notin Calls
  BY IndexAssumption DEF IndexInv, CallsTyped, Callers
<1>1. CASE UNCHANGED vars
  BY <1>1 DEF vars, CalmInv, Busy, StagesDone, StageAtWork, Built, tables, github,
              processingVars
<1>2. ASSUME NEW c \in Calls, CallStep(c) PROVE CalmInv'
  <2>1. /\ Busy(c) /\ UNCHANGED <<calm, worker>> /\ Worker \in Callers \ {c}
        /\ call'[Worker].at = call[Worker].at /\ call'[Worker].stage = call[Worker].stage
    BY <1>2, <1>b, StageFrame DEF End, processingVars
  <2>2. ~calm
    BY <1>2, <2>1 DEF CalmInv
  <2> QED
    BY <1>a, <2>1, <2>2 DEF CalmInv, Busy
<1>3. CASE CallStep(Worker)
  <2>1. /\ Busy(Worker) /\ UNCHANGED <<calm, present, branch>>
        /\ \A c \in Calls : call'[c].at = call[c].at
    BY <1>3, <1>b, StageFrame
  <2>2. calm' => \A c \in Calls : ~Busy(c)'
    BY <2>1 DEF CalmInv, Busy
  <2>3. CASE End(Worker)
    <3>1. ~Busy(Worker)'
      BY <1>b, <2>3, NoCallTyped DEF End, Busy
    <3> QED
      BY <1>a, <2>1, <2>2, <2>3, <3>1, EndCalm DEF CalmInv, StageAssumptions
  <2>4. CASE ~End(Worker)
    <3>1. UNCHANGED worker /\ call'[Worker].stage = call[Worker].stage
      <4>1. UNCHANGED worker
        BY <1>3, <1>b, <2>4, StageFrame
      <4>2. CASE Fetch(Worker) \/ WriteMetadata(Worker) \/ EmbedBatch(Worker)
        BY <1>b, <4>1, <4>2 DEF Fetch, WriteMetadata, EmbedBatch, CallState
      <4>3. CASE WriteFiles(Worker)
        <5> DEFINE gone == {p \in Paths : files[p] # NoFile /\ call[Worker].view[p] = NoFile}
                   L == Losing(gone, {"CHUNKING", "EMBEDDING"})
        <5>1. call' = [L EXCEPT ![Worker].at = "written"] /\ gone \in SUBSET Paths
          BY <4>3 DEF WriteFiles
        <5> HIDE DEF gone
        <5>2. L \in [Callers -> CallState] /\ L[Worker].stage = call[Worker].stage
          <6>1. CallsTyped
            BY DEF IndexInv
          <6>2. L \in [Callers -> CallState]
            BY <5>1, <6>1, LosingFact
          <6>3. L[Worker].stage = call[Worker].stage
            BY <5>1, <6>1, <1>b, LosingStage
          <6> QED
            BY <6>2, <6>3
        <5> HIDE DEF L
        <5>3. L[Worker] \in CallState /\ call'[Worker] = [L[Worker] EXCEPT !.at = "written"]
          BY <1>b, <5>1, <5>2
        <5>4. call'[Worker].stage = L[Worker].stage
          BY <5>3 DEF CallState
        <5> QED
          BY <4>1, <5>2, <5>4
      <4>4. CASE WriteChunks(Worker)
        <5>1. PICK p \in call[Worker].todo :
                \/ call' = [call EXCEPT ![Worker].todo = @ \ {p}]
                \/ call' = [Losing({p}, {"EMBEDDING"}) EXCEPT ![Worker].todo = @ \ {p}]
          BY <4>4 DEF WriteChunks
        <5> DEFINE L == Losing({p}, {"EMBEDDING"})
        <5>2. {p} \in SUBSET Paths
          BY <1>b DEF CallState
        <5>3. L \in [Callers -> CallState] /\ L[Worker].stage = call[Worker].stage
          <6>1. CallsTyped
            BY DEF IndexInv
          <6>2. L \in [Callers -> CallState]
            BY <5>2, <6>1, LosingFact
          <6>3. L[Worker].stage = call[Worker].stage
            BY <5>2, <6>1, <1>b, LosingStage
          <6> QED
            BY <6>2, <6>3
        <5>4. \/ call' = [call EXCEPT ![Worker].todo = @ \ {p}]
              \/ call' = [L EXCEPT ![Worker].todo = @ \ {p}]
          BY <5>1
        <5> HIDE DEF L
        <5>5. \/ call'[Worker] = [call[Worker] EXCEPT !.todo = @ \ {p}]
              \/ call'[Worker] = [L[Worker] EXCEPT !.todo = @ \ {p}]
          BY <1>b, <5>3, <5>4
        <5>6. call'[Worker].stage \in {call[Worker].stage, L[Worker].stage}
          BY <1>b, <5>3, <5>5 DEF CallState
        <5> QED
          BY <4>1, <5>3, <5>6
      <4> QED
        BY <1>3, <2>4, <4>1, <4>2, <4>3, <4>4 DEF CallStep
    <3>2. calm /\ present => StagesDone' /\ StageAtWork'
      BY <1>3, <2>1, <2>4, FetchCalm, MetadataCalm, FilesCalm, ChunksCalm, EmbedCalm
      DEF CallStep, StageAssumptions
    <3>3. worker'.at = "working" /\ call'[Worker].stage = worker'.stage
      BY <2>1, <3>1 DEF CalmInv
    <3> QED
      BY <1>a, <2>1, <2>2, <3>2, <3>3 DEF CalmInv
  <2> QED
    BY <2>3, <2>4
<1>4. ASSUME NEW c \in Calls, RequestThrows(c) PROVE CalmInv'
  <2>1. /\ call' = [call EXCEPT ![c] = NoCall] /\ call'[Worker] = call[Worker]
        /\ UNCHANGED <<worker, present, branch, files, chunks, embeddings, calm>>
    BY <1>4, <1>b DEF RequestThrows, github, tables, processingVars
  <2>2. \A d \in Calls : Busy(d)' => Busy(d)
    BY <2>1, <1>b, NoCallTyped DEF Busy
  <2>3. Busy(Worker)' <=> Busy(Worker)
    BY <2>1 DEF Busy
  <2> QED
    BY <1>a, <2>1, <2>2, <2>3 DEF CalmInv, StagesDone, StageAtWork, Built
<1>5. ASSUME NEW c \in Calls, NEW s \in Stages, BeginRequest(c, s) PROVE CalmInv'
  <2>1. ~calm' /\ UNCHANGED worker /\ call'[Worker] = call[Worker]
    BY <1>5, <1>b DEF BeginRequest, Begin, processingVars
  <2> QED
    BY <1>a, <2>1 DEF CalmInv, Busy
<1>6. CASE BeginStage
  <2>1. /\ UNCHANGED <<worker, calm, present>> /\ worker.at = "working"
        /\ \A c \in Calls : call'[c] = call[c]
        /\ call'[Worker] = Begun(worker.stage) /\ worker.stage \in Stages
    BY <1>6, <1>b DEF BeginStage, Begin, processingVars, ProcessingTypeOK
  <2>2. call'[Worker].stage = worker'.stage
    BY <2>1 DEF Begun, NoCall, Stages
  <2> QED
    BY <1>a, <1>6, <2>1, <2>2, BeginCalm DEF CalmInv, Busy
<1>7. CASE StageFails
  <2>1. /\ ~Busy(Worker)' /\ \A c \in Calls : call'[c] = call[c]
        /\ UNCHANGED <<present, branch, files, chunks, embeddings, calm>>
        /\ worker'.at = "failing"
    BY <1>7, <1>b, NoCallTyped
    DEF StageFails, StageThrows, Move, Busy, github, tables, ProcessingTypeOK
  <2> QED
    BY <1>a, <2>1 DEF CalmInv, StagesDone, Busy
<1>8. ASSUME NEW p \in Paths, NEW content \in Contents \cup {NoFile}, Push(p, content)
      PROVE  CalmInv'
  BY <1>a, <1>8 DEF Push, CalmInv, Busy, processingVars
<1>9. CASE ToggleConnection
  BY <1>a, <1>9 DEF ToggleConnection, CalmInv, Busy, StagesDone, StageAtWork, Built,
                    tables, processingVars
<1>10. CASE RemoveIndex
  <2>1. /\ ~present' /\ UNCHANGED <<worker, calm>> /\ call' = Losing(Paths, Stages)
    BY <1>10 DEF RemoveIndex, Remove
  <2>2. \A d \in Callers : call'[d].at = call[d].at /\ call'[d].stage = call[d].stage
    <3>1. Paths \in SUBSET Paths
      OBVIOUS
    <3> QED
      BY <2>1, <3>1, LosingFact DEF IndexInv
  <2> QED
    BY <1>a, <1>b, <2>1, <2>2 DEF CalmInv, Busy
<1>11. CASE CrashAll
  <2>1. /\ \A d \in Callers : ~Busy(d)'
        /\ worker'.at = "idle"
    BY <1>11, NoCallTyped, IdleFact DEF CrashAll, Crash, Busy
  <2> QED
    BY <1>a, <1>b, <2>1 DEF CalmInv, StagesDone
<1> QED
  BY <1>a, <1>b, <1>1, <1>2, <1>3, <1>4, <1>5, <1>6, <1>7, <1>8, <1>9, <1>10, <1>11, JobCalm
  DEF Next, Callers

LEMMA CalmInvariant == Spec => [](ProcessingTypeOK /\ IndexInv /\ CalmInv)
<1>1. Init => CalmInv
  <2> SUFFICES ASSUME Init PROVE CalmInv
    OBVIOUS
  <2>1. /\ ~calm /\ chunks = Nothing /\ call = [c \in Callers |-> NoCall]
    BY DEF Init
  <2>2. Worker \in Callers /\ NoFile # Blank
    BY IndexAssumption DEF Callers
  <2> QED
    BY <2>1, <2>2, NoCallTyped DEF CalmInv, Busy, Nothing
<1>2. Spec => []ProcessingTypeOK
  BY IndexImplementsProcessing, ProcessingTypeCorrect, PTL
<1> QED
  BY <1>1, <1>2, IndexInvariant, CalmStep, PTL DEF Spec

\* Whatever requests, failures and crashes have left behind, a run that nobody
\* disturbed has indexed the files of the default branch when it is about to
\* be COMPLETED: as they are there, and all of them up to MaxFiles.
THEOREM CompletedRunsAreIndexed == Spec => []CompletedIsIndexed
<1>1. ASSUME IndexInv, CalmInv PROVE CompletedIsIndexed
  <2> SUFFICES ASSUME Built PROVE Indexed
    BY <1>1 DEF CalmInv, StagesDone, CompletedIsIndexed
  <2>1. branch \in Tree
    BY <1>1 DEF IndexInv, TablesTyped
  <2> QED
    BY <2>1, ReadFact DEF Built, Indexed, Text
<1> QED
  BY <1>1, CalmInvariant, PTL

\* An undisturbed run throws away no embedding that is still right.
THEOREM RightEmbeddingsKept == Spec => EmbeddingsKept
<1>1. ASSUME ProcessingTypeOK, IndexInv, CalmInv, [Next]_vars, calm, calm', present',
             Busy(Worker), NEW p \in Paths, embeddings[p] # NoFile,
             embeddings[p] = files[p], files'[p] = files[p]
      PROVE  embeddings'[p] = embeddings[p]
  <2>a. /\ embeddings \in Tree /\ call[Worker] \in CallState /\ call[Worker].lost \subseteq Paths
        /\ embeddings[p] = chunks[p]
    BY <1>1 DEF IndexInv, TablesTyped, CallsTyped, Callers, EmbeddingOfItsChunk, CallState
  <2>b. present
    BY <1>1 DEF Next, vars, processingVars, CallStep, End, Fetch, WriteMetadata, WriteFiles,
       WriteChunks, EmbedBatch, StageEnds, RequestThrows, BeginRequest, BeginStage, Begin,
       StageFails, StageThrows, Push, ToggleConnection, RemoveIndex, Remove, CrashAll, Crash,
       JobStep, Look, EnqueueStep, CreateRun, AddJob, FailQueuedRun, EnqueueDatabaseFault,
       Take, Stall, UpdateStage, Complete, FailRun, WorkerDatabaseFault, Finish
  <2>c. StageAtWork
    BY <1>1, <2>b DEF CalmInv
  <2>1. CASE WriteFiles(Worker)
    <3>1. files' = call[Worker].view
          /\ embeddings' = Cleared(embeddings, {x \in Paths : files[x] # NoFile
                                                  /\ call[Worker].view[x] = NoFile})
      BY <2>1 DEF WriteFiles
    <3> QED
      BY <1>1, <3>1 DEF Cleared
  <2>2. CASE WriteChunks(Worker)
    <3>1. PICK x \in call[Worker].todo : embeddings' = Cleared(embeddings, {x})
      BY <2>2, <2>c DEF WriteChunks, StageAtWork
    <3>2. x # p
      BY <1>1, <2>2, <2>a, <2>c DEF WriteChunks, StageAtWork
    <3> QED
      BY <3>1, <3>2 DEF Cleared
  <2>3. CASE EmbedBatch(Worker)
    BY <1>1, <2>3, <2>a, <2>c DEF EmbedBatch, StageAtWork
  <2>4. ASSUME NEW c \in Calls, CallStep(c) PROVE FALSE
    BY <1>1, <2>4, StageFrame DEF CalmInv, Callers
  <2>5. CASE CallStep(Worker) /\ ~WriteFiles(Worker) /\ ~WriteChunks(Worker) /\ ~EmbedBatch(Worker)
    BY <2>5 DEF CallStep, End, Fetch, WriteMetadata, tables
  <2>6. ~RemoveIndex
    BY <1>1 DEF RemoveIndex, Remove
  <2>7. \/ UNCHANGED embeddings
        \/ \E c \in Callers : CallStep(c)
    BY <1>1, <2>6 DEF Next, vars, tables, RequestThrows, BeginRequest, BeginStage, Begin,
       StageFails, Push, ToggleConnection, CrashAll, JobStep
  <2> QED
    BY <2>1, <2>2, <2>3, <2>4, <2>5, <2>7 DEF Callers
<1>2. ProcessingTypeOK /\ IndexInv /\ CalmInv /\ [Next]_vars =>
        [calm /\ calm' /\ present' /\ Busy(Worker) =>
           \A p \in Paths :
             embeddings[p] # NoFile /\ embeddings[p] = files[p] /\ files'[p] = files[p]
               => embeddings'[p] = embeddings[p]]_vars
  BY <1>1
<1> QED
  BY <1>2, CalmInvariant, PTL DEF Spec, EmbeddingsKept
=============================================================================
