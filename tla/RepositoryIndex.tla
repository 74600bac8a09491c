-------------------------- MODULE RepositoryIndex --------------------------
(***************************************************************************)
(* The index of one repository (RepositoriesService): its files, their     *)
(* chunks and the embeddings of the chunks, built by the four stages of    *)
(* RepositoryProcessing's worker and, at the same time, by HTTP requests   *)
(* for a single stage.  A stage reads, waits for GitHub, Ollama or the     *)
(* database, and writes what it had read, one transaction at a time.       *)
(*                                                                         *)
(* A file is modelled by its content, which its sha identifies; its chunks *)
(* by the content they were cut from (sourceSha), and their embeddings by  *)
(* the content that was embedded.  Rows have random ids: a stage remembers *)
(* in "lost" the rows it has read that were deleted since, whatever rows   *)
(* have taken their place.                                                 *)
(***************************************************************************)
EXTENDS RepositoryProcessing

CONSTANTS
  Paths,          \* paths of files, numbered in the order of a GitHub tree
  Contents,       \* contents of source files of at most 100 KB
  Blank,          \* a content without any text, which gives no chunk
  Binary,         \* a content with a NUL byte, or that is not sent in base64
  NoFile,         \* no file, no source file, or one of more than 100 KB
  MaxFiles,       \* files that are ingested: 250
  Calls,          \* HTTP requests to sync, ingest, chunk or embed
  Worker,         \* the call of a stage by processRun
  MaxPushes       \* bound: changes of the default branch

ASSUME IndexAssumption ==
  /\ Paths \subseteq Nat /\ IsFiniteSet(Paths) /\ MaxFiles \in Nat
  /\ Blank \in Contents /\ Binary \in Contents \ {Blank} /\ NoFile \notin Contents
  /\ Worker \notin Calls /\ MaxPushes \in Nat

VARIABLES
  connected,      \* the ProviderConnection is ACTIVE
  branch,         \* the files of the default branch at GitHub
  pushes,         \* number of changes of the default branch so far
  files,          \* files[p]: the content of the RepositoryFile row
  chunks,         \* chunks[p]: the content that the chunks of p were cut from
  embeddings,     \* embeddings[p]: the content that was embedded for them
  call,           \* call[c]: the stage that c executes
  calm            \* history: nothing was pushed and no HTTP request was at
                  \* work since the worker began to execute its run

tables == <<files, chunks, embeddings>>
github == <<connected, branch, pushes>>
vars == <<processingVars, github, tables, call, calm>>

Callers == Calls \cup {Worker}
Tree == [Paths -> Contents \cup {NoFile}]
Nothing == [p \in Paths |-> NoFile]

NoCall == [stage |-> "SYNCING", at |-> "idle", view |-> Nothing,
           todo |-> {}, lost |-> {}]

Init ==
  /\ ProcessingInit
  /\ connected = TRUE
  /\ branch \in Tree
  /\ pushes = 0
  /\ files = Nothing /\ chunks = Nothing /\ embeddings = Nothing
  /\ call = [c \in Callers |-> NoCall]
  /\ calm = FALSE

Busy(c) == call[c].at # "idle"

\* The rows of P are deleted: the calls of the given stages that have read
\* them have lost them.
Losing(P, stages) ==
  [c \in Callers |-> IF Busy(c) /\ call[c].stage \in stages
                     THEN [call[c] EXCEPT !.lost = @ \cup P] ELSE call[c]]

Cleared(f, P) == [p \in Paths |-> IF p \in P THEN NoFile ELSE f[p]]

-----------------------------------------------------------------------------
(* The beginning and the end of a stage                                    *)

\* Mutation: a file that has chunks is not chunked again.
UnchunkedOnly == {p \in Paths : files[p] # NoFile /\ chunks[p] = NoFile}
\* Mutation: every file is chunked again.
EveryFile == {p \in Paths : files[p] # NoFile}

\* The files whose first chunk is not of their sha, or that have no chunk.
Unchunked == {p \in Paths : files[p] # NoFile /\ chunks[p] # files[p]}
Unembedded == {p \in Paths : chunks[p] # NoFile /\ embeddings[p] = NoFile}

\* A stage finds its repository, with an active connection if it needs GitHub,
\* and reads the rows it will work on.
Begun(stage) ==
  CASE stage \in {"SYNCING", "INGESTING"} ->
         [NoCall EXCEPT !.stage = stage, !.at = "asking"]
    [] stage = "CHUNKING" ->
         [NoCall EXCEPT !.stage = stage, !.at = "writing", !.view = files,
                        !.todo = Unchunked]
    [] stage = "EMBEDDING" ->
         [NoCall EXCEPT !.stage = stage, !.at = "writing", !.view = chunks,
                        !.todo = Unembedded]

Begin(c, stage) ==
  /\ ~Busy(c)
  /\ present /\ (stage \in {"SYNCING", "INGESTING"} => connected)
  /\ call' = [call EXCEPT ![c] = Begun(stage)]
  /\ UNCHANGED <<processingVars, github, tables>>

BeginRequest(c, stage) == Begin(c, stage) /\ calm' = FALSE
BeginStage ==
  /\ worker.at = "working"
  /\ Begin(Worker, worker.stage)
  /\ UNCHANGED calm

\* All that the stage had to do is written: it answers, or processRun goes on.
End(c) ==
  /\ Busy(c)
  /\ \/ call[c].at = "written"
     \/ call[c].at = "writing" /\ call[c].todo = {}
          /\ call[c].stage \in {"CHUNKING", "EMBEDDING"}
  /\ call' = [call EXCEPT ![c] = NoCall]
  /\ IF c = Worker THEN StageEnds ELSE UNCHANGED processingVars
  /\ UNCHANGED <<github, tables, calm>>

\* Any awaited call may fail, and a guard may refuse the stage: what it has
\* written stays.
RequestThrows(c) ==
  /\ Busy(c)
  /\ call' = [call EXCEPT ![c] = NoCall]
  /\ UNCHANGED <<processingVars, github, tables, calm>>
StageFails ==
  /\ StageThrows
  /\ call' = [call EXCEPT ![Worker] = NoCall]
  /\ UNCHANGED <<github, tables, calm>>

-----------------------------------------------------------------------------
(* synchronize and ingestFiles                                             *)

Listed(tree) == {p \in Paths : tree[p] # NoFile}

\* What getRepositoryFiles returns of a tree: the first MaxFiles files that
\* it lists, but for the binary ones.
Read(tree) ==
  LET candidates == {p \in Listed(tree) :
                       Cardinality({q \in Listed(tree) : q < p}) < MaxFiles} IN
  [p \in Paths |-> IF p \in candidates /\ tree[p] # Binary THEN tree[p]
                                                          ELSE NoFile]

\* GitHub answers: the blobs are those of one tree.
Fetch(c) ==
  /\ call[c].at = "asking"
  /\ call' = [call EXCEPT ![c].at = "writing",
       ![c].view = IF call[c].stage = "INGESTING" THEN Read(branch) ELSE Nothing]
  /\ UNCHANGED <<processingVars, github, tables, calm>>

\* Branches and commits are upserted; no other stage reads them.
WriteMetadata(c) ==
  /\ call[c].stage = "SYNCING" /\ call[c].at = "writing"
  /\ present
  /\ call' = [call EXCEPT ![c].at = "written"]
  /\ UNCHANGED <<processingVars, github, tables, calm>>

\* One transaction deletes the files that GitHub did not list, with their
\* chunks, and upserts the others, which keep their ids and chunks.
WriteFiles(c) ==
  LET gone == {p \in Paths : files[p] # NoFile /\ call[c].view[p] = NoFile} IN
  /\ call[c].stage = "INGESTING" /\ call[c].at = "writing"
  /\ present
  /\ files' = call[c].view
  /\ chunks' = Cleared(chunks, gone)
  /\ embeddings' = Cleared(embeddings, gone)
  /\ call' = [Losing(gone, {"CHUNKING", "EMBEDDING"}) EXCEPT ![c].at = "written"]
  /\ UNCHANGED <<processingVars, github, calm>>

-----------------------------------------------------------------------------
(* chunkFiles and embedChunks                                              *)

\* Mutation: the chunks are inserted even if their file is gone.
WriteChunksUnchecked(c) ==
  /\ call[c].stage = "CHUNKING" /\ call[c].at = "writing"
  /\ \E p \in call[c].todo :
       /\ chunks' = [chunks EXCEPT ![p] = call[c].view[p]]
       /\ embeddings' = Cleared(embeddings, {p})
       /\ call' = [Losing({p}, {"EMBEDDING"}) EXCEPT ![c].todo = @ \ {p}]
  /\ UNCHANGED <<processingVars, github, files, calm>>

\* One transaction replaces the chunks of one file by those of the content
\* that was read.  It fails on the foreign key when the file is gone.
WriteChunks(c) ==
  /\ call[c].stage = "CHUNKING" /\ call[c].at = "writing"
  /\ \E p \in call[c].todo :
       LET content == call[c].view[p] IN
       IF content = Blank
       THEN /\ IF p \in call[c].lost THEN UNCHANGED <<chunks, embeddings>>
               ELSE /\ chunks' = Cleared(chunks, {p})
                    /\ embeddings' = Cleared(embeddings, {p})
            /\ call' = [(IF p \in call[c].lost THEN call
                         ELSE Losing({p}, {"EMBEDDING"})) EXCEPT ![c].todo = @ \ {p}]
       ELSE /\ p \notin call[c].lost
            /\ chunks' = [chunks EXCEPT ![p] = content]
            /\ embeddings' = Cleared(embeddings, {p})
            /\ call' = [Losing({p}, {"EMBEDDING"}) EXCEPT ![c].todo = @ \ {p}]
  /\ UNCHANGED <<processingVars, github, files, calm>>

\* Mutation: embeddings are written to the chunks that now have the index.
EmbedByPath(c) ==
  /\ call[c].stage = "EMBEDDING" /\ call[c].at = "writing"
  /\ \E batch \in SUBSET call[c].todo \ {{}} :
       /\ \A p \in batch : chunks[p] # NoFile
       /\ embeddings' = [p \in Paths |-> IF p \in batch THEN call[c].view[p]
                                                        ELSE embeddings[p]]
       /\ call' = [call EXCEPT ![c].todo = @ \ batch]
  /\ UNCHANGED <<processingVars, github, files, chunks, calm>>

\* Ollama embeds the next batch of chunks and one transaction writes the
\* embeddings to the ids that were read; it fails if one chunk is gone.  A
\* batch is ten chunks, and a file has any number of them.
EmbedBatch(c) ==
  /\ call[c].stage = "EMBEDDING" /\ call[c].at = "writing"
  /\ \E batch \in SUBSET call[c].todo \ {{}} :
       /\ batch \cap call[c].lost = {}
       /\ embeddings' = [p \in Paths |-> IF p \in batch THEN call[c].view[p]
                                                        ELSE embeddings[p]]
       /\ call' = [call EXCEPT ![c].todo = @ \ batch]
  /\ UNCHANGED <<processingVars, github, files, chunks, calm>>

CallStep(c) ==
  End(c) \/ Fetch(c) \/ WriteMetadata(c) \/ WriteFiles(c) \/ WriteChunks(c)
  \/ EmbedBatch(c)

-----------------------------------------------------------------------------
(* The rest of the system                                                  *)

\* A commit on the default branch changes, adds or deletes a file.
Push(p, content) ==
  /\ pushes < MaxPushes /\ branch[p] # content
  /\ pushes' = pushes + 1
  /\ branch' = [branch EXCEPT ![p] = content]
  /\ calm' = FALSE
  /\ UNCHANGED <<processingVars, connected, tables, call>>

ToggleConnection ==
  /\ connected' = ~connected
  /\ UNCHANGED <<processingVars, branch, pushes, tables, call, calm>>

\* Files and chunks are deleted with the repository.
RemoveIndex ==
  /\ Remove
  /\ files' = Nothing /\ chunks' = Nothing /\ embeddings' = Nothing
  /\ call' = Losing(Paths, Stages)
  /\ UNCHANGED <<github, calm>>

CrashAll ==
  /\ Crash
  /\ call' = [c \in Callers |-> NoCall]
  /\ UNCHANGED <<github, tables, calm>>

\* The steps of the processing job that touch no row of the index.
JobStep ==
  /\ \/ \E q \in Requests : Look(q) \/ EnqueueStep(q) \/ Take(q) \/ Stall(q)
     \/ UpdateStage \/ Complete \/ FailRun \/ WorkerDatabaseFault \/ Finish
  /\ calm' = IF worker.at = "updating" /\ worker.stage = "SYNCING"
             THEN \A c \in Calls : ~Busy(c) ELSE calm
  /\ UNCHANGED <<github, tables, call>>

Next ==
  \/ \E c \in Callers : CallStep(c)
  \/ \E c \in Calls : RequestThrows(c) \/ \E s \in Stages : BeginRequest(c, s)
  \/ BeginStage \/ StageFails
  \/ \E p \in Paths, content \in Contents \cup {NoFile} : Push(p, content)
  \/ ToggleConnection \/ RemoveIndex \/ CrashAll \/ JobStep

Spec == Init /\ [][Next]_vars

-----------------------------------------------------------------------------
\* Every variable has its type; there are chunks of existing files only, and
\* embeddings of existing chunks only.
IndexTypeOK ==
  /\ connected \in BOOLEAN /\ calm \in BOOLEAN /\ pushes \in 0..MaxPushes
  /\ branch \in Tree /\ files \in Tree /\ chunks \in Tree /\ embeddings \in Tree
  /\ call \in [Callers ->
       [stage : Stages, at : {"idle", "asking", "writing", "written"},
        view : Tree, todo : SUBSET Paths, lost : SUBSET Paths]]
  /\ \A p \in Paths : /\ files[p] = NoFile => chunks[p] = NoFile
                      /\ chunks[p] = NoFile => embeddings[p] = NoFile
  /\ ~present => files = Nothing

\* What the index is for the files of GitHub's default branch: it has files
\* as they are there, with their chunks and embeddings, and lacks a text file
\* only when the branch has more files than are ingested.
Indexed ==
  \A p \in Paths :
    /\ files[p] # NoFile => files[p] = branch[p] /\ branch[p] # Binary
    /\ files[p] = NoFile /\ Cardinality(Listed(branch)) <= MaxFiles
         => branch[p] \in {NoFile, Binary}
    /\ LET text == IF files[p] = Blank THEN NoFile ELSE files[p] IN
         chunks[p] = text /\ embeddings[p] = text

\* Whatever requests, failures and crashes have left behind, a run that is
\* about to be COMPLETED, and that nobody disturbed, has indexed the default
\* branch: no file or chunk is stale, none is without embedding, and none is
\* missing unless the limit of MaxFiles has cut it off, which nothing tells
\* the user of a COMPLETED run.
CompletedIsIndexed ==
  worker.at = "completing" /\ calm /\ present => Indexed

\* The embedding of a chunk is of the text of that chunk, although Ollama
\* answers after the chunk may have been replaced.
EmbeddingOfItsChunk ==
  \A p \in Paths : embeddings[p] # NoFile => embeddings[p] = chunks[p]

\* An undisturbed run throws away no embedding that is still right.
EmbeddingsKept ==
  [][calm /\ calm' /\ present' /\ Busy(Worker) =>
       \A p \in Paths :
         embeddings[p] # NoFile /\ embeddings[p] = files[p] /\ files'[p] = files[p]
           => embeddings'[p] = embeddings[p]]_vars
=============================================================================
