--------------------------- MODULE SourceExcerpts ---------------------------
(***************************************************************************)
(* The excerpts of source files that are embedded and reviewed, and the    *)
(* findings that are accepted for them.  Lines are numbered from 1.  What  *)
(* a file says is abstracted to the number of its lines and the set of     *)
(* those that are not blank.                                               *)
(***************************************************************************)
EXTENDS Integers, Sequences

CONSTANTS
  ChunkSize,      \* chunkSize, 80 in the code
  Overlap,        \* overlap, 15 in the code
  Paths,
  Contents        \* what a file may contain

ASSUME ExcerptAssumption ==
  /\ Overlap \in Nat /\ ChunkSize \in Nat \ {0} /\ 2 * Overlap <= ChunkSize
  /\ Contents \subseteq [lines : Nat \ {0}, text : SUBSET Nat]

Step == ChunkSize - Overlap

Excerpt == [path : Paths, startLine : Nat, endLine : Nat]
Within(i, excerpt) == excerpt.startLine <= i /\ i <= excerpt.endLine

-----------------------------------------------------------------------------
(* RepositoriesService.createChunks                                        *)

\* Mutation: windows do not overlap.
WindowsApart(p, content) ==
  {[path |-> p, startLine |-> k * ChunkSize + 1,
    endLine |-> IF k * ChunkSize + ChunkSize < content.lines
                THEN k * ChunkSize + ChunkSize ELSE content.lines] :
     k \in {j \in 0..content.lines : j * ChunkSize < content.lines}}

\* Mutation: the last window does not end with the file.
WindowsPastEnd(p, content) ==
  {[path |-> p, startLine |-> k * Step + 1, endLine |-> k * Step + ChunkSize] :
     k \in {j \in 0..content.lines :
              j = 0 \/ (j - 1) * Step + ChunkSize < content.lines}}

\* The loop starts a window at every multiple of Step, and leaves once a
\* window has ended at the last line.
Windows(p, content) ==
  {[path |-> p, startLine |-> k * Step + 1,
    endLine |-> IF k * Step + ChunkSize < content.lines
                THEN k * Step + ChunkSize ELSE content.lines] :
     k \in {j \in 0..content.lines :
              j = 0 \/ (j - 1) * Step + ChunkSize < content.lines}}

\* A window of blank lines is no chunk.
CreateChunks(p, content) ==
  {w \in Windows(p, content) : \E i \in content.text : Within(i, w)}

-----------------------------------------------------------------------------
(* OllamaGenerationService.parseReviewCandidates.  Ollama names a path and *)
(* a range of lines, which may be anything.                                *)

\* Mutation: the end of the range is not compared with the excerpt's.
LocatedByStart(claim, sources) ==
  \E i \in DOMAIN sources :
    /\ sources[i].path = claim.path
    /\ \A j \in 1..(i - 1) : sources[j].path # claim.path
    /\ sources[i].startLine <= claim.startLine
    /\ claim.startLine <= claim.endLine

\* A claim counts if its lines are in the first excerpt of its file; those
\* in another excerpt of the same file are dropped.
Located(claim, sources) ==
  \E i \in DOMAIN sources :
    /\ sources[i].path = claim.path
    /\ \A j \in 1..(i - 1) : sources[j].path # claim.path
    /\ sources[i].startLine <= claim.startLine
    /\ claim.startLine <= claim.endLine
    /\ claim.endLine <= sources[i].endLine
=============================================================================
