------------------------- MODULE MCRepositoryIndex -------------------------
(* A small instance of RepositoryIndex for TLC.                            *)
EXTENDS RepositoryIndex, TLC

\* Contents with text are told apart only by what happens to them.
Symmetry == Permutations(Contents \ {Blank, Binary})

\* Bound: the third path is empty at first; a push that adds it goes beyond
\* MaxFiles.
MCInit == Init /\ branch[3] = NoFile
MCSpec == MCInit /\ [][Next]_vars
=============================================================================
