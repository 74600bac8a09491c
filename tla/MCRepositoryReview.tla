------------------------ MODULE MCRepositoryReview --------------------------
(* A small instance of RepositoryReview for TLC: windows of four lines that *)
(* overlap in one, a short file, and one of three windows, the last blank. *)
EXTENDS RepositoryReview, TLC

SmallContents == {[lines |-> 3, text |-> 1..3], [lines |-> 8, text |-> {1, 5}]}

\* A finding of the first window, and one that leaves it.
SmallClaims == [path : Paths, startLine : {2}, endLine : {3, 5}]

\* At first the file is the longer one: a rebuild keeps or replaces it.
MCInit == Init /\ \A p \in Paths : content[p].lines = 8
MCSpec == MCInit /\ [][Next]_vars

Symmetry == Permutations(Calls)
=============================================================================
