------------------------ MODULE MCPullRequestReviews ------------------------
(***************************************************************************)
(* Instances of PullRequestReviews for TLC.  The workspaces' copies of the *)
(* GitHub repository are interchangeable, and so are the commits: symmetry *)
(* is used in the runs that check no liveness.                             *)
(***************************************************************************)
EXTENDS PullRequestReviews, TLC

RepositorySymmetry == Permutations(Repositories)
Symmetry           == RepositorySymmetry \cup Permutations(Commits)
=============================================================================
