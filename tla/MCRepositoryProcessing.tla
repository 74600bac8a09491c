----------------------- MODULE MCRepositoryProcessing -----------------------
(* A small instance of RepositoryProcessing for TLC.                       *)
EXTENDS RepositoryProcessing
=============================================================================
