---------------------------- MODULE MCDashboard ----------------------------
(* A small instance of Dashboard for TLC: every repository is in a          *)
(* workspace that is not the first, so that a reload has to name it.        *)
EXTENDS Dashboard

SmallWorkspaceOf == [r \in Repositories |->
                       CHOOSE w \in Workspaces : w # FirstWorkspace]
=============================================================================
