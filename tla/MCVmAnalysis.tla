---------------------------- MODULE MCVmAnalysis ----------------------------
(***************************************************************************)
(* VmAnalysis for TLC: analyses of two identical devices.                  *)
(***************************************************************************)
EXTENDS VmAnalysis

MCRuns == {1, 2}
MCIdsOf == [r \in MCRuns |-> "stick"]
=============================================================================
