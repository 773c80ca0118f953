-------------------------- MODULE MCForensicLogger --------------------------
(***************************************************************************)
(* ForensicLogger for TLC; all constants are numbers, given by the .cfg.   *)
(***************************************************************************)
EXTENDS ForensicLogger
=============================================================================
