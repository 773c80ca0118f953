-------------------------- MODULE MCAuthorization --------------------------
(***************************************************************************)
(* Instances of Authorization for TLC: two ports, a stick at the first and *)
(* a reader at the second, with two callers in the daemon and one in a     *)
(* process of its own.                                                     *)
(***************************************************************************)
EXTENDS Authorization, TLC

CONSTANTS p1, p2, k1, k3, c1, c2, c3, daemon, cli

MCPortOf == k1 :> p1 @@ k3 :> p2
TwoProcesses == c1 :> daemon @@ c2 :> daemon @@ c3 :> cli

(* The text of the first bus id is found in the path of the second.        *)
Overlapping == p1 :> {p1, p2} @@ p2 :> {p2}
=============================================================================
