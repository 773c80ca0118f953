----------------------------- MODULE MCTrayApplet -----------------------------
(***************************************************************************)
(* TrayApplet for TLC: two sticks of the same ids, of which one has no     *)
(* serial number.                                                          *)
(***************************************************************************)
EXTENDS TrayApplet

CONSTANTS clean, bad

SameIds == [d \in Devices |-> "0781:5567"]
OneNumber == [d \in Devices |-> IF d = bad THEN "" ELSE "4C53"]
=============================================================================
