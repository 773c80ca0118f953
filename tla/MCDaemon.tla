------------------------------ MODULE MCDaemon ------------------------------
(***************************************************************************)
(* Instances of WRUDaemon for TLC: one port with a device that is there at *)
(* the start, two ports, or a hub with a device behind it, and the devices *)
(* plugged in later.                                                       *)
(***************************************************************************)
EXTENDS WRUDaemon, TLC

CONSTANTS p1, p2, k1, k2, k3, idA, idB, w1, w2, w3, alert1, alert2, cli, api

OnePort == k1 :> p1 @@ k2 :> p1
TwoPorts == k1 :> p1 @@ k3 :> p2

Itself == [b \in Buses |-> b]
BehindHub == p1 :> p1 @@ p2 :> p1

(* Different devices; at one port, the second takes the place of the first.*)
Different == [i \in Insertions |-> IF i = k1 THEN idA ELSE idB]

MCWatcherOf == p1 :> alert1
MCWatchersOf == p1 :> alert1 @@ p2 :> alert2

MCLockOf == [c \in Callers |-> IF c = cli THEN cli ELSE Daemon]
MCCallers == {Startup, Processor} \cup Workers
                 \cup {WatcherOf[b] : b \in Buses} \cup Users
MCCovers == [b \in Buses |-> {b}]
=============================================================================
