------------------------------ MODULE UsbGate ------------------------------
(***************************************************************************)
(* What WRU promises of the USB ports, without saying how: a device may be *)
(* let in by the kernel's default only while the hubs are still open; from *)
(* then on a port opens only if a device that is or was at it was cleared. *)
(* That it is the one which is there now is more than WRUDaemon keeps.     *)
(***************************************************************************)
CONSTANTS Buses, Insertions, PortOf, IdentOf, None

VARIABLES plugged,  \* the insertion at a port
          auth,     \* "off", let in by "default", or "granted"
          closed,   \* do the hubs keep new devices out?
          cleared   \* the identities that a verdict or the user approved

gateVars == <<plugged, auth, closed, cleared>>

GateInit ==
    /\ plugged \in [Buses -> Insertions \cup {None}]
    /\ auth \in [Buses -> {"off", "default"}]
    /\ closed = FALSE
    /\ cleared = {}

Insert(b, i) ==
    /\ plugged[b] = None
    /\ plugged' = [plugged EXCEPT ![b] = i]
    /\ auth' = [auth EXCEPT ![b] = IF closed THEN "off" ELSE "default"]
    /\ UNCHANGED <<closed, cleared>>

Remove(b) ==
    /\ plugged' = [plugged EXCEPT ![b] = None]
    /\ auth' = [auth EXCEPT ![b] = "off"]
    /\ UNCHANGED <<closed, cleared>>

Close ==
    /\ closed' = TRUE
    /\ UNCHANGED <<plugged, auth, cleared>>

Clear(id) ==
    /\ cleared' = cleared \cup {id}
    /\ UNCHANGED <<plugged, auth, closed>>

Grant(b) ==
    /\ \E i \in Insertions : PortOf[i] = b /\ IdentOf[i] \in cleared
    /\ auth' = [auth EXCEPT ![b] = "granted"]
    /\ UNCHANGED <<plugged, closed, cleared>>

Revoke(b) ==
    /\ auth' = [auth EXCEPT ![b] = "off"]
    /\ UNCHANGED <<plugged, closed, cleared>>

GateNext ==
    \/ \E b \in Buses, i \in Insertions : Insert(b, i)
    \/ \E b \in Buses : Remove(b) \/ Grant(b) \/ Revoke(b)
    \/ \E i \in Insertions : Clear(IdentOf[i])
    \/ Close

GateSpec == GateInit /\ [][GateNext]_gateVars
=============================================================================
