------------------------------- MODULE UsbBus -------------------------------
(***************************************************************************)
(* What the WRU daemon and its command line act on: the USB ports as the   *)
(* kernel shows them in /sys/bus/usb/devices, the /dev nodes of the        *)
(* storage devices, and the udev worker that applies                       *)
(* udev/80-usb-quarantine.rules.  The kernel is not part of the            *)
(* repository; it is modelled from how core/authorization.py reads and     *)
(* writes it.                                                              *)
(*                                                                         *)
(* An insertion is one physical act of plugging a device in.  It happens   *)
(* at most once, so Insertions also bounds the environment; a device that  *)
(* is plugged in again is another insertion.                               *)
(***************************************************************************)
EXTENDS Naturals

CONSTANTS Buses,          \* the bus ids, "1-2"
          Insertions,     \* the insertions of a run
          PortOf,         \* the bus an insertion happens at
          Existing,       \* those that are there before the daemon starts
          Storage,        \* those of devices with an interface of class 08
          Disks,          \* those of devices that get block nodes
          RulesInstalled, \* are the udev rules in /etc/udev/rules.d?
          None            \* no device, no bus

ASSUME BusAssumption ==
    /\ PortOf \in [Insertions -> Buses]
    /\ Existing \subseteq Insertions
    /\ \A i, j \in Existing : PortOf[i] = PortOf[j] => i = j
    /\ Storage \subseteq Insertions /\ Disks \subseteq Insertions
    /\ RulesInstalled \in BOOLEAN
    /\ None \notin Insertions \cup Buses

VARIABLES plugged,      \* the insertion present at a bus, or None
          auth,         \* its "authorized" attribute: "off" is 0; for 1 the
                        \* value says who wrote it, the kernel's default or
                        \* a call of authorize()
          node,         \* its block nodes under /dev, and their mode
          adds,         \* a udev "add" event of its interface is pending
          changes,      \* a udev "change" event of its block nodes is pending
          authDefault,  \* the "authorized_default" attribute of the hubs
          unseen        \* the insertions still to come

busVars == <<plugged, auth, node, adds, changes, authDefault, unseen>>

AuthValues == {"off", "default", "granted"}
NodeModes == {"absent", "closed", "open"}

BusTypeOK ==
    /\ plugged \in [Buses -> Insertions \cup {None}]
    /\ auth \in [Buses -> AuthValues]
    /\ node \in [Buses -> NodeModes]
    /\ adds \in [Buses -> BOOLEAN]
    /\ changes \in [Buses -> BOOLEAN]
    /\ authDefault \in {0, 1}
    /\ unseen \subseteq Insertions

(* The insertion that is at bus b before the daemon starts, if any.        *)
ExistingAt(b) ==
    IF \E i \in Existing : PortOf[i] = b
    THEN CHOOSE i \in Existing : PortOf[i] = b
    ELSE None

(* Devices that were there before the daemon are authorized by the kernel; *)
(* the add events of their interfaces may still be unhandled.              *)
BusInit(default) ==
    /\ plugged = [b \in Buses |-> ExistingAt(b)]
    /\ auth = [b \in Buses |-> IF ExistingAt(b) = None THEN "off" ELSE "default"]
    /\ node = [b \in Buses |-> "absent"]
    /\ adds = [b \in Buses |-> ExistingAt(b) \in Storage]
    /\ changes = [b \in Buses |-> FALSE]
    /\ authDefault = default
    /\ unseen = Insertions \ Existing

-----------------------------------------------------------------------------
(* Writing 0, or losing the device, takes the interfaces, their drivers,   *)
(* their block nodes and whatever udev had not handled yet.                *)
TurnOff(b) ==
    /\ auth' = [auth EXCEPT ![b] = "off"]
    /\ node' = [node EXCEPT ![b] = "absent"]
    /\ adds' = [adds EXCEPT ![b] = FALSE]
    /\ changes' = [changes EXCEPT ![b] = FALSE]

(* Writing 1 creates the interfaces of a device that had none.             *)
TurnOn(b) ==
    /\ auth' = [auth EXCEPT ![b] = "granted"]
    /\ adds' = IF auth[b] = "off"
               THEN [adds EXCEPT ![b] = plugged[b] \in Storage] ELSE adds
    /\ UNCHANGED <<node, changes>>

Plug(i) ==
    LET b == PortOf[i] IN
    /\ i \in unseen
    /\ plugged[b] = None
    /\ unseen' = unseen \ {i}
    /\ plugged' = [plugged EXCEPT ![b] = i]
    /\ auth' = [auth EXCEPT ![b] = IF authDefault = 1 THEN "default" ELSE "off"]
    /\ adds' = [adds EXCEPT ![b] = authDefault = 1 /\ i \in Storage]
    /\ UNCHANGED <<node, changes, authDefault>>

Unplug(b) ==
    /\ plugged[b] # None
    /\ plugged' = [plugged EXCEPT ![b] = None]
    /\ TurnOff(b)
    /\ UNCHANGED <<authDefault, unseen>>

(* The rule for interface class 08 writes 0 to the device's "authorized"   *)
(* whenever its interface is added.                                        *)
UdevAdd(b) ==
    /\ adds[b]
    /\ IF RulesInstalled
       THEN TurnOff(b)
       ELSE adds' = [adds EXCEPT ![b] = FALSE] /\ UNCHANGED <<auth, node, changes>>
    /\ UNCHANGED <<plugged, authDefault, unseen>>

(* The disk is scanned some time after usb-storage bound, and udev handles *)
(* its nodes after the interface.  The rules create them with MODE 0000,   *)
(* the system's defaults with 0660.                                        *)
NodeAppears(b) ==
    /\ plugged[b] \in Disks
    /\ auth[b] # "off" /\ ~adds[b]
    /\ node[b] = "absent"
    /\ node' = [node EXCEPT ![b] = IF RulesInstalled THEN "closed" ELSE "open"]
    /\ UNCHANGED <<plugged, auth, adds, changes, authDefault, unseen>>

(* The rules set MODE 0000 for an "add" only: a "change" event gives the   *)
(* nodes the mode of the system's defaults again.                          *)
UdevChange(b) ==
    /\ changes[b]
    /\ changes' = [changes EXCEPT ![b] = FALSE]
    /\ node' = [node EXCEPT ![b] = IF @ = "absent" THEN @ ELSE "open"]
    /\ UNCHANGED <<plugged, auth, adds, authDefault, unseen>>

(* set_hub_defaults, of the agent and of the daemon: an error at a hub is  *)
(* logged and the next one is tried.  The attribute is that of a hub which *)
(* could not be closed, if there is one.                                   *)
SetHubDefaults ==
    /\ authDefault' \in {0, authDefault}
    /\ UNCHANGED <<plugged, auth, node, adds, changes, unseen>>
=============================================================================
