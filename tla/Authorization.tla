--------------------------- MODULE Authorization ---------------------------
(***************************************************************************)
(* DeviceAuthorization of core/authorization.py: authorize() and           *)
(* deauthorize() under an asyncio.Lock.  The lock is a queue of callers,   *)
(* its head holds it: asyncio.Lock wakes its waiters in FIFO order and     *)
(* lets nobody overtake them.  It lives in one process; every `wru`        *)
(* command has an object, and so a lock, of its own.                       *)
(*                                                                         *)
(* A caller is a task that calls the object.  Other modules extend this    *)
(* one and conjoin their own continuation to the step that returns.        *)
(***************************************************************************)
EXTENDS UsbBus, Sequences

CONSTANTS Callers,  \* the tasks that call authorize() and deauthorize()
          Locks,    \* the locks, one per process
          LockOf,   \* the lock of the process a caller runs in
          Covers    \* the buses whose /sys path contains a bus id's text:
                    \* "1-1" is found in the path of "1-10" too

ASSUME AuthAssumption ==
    /\ LockOf \in [Callers -> Locks]
    /\ Covers \in [Buses -> SUBSET Buses]

VARIABLES call,  \* where each caller stands in authorize() or deauthorize()
          lock   \* the holder of each lock and the waiters behind it

callVars == <<call, lock>>
authVars == <<busVars, callVars>>

NoCall == [pc |-> "idle", bus |-> None, nodes |-> {}]

Calls == [pc : {"idle", "authorize", "settle", "deauthorize", "chmod"},
          bus : Buses \cup {None},
          nodes : SUBSET Buses]

CallTypeOK ==
    /\ call \in [Callers -> Calls]
    /\ \A c \in Callers : call[c].pc # "idle" => call[c].bus \in Buses
    /\ lock \in [Locks -> Seq(Callers)]

AuthTypeOK == BusTypeOK /\ CallTypeOK

AuthInit ==
    /\ BusInit(0)
    /\ call = [c \in Callers |-> NoCall]
    /\ lock = [l \in Locks |-> <<>>]

-----------------------------------------------------------------------------
(* Each definition named ...Bug is a fault that the runs must notice when  *)
(* it takes the place of the definition after it: here a lock that lets    *)
(* everybody in once it is taken.                                          *)
HoldsBug(c) == lock[LockOf[c]] # <<>>

Holds(c) == lock[LockOf[c]] # <<>> /\ Head(lock[LockOf[c]]) = c

RequestBug(c, op, b) ==  \* the bus id is not passed on
    /\ call[c].pc = "idle"
    /\ call' = [call EXCEPT ![c] = [NoCall EXCEPT !.pc = op]]
    /\ lock' = [lock EXCEPT ![LockOf[c]] = Append(@, c)]

(* `async with self._authorization_lock`: join the queue.                  *)
Request(c, op, b) ==
    /\ call[c].pc = "idle"
    /\ call' = [call EXCEPT ![c] = [NoCall EXCEPT !.pc = op, !.bus = b]]
    /\ lock' = [lock EXCEPT ![LockOf[c]] = Append(@, c)]

Return(c) ==
    /\ call' = [call EXCEPT ![c] = NoCall]
    /\ lock' = [lock EXCEPT ![LockOf[c]] = Tail(@)]

AuthorizeMissingBug(c) ==  \* returns without releasing the lock
    /\ call[c].pc = "authorize" /\ Holds(c)
    /\ plugged[call[c].bus] = None
    /\ call' = [call EXCEPT ![c] = NoCall]
    /\ UNCHANGED <<busVars, lock>>

(* The device is gone: authorize() returns False.                          *)
AuthorizeMissing(c) ==
    /\ call[c].pc = "authorize" /\ Holds(c)
    /\ plugged[call[c].bus] = None
    /\ Return(c)
    /\ UNCHANGED busVars

(* Write 1, then sleep while the kernel enumerates.                        *)
AuthorizeWrite(c) ==
    /\ call[c].pc = "authorize" /\ Holds(c)
    /\ plugged[call[c].bus] # None
    /\ TurnOn(call[c].bus)
    /\ call' = [call EXCEPT ![c].pc = "settle"]
    /\ UNCHANGED <<plugged, authDefault, unseen, lock>>

(* Bind the drivers, settle udev (a time-out is ignored), open the nodes   *)
(* found for the bus, have udev announce a change of every block device of *)
(* the machine, and return True.  Nothing in between yields.               *)
AuthorizeFinish(c) ==
    /\ call[c].pc = "settle"
    /\ changes' = [b \in Buses |-> changes[b] \/ node[b] # "absent"]
    /\ node' = [b \in Buses |->
                  IF b \in Covers[call[c].bus] /\ node[b] # "absent"
                  THEN "open" ELSE node[b]]
    /\ Return(c)
    /\ UNCHANGED <<plugged, auth, adds, authDefault, unseen>>

DeauthorizeWriteBug(c) ==  \* writes to every device whose path has the text
    /\ call[c].pc = "deauthorize" /\ Holds(c)
    /\ LET hit == {b \in Covers[call[c].bus] : plugged[b] # None}
       IN  /\ auth' = [b \in Buses |-> IF b \in hit THEN "off" ELSE auth[b]]
           /\ node' = [b \in Buses |-> IF b \in hit THEN "absent" ELSE node[b]]
           /\ adds' = [b \in Buses |-> b \notin hit /\ adds[b]]
           /\ changes' = [b \in Buses |-> b \notin hit /\ changes[b]]
    /\ call' = [call EXCEPT ![c].pc = "chmod"]
    /\ UNCHANGED <<plugged, authDefault, unseen, lock>>

(* Look up the nodes, then write 0 if the device is there.                 *)
DeauthorizeWrite(c) ==
    /\ call[c].pc = "deauthorize" /\ Holds(c)
    /\ LET b == call[c].bus
           present == plugged[b] # None
           nodes == {x \in Covers[b] : node[x] # "absent"}
       IN  /\ IF present THEN TurnOff(b) ELSE UNCHANGED <<auth, node, adds, changes>>
           /\ call' = [call EXCEPT ![c].pc = "chmod",
                                   ![c].nodes = IF present THEN nodes ELSE {}]
    /\ UNCHANGED <<plugged, authDefault, unseen, lock>>

(* chmod 000 on those that still exist, and return True.                   *)
DeauthorizeNodes(c) ==
    /\ call[c].pc = "chmod"
    /\ node' = [b \in Buses |->
                  IF b \in call[c].nodes /\ node[b] # "absent"
                  THEN "closed" ELSE node[b]]
    /\ Return(c)
    /\ UNCHANGED <<plugged, auth, adds, changes, authDefault, unseen>>

(* The process of lock l dies: its callers are gone, what they wrote stays.*)
ProcessDies(l) ==
    /\ call' = [c \in Callers |-> IF LockOf[c] = l THEN NoCall ELSE call[c]]
    /\ lock' = [lock EXCEPT ![l] = <<>>]

-----------------------------------------------------------------------------
(* The component on its own: any caller asks for anything, in any order,   *)
(* while devices come and go.                                              *)
UdevWork(b) == UdevAdd(b) \/ NodeAppears(b) \/ UdevChange(b)

Kernel ==
    \/ \E i \in Insertions : Plug(i)
    \/ \E b \in Buses : Unplug(b) \/ UdevWork(b)

CallStep(c) ==
    \/ AuthorizeMissing(c) \/ AuthorizeWrite(c) \/ AuthorizeFinish(c)
    \/ DeauthorizeWrite(c) \/ DeauthorizeNodes(c)

Asks(c) ==
    /\ \E op \in {"authorize", "deauthorize"}, b \in Buses : Request(c, op, b)
    /\ UNCHANGED busVars

Killed(l) ==
    /\ lock[l] # <<>>
    /\ ProcessDies(l)
    /\ UNCHANGED busVars

AuthNext ==
    \/ Kernel /\ UNCHANGED callVars
    \/ \E c \in Callers : Asks(c) \/ CallStep(c)
    \/ \E l \in Locks : Killed(l)

(* The event loop runs whatever it can; nobody owes the daemon a device, a *)
(* request or a crash.                                                     *)
AuthSpec ==
    /\ AuthInit /\ [][AuthNext]_authVars
    /\ \A c \in Callers : WF_authVars(CallStep(c))

-----------------------------------------------------------------------------
InCritical(c) == call[c].pc \in {"settle", "chmod"}

(* Whoever is past its first write is the holder of its process's lock.    *)
CriticalHolds == \A c \in Callers : InCritical(c) => Holds(c)

(* Two calls of one process are never both between their first write and   *)
(* their return: authorize() sleeps half a second in between, and a        *)
(* deauthorize() must not slip into it.                                    *)
LockExclusion ==
    \A c, d \in Callers :
        LockOf[c] = LockOf[d] /\ InCritical(c) /\ InCritical(d) => c = d

(* "True if authorization succeeded": between the write of 1 and the True  *)
(* nothing takes the authorization from the device that stays at the bus,  *)
(* except the udev rule for mass storage and a `wru deny` of that bus in   *)
(* another process, whose lock is another one.  No task of the same        *)
(* process does, and nothing that is meant for a bus of a similar name.    *)
UndoneOnlyFromOutside ==
    [][\A c \in Callers :
          LET b == call[c].bus IN
          /\ call[c].pc = "settle" /\ call'[c].pc = "settle"
          /\ plugged'[b] = plugged[b]
          /\ auth[b] # "off" /\ auth'[b] = "off"
          => \/ RulesInstalled /\ adds[b]
             \/ \E d \in Callers :
                  /\ LockOf[d] # LockOf[c]
                  /\ call[d].pc = "deauthorize" /\ call[d].bus = b
                  /\ call'[d].pc = "chmod"]_authVars

(* "All USB device nodes are immediately set to mode 000 (no access) until *)
(* the WRU daemon authorizes them": a block node is open only for a device *)
(* that authorize() was called for.                                        *)
OpenNodeWasGranted == \A b \in Buses : node[b] = "open" => auth[b] = "granted"

(* Every call returns: the lock is released on every path, also when the   *)
(* device has vanished, and no waiter is starved.                          *)
CallsReturn ==
    \A c \in Callers : call[c].pc # "idle" ~> call[c].pc = "idle"
=============================================================================
