-------------------------- MODULE WRUDaemonProofs --------------------------
(***************************************************************************)
(* Proofs about WRUDaemon.  The first half: authorize() lets a device in   *)
(* only at a port for which there was a verdict, and the daemon implements *)
(* the gate.  That argument does not need the lock: what counts is that    *)
(* nobody asks for authorize() on a bus without a clearance for a device   *)
(* of that bus, however late the write happens.  The second half builds on *)
(* the types and the lock: no monitor outlives its device, nothing at a    *)
(* port of the machine escapes the evaluation, and what was blocked stays  *)
(* out.                                                                    *)
(***************************************************************************)
EXTENDS WRUDaemon, AuthorizationProofs, SequenceTheorems

CallShape ==
    /\ call \in [Callers -> Calls]
    /\ \A c \in Callers : call[c].pc # "idle" => call[c].bus \in Buses

TaskRecords == [pc : TaskStates, info : Infos \cup {NoInfo}]

TaskShape ==
    /\ todo \subseteq Infos
    /\ task \in [Tasks -> TaskRecords]
    /\ \A t \in Tasks : task[t].pc \notin {"idle", "containing"}
                            => task[t].info \in Infos

Shape == BusTypeOK /\ CallShape /\ TaskShape

(* Each device is at its own port, and a port without one is off.          *)
PortsFit ==
    \A b \in Buses :
        /\ plugged[b] # None => PortOf[plugged[b]] = b
        /\ plugged[b] = None => auth[b] = "off"

(* Who calls authorize() has a clearance for some device of that bus.      *)
Approved ==
    \A c \in Callers : call[c].pc = "authorize" =>
        \E i \in Insertions : PortOf[i] = call[c].bus /\ IdentOf[i] \in cleared

Safe == Shape /\ PortsFit /\ Approved /\ PortWasCleared

-----------------------------------------------------------------------------
(* Most steps neither let a device in nor ask for it.                      *)
NoNewCall == \A c \in Callers : call'[c].pc = "authorize" => call'[c] = call[c]

NothingNewIn ==
    /\ plugged' = plugged
    /\ \A b \in Buses : auth'[b] \in {auth[b], "off"}

Harmless == cleared \subseteq cleared' /\ NoNewCall /\ NothingNewIn

LEMMA HarmlessKeeps ==
    ASSUME PortsFit, Approved, PortWasCleared, Harmless
    PROVE  PortsFit' /\ Approved' /\ PortWasCleared'
BY DEF PortsFit, Approved, PortWasCleared, Harmless, NoNewCall, NothingNewIn

LEMMA TasksAreCallers ==
    /\ Tasks \subseteq Callers /\ Users \subseteq Callers
    /\ Startup \in Tasks /\ Processor \in Tasks /\ Workers \subseteq Tasks
    /\ \A b \in Buses : WatcherOf[b] \in Callers
BY DaemonAssumption DEF Tasks, Watchers

LEMMA InfoTyped ==
    ASSUME BusTypeOK, NEW b \in Buses
    PROVE  /\ Info(b) \in Infos \cup {NoInfo}
           /\ plugged[b] # None => Info(b) \in Infos
BY DEF BusTypeOK, Info, Infos

LEMMA IdleTyped == Idle \in TaskRecords
BY DEF Idle, TaskRecords, TaskStates

LEMMA TaskKnows ==
    ASSUME BusAssumption, TaskShape, NEW t \in Tasks,
           task[t].pc \notin {"idle", "containing"}
    PROVE  /\ task[t].info \in Infos
           /\ task[t].info.ins \in Insertions
           /\ Bus(t) \in Buses
BY DEF TaskShape, Infos, Bus, BusAssumption

(* One task's record changes.                                              *)
LEMMA TaskMoves ==
    ASSUME TaskShape, NEW t \in Tasks, NEW new \in TaskRecords,
           new.pc \notin {"idle", "containing"} => new.info \in Infos,
           task' = [task EXCEPT ![t] = new], todo' \subseteq todo
    PROVE  TaskShape'
BY DEF TaskShape

LEMMA TaskEnds ==
    ASSUME TaskShape, NEW t \in Tasks,
           task' = [task EXCEPT ![t] = Idle], todo' = todo
    PROVE  TaskShape'
BY IdleTyped, TaskMoves DEF Idle

LEMMA TaskContinues ==
    ASSUME TaskShape, NEW t \in Tasks, NEW pc \in TaskStates,
           task[t].info \in Infos,
           task' = [task EXCEPT ![t].pc = pc], todo' = todo
    PROVE  TaskShape'
<1>1. task'[t] = [task[t] EXCEPT !.pc = pc] /\ task[t] \in TaskRecords
  BY DEF TaskShape
<1>2. task'[t] \in TaskRecords /\ task'[t].info \in Infos
  BY <1>1 DEF TaskRecords
<1>3. task' \in [Tasks -> TaskRecords]
  BY <1>2 DEF TaskShape
<1>4. \A u \in Tasks : u # t => task'[u] = task[u]
  BY DEF TaskShape
<1>5. QED
  BY <1>2, <1>3, <1>4 DEF TaskShape

-----------------------------------------------------------------------------
(* What the operations of Authorization do to the calls and the ports.     *)

LEMMA NoCallShape == NoCall \in Calls /\ NoCall.pc = "idle"
BY DEF NoCall, Calls

LEMMA RequestShape ==
    ASSUME CallShape, NEW c \in Callers, NEW b \in Buses,
           NEW op \in {"authorize", "deauthorize"}, Request(c, op, b)
    PROVE  /\ CallShape'
           /\ call'[c].pc = op /\ call'[c].bus = b
           /\ \A d \in Callers : d # c => call'[d] = call[d]
<1>1. [NoCall EXCEPT !.pc = op, !.bus = b] \in Calls
  BY DEF NoCall, Calls
<1>2. call' = [call EXCEPT ![c] = [NoCall EXCEPT !.pc = op, !.bus = b]]
  BY DEF Request
<1>3. call'[c].pc = op /\ call'[c].bus = b
  BY <1>2 DEF CallShape, NoCall
<1>4. \A d \in Callers : d # c => call'[d] = call[d]
  BY <1>2 DEF CallShape
<1>5. call' \in [Callers -> Calls]
  BY <1>1, <1>2 DEF CallShape
<1>6. QED
  BY <1>3, <1>4, <1>5 DEF CallShape

LEMMA DenyRequest ==
    ASSUME CallShape, NEW c \in Callers, NEW b \in Buses,
           Request(c, "deauthorize", b)
    PROVE  CallShape' /\ NoNewCall
BY RequestShape DEF NoNewCall

LEMMA ReturnShape ==
    ASSUME CallShape, NEW c \in Callers, Return(c)
    PROVE  CallShape' /\ NoNewCall
BY NoCallShape DEF Return, CallShape, NoNewCall

LEMMA CallEnds ==
    ASSUME BusTypeOK, CallShape, NEW c \in Callers,
           AuthorizeMissing(c) \/ AuthorizeFinish(c) \/ DeauthorizeNodes(c)
    PROVE  /\ BusTypeOK' /\ CallShape' /\ NoNewCall
           /\ UNCHANGED <<plugged, auth, authDefault>>
<1>1. CallShape' /\ NoNewCall
  BY ReturnShape DEF AuthorizeMissing, AuthorizeFinish, DeauthorizeNodes
<1>2. /\ UNCHANGED <<plugged, auth, adds, authDefault, unseen>>
      /\ changes' \in [Buses -> BOOLEAN]
  BY DEF AuthorizeMissing, AuthorizeFinish, DeauthorizeNodes, busVars, BusTypeOK
<1>3. node' \in [Buses -> NodeModes]
  BY DEF AuthorizeMissing, AuthorizeFinish, DeauthorizeNodes, busVars,
         BusTypeOK, NodeModes
<1>4. QED
  BY <1>1, <1>2, <1>3 DEF BusTypeOK

LEMMA WriteOne ==
    ASSUME BusAssumption, BusTypeOK, CallShape, NEW c \in Callers, AuthorizeWrite(c)
    PROVE  /\ call[c].pc = "authorize" /\ call[c].bus \in Buses
           /\ plugged[call[c].bus] # None
           /\ auth' = [auth EXCEPT ![call[c].bus] = "granted"]
           /\ BusTypeOK' /\ CallShape' /\ NoNewCall
           /\ UNCHANGED <<plugged, authDefault>>
<1> DEFINE b == call[c].bus
<1>1. call[c].pc = "authorize" /\ b \in Buses /\ plugged[b] # None
  BY DEF AuthorizeWrite, CallShape
<1>2. plugged[b] \in Insertions
  BY <1>1 DEF BusTypeOK
<1>3. auth' = [auth EXCEPT ![b] = "granted"] /\ UNCHANGED <<plugged, authDefault, unseen>>
  BY DEF AuthorizeWrite, TurnOn
<1>4. BusTypeOK'
  BY <1>1, <1>3 DEF AuthorizeWrite, TurnOn, BusTypeOK, AuthValues
<1>5. call' = [call EXCEPT ![c].pc = "settle"]
  BY DEF AuthorizeWrite
<1>6. CallShape' /\ NoNewCall
  <2> DEFINE new == [call[c] EXCEPT !.pc = "settle"]
  <2>1. call[c] \in Calls
    BY DEF CallShape
  <2>2. new \in Calls /\ new.pc = "settle" /\ new.bus = b
    BY <1>2, <2>1 DEF Calls
  <2>3. call' = [call EXCEPT ![c] = new]
    BY <1>5
  <2> HIDE DEF new, b
  <2>4. call'[c] = new /\ \A d \in Callers : d # c => call'[d] = call[d]
    BY <2>3 DEF CallShape
  <2>5. call' \in [Callers -> Calls]
    BY <2>2, <2>3 DEF CallShape
  <2> QED  BY <1>1, <2>2, <2>4, <2>5 DEF CallShape, NoNewCall
<1>7. QED
  BY <1>1, <1>3, <1>4, <1>6

LEMMA WriteZero ==
    ASSUME AuthAssumption, BusTypeOK, CallShape, NEW c \in Callers, DeauthorizeWrite(c)
    PROVE  /\ call[c].bus \in Buses
           /\ auth' \in {auth, [auth EXCEPT ![call[c].bus] = "off"]}
           /\ BusTypeOK' /\ CallShape' /\ NoNewCall
           /\ UNCHANGED <<plugged, authDefault>>
<1> DEFINE b == call[c].bus
<1>1. b \in Buses
  BY DEF DeauthorizeWrite, CallShape
<1>2. auth' \in {auth, [auth EXCEPT ![b] = "off"]} /\ UNCHANGED <<plugged, authDefault, unseen>>
  BY DEF DeauthorizeWrite, TurnOff
<1>3. BusTypeOK'
  <2>1. CASE TurnOff(b)
    <3>1. /\ auth' \in [Buses -> AuthValues] /\ node' \in [Buses -> NodeModes]
          /\ adds' \in [Buses -> BOOLEAN] /\ changes' \in [Buses -> BOOLEAN]
      BY <1>1, <2>1, TurnOffTyped
    <3>2. QED
      BY <1>2, <3>1 DEF BusTypeOK
  <2>2. CASE UNCHANGED <<auth, node, adds, changes>>
    BY <1>2, <2>2 DEF BusTypeOK
  <2>3. QED
    BY <2>1, <2>2 DEF DeauthorizeWrite
<1>4. PICK nodes \in SUBSET Buses :
          call' = [call EXCEPT ![c].pc = "chmod", ![c].nodes = nodes]
  <2> DEFINE found == {x \in Covers[b] : node[x] # "absent"}
             nodes == IF plugged[b] # None THEN found ELSE {}
  <2>1. nodes \in SUBSET Buses
    BY <1>1, AuthAssumption
  <2>2. call' = [call EXCEPT ![c].pc = "chmod", ![c].nodes = nodes]
    BY DEF DeauthorizeWrite
  <2>3. QED
    BY <2>1, <2>2
<1>5. call' \in [Callers -> Calls]
  <2>1. call'[c] = [call[c] EXCEPT !.pc = "chmod", !.nodes = nodes]
    BY <1>4 DEF CallShape
  <2>2. call[c] \in Calls
    BY DEF CallShape
  <2>3. call'[c] \in Calls
    BY <2>1, <2>2 DEF Calls
  <2>4. QED
    BY <1>4, <2>3 DEF CallShape
<1>6. NoNewCall /\ \A d \in Callers : call'[d].pc # "idle" => call'[d].bus \in Buses
  BY <1>1, <1>4 DEF CallShape, Calls, NoNewCall
<1>7. QED
  BY <1>1, <1>2, <1>3, <1>5, <1>6 DEF CallShape

-----------------------------------------------------------------------------
(* The initial states are safe, and every action keeps them so.            *)

LEMMA SafeInit == Init => Safe
<1> SUFFICES ASSUME Init PROVE Safe
  OBVIOUS
<1> USE BusAssumption
<1>1. \A b \in Buses : ExistingAt(b) # None =>
          ExistingAt(b) \in Insertions /\ PortOf[ExistingAt(b)] = b
  BY DEF ExistingAt
<1>2. BusTypeOK
  BY <1>1 DEF Init, BusInit, BusTypeOK, AuthValues, NodeModes
<1>3. CallShape /\ Approved
  BY NoCallShape DEF Init, CallShape, Approved
<1>4. TaskShape
  BY IdleTyped DEF Init, TaskShape, Idle
<1>5. PortsFit /\ PortWasCleared
  BY <1>1 DEF Init, BusInit, PortsFit, PortWasCleared
<1>6. QED
  BY <1>2, <1>3, <1>4, <1>5 DEF Safe, Shape

LEMMA KernelSafe == ASSUME Safe, KernelStep PROVE Safe'
<1> USE BusAssumption DEF Safe, Shape
<1>1. UNCHANGED <<callVars, todo, task, cleared>>
  BY DEF KernelStep, DevicePlugged, DeviceUnplugged, UdevWorks, bootVars, ghosts
<1>2. CallShape' /\ NoNewCall
  BY <1>1 DEF callVars, CallShape, NoNewCall
<1>3. TaskShape'
  BY <1>1 DEF TaskShape
<1>4. Approved'
  BY <1>1 DEF callVars, Approved
<1>5. ASSUME NEW i \in Insertions, Plug(i)
      PROVE  BusTypeOK' /\ PortsFit' /\ PortWasCleared'
  <2> USE <1>1, <1>5 DEF Plug, BusTypeOK, AuthValues, NodeModes
  <2>1. BusTypeOK'
    OBVIOUS
  <2>2. PortsFit'
    BY DEF PortsFit
  <2>3. \A b \in Buses : auth'[b] = "granted" => auth[b] = "granted"
    OBVIOUS
  <2>4. PortWasCleared'
    BY <2>3 DEF PortWasCleared
  <2>5. QED
    BY <2>1, <2>2, <2>4
<1>6. ASSUME NEW b \in Buses, Unplug(b)
      PROVE  BusTypeOK' /\ PortsFit' /\ PortWasCleared'
  <2>1. /\ plugged' = [plugged EXCEPT ![b] = None]
        /\ auth' = [auth EXCEPT ![b] = "off"]
        /\ UNCHANGED <<authDefault, unseen>>
    BY <1>6 DEF Unplug, TurnOff
  <2>2. BusTypeOK'
    <3>1. plugged' \in [Buses -> Insertions \cup {None}]
      BY <1>1, <2>1 DEF BusTypeOK
    <3>2. auth' \in [Buses -> AuthValues]
      BY <1>1, <2>1 DEF BusTypeOK, AuthValues
    <3>3. node' \in [Buses -> NodeModes]
      BY <1>1, <1>6 DEF Unplug, TurnOff, BusTypeOK, NodeModes
    <3>4. adds' \in [Buses -> BOOLEAN] /\ changes' \in [Buses -> BOOLEAN]
      BY <1>1, <1>6 DEF Unplug, TurnOff, BusTypeOK
    <3>5. QED
      BY <1>1, <2>1, <3>1, <3>2, <3>3, <3>4 DEF BusTypeOK
  <2>3. PortsFit' /\ PortWasCleared'
    BY <1>1, <1>6, <2>1 DEF PortsFit, PortWasCleared, BusTypeOK
  <2>4. QED
    BY <2>2, <2>3
<1>7. ASSUME NEW b \in Buses, UdevWork(b)
      PROVE  BusTypeOK' /\ PortsFit' /\ PortWasCleared'
  <2>1. /\ UNCHANGED <<plugged, authDefault, unseen>>
        /\ auth' \in {auth, [auth EXCEPT ![b] = "off"]}
    BY <1>7 DEF UdevWork, UdevAdd, NodeAppears, UdevChange, TurnOff
  <2>2. BusTypeOK'
    <3>1. ASSUME TurnOff(b) PROVE BusTypeOK'
      <4>1. /\ auth' \in [Buses -> AuthValues] /\ node' \in [Buses -> NodeModes]
            /\ adds' \in [Buses -> BOOLEAN] /\ changes' \in [Buses -> BOOLEAN]
        BY <1>1, <3>1, TurnOffTyped
      <4>2. QED
        BY <1>1, <2>1, <4>1 DEF BusTypeOK
    <3>2. ASSUME UNCHANGED <<auth, node, changes>>, adds' = [adds EXCEPT ![b] = FALSE]
          PROVE  BusTypeOK'
      BY <1>1, <2>1, <3>2 DEF BusTypeOK
    <3>3. ASSUME NodeAppears(b) PROVE BusTypeOK'
      BY <1>1, <3>3 DEF NodeAppears, BusTypeOK, NodeModes
    <3>4. ASSUME UdevChange(b) PROVE BusTypeOK'
      <4>1. changes' \in [Buses -> BOOLEAN] /\ node' \in [Buses -> NodeModes]
        BY <1>1, <3>4 DEF UdevChange, BusTypeOK, NodeModes
      <4>2. QED
        BY <1>1, <3>4, <4>1 DEF UdevChange, BusTypeOK
    <3>5. QED
      BY <1>7, <3>1, <3>2, <3>3, <3>4 DEF UdevWork, UdevAdd
  <2>3. PortsFit' /\ PortWasCleared'
    BY <1>1, <2>1 DEF PortsFit, PortWasCleared, BusTypeOK
  <2>4. QED
    BY <2>2, <2>3
<1>8. QED
  BY <1>2, <1>3, <1>4, <1>5, <1>6, <1>7
     DEF KernelStep, DevicePlugged, DeviceUnplugged, UdevWorks

(* Steps that leave the ports, the calls and the verdicts alone            *)
LEMMA TaskOnlySafe ==
    ASSUME Safe, TaskShape', UNCHANGED <<busVars, call>>, cleared \subseteq cleared'
    PROVE  Safe'
<1>1. BusTypeOK' /\ CallShape'
  BY DEF Safe, Shape, busVars, BusTypeOK, CallShape
<1>2. PortsFit' /\ Approved' /\ PortWasCleared'
  BY DEF Safe, busVars, PortsFit, Approved, PortWasCleared
<1>3. QED
  BY <1>1, <1>2 DEF Safe, Shape

(* Steps that only ask for deauthorize(), or for nothing                   *)
LEMMA QuietSafe ==
    ASSUME Safe, TaskShape', CallShape', NoNewCall, UNCHANGED busVars,
           cleared \subseteq cleared'
    PROVE  Safe'
<1>1. BusTypeOK'
  BY DEF Safe, Shape, busVars, BusTypeOK
<1>2. Harmless
  BY DEF busVars, Harmless, NothingNewIn
<1>3. QED
  BY <1>1, <1>2, HarmlessKeeps DEF Safe, Shape

LEMMA AgentSafe == ASSUME Safe, AgentStep PROVE Safe'
<1> USE BusAssumption DEF Safe, Shape
<1> DEFINE Kept == /\ UNCHANGED <<plugged, unseen, callVars, todo, task, cleared>>
                   /\ \A b \in Buses : auth'[b] \in {auth[b], "off"}
                   /\ BusTypeOK'
<1>1. Kept
  <2>1. CASE AgentSetsHubs
    BY <2>1 DEF AgentSetsHubs, SetHubDefaults, ghosts, BusTypeOK
  <2>2. ASSUME NEW b \in Buses, AgentCutsOff(b) PROVE Kept
    BY <2>2 DEF AgentCutsOff, TurnOff, daemonVars, bootVars, ghosts, BusTypeOK,
                AuthValues, NodeModes
  <2>3. CASE AgentDone \/ AgentFindsNoSysfs
    BY <2>3 DEF AgentDone, AgentFindsNoSysfs, authVars, busVars, ghosts, BusTypeOK
  <2>4. QED
    BY <2>1, <2>2, <2>3 DEF AgentStep
<1>2. CallShape' /\ NoNewCall /\ TaskShape'
  BY <1>1 DEF callVars, CallShape, TaskShape, NoNewCall
<1>3. Harmless
  BY <1>1, <1>2 DEF Harmless, NothingNewIn
<1>4. QED
  BY <1>1, <1>2, <1>3, HarmlessKeeps

LEMMA StartSafe == ASSUME Safe, StartStep \/ PreflightDone PROVE Safe'
<1> USE TasksAreCallers
<1>1. CASE StartHubs
  <2>1. UNCHANGED <<plugged, auth, node, adds, changes, unseen, call, todo, task, cleared>>
    BY <1>1 DEF StartHubs, SetHubDefaults, callVars, ghosts
  <2>2. authDefault' \in {0, 1}
    BY <1>1 DEF StartHubs, SetHubDefaults, Safe, Shape, BusTypeOK
  <2>3. Shape'
    BY <2>1, <2>2 DEF Safe, Shape, BusTypeOK, CallShape, TaskShape
  <2>4. PortsFit' /\ Approved' /\ PortWasCleared'
    BY <2>1 DEF Safe, PortsFit, Approved, PortWasCleared
  <2>5. QED
    BY <2>3, <2>4 DEF Safe
<1>2. CASE StartListening \/ StartDone \/ PreflightDone
  <2>1. UNCHANGED <<busVars, call, todo, task, cleared>>
    BY <1>2 DEF StartListening, StartDone, PreflightDone, authVars, callVars,
                bootVars, ghosts
  <2>2. TaskShape'
    BY <2>1 DEF Safe, Shape, TaskShape
  <2>3. QED
    BY <2>1, <2>2, TaskOnlySafe
<1>3. CASE ListExisting
  <2>1. UNCHANGED <<busVars, call, task, cleared>>
    BY <1>3 DEF ListExisting, authVars, callVars, ghosts
  <2>2. todo' \subseteq Infos
    BY <1>3, InfoTyped DEF ListExisting, Safe, Shape
  <2>3. TaskShape'
    BY <2>1, <2>2 DEF Safe, Shape, TaskShape
  <2>4. QED
    BY <2>1, <2>3, TaskOnlySafe
<1>4. CASE TakeExisting
  <2>1. PICK info \in todo :
            /\ todo' = todo \ {info}
            /\ task' = [task EXCEPT ![Startup] = Doing("evaluate", info)]
    BY <1>4 DEF TakeExisting
  <2>2. UNCHANGED <<busVars, call, cleared>>
    BY <1>4 DEF TakeExisting, authVars, callVars, ghosts
  <2>3. info \in Infos
    BY DEF Safe, Shape, TaskShape
  <2>4. Doing("evaluate", info) \in TaskRecords /\ Doing("evaluate", info).info \in Infos
    BY <2>3 DEF Doing, TaskRecords, TaskStates
  <2>5. TaskShape'
    BY <2>1, <2>4, TaskMoves DEF Safe, Shape
  <2>6. QED
    BY <2>2, <2>5, TaskOnlySafe
<1>5. QED
  BY <1>1, <1>2, <1>3, <1>4 DEF StartStep

(* The queue holds events of the ports, so the processor acts on a port.   *)
Queued == events \in Seq(Events)

LEMMA EventsSafe ==
    ASSUME Safe, Queued, TakeAdd \/ TakeRemove PROVE Safe'
<1> DEFINE b == Head(events).bus
<1> USE TasksAreCallers DEF Safe, Shape
<1>1. b \in Buses
  <2>1. events # <<>>
    BY DEF TakeAdd, TakeRemove
  <2>2. Head(events) \in Events
    BY <2>1 DEF Queued
  <2>3. QED
    BY <2>2 DEF Events
<1>2. CASE TakeAdd
  <2>1. Request(Processor, "deauthorize", b)
    BY <1>2 DEF TakeAdd
  <2>2. CallShape' /\ NoNewCall
    BY <1>1, <2>1, DenyRequest
  <2>3. UNCHANGED <<busVars, todo, cleared>>
    BY <1>2 DEF TakeAdd, bootVars, ghosts
  <2>4. task' = [task EXCEPT ![Processor] = Doing("containing", Info(b))]
    BY <1>2 DEF TakeAdd
  <2>5. Doing("containing", Info(b)) \in TaskRecords
        /\ Doing("containing", Info(b)).pc = "containing"
    BY <1>1, InfoTyped DEF Doing, TaskRecords, TaskStates
  <2>6. TaskShape'
    BY <2>3, <2>4, <2>5, TaskMoves
  <2>7. QED
    BY <2>2, <2>3, <2>6, QuietSafe
<1>3. CASE TakeRemove
  <2>1. WithdrawAlert(b) /\ UNCHANGED <<busVars, todo, task, cleared>>
    BY <1>3 DEF TakeRemove, bootVars, ghosts
  <2>2. call' = [call EXCEPT ![WatcherOf[b]] = NoCall] \/ call' = call
    BY <2>1 DEF WithdrawAlert, callVars
  <2>3. CallShape' /\ NoNewCall
    BY <2>2, NoCallShape DEF CallShape, NoNewCall
  <2>4. TaskShape'
    BY <2>1 DEF TaskShape
  <2>5. QED
    BY <2>1, <2>3, <2>4, QuietSafe
<1>4. QED
  BY <1>2, <1>3

LEMMA QuietTaskEnds ==
    ASSUME Safe, NEW t \in Tasks, task' = [task EXCEPT ![t] = Idle],
           UNCHANGED <<busVars, todo, call>>, cleared \subseteq cleared'
    PROVE  Safe'
BY TaskEnds, TaskOnlySafe DEF Safe, Shape

(* A task turns to denying the device it knows.                            *)
LEMMA DenySafe ==
    ASSUME Safe, NEW t \in Tasks, task[t].pc \notin {"idle", "containing"},
           GoDeny(t), UNCHANGED <<busVars, todo>>, cleared \subseteq cleared'
    PROVE  Safe'
<1> USE DEF Safe, Shape
<1>1. task[t].info \in Infos /\ Bus(t) \in Buses
  BY TaskKnows, BusAssumption
<1>2. CallShape' /\ NoNewCall
  BY <1>1, DenyRequest, TasksAreCallers DEF GoDeny
<1>3. TaskShape'
  BY <1>1, TaskContinues DEF GoDeny, TaskStates
<1>4. QED
  BY <1>2, <1>3, QuietSafe

(* A task turns to authorizing the bus of the device it knows, with that   *)
(* device's identity cleared in the same step.                             *)
LEMMA AuthorizeSafe ==
    ASSUME Safe, NEW t \in Tasks, task[t].pc \notin {"idle", "containing"},
           GoAuthorize(t), UNCHANGED <<busVars, todo>>,
           cleared' = cleared \cup {Ident(t)}
    PROVE  Safe'
<1> USE DEF Safe, Shape
<1>1. task[t].info \in Infos /\ task[t].info.ins \in Insertions /\ Bus(t) \in Buses
  BY TaskKnows, BusAssumption
<1>2. /\ CallShape'
      /\ call'[t].bus = Bus(t)
      /\ \A d \in Callers : d # t => call'[d] = call[d]
  BY <1>1, RequestShape, TasksAreCallers DEF GoAuthorize
<1>3. TaskShape'
  BY <1>1, TaskContinues DEF GoAuthorize, TaskStates
<1>4. Approved'
  BY <1>1, <1>2 DEF Approved, Bus, Ident
<1>5. BusTypeOK' /\ PortsFit' /\ PortWasCleared'
  BY DEF busVars, BusTypeOK, PortsFit, PortWasCleared
<1>6. QED
  BY <1>2, <1>3, <1>4, <1>5

(* A task hands its device over to a worker.                               *)
LEMMA SpawnSafe ==
    ASSUME Safe, NEW t \in Tasks, task[t].pc \notin {"idle", "containing"},
           NEW pc \in TaskStates, Spawn(t, pc), UNCHANGED <<busVars, todo>>,
           cleared \subseteq cleared'
    PROVE  Safe'
<1>1. PICK w \in Workers :
          task' = [task EXCEPT ![t] = Idle, ![w] = Doing(pc, task[t].info)]
  BY DEF Spawn
<1>2. task[t].info \in Infos
  BY TaskKnows, BusAssumption DEF Safe, Shape
<1>3. Doing(pc, task[t].info) \in TaskRecords /\ Doing(pc, task[t].info).info \in Infos
  BY <1>2 DEF Doing, TaskRecords
<1>4. w \in Tasks
  BY TasksAreCallers
<1>5. \A u \in Tasks : task'[u] \in {task[u], Idle, Doing(pc, task[t].info)}
  BY <1>1, <1>4 DEF Safe, Shape, TaskShape
<1>6. task' \in [Tasks -> TaskRecords]
  BY <1>1, <1>3, <1>4, IdleTyped DEF Safe, Shape, TaskShape
<1>7. TaskShape'
  BY <1>3, <1>5, <1>6 DEF Safe, Shape, TaskShape, Idle
<1>8. QED
  BY <1>7, TaskOnlySafe DEF Spawn, callVars

LEMMA EvaluatorSafe ==
    ASSUME Safe, NEW t \in {Startup, Processor}, EvaluatorStep(t) PROVE Safe'
<1> USE TasksAreCallers DEF ghosts, bootVars
<1>1. ASSUME NEW decision \in Decisions(Ident(t)), task[t].pc = "evaluate",
             Enforce(t, decision), UNCHANGED <<busVars, todo, vmVars>>
      PROVE  Safe'
  <2>1. cleared \subseteq cleared'
    BY <1>1 DEF Enforce
  <2>2. CASE decision = "ALLOW"
    BY <1>1, <2>2, AuthorizeSafe DEF Enforce
  <2>3. ASSUME NEW pc \in {"telling", "telling analysis"}, Tells(t, pc) PROVE Safe'
    <3>1. task[t].info \in Infos
      BY <1>1, TaskKnows, BusAssumption DEF Safe, Shape
    <3>2. TaskShape'
      BY <1>1, <2>3, <3>1, TaskContinues DEF Tells, Safe, Shape, TaskStates
    <3>3. QED
      BY <1>1, <2>1, <2>3, <3>2, TaskOnlySafe DEF Tells, callVars
  <2>4. CASE decision = "DENY"
    BY <1>1, <2>1, <2>4, DenySafe DEF Enforce
  <2>5. CASE decision \in {"QUARANTINE", "ANALYZE"}
    BY <1>1, <2>3, <2>5 DEF Enforce
  <2>6. QED
    BY <1>1, <2>2, <2>4, <2>5 DEF Decisions
<1>2. CASE Evaluate(t)
  BY <1>1, <1>2 DEF Evaluate
<1>3. CASE VmWaited(t)
  BY <1>3, SpawnSafe DEF VmWaited, TaskStates
<1>4. CASE VmWaitTimesOut(t)
  BY <1>4, DenySafe DEF VmWaitTimesOut
<1>5. QED
  BY <1>2, <1>3, <1>4 DEF EvaluatorStep

(* The user has been told, and the analysis of the device begins.          *)
LEMMA ClientSafe ==
    ASSUME Safe, NEW t \in {Startup, Processor}, ClientReads(t) PROVE Safe'
<1> USE TasksAreCallers DEF ghosts, bootVars
<1>1. CASE Told(t)
  BY <1>1, QuietTaskEnds DEF Told, authVars, callVars
<1>2. CASE ToldOfAnalysis(t)
  <2>1. task[t].pc = "telling analysis" /\ UNCHANGED <<busVars, todo, cleared>>
    BY <1>2 DEF ToldOfAnalysis
  <2>2. CASE Spawn(t, "namespace") \/ Spawn(t, "vm")
    BY <2>1, <2>2, SpawnSafe DEF TaskStates
  <2>3. CASE GoDeny(t)
    BY <2>1, <2>3, DenySafe
  <2>4. CASE task' = [task EXCEPT ![t].pc = "vmwait"] /\ UNCHANGED callVars
    <3>1. task[t].info \in Infos
      BY <2>1, TaskKnows, BusAssumption DEF Safe, Shape
    <3>2. TaskShape'
      BY <2>1, <2>4, <3>1, TaskContinues DEF Safe, Shape, TaskStates
    <3>3. QED
      BY <2>1, <2>4, <3>2, TaskOnlySafe DEF callVars
  <2>5. QED
    BY <1>2, <2>2, <2>3, <2>4 DEF ToldOfAnalysis, DeepAnalysis
<1>3. QED
  BY <1>1, <1>2 DEF ClientReads

LEMMA WorkerSafe ==
    ASSUME Safe, NEW w \in Workers, WorkerStep(w) PROVE Safe'
<1> USE TasksAreCallers DEF ghosts, bootVars
<1>1. CASE FindStorageNode(w)
  <2>1. task[w].pc = "namespace" /\ UNCHANGED <<busVars, call, todo, cleared>>
    BY <1>1 DEF FindStorageNode, authVars, callVars
  <2>2. task[w].info \in Infos
    BY <2>1, TaskKnows, BusAssumption DEF Safe, Shape
  <2>3. \/ task' = [task EXCEPT ![w].pc = "vm"]
        \/ task' = [task EXCEPT ![w] = Idle]
    BY <1>1 DEF FindStorageNode, Safe, Shape, TaskShape
  <2>4. TaskShape'
    BY <2>1, <2>2, <2>3, TaskContinues, TaskEnds DEF Safe, Shape, TaskStates
  <2>5. QED
    BY <2>1, <2>4, TaskOnlySafe
<1>2. CASE AnalysisClean(w)
  BY <1>2, AuthorizeSafe DEF AnalysisClean
<1>3. CASE AnalysisFindsThreat(w)
  BY <1>3, DenySafe DEF AnalysisFindsThreat
<1>4. CASE AnalysisInconclusive(w)
  BY <1>4, QuietTaskEnds DEF AnalysisInconclusive, authVars, callVars
<1>5. QED
  BY <1>1, <1>2, <1>3, <1>4 DEF WorkerStep

-----------------------------------------------------------------------------
(* The steps of the calls.  Only the write of 1 lets a device in, and its  *)
(* caller has a clearance for a device of that bus.                        *)

LEMMA GrantsSafe ==
    ASSUME Safe, NEW c \in Callers, Grants(c) PROVE Safe'
<1> DEFINE b == call[c].bus
<1> USE DEF Safe, Shape
<1>1. UNCHANGED <<todo, task, cleared>>
  BY DEF Grants, bootVars
<1>2. /\ call[c].pc = "authorize" /\ b \in Buses /\ plugged[b] # None
      /\ auth' = [auth EXCEPT ![b] = "granted"]
      /\ BusTypeOK' /\ CallShape' /\ NoNewCall /\ plugged' = plugged
  BY WriteOne, BusAssumption DEF Grants
<1>3. \E i \in Insertions : PortOf[i] = b /\ IdentOf[i] \in cleared
  BY <1>2 DEF Approved
<1>6. PortWasCleared'
  BY <1>1, <1>2, <1>3 DEF PortWasCleared, BusTypeOK
<1>7. PortsFit' /\ Approved'
  BY <1>1, <1>2 DEF PortsFit, Approved, NoNewCall
<1>8. TaskShape'
  BY <1>1 DEF TaskShape
<1>9. QED
  BY <1>2, <1>6, <1>7, <1>8

LEMMA CutsOffSafe ==
    ASSUME Safe, NEW c \in Callers, CutsOff(c) PROVE Safe'
<1> USE DEF Safe, Shape
<1>1. UNCHANGED <<todo, task, cleared>>
  BY DEF CutsOff, bootVars
<1>2. /\ auth' \in {auth, [auth EXCEPT ![call[c].bus] = "off"]}
      /\ BusTypeOK' /\ CallShape' /\ NoNewCall /\ plugged' = plugged
  BY WriteZero, AuthAssumption DEF CutsOff
<1>3. NothingNewIn
  BY <1>2 DEF NothingNewIn, BusTypeOK
<1>4. PortsFit' /\ Approved' /\ PortWasCleared'
  BY <1>1, <1>2, <1>3, HarmlessKeeps DEF Harmless
<1>5. TaskShape'
  BY <1>1 DEF TaskShape
<1>6. QED
  BY <1>2, <1>4, <1>5

LEMMA CallEndsSafe ==
    ASSUME Safe, NEW c \in Callers,
           AuthorizeMissing(c) \/ AuthorizeFinish(c) \/ DeauthorizeNodes(c),
           TaskShape', cleared' = cleared
    PROVE  Safe'
<1>1. /\ BusTypeOK' /\ CallShape' /\ NoNewCall
      /\ plugged' = plugged /\ auth' = auth
  BY CallEnds DEF Safe, Shape
<1>2. Harmless
  BY <1>1 DEF Harmless, NothingNewIn
<1>3. QED
  BY <1>1, <1>2, HarmlessKeeps DEF Safe, Shape

LEMMA TaskCallSafe ==
    ASSUME Safe, NEW t \in Tasks, TaskCall(t) PROVE Safe'
<1> USE TasksAreCallers DEF ghosts, bootVars
<1>1. CASE AuthorizeFails(t) \/ AuthorizeSucceeds(t)
  <2>1. task' = [task EXCEPT ![t] = Idle] /\ todo' = todo /\ cleared' = cleared
    BY <1>1 DEF AuthorizeFails, AuthorizeSucceeds
  <2>2. TaskShape'
    BY <2>1, TaskEnds DEF Safe, Shape
  <2>3. QED
    BY <1>1, <2>1, <2>2, CallEndsSafe DEF AuthorizeFails, AuthorizeSucceeds
<1>2. CASE Deauthorized(t)
  <2>1. UNCHANGED <<todo, cleared>>
    BY <1>2 DEF Deauthorized
  <2>2. \/ task' = [task EXCEPT ![t] = Idle]
        \/ /\ task' = [task EXCEPT ![t].pc = "evaluate"]
           /\ task[t].info # NoInfo
        \/ task' = [task EXCEPT ![t].pc = "telling"] /\ task[t].pc = "denying"
    BY <1>2 DEF Deauthorized, Safe, Shape, TaskShape
  <2>3. TaskShape'
    <3>1. CASE task' = [task EXCEPT ![t] = Idle]
      BY <2>1, <3>1, TaskEnds DEF Safe, Shape
    <3>2. CASE task' = [task EXCEPT ![t].pc = "evaluate"] /\ task[t].info # NoInfo
      <4>1. task[t].info \in Infos
        BY <3>2 DEF Safe, Shape, TaskShape, TaskRecords
      <4>2. QED
        BY <2>1, <3>2, <4>1, TaskContinues DEF Safe, Shape, TaskStates
    <3>3. CASE task' = [task EXCEPT ![t].pc = "telling"] /\ task[t].pc = "denying"
      <4>1. task[t].info \in Infos
        BY <3>3, TaskKnows, BusAssumption DEF Safe, Shape
      <4>2. QED
        BY <2>1, <3>3, <4>1, TaskContinues DEF Safe, Shape, TaskStates
    <3>4. QED
      BY <2>2, <3>1, <3>2, <3>3
  <2>4. QED
    BY <1>2, <2>1, <2>3, CallEndsSafe DEF Deauthorized
<1>3. QED
  BY <1>1, <1>2, GrantsSafe, CutsOffSafe DEF TaskCall

LEMMA WatcherSafe ==
    ASSUME Safe, NEW b \in Buses, Alert(b) \/ WatcherCall(b) PROVE Safe'
<1> USE TasksAreCallers DEF daemonVars, ghosts, bootVars
<1>1. CASE Alert(b)
  <2>1. CallShape' /\ NoNewCall
    BY <1>1, DenyRequest DEF Alert, Safe, Shape
  <2>2. TaskShape'
    BY <1>1 DEF Alert, Safe, Shape, TaskShape
  <2>3. QED
    BY <1>1, <2>1, <2>2, QuietSafe DEF Alert
<1>2. CASE AlertHandled(b)
  <2>1. TaskShape' /\ cleared' = cleared
    BY <1>2 DEF AlertHandled, Safe, Shape, TaskShape
  <2>2. QED
    BY <1>2, <2>1, CallEndsSafe DEF AlertHandled
<1>3. QED
  BY <1>1, <1>2, CutsOffSafe DEF WatcherCall

LEMMA UserSafe ==
    ASSUME Safe, NEW u \in Users, UserAsks(u) \/ UserCall(u) PROVE Safe'
<1> USE TasksAreCallers DEF daemonVars, ghosts, bootVars
<1>1. ASSUME NEW b \in Buses, UserAllows(u, b) PROVE Safe'
  <2> USE DEF Safe, Shape
  <2>1. plugged[b] \in Insertions /\ PortOf[plugged[b]] = b
    BY <1>1 DEF UserAllows, PortsFit, BusTypeOK
  <2>2. /\ CallShape' /\ call'[u].bus = b
        /\ \A d \in Callers : d # u => call'[d] = call[d]
    BY <1>1, RequestShape DEF UserAllows
  <2>3. cleared' = cleared \cup {IdentOf[plugged[b]]} /\ UNCHANGED <<busVars, todo, task>>
    BY <1>1 DEF UserAllows
  <2>4. Approved'
    BY <2>1, <2>2, <2>3 DEF Approved
  <2>5. BusTypeOK' /\ PortsFit' /\ PortWasCleared' /\ TaskShape'
    BY <2>3 DEF busVars, BusTypeOK, PortsFit, PortWasCleared, TaskShape
  <2>6. QED
    BY <2>2, <2>4, <2>5
<1>2. ASSUME NEW b \in Buses, UserDenies(u, b) PROVE Safe'
  <2>1. CallShape' /\ NoNewCall
    BY <1>2, DenyRequest DEF UserDenies, Safe, Shape
  <2>2. TaskShape'
    BY <1>2 DEF UserDenies, Safe, Shape, TaskShape
  <2>3. QED
    BY <1>2, <2>1, <2>2, QuietSafe DEF UserDenies
<1>3. CASE UserAnswered(u)
  <2>1. TaskShape' /\ cleared' = cleared
    BY <1>3 DEF UserAnswered, Safe, Shape, TaskShape
  <2>2. QED
    BY <1>3, <2>1, CallEndsSafe DEF UserAnswered
<1>4. QED
  BY <1>1, <1>2, <1>3, GrantsSafe, CutsOffSafe DEF UserAsks, UserCall

LEMMA CrashSafe == ASSUME Safe, Crash PROVE Safe'
<1>1. CallShape' /\ NoNewCall
  BY NoCallShape DEF Crash, ProcessDies, Safe, Shape, CallShape, NoNewCall
<1>2. TaskShape'
  BY IdleTyped DEF Crash, TaskShape, Idle
<1>3. QED
  BY <1>1, <1>2, QuietSafe DEF Crash

LEMMA QueuedStep ==
    ASSUME BusAssumption, Queued, [Next]_vars PROVE Queued'
<1> USE DEF Queued
<1>1. CASE TakeAdd \/ TakeRemove
  <2>1. events # <<>> /\ events' = Tail(events)
    BY <1>1 DEF TakeAdd, TakeRemove
  <2>2. QED
    BY <2>1
<1>2. ASSUME NEW i \in Insertions, DevicePlugged(i) PROVE Queued'
  <2>1. [act |-> "add", bus |-> ReportedAs[PortOf[i]]] \in Events
    BY DaemonAssumption DEF BusAssumption, Events
  <2>2. QED
    BY <1>2, <2>1 DEF DevicePlugged, Heard
<1>3. ASSUME NEW b \in Buses, DeviceUnplugged(b) PROVE Queued'
  <2>1. [act |-> "remove", bus |-> ReportedAs[b]] \in Events
    BY DaemonAssumption DEF Events
  <2>2. QED
    BY <1>3, <2>1 DEF DeviceUnplugged, Heard
<1>4. CASE Crash
  BY <1>4 DEF Crash
<1>5. CASE events' = events
  BY <1>5
<1>6. QED
  <2>1. ASSUME NEW b \in Buses, UdevWorks(b) PROVE events' = events
    BY <2>1 DEF UdevWorks
  <2>2. ASSUME AgentStep \/ StartStep \/ PreflightDone PROVE events' = events
    BY <2>2 DEF AgentStep, AgentSetsHubs, AgentFindsNoSysfs, AgentCutsOff, AgentDone,
                daemonVars, StartStep, StartHubs, StartListening, ListExisting, TakeExisting,
                StartDone, PreflightDone
  <2>3. ASSUME NEW t \in {Startup, Processor}, EvaluatorStep(t) \/ ClientReads(t)
        PROVE  events' = events
    BY <2>3 DEF EvaluatorStep, Evaluate, VmWaited, VmWaitTimesOut, ClientReads, Told,
                ToldOfAnalysis
  <2>4. ASSUME NEW w \in Workers, WorkerStep(w) PROVE events' = events
    BY <2>4 DEF WorkerStep, FindStorageNode, AnalysisClean, AnalysisFindsThreat,
                AnalysisInconclusive
  <2>5. ASSUME NEW t \in Tasks, TaskCall(t) PROVE events' = events
    BY <2>5 DEF TaskCall, AuthorizeFails, Grants, AuthorizeSucceeds, CutsOff,
                Deauthorized
  <2>6. ASSUME NEW b \in Buses, Alert(b) \/ WatcherCall(b) PROVE events' = events
    BY <2>6 DEF Alert, WatcherCall, CutsOff, AlertHandled, daemonVars
  <2>7. ASSUME NEW u \in Users, UserAsks(u) \/ UserCall(u) PROVE events' = events
    BY <2>7 DEF UserAsks, UserAllows, UserDenies, UserCall, Grants, CutsOff,
                UserAnswered, daemonVars
  <2>8. CASE UNCHANGED vars
    BY <2>8 DEF vars, daemonVars
  <2>9. QED
    BY <1>1, <1>2, <1>3, <1>4, <1>5, <2>1, <2>2, <2>3, <2>4, <2>5, <2>6, <2>7, <2>8
       DEF Next, KernelStep

LEMMA SafeStep ==
    ASSUME Safe, Queued, [Next]_vars PROVE Safe'
<1>1. CASE KernelStep
  BY <1>1, KernelSafe
<1>2. CASE AgentStep \/ StartStep \/ PreflightDone
  BY <1>2, AgentSafe, StartSafe
<1>3. CASE TakeAdd \/ TakeRemove
  BY <1>3, EventsSafe
<1>4. ASSUME NEW t \in {Startup, Processor}, EvaluatorStep(t) \/ ClientReads(t) PROVE Safe'
  BY <1>4, EvaluatorSafe, ClientSafe
<1>5. ASSUME NEW w \in Workers, WorkerStep(w) PROVE Safe'
  BY <1>5, WorkerSafe
<1>6. ASSUME NEW t \in Tasks, TaskCall(t) PROVE Safe'
  BY <1>6, TaskCallSafe
<1>7. ASSUME NEW b \in Buses, Alert(b) \/ WatcherCall(b) PROVE Safe'
  BY <1>7, WatcherSafe
<1>8. ASSUME NEW u \in Users, UserAsks(u) \/ UserCall(u) PROVE Safe'
  BY <1>8, UserSafe
<1>9. CASE Crash
  BY <1>9, CrashSafe
<1>10. CASE UNCHANGED vars
  <2>1. UNCHANGED <<busVars, call, todo, task, cleared>>
    BY <1>10 DEF vars, authVars, callVars, daemonVars, bootVars, ghosts
  <2>2. TaskShape'
    BY <2>1 DEF Safe, Shape, TaskShape
  <2>3. QED
    BY <2>1, <2>2, TaskOnlySafe
<1>11. QED
  BY <1>1, <1>2, <1>3, <1>4, <1>5, <1>6, <1>7, <1>8, <1>9, <1>10 DEF Next

(* Whatever authorize() lets in is at a port for which there was a verdict *)
(* or a user's word, about the device that is there or one that was there, *)
(* however the events, analyses, calls and crashes interleave.  That it    *)
(* was about the device itself, the run DaemonSwap refutes.                *)
THEOREM OnlyClearedPorts == Spec => []PortWasCleared
<1>1. Init => Safe /\ Queued
  BY SafeInit DEF Init, Queued
<1>2. Safe /\ Queued /\ [Next]_vars => (Safe /\ Queued)'
  BY SafeStep, QueuedStep, BusAssumption
<1>3. Safe => PortWasCleared
  BY DEF Safe
<1>4. QED
  BY <1>1, <1>2, <1>3, PTL DEF Spec

-----------------------------------------------------------------------------
(* The agent's order.  Once the hubs are closed nothing new comes in by    *)
(* default, and what the sweep leaves it has tried to switch off.          *)
Closed ==
    AgentInstalled /\ boot # "initramfs" =>
        /\ authDefault = 0 \/ Insertions \subseteq missed
        /\ \A b \in Buses : auth[b] = "default" =>
             plugged[b] \in missed \/ (boot = "sweep" /\ b \in sweep)

(* Steps that do not open the hubs, let nothing in by default and do not   *)
(* turn the agent's pages back                                             *)
LEMMA ClosedKept ==
    ASSUME Closed, UNCHANGED agentVars,
           authDefault' \in {0, authDefault},
           \A b \in Buses :
             auth'[b] = "default" => auth[b] = "default" /\ plugged'[b] = plugged[b],
           boot' = boot \/ {boot, boot'} \cap {"initramfs", "sweep"} = {}
    PROVE  Closed'
BY DEF Closed, agentVars

LEMMA ClosedInit == Init => Closed
<1> SUFFICES ASSUME Init, AgentInstalled, boot # "initramfs" PROVE FALSE
  BY DEF Closed
<1>1. QED
  BY DEF Init

LEMMA ClosedAgent == ASSUME Safe, Closed, AgentStep PROVE Closed'
<1> USE DEF Closed, Safe, Shape
<1>1. \A b \in Buses : auth[b] # "off" => plugged[b] \in Insertions
  BY DEF PortsFit, BusTypeOK
<1>2. CASE AgentSetsHubs
  BY <1>2 DEF AgentSetsHubs, SetHubDefaults
<1>3. CASE AgentFindsNoSysfs
  <2>1. missed' = Insertions /\ UNCHANGED <<plugged, auth>>
    BY <1>3 DEF AgentFindsNoSysfs, authVars, busVars
  <2>2. QED
    BY <1>1, <2>1
<1>4. ASSUME NEW b \in Buses, AgentCutsOff(b) PROVE Closed'
  <2>1. /\ boot = "sweep" /\ boot' = "sweep" /\ sweep' = sweep \ {b}
        /\ UNCHANGED <<plugged, authDefault>> /\ missed \subseteq missed'
    BY <1>4 DEF AgentCutsOff
  <2>2. \A c \in Buses : auth'[c] = "default" =>
          auth[c] = "default" /\ (c = b => plugged[b] \in missed')
    BY <1>4 DEF AgentCutsOff, TurnOff, BusTypeOK
  <2>3. QED
    BY <2>1, <2>2
<1>5. CASE AgentDone
  BY <1>5 DEF AgentDone, agentVars, authVars, busVars
<1>6. QED
  BY <1>2, <1>3, <1>4, <1>5 DEF AgentStep

LEMMA ClosedKernel == ASSUME Safe, Closed, KernelStep PROVE Closed'
<1> USE DEF Safe, Shape, BusTypeOK
<1>1. ASSUME NEW i \in Insertions, DevicePlugged(i) PROVE Closed'
  <2>1. UNCHANGED <<authDefault, boot, agentVars>>
    BY <1>1 DEF DevicePlugged, Plug, bootVars
  <2>2. /\ auth' = [auth EXCEPT ![PortOf[i]] = IF authDefault = 1 THEN "default" ELSE "off"]
        /\ plugged' = [plugged EXCEPT ![PortOf[i]] = i]
    BY <1>1 DEF DevicePlugged, Plug
  <2>3. CASE authDefault = 1
    <3>1. \A b \in Buses : (plugged'[b] = plugged[b] /\ auth'[b] = auth[b]) \/ plugged'[b] = i
      BY <2>2
    <3>2. AgentInstalled /\ boot # "initramfs" => Insertions \subseteq missed
      BY <2>3 DEF Closed
    <3>3. QED
      BY <2>1, <3>1, <3>2 DEF Closed, agentVars
  <2>4. CASE authDefault # 1
    <3>1. \A b \in Buses :
            auth'[b] = "default" => auth[b] = "default" /\ plugged'[b] = plugged[b]
      BY <2>2, <2>4
    <3>2. QED
      BY <2>1, <3>1, ClosedKept
  <2>5. QED
    BY <2>3, <2>4
<1>2. ASSUME NEW b \in Buses, DeviceUnplugged(b) PROVE Closed'
  <2>1. /\ auth' = [auth EXCEPT ![b] = "off"] /\ plugged' = [plugged EXCEPT ![b] = None]
        /\ UNCHANGED <<authDefault, boot, agentVars>>
    BY <1>2 DEF DeviceUnplugged, Unplug, TurnOff, bootVars
  <2>2. \A c \in Buses :
          auth'[c] = "default" => auth[c] = "default" /\ plugged'[c] = plugged[c]
    BY <2>1
  <2>3. QED
    BY <2>1, <2>2, ClosedKept
<1>3. ASSUME NEW b \in Buses, UdevWorks(b) PROVE Closed'
  <2>1. /\ UNCHANGED <<plugged, authDefault, boot, agentVars>>
        /\ auth' = auth \/ auth' = [auth EXCEPT ![b] = "off"]
    BY <1>3 DEF UdevWorks, UdevWork, UdevAdd, NodeAppears, UdevChange, TurnOff, bootVars
  <2>2. \A c \in Buses : auth'[c] = "default" => auth[c] = "default"
    BY <2>1
  <2>3. QED
    BY <2>1, <2>2, ClosedKept
<1>4. QED
  BY <1>1, <1>2, <1>3 DEF KernelStep

LEMMA ClosedByWrites ==
    ASSUME Safe, Closed, NEW c \in Callers, Grants(c) \/ CutsOff(c) PROVE Closed'
<1>1. UNCHANGED <<plugged, authDefault, boot, agentVars>>
  BY DEF Grants, CutsOff, AuthorizeWrite, DeauthorizeWrite, TurnOn, TurnOff, bootVars
<1>2. \/ auth' = auth
      \/ auth' = [auth EXCEPT ![call[c].bus] = "off"]
      \/ auth' = [auth EXCEPT ![call[c].bus] = "granted"]
  BY DEF Grants, CutsOff, AuthorizeWrite, DeauthorizeWrite, TurnOn, TurnOff
<1>3. \A b \in Buses : auth'[b] = "default" => auth[b] = "default"
  BY <1>2 DEF Safe, Shape, BusTypeOK
<1>4. QED
  BY <1>1, <1>3, ClosedKept

LEMMA ClosedStep == ASSUME Safe, Closed, [Next]_vars PROVE Closed'
<1> USE TasksAreCallers
<1>1. ASSUME UNCHANGED <<plugged, auth, agentVars>>, authDefault' \in {0, authDefault},
             boot' = boot \/ {boot, boot'} \cap {"initramfs", "sweep"} = {}
      PROVE  Closed'
  BY <1>1, ClosedKept
<1>2. CASE StartHubs
  BY <1>1, <1>2 DEF StartHubs, SetHubDefaults
<1>3. CASE StartListening \/ ListExisting \/ TakeExisting \/ StartDone \/ Crash
  BY <1>1, <1>3 DEF StartListening, ListExisting, TakeExisting, StartDone, Crash,
     authVars, busVars
<1>4. CASE PreflightDone \/ TakeAdd \/ TakeRemove
  BY <1>1, <1>4 DEF PreflightDone, TakeAdd, TakeRemove, authVars, busVars, bootVars
<1>5. ASSUME NEW t \in {Startup, Processor}, EvaluatorStep(t) \/ ClientReads(t) PROVE Closed'
  BY <1>1, <1>5 DEF EvaluatorStep, Evaluate, VmWaited, VmWaitTimesOut, ClientReads, Told,
     ToldOfAnalysis, authVars, busVars, bootVars
<1>6. ASSUME NEW w \in Workers, WorkerStep(w) PROVE Closed'
  BY <1>1, <1>6 DEF WorkerStep, FindStorageNode, AnalysisClean, AnalysisFindsThreat,
     AnalysisInconclusive, authVars, busVars, bootVars
<1>7. ASSUME NEW c \in Callers, UNCHANGED <<boot, agentVars>>,
             AuthorizeMissing(c) \/ AuthorizeFinish(c) \/ DeauthorizeNodes(c)
      PROVE  Closed'
  BY <1>1, <1>7 DEF AuthorizeMissing, AuthorizeFinish, DeauthorizeNodes, busVars
<1>8. ASSUME NEW t \in Tasks, TaskCall(t) PROVE Closed'
  BY <1>7, <1>8, ClosedByWrites DEF TaskCall, AuthorizeFails, AuthorizeSucceeds,
     Deauthorized, bootVars
<1>9. ASSUME NEW b \in Buses, Alert(b) \/ WatcherCall(b) PROVE Closed'
  BY <1>1, <1>7, <1>9, ClosedByWrites DEF WatcherCall, Alert, AlertHandled, busVars,
     daemonVars, bootVars
<1>10. ASSUME NEW u \in Users, UserAsks(u) \/ UserCall(u) PROVE Closed'
  BY <1>1, <1>7, <1>10, ClosedByWrites DEF UserAsks, UserAllows, UserDenies, UserCall,
     UserAnswered, busVars, daemonVars, bootVars
<1>11. CASE UNCHANGED vars
  BY <1>1, <1>11 DEF vars, authVars, busVars, daemonVars, bootVars
<1>12. QED
  BY <1>2, <1>3, <1>4, <1>5, <1>6, <1>8, <1>9, <1>10, <1>11, ClosedAgent, ClosedKernel
     DEF Next, StartStep

(* With the agent in the initramfs, a device in use by the kernel's        *)
(* default, at whatever time from the daemon's start on, is one the agent  *)
(* saw and could not switch off, unless it could not close the hubs.       *)
THEOREM AgentClosesTheDoor == Spec => []NothingByDefault
<1>1. Init => Safe /\ Queued /\ Closed
  BY SafeInit, ClosedInit DEF Init, Queued
<1>2. Safe /\ Queued /\ Closed /\ [Next]_vars => (Safe /\ Queued /\ Closed)'
  BY SafeStep, QueuedStep, ClosedStep, BusAssumption
<1>3. Closed => NothingByDefault
  BY DEF Closed, NothingByDefault
<1>4. QED
  BY <1>1, <1>2, <1>3, PTL DEF Spec

-----------------------------------------------------------------------------
(* The daemon implements the gate: every step is one of the gate's, or     *)
(* none of its business.                                                   *)

LEMMA GateInitially == Init => Gate!GateInit
<1> SUFFICES ASSUME Init PROVE Gate!GateInit
  OBVIOUS
<1>1. BusTypeOK
  BY SafeInit DEF Safe, Shape
<1>2. QED
  BY <1>1 DEF Gate!GateInit, Init, BusInit, BusTypeOK

LEMMA GateKernel ==
    ASSUME Safe, KernelStep PROVE [Gate!GateNext]_(Gate!gateVars)
<1> USE BusAssumption
<1>1. ASSUME NEW i \in Insertions, DevicePlugged(i) PROVE Gate!GateNext
  <2>1. PortOf[i] \in Buses
    OBVIOUS
  <2>2. Gate!Insert(PortOf[i], i)
    <3>1. UNCHANGED <<authDefault, cleared>> /\ Plug(i)
      BY <1>1 DEF DevicePlugged, Plug, ghosts
    <3>2. authDefault \in {0, 1}
      BY DEF Safe, Shape, BusTypeOK
    <3>3. CASE authDefault = 0
      BY <3>1, <3>3 DEF Plug, Gate!Insert
    <3>4. CASE authDefault = 1
      BY <3>1, <3>4 DEF Plug, Gate!Insert
    <3>5. QED
      BY <3>2, <3>3, <3>4
  <2>3. QED
    BY <2>1, <2>2 DEF Gate!GateNext
<1>2. ASSUME NEW b \in Buses, DeviceUnplugged(b) PROVE Gate!GateNext
  <2>1. Gate!Remove(b)
    BY <1>2 DEF DeviceUnplugged, Unplug, TurnOff, Gate!Remove, ghosts
  <2>2. QED
    BY <2>1 DEF Gate!GateNext
<1>3. ASSUME NEW b \in Buses, UdevWorks(b) PROVE [Gate!GateNext]_(Gate!gateVars)
  <2>1. UNCHANGED <<plugged, authDefault, cleared>>
    BY <1>3 DEF UdevWorks, UdevWork, UdevAdd, NodeAppears, UdevChange, ghosts
  <2>2. auth' = auth \/ auth' = [auth EXCEPT ![b] = "off"]
    BY <1>3 DEF UdevWorks, UdevWork, UdevAdd, NodeAppears, UdevChange, TurnOff
  <2>3. CASE auth' = auth
    BY <2>1, <2>3 DEF Gate!gateVars
  <2>4. CASE auth' = [auth EXCEPT ![b] = "off"]
    BY <2>1, <2>4 DEF Gate!GateNext, Gate!Revoke
  <2>5. QED
    BY <2>2, <2>3, <2>4
<1>4. QED
  BY <1>1, <1>2, <1>3 DEF KernelStep

LEMMA GateCalls ==
    ASSUME Safe, NEW c \in Callers, Grants(c) \/ CutsOff(c)
    PROVE  [Gate!GateNext]_(Gate!gateVars)
<1> DEFINE b == call[c].bus
<1> USE DEF Safe, Shape
<1>1. cleared' = cleared
  BY DEF Grants, CutsOff
<1>2. CASE Grants(c)
  <2>1. /\ b \in Buses /\ plugged[b] # None
        /\ auth' = [auth EXCEPT ![b] = "granted"]
        /\ UNCHANGED <<plugged, authDefault>>
    BY <1>2, WriteOne, BusAssumption DEF Grants
  <2>2. PortWasCleared' /\ auth'[b] = "granted"
    BY <1>2, <2>1, GrantsSafe DEF BusTypeOK
  <2>3. \E i \in Insertions : PortOf[i] = b /\ IdentOf[i] \in cleared
    BY <1>1, <2>1, <2>2 DEF PortWasCleared
  <2>4. Gate!Grant(b)
    BY <1>1, <2>1, <2>3 DEF Gate!Grant
  <2>5. QED
    BY <2>1, <2>4 DEF Gate!GateNext
<1>3. CASE CutsOff(c)
  <2>1. /\ b \in Buses
        /\ auth' \in {auth, [auth EXCEPT ![b] = "off"]}
        /\ UNCHANGED <<plugged, authDefault>>
    BY <1>3, WriteZero, AuthAssumption DEF CutsOff
  <2>2. CASE auth' = auth
    BY <1>1, <2>1, <2>2 DEF Gate!gateVars
  <2>3. CASE auth' = [auth EXCEPT ![b] = "off"]
    BY <1>1, <2>1, <2>3 DEF Gate!GateNext, Gate!Revoke
  <2>4. QED
    BY <2>1, <2>2, <2>3
<1>4. QED
  BY <1>2, <1>3

(* A verdict clears an identity; the ports change only in a later step.    *)
LEMMA GateClears ==
    ASSUME NEW i \in Insertions, UNCHANGED busVars,
           cleared' = cleared \/ cleared' = cleared \cup {IdentOf[i]}
    PROVE  [Gate!GateNext]_(Gate!gateVars)
<1>1. UNCHANGED <<plugged, auth, authDefault>>
  BY DEF busVars
<1>2. CASE cleared' = cleared
  BY <1>1, <1>2 DEF Gate!gateVars
<1>3. CASE cleared' = cleared \cup {IdentOf[i]}
  BY <1>1, <1>3 DEF Gate!GateNext, Gate!Clear
<1>4. QED
  BY <1>2, <1>3

LEMMA GateStep ==
    ASSUME Safe, [Next]_vars PROVE [Gate!GateNext]_(Gate!gateVars)
<1> USE TasksAreCallers DEF ghosts
<1>1. CASE KernelStep
  BY <1>1, GateKernel
<1>2. ASSUME SetHubDefaults, UNCHANGED cleared PROVE [Gate!GateNext]_(Gate!gateVars)
  <2>1. CASE authDefault' = 0
    BY <1>2, <2>1 DEF SetHubDefaults, Gate!Close, Gate!GateNext
  <2>2. CASE authDefault' = authDefault
    BY <1>2, <2>2 DEF SetHubDefaults, Gate!gateVars
  <2>3. QED
    BY <1>2, <2>1, <2>2 DEF SetHubDefaults
<1>3. ASSUME UNCHANGED <<plugged, auth, authDefault, cleared>>
      PROVE  [Gate!GateNext]_(Gate!gateVars)
  BY <1>3 DEF Gate!gateVars
<1>4. CASE StartHubs \/ StartListening \/ ListExisting \/ TakeExisting \/ StartDone \/ PreflightDone
           \/ TakeAdd \/ TakeRemove \/ Crash
  BY <1>2, <1>3, <1>4 DEF StartHubs, StartListening, ListExisting, TakeExisting, StartDone,
     PreflightDone, TakeAdd, TakeRemove, Crash, authVars, busVars
<1>5. ASSUME NEW t \in {Startup, Processor}, EvaluatorStep(t) \/ ClientReads(t)
      PROVE  [Gate!GateNext]_(Gate!gateVars)
  <2>1. task[t].pc \notin {"idle", "containing"}
    BY <1>5 DEF EvaluatorStep, Evaluate, VmWaited, VmWaitTimesOut, ClientReads, Told,
                ToldOfAnalysis
  <2>2. task[t].info.ins \in Insertions
    BY <2>1, TaskKnows, BusAssumption DEF Safe, Shape
  <2>3. UNCHANGED busVars /\ (cleared' = cleared \/ cleared' = cleared \cup {Ident(t)})
    BY <1>5 DEF EvaluatorStep, Evaluate, Enforce, VmWaited, VmWaitTimesOut, ClientReads,
                Told, ToldOfAnalysis, authVars
  <2>4. QED
    BY <2>2, <2>3, GateClears DEF Ident
<1>6. ASSUME NEW w \in Workers, WorkerStep(w)
      PROVE  [Gate!GateNext]_(Gate!gateVars)
  <2>1. task[w].pc \notin {"idle", "containing"}
    BY <1>6 DEF WorkerStep, FindStorageNode, AnalysisClean, AnalysisFindsThreat,
                AnalysisInconclusive
  <2>2. task[w].info.ins \in Insertions
    BY <2>1, TaskKnows, BusAssumption DEF Safe, Shape
  <2>3. UNCHANGED busVars /\ (cleared' = cleared \/ cleared' = cleared \cup {Ident(w)})
    BY <1>6 DEF WorkerStep, FindStorageNode, AnalysisClean, AnalysisFindsThreat,
                AnalysisInconclusive, authVars
  <2>4. QED
    BY <2>2, <2>3, GateClears DEF Ident
<1>7. ASSUME NEW c \in Callers, Grants(c) \/ CutsOff(c)
      PROVE  [Gate!GateNext]_(Gate!gateVars)
  BY <1>7, GateCalls
<1>8. ASSUME NEW c \in Callers, cleared' = cleared,
             AuthorizeMissing(c) \/ AuthorizeFinish(c) \/ DeauthorizeNodes(c)
      PROVE  [Gate!GateNext]_(Gate!gateVars)
  BY <1>3, <1>8, CallEnds DEF Safe, Shape
<1>9. ASSUME NEW t \in Tasks, TaskCall(t)
      PROVE  [Gate!GateNext]_(Gate!gateVars)
  BY <1>7, <1>8, <1>9 DEF TaskCall, AuthorizeFails, AuthorizeSucceeds, Deauthorized
<1>10. ASSUME NEW b \in Buses, Alert(b) \/ WatcherCall(b)
       PROVE  [Gate!GateNext]_(Gate!gateVars)
  <2>1. CASE Alert(b)
    BY <1>3, <2>1 DEF Alert, busVars, daemonVars
  <2>2. CASE WatcherCall(b)
    BY <1>7, <1>8, <2>2 DEF WatcherCall, AlertHandled, daemonVars
  <2>3. QED
    BY <1>10, <2>1, <2>2
<1>11. ASSUME NEW u \in Users, UserAsks(u) \/ UserCall(u)
       PROVE  [Gate!GateNext]_(Gate!gateVars)
  <2>1. ASSUME NEW b \in Buses, UserAllows(u, b)
        PROVE  [Gate!GateNext]_(Gate!gateVars)
    <3>1. plugged[b] \in Insertions
      BY <2>1 DEF UserAllows, Safe, Shape, BusTypeOK
    <3>2. QED
      BY <2>1, <3>1, GateClears DEF UserAllows
  <2>2. ASSUME NEW b \in Buses, UserDenies(u, b)
        PROVE  [Gate!GateNext]_(Gate!gateVars)
    BY <1>3, <2>2 DEF UserDenies, busVars, daemonVars
  <2>3. CASE UserCall(u)
    BY <1>7, <1>8, <2>3 DEF UserCall, UserAnswered
  <2>4. QED
    BY <1>11, <2>1, <2>2, <2>3 DEF UserAsks
<1>12. CASE UNCHANGED vars
  BY <1>3, <1>12 DEF vars, authVars, busVars, daemonVars
<1>13. CASE AgentStep
  <2>1. CASE AgentSetsHubs
    BY <1>2, <2>1 DEF AgentSetsHubs
  <2>2. ASSUME NEW b \in Buses, AgentCutsOff(b) PROVE [Gate!GateNext]_(Gate!gateVars)
    <3>1. CASE TurnOff(b)
      <4>1. Gate!Revoke(b)
        BY <2>2, <3>1 DEF AgentCutsOff, TurnOff, Gate!Revoke
      <4>2. QED
        BY <4>1 DEF Gate!GateNext
    <3>2. CASE auth' = auth
      BY <1>3, <2>2, <3>2 DEF AgentCutsOff
    <3>3. QED
      BY <2>2, <3>1, <3>2 DEF AgentCutsOff
  <2>3. CASE AgentDone \/ AgentFindsNoSysfs
    BY <1>3, <2>3 DEF AgentDone, AgentFindsNoSysfs, authVars, busVars
  <2>4. QED
    BY <1>13, <2>1, <2>2, <2>3 DEF AgentStep
<1>14. QED
  BY <1>1, <1>2, <1>4, <1>5, <1>6, <1>9, <1>10, <1>11, <1>12, <1>13 DEF Next, StartStep

(* The daemon implements the gate, whatever devices follow one another at  *)
(* a port.                                                                 *)
THEOREM DaemonImplementsGate == Spec => ImplementsGate
<1>1. Init => Safe /\ Queued
  BY SafeInit DEF Init, Queued
<1>2. Safe /\ Queued /\ [Next]_vars => (Safe /\ Queued)'
  BY SafeStep, QueuedStep, BusAssumption
<1>3. Safe /\ [Next]_vars => [Gate!GateNext]_(Gate!gateVars)
  BY GateStep
<1>4. QED
  BY GateInitially, <1>1, <1>2, <1>3, PTL DEF Spec, ImplementsGate, Gate!GateSpec

-----------------------------------------------------------------------------
(* The types of the whole daemon.  A step is one of these to the calls.    *)

LEMMA CallsMove ==
    ASSUME Safe, Queued, [Next]_vars
    PROVE  \/ UNCHANGED callVars
           \/ \E c \in Callers, b \in Buses, op \in {"authorize", "deauthorize"} :
                  Request(c, op, b)
           \/ \E c \in Callers : CallStep(c)
           \/ \E b \in Buses : WithdrawAlert(b)
           \/ ProcessDies(Daemon)
<1> DEFINE Asked == \E c \in Callers, b \in Buses, op \in {"authorize", "deauthorize"} :
                        Request(c, op, b)
           Goes == \E c \in Callers : CallStep(c)
           Goal == UNCHANGED callVars \/ Asked \/ Goes
                   \/ (\E b \in Buses : WithdrawAlert(b)) \/ ProcessDies(Daemon)
<1> SUFFICES Goal
  OBVIOUS
<1> USE TasksAreCallers
<1>1. CASE KernelStep \/ AgentStep \/ StartStep \/ PreflightDone \/ UNCHANGED vars
  BY <1>1 DEF KernelStep, DevicePlugged, DeviceUnplugged, UdevWorks, AgentStep,
     AgentSetsHubs, AgentFindsNoSysfs, AgentCutsOff, AgentDone, StartStep, StartHubs,
     StartListening, ListExisting, TakeExisting, StartDone, PreflightDone, authVars, vars
<1>2. CASE TakeAdd \/ TakeRemove
  <2>1. Head(events).bus \in Buses
    <3>1. events # <<>>
      BY <1>2 DEF TakeAdd, TakeRemove
    <3>2. Head(events) \in Events
      BY <3>1 DEF Queued
    <3>3. QED
      BY <3>2 DEF Events
  <2>2. QED
    BY <1>2, <2>1 DEF TakeAdd, TakeRemove
<1>3. ASSUME NEW t \in Tasks, task[t].pc \notin {"idle", "containing"},
             GoAuthorize(t) \/ GoDeny(t)
      PROVE  Asked
  <2>1. Bus(t) \in Buses
    BY <1>3, TaskKnows, BusAssumption DEF Safe, Shape
  <2>2. QED
    BY <1>3, <2>1 DEF GoAuthorize, GoDeny
<1>4. ASSUME NEW t \in {Startup, Processor}, EvaluatorStep(t) PROVE Goal
  <2>1. CASE Evaluate(t)
    <3>1. PICK decision \in Decisions(Ident(t)) : Enforce(t, decision)
      BY <2>1 DEF Evaluate
    <3>2. task[t].pc = "evaluate"
      BY <2>1 DEF Evaluate
    <3>3. GoAuthorize(t) \/ GoDeny(t) \/ UNCHANGED callVars
      BY <3>1 DEF Decisions, Enforce, Tells
    <3>4. QED
      BY <1>3, <3>2, <3>3
  <2>2. CASE VmWaited(t)
    BY <2>2 DEF VmWaited, Spawn
  <2>3. CASE VmWaitTimesOut(t)
    BY <1>3, <2>3 DEF VmWaitTimesOut
  <2>4. QED
    BY <1>4, <2>1, <2>2, <2>3 DEF EvaluatorStep
<1>11. ASSUME NEW t \in {Startup, Processor}, ClientReads(t) PROVE Goal
  <2>1. CASE Told(t)
    BY <2>1 DEF Told, authVars
  <2>2. CASE ToldOfAnalysis(t)
    <3>1. GoDeny(t) \/ UNCHANGED callVars
      BY <2>2 DEF ToldOfAnalysis, DeepAnalysis, Spawn
    <3>2. task[t].pc = "telling analysis"
      BY <2>2 DEF ToldOfAnalysis
    <3>3. QED
      BY <1>3, <3>1, <3>2
  <2>3. QED
    BY <1>11, <2>1, <2>2 DEF ClientReads
<1>5. ASSUME NEW w \in Workers, WorkerStep(w) PROVE Goal
  <2>1. CASE FindStorageNode(w) \/ AnalysisInconclusive(w)
    BY <2>1 DEF FindStorageNode, AnalysisInconclusive, authVars
  <2>2. CASE AnalysisClean(w) \/ AnalysisFindsThreat(w)
    BY <1>3, <2>2 DEF AnalysisClean, AnalysisFindsThreat
  <2>3. QED
    BY <1>5, <2>1, <2>2 DEF WorkerStep
<1>6. ASSUME NEW t \in Tasks, TaskCall(t) PROVE Goes
  BY <1>6 DEF TaskCall, AuthorizeFails, Grants, AuthorizeSucceeds, CutsOff,
     Deauthorized, CallStep
<1>7. ASSUME NEW b \in Buses, Alert(b) \/ WatcherCall(b) PROVE Goal
  BY <1>7 DEF Alert, WatcherCall, CutsOff, AlertHandled, CallStep
<1>8. ASSUME NEW u \in Users, UserAsks(u) \/ UserCall(u) PROVE Goal
  BY <1>8 DEF UserAsks, UserAllows, UserDenies, UserCall, Grants, CutsOff,
     UserAnswered, CallStep
<1>9. CASE Crash
  BY <1>9 DEF Crash
<1>10. QED
  BY <1>1, <1>2, <1>4, <1>5, <1>6, <1>7, <1>8, <1>9, <1>11 DEF Next

(* A waiter is taken out of the queue: the holder before it stays.         *)
LEMMA TakenOut ==
    ASSUME NEW q \in Seq(Callers), NEW i \in DOMAIN q
    PROVE  /\ RemoveAt(q, i) \in Seq(Callers)
           /\ i # 1 => RemoveAt(q, i) # <<>> /\ Head(RemoveAt(q, i)) = Head(q)
<1> DEFINE front == SubSeq(q, 1, i - 1)
           back == SubSeq(q, i + 1, Len(q))
<1>1. i \in 1 .. Len(q) /\ Len(q) \in Nat
  OBVIOUS
<1>2. front \in Seq(Callers) /\ Len(front) = i - 1
      /\ \A k \in 1 .. i - 1 : front[k] = q[k]
  BY <1>1, SubSeqProperties
<1>3. back \in Seq(Callers)
  BY <1>1, SubSeqProperties
<1>4. RemoveAt(q, i) = front \o back
  BY DEF RemoveAt
<1> HIDE DEF front, back
<1>5. /\ front \o back \in Seq(Callers)
      /\ Len(front \o back) = Len(front) + Len(back)
      /\ Len(front) >= 1 => (front \o back)[1] = front[1]
  <2>1. Len(front) \in Nat /\ Len(back) \in Nat
    BY <1>2, <1>3
  <2>2. /\ front \o back \in Seq(Callers)
        /\ Len(front \o back) = Len(front) + Len(back)
        /\ \A k \in 1 .. Len(front) + Len(back) : (front \o back)[k] =
               IF k <= Len(front) THEN front[k] ELSE back[k - Len(front)]
    BY <1>2, <1>3, ConcatProperties, Zenon
  <2>3. QED
    BY <2>1, <2>2
<1>6. ASSUME i # 1 PROVE front \o back # <<>> /\ Head(front \o back) = Head(q)
  <2>1. Len(front) >= 1 /\ Len(back) \in Nat
    BY <1>1, <1>2, <1>3, <1>6
  <2>2. (front \o back)[1] = q[1] /\ Len(front \o back) >= 1
    BY <1>1, <1>2, <1>5, <2>1
  <2>3. q # <<>> /\ Head(q) = q[1]
    BY <1>1
  <2>4. front \o back # <<>> /\ Head(front \o back) = (front \o back)[1]
    BY <1>5, <2>2
  <2>5. QED
    BY <2>2, <2>3, <2>4
<1>7. QED
  BY <1>4, <1>5, <1>6

LEMMA WatchersLock == \A b \in Buses : LockOf[WatcherOf[b]] = Daemon /\ Daemon \in Locks
<1>1. ASSUME NEW b \in Buses PROVE LockOf[WatcherOf[b]] = Daemon /\ Daemon \in Locks
  <2>1. WatcherOf[b] \in Watchers
    BY DEF Watchers
  <2>2. LockOf[WatcherOf[b]] = Daemon
    BY <2>1, DaemonAssumption
  <2>3. QED
    BY <2>2, TasksAreCallers, AuthAssumption
<1>2. QED
  BY <1>1

LEMMA WithdrawKeepsHolders ==
    ASSUME CallTypeOK, CriticalHolds, NEW b \in Buses, WithdrawAlert(b)
    PROVE  CallTypeOK' /\ CriticalHolds'
<1> DEFINE w == WatcherOf[b]
           q == lock[Daemon]
<1>1. CASE UNCHANGED callVars
  BY <1>1 DEF callVars, CallTypeOK, CriticalHolds, InCritical, Holds
<1>2. CASE ~UNCHANGED callVars
  <2>1. w \in Callers /\ LockOf[w] = Daemon /\ Daemon \in Locks
    BY TasksAreCallers, WatchersLock
  <2>2. call[w].pc = "deauthorize" /\ call' = [call EXCEPT ![w] = NoCall]
    BY <1>2 DEF WithdrawAlert
  <2>3. PICK i \in DOMAIN q :
            q[i] = w /\ lock' = [lock EXCEPT ![Daemon] = RemoveAt(q, i)]
    BY <1>2 DEF WithdrawAlert
  <2>4. q \in Seq(Callers)
    BY <2>1 DEF CallTypeOK
  <2>5. /\ RemoveAt(q, i) \in Seq(Callers)
        /\ i # 1 => RemoveAt(q, i) # <<>> /\ Head(RemoveAt(q, i)) = Head(q)
    BY <2>4, TakenOut
  <2>6. CallTypeOK'
    <3>1. call' \in [Callers -> Calls]
      BY <2>1, <2>2, NoCallTyped DEF CallTypeOK
    <3>2. \A d \in Callers : call'[d].pc # "idle" => call'[d].bus \in Buses
      BY <2>1, <2>2, NoCallShape DEF CallTypeOK
    <3>3. lock' \in [Locks -> Seq(Callers)]
      BY <2>1, <2>3, <2>5 DEF CallTypeOK
    <3>4. QED
      BY <3>1, <3>2, <3>3 DEF CallTypeOK
  <2>7. CriticalHolds'
    <3>1. SUFFICES ASSUME NEW d \in Callers, InCritical(d)' PROVE Holds(d)'
      BY DEF CriticalHolds
    <3>2. d # w /\ InCritical(d)
      BY <2>1, <2>2, <3>1, NoCallShape DEF InCritical, CallTypeOK
    <3>3. Holds(d) /\ LockOf[d] \in Locks
      BY <3>2, AuthAssumption DEF CriticalHolds
    <3>4. CASE LockOf[d] # Daemon
      BY <2>1, <2>3, <3>3, <3>4 DEF CallTypeOK, Holds
    <3>5. CASE LockOf[d] = Daemon
      <4>1. q # <<>> /\ Head(q) = d
        BY <3>3, <3>5 DEF Holds
      <4>2. i # 1
        BY <2>3, <2>4, <3>2, <4>1
      <4>3. lock'[Daemon] = RemoveAt(q, i)
        BY <2>1, <2>3 DEF CallTypeOK
      <4>4. QED
        BY <2>5, <3>5, <4>1, <4>2, <4>3 DEF Holds
    <3>6. QED
      BY <3>4, <3>5
  <2>8. QED
    BY <2>6, <2>7
<1>3. QED
  BY <1>1, <1>2

(* In the daemon as in the component alone, whoever is past its first      *)
(* write holds the lock of its process.                                    *)
LEMMA HoldersStep ==
    ASSUME Safe, Queued, CallTypeOK, CriticalHolds, [Next]_vars
    PROVE  CallTypeOK' /\ CriticalHolds'
<1>1. CASE UNCHANGED callVars
  BY <1>1 DEF callVars, CallTypeOK, CriticalHolds, InCritical, Holds
<1>2. ASSUME NEW c \in Callers, NEW b \in Buses,
             NEW op \in {"authorize", "deauthorize"}, Request(c, op, b)
      PROVE  CallTypeOK' /\ CriticalHolds'
  BY <1>2, RequestTyped, RequestKeepsHolders
<1>3. ASSUME NEW c \in Callers, CallStep(c) PROVE CallTypeOK' /\ CriticalHolds'
  BY <1>3, CallStepTyped, CallStepKeepsHolders DEF AuthTypeOK, Safe, Shape
<1>4. CASE ProcessDies(Daemon)
  <2>1. Daemon \in Locks
    BY TasksAreCallers, DaemonAssumption, AuthAssumption
  <2>2. QED
    BY <1>4, <2>1, ProcessDiesTyped, ProcessDiesKeepsHolders
<1>5. QED
  BY <1>1, <1>2, <1>3, <1>4, CallsMove, WithdrawKeepsHolders

Boots == {"initramfs", "sweep", "off", "hubs", "listening", "existing", "up"}

MonitorsTyped ==
    /\ monitors \in [Buses -> {"none", "live", "dead"}]
    /\ strays \in [Buses -> SUBSET {"live", "dead"}]

Others ==
    /\ boot \in Boots /\ crashes \in 0 .. MaxCrashes
    /\ vmEnabled \in BOOLEAN /\ vmReady \in BOOLEAN /\ preflight \in BOOLEAN
    /\ pending \subseteq Buses /\ cleared \subseteq Idents
    /\ judged \subseteq Insertions /\ blocked \subseteq Insertions
    /\ evals \in [Buses -> 0 .. 2]

(* The agent's pages *)
AgentTyped == sweep \subseteq Buses /\ missed \subseteq Insertions

LEMMA CutTyped == ASSUME MonitorsTyped, MonitorsCut PROVE MonitorsTyped'
<1>1. monitors' \in [Buses -> {"none", "live", "dead"}]
  BY DEF MonitorsTyped, MonitorsCut
<1>2. \A b \in Buses : strays[b] \in SUBSET {"live", "dead"} /\ {"dead"} \in SUBSET {"live", "dead"}
  BY DEF MonitorsTyped
<1>3. strays' \in [Buses -> SUBSET {"live", "dead"}]
  BY <1>2 DEF MonitorsCut
<1>4. QED
  BY <1>1, <1>3 DEF MonitorsTyped

LEMMA StartedTyped ==
    ASSUME MonitorsTyped, NEW b, NEW info, MonitorsStarted(b, info)
    PROVE  MonitorsTyped'
<1> USE DEF MonitorsTyped
<1>1. CASE UNCHANGED monitorVars
  BY <1>1 DEF monitorVars
<1>2. ASSUME NEW last \in HandedOut, NEW others \in SUBSET HandedOut,
             monitors' = [monitors EXCEPT ![b] = last],
             strays' = [strays EXCEPT ![b] = strays[b] \cup others]
      PROVE  MonitorsTyped'
  <2>1. HandedOut \subseteq {"live", "dead"}
    BY DEF HandedOut
  <2>2. monitors' \in [Buses -> {"none", "live", "dead"}]
    BY <1>2, <2>1
  <2>3. b \in Buses => strays[b] \cup others \in SUBSET {"live", "dead"}
    BY <2>1
  <2>4. strays' \in [Buses -> SUBSET {"live", "dead"}]
    BY <1>2, <2>3
  <2>5. QED
    BY <2>2, <2>4
<1>3. QED
  BY <1>1, <1>2 DEF MonitorsStarted

LEMMA OthersInit == Init => MonitorsTyped /\ Others /\ AgentTyped
<1> SUFFICES ASSUME Init PROVE MonitorsTyped /\ Others /\ AgentTyped
  OBVIOUS
<1>1. vmEnabled \in BOOLEAN /\ vmReady \in BOOLEAN /\ preflight \in BOOLEAN
  BY DaemonAssumption DEF Init
<1>2. boot \in Boots
  BY DaemonAssumption DEF Init, Boots
<1>3. crashes \in 0 .. MaxCrashes
  BY DaemonAssumption DEF Init
<1>4. /\ pending \subseteq Buses /\ cleared \subseteq Idents
      /\ judged \subseteq Insertions /\ blocked \subseteq Insertions
      /\ evals \in [Buses -> 0 .. 2]
  BY DEF Init
<1>5. MonitorsTyped /\ AgentTyped
  BY DEF Init, MonitorsTyped, AgentTyped
<1>6. QED
  BY <1>1, <1>2, <1>3, <1>4, <1>5 DEF Others

(* The monitors are the kernel's, the calls' and the removals' business.   *)
LEMMA MonitorsStep ==
    ASSUME MonitorsTyped, [Next]_vars PROVE MonitorsTyped'
<1>1. ASSUME UNCHANGED monitorVars PROVE MonitorsTyped'
  BY <1>1 DEF MonitorsTyped, monitorVars
<1>2. CASE KernelStep
  BY <1>1, <1>2, CutTyped DEF KernelStep, DevicePlugged, DeviceUnplugged, UdevWorks
<1>3. CASE AgentStep \/ StartStep \/ PreflightDone \/ TakeAdd \/ UNCHANGED vars
  BY <1>1, <1>3 DEF AgentStep, AgentSetsHubs, AgentFindsNoSysfs, AgentCutsOff, AgentDone,
     StartStep, StartHubs, StartListening, ListExisting, TakeExisting, StartDone,
     PreflightDone, TakeAdd, vars, daemonVars
<1>4. CASE TakeRemove
  <2>1. monitors' = [monitors EXCEPT ![Head(events).bus] = "none"] /\ strays' = strays
    BY <1>4 DEF TakeRemove
  <2>2. QED
    BY <2>1 DEF MonitorsTyped
<1>5. ASSUME NEW t \in Tasks, EvaluatorStep(t) \/ ClientReads(t) \/ WorkerStep(t)
      PROVE  MonitorsTyped'
  BY <1>1, <1>5 DEF EvaluatorStep, Evaluate, VmWaited, VmWaitTimesOut, ClientReads, Told,
     ToldOfAnalysis, WorkerStep, FindStorageNode, AnalysisClean, AnalysisFindsThreat,
     AnalysisInconclusive
<1>6. ASSUME NEW c \in Callers, Grants(c) \/ CutsOff(c) PROVE MonitorsTyped'
  BY <1>1, <1>6, CutTyped DEF Grants, CutsOff
<1>7. ASSUME NEW t \in Tasks, TaskCall(t) PROVE MonitorsTyped'
  BY <1>1, <1>6, <1>7, StartedTyped, TasksAreCallers DEF TaskCall, AuthorizeFails,
     AuthorizeSucceeds, Deauthorized
<1>8. ASSUME NEW b \in Buses, Alert(b) \/ WatcherCall(b) PROVE MonitorsTyped'
  BY <1>1, <1>6, <1>8, TasksAreCallers DEF Alert, WatcherCall, AlertHandled, daemonVars
<1>9. ASSUME NEW u \in Users, UserAsks(u) \/ UserCall(u) PROVE MonitorsTyped'
  BY <1>1, <1>6, <1>9, TasksAreCallers DEF UserAsks, UserAllows, UserDenies, UserCall,
     UserAnswered, daemonVars
<1>10. CASE Crash
  BY <1>10 DEF Crash, MonitorsTyped
<1>11. QED
  BY <1>2, <1>3, <1>4, <1>5, <1>7, <1>8, <1>9, <1>10, TasksAreCallers DEF Next

LEMMA AgentTypedStep ==
    ASSUME Safe, AgentTyped, [Next]_vars PROVE AgentTyped'
<1> USE DEF AgentTyped
<1>1. ASSUME UNCHANGED agentVars PROVE AgentTyped'
  BY <1>1 DEF agentVars
<1>2. CASE AgentSetsHubs \/ AgentFindsNoSysfs \/ AgentDone
  BY <1>2 DEF AgentSetsHubs, AgentFindsNoSysfs, AgentDone, agentVars
<1>3. ASSUME NEW b \in Buses, AgentCutsOff(b) PROVE AgentTyped'
  <2>1. auth[b] # "off" => plugged[b] \in Insertions
    BY DEF Safe, Shape, PortsFit, BusTypeOK
  <2>2. QED
    BY <1>3, <2>1 DEF AgentCutsOff
<1>4. CASE KernelStep \/ StartStep \/ PreflightDone \/ TakeAdd \/ TakeRemove \/ Crash
           \/ UNCHANGED vars
  BY <1>1, <1>4 DEF KernelStep, DevicePlugged, DeviceUnplugged, UdevWorks, StartStep,
     StartHubs, StartListening, ListExisting, TakeExisting, StartDone, PreflightDone,
     TakeAdd, TakeRemove, Crash, vars, daemonVars, bootVars
<1>5. ASSUME NEW t \in Tasks, EvaluatorStep(t) \/ ClientReads(t) \/ WorkerStep(t)
      PROVE  AgentTyped'
  BY <1>1, <1>5 DEF EvaluatorStep, Evaluate, VmWaited, VmWaitTimesOut, ClientReads, Told,
     ToldOfAnalysis, WorkerStep, FindStorageNode, AnalysisClean, AnalysisFindsThreat,
     AnalysisInconclusive, bootVars
<1>6. ASSUME NEW t \in Tasks, TaskCall(t) PROVE AgentTyped'
  BY <1>1, <1>6 DEF TaskCall, AuthorizeFails, Grants, AuthorizeSucceeds, CutsOff,
     Deauthorized, bootVars
<1>7. ASSUME NEW b \in Buses, Alert(b) \/ WatcherCall(b) PROVE AgentTyped'
  BY <1>1, <1>7 DEF Alert, WatcherCall, CutsOff, AlertHandled, daemonVars, bootVars
<1>8. ASSUME NEW u \in Users, UserAsks(u) \/ UserCall(u) PROVE AgentTyped'
  BY <1>1, <1>8 DEF UserAsks, UserAllows, UserDenies, UserCall, Grants, CutsOff,
     UserAnswered, daemonVars, bootVars
<1>9. QED
  BY <1>2, <1>3, <1>4, <1>5, <1>6, <1>7, <1>8, TasksAreCallers DEF Next, AgentStep

(* Of a task's step: the device it knows, its bus and its identity.        *)
LEMMA TaskTyped ==
    ASSUME Safe, NEW t \in Tasks, task[t].pc \notin {"idle", "containing"}
    PROVE  task[t].info.ins \in Insertions /\ Bus(t) \in Buses /\ Ident(t) \in Idents
BY TaskKnows, BusAssumption DEF Safe, Shape, Ident, Idents

LEMMA OthersOfTasks ==
    ASSUME Safe, Others, NEW t \in Tasks, EvaluatorStep(t) \/ ClientReads(t) \/ WorkerStep(t)
    PROVE  Others'
<1>1. task[t].pc \notin {"idle", "containing"}
  BY DEF EvaluatorStep, Evaluate, VmWaited, VmWaitTimesOut, ClientReads, Told, ToldOfAnalysis,
     WorkerStep, FindStorageNode, AnalysisClean, AnalysisFindsThreat, AnalysisInconclusive
<1>2. task[t].info.ins \in Insertions /\ Bus(t) \in Buses /\ Ident(t) \in Idents
  BY <1>1, TaskTyped
<1>3. UNCHANGED <<boot, crashes, vmVars, blocked>>
  BY DEF EvaluatorStep, Evaluate, VmWaited, VmWaitTimesOut, ClientReads, Told, ToldOfAnalysis,
     WorkerStep, FindStorageNode, AnalysisClean, AnalysisFindsThreat, AnalysisInconclusive,
     bootVars, ghosts
<1>4. /\ pending' \in {pending, pending \cup {Bus(t)}}
      /\ cleared' \in {cleared, cleared \cup {Ident(t)}}
      /\ judged' \in {judged, judged \cup {task[t].info.ins}}
  BY DEF EvaluatorStep, Evaluate, Enforce, VmWaited, VmWaitTimesOut, ClientReads, Told,
     ToldOfAnalysis, WorkerStep, FindStorageNode, AnalysisClean, AnalysisFindsThreat,
     AnalysisInconclusive, ghosts
<1>5. \/ evals' = evals
      \/ evals' = [evals EXCEPT ![Bus(t)] = IF @ < 2 THEN @ + 1 ELSE @]
  BY DEF EvaluatorStep, Evaluate, VmWaited, VmWaitTimesOut, ClientReads, Told,
     ToldOfAnalysis, WorkerStep, FindStorageNode, AnalysisClean, AnalysisFindsThreat,
     AnalysisInconclusive, ghosts
<1>6. evals' \in [Buses -> 0 .. 2]
  BY <1>2, <1>5 DEF Others
<1>7. QED
  BY <1>2, <1>3, <1>4, <1>6 DEF Others, vmVars

LEMMA OthersOfWrites ==
    ASSUME Safe, Others, NEW c \in Callers, Grants(c) \/ CutsOff(c) PROVE Others'
<1>1. UNCHANGED <<boot, crashes, vmVars, pending, cleared, judged, evals>>
  BY DEF Grants, CutsOff, bootVars
<1>2. call[c].bus \in Buses
  BY DEF Grants, CutsOff, AuthorizeWrite, DeauthorizeWrite, Safe, Shape, CallShape
<1>3. blocked' \subseteq Insertions
  BY <1>2 DEF Grants, CutsOff, Others, Safe, Shape, BusTypeOK
<1>4. QED
  BY <1>1, <1>3 DEF Others, vmVars

LEMMA OthersStep ==
    ASSUME Safe, Others, [Next]_vars PROVE Others'
<1> USE TasksAreCallers
<1>1. ASSUME UNCHANGED <<boot, crashes, vmVars, ghosts>>, pending' \subseteq pending
      PROVE  Others'
  BY <1>1 DEF Others, vmVars, ghosts
<1>2. CASE KernelStep \/ UNCHANGED vars
  BY <1>1, <1>2 DEF KernelStep, DevicePlugged, DeviceUnplugged, UdevWorks, bootVars, vars,
     daemonVars
<1>3. CASE AgentStep \/ StartStep \/ PreflightDone
  <2>1. UNCHANGED <<crashes, pending, ghosts>>
    BY <1>3 DEF AgentStep, AgentSetsHubs, AgentFindsNoSysfs, AgentCutsOff, AgentDone,
       StartStep, StartHubs, StartListening, ListExisting, TakeExisting, StartDone,
       PreflightDone
  <2>2. boot' \in Boots
    BY <1>3 DEF AgentStep, AgentSetsHubs, AgentFindsNoSysfs, AgentCutsOff, AgentDone,
       StartStep, StartHubs, StartListening, ListExisting, TakeExisting, StartDone,
       PreflightDone, bootVars, Others, Boots
  <2>3. vmEnabled' \in BOOLEAN /\ vmReady' \in BOOLEAN /\ preflight' \in BOOLEAN
    BY <1>3 DEF AgentStep, AgentSetsHubs, AgentFindsNoSysfs, AgentCutsOff, AgentDone,
       StartStep, StartHubs, StartListening, ListExisting, TakeExisting, StartDone,
       PreflightDone, vmVars, Others
  <2>4. QED
    BY <2>1, <2>2, <2>3 DEF Others, ghosts
<1>4. CASE TakeAdd \/ TakeRemove
  BY <1>1, <1>4 DEF TakeAdd, TakeRemove, bootVars
<1>5. ASSUME NEW t \in Tasks, EvaluatorStep(t) \/ ClientReads(t) \/ WorkerStep(t)
      PROVE  Others'
  BY <1>5, OthersOfTasks
<1>6. ASSUME NEW t \in Tasks, TaskCall(t) PROVE Others'
  <2>1. CASE Grants(t) \/ CutsOff(t)
    BY <2>1, OthersOfWrites
  <2>2. CASE AuthorizeFails(t) \/ Deauthorized(t) \/ AuthorizeSucceeds(t)
    BY <1>1, <2>2 DEF AuthorizeFails, Deauthorized, AuthorizeSucceeds, bootVars
  <2>3. QED
    BY <1>6, <2>1, <2>2 DEF TaskCall
<1>7. ASSUME NEW b \in Buses, Alert(b) \/ WatcherCall(b) PROVE Others'
  <2>1. CASE Alert(b) \/ AlertHandled(b)
    BY <1>1, <2>1 DEF Alert, AlertHandled, daemonVars, bootVars
  <2>2. QED
    BY <1>7, <2>1, OthersOfWrites DEF WatcherCall
<1>8. ASSUME NEW u \in Users, UserAsks(u) PROVE Others'
  <2>1. ASSUME NEW b \in Buses, UserAllows(u, b) PROVE Others'
    <3>1. plugged[b] \in Insertions
      BY <2>1 DEF UserAllows, Safe, Shape, BusTypeOK
    <3>2. cleared' \subseteq Idents
      BY <2>1, <3>1 DEF UserAllows, Others, Idents
    <3>3. QED
      BY <2>1, <3>2 DEF UserAllows, bootVars, vmVars, Others
  <2>2. ASSUME NEW b \in Buses, UserDenies(u, b) PROVE Others'
    BY <1>1, <2>2 DEF UserDenies, daemonVars, bootVars
  <2>3. QED
    BY <1>8, <2>1, <2>2 DEF UserAsks
<1>9. ASSUME NEW u \in Users, UserCall(u) PROVE Others'
  <2>1. CASE UserAnswered(u)
    BY <1>1, <2>1 DEF UserAnswered, bootVars
  <2>2. QED
    BY <1>9, <2>1, OthersOfWrites DEF UserCall
<1>10. CASE Crash
  <2>1. crashes' \in 0 .. MaxCrashes
    BY <1>10, DaemonAssumption DEF Crash, Others
  <2>2. QED
    BY <1>10, <2>1, DaemonAssumption DEF Crash, Others, Boots
<1>11. QED
  BY <1>2, <1>3, <1>4, <1>5, <1>6, <1>7, <1>8, <1>9, <1>10 DEF Next

LEMMA TypesInit == Init => CallTypeOK /\ CriticalHolds
<1> SUFFICES ASSUME Init PROVE CallTypeOK /\ CriticalHolds
  OBVIOUS
<1>1. \A c \in Callers : call[c] = NoCall
  BY DEF Init
<1>2. call \in [Callers -> Calls] /\ lock \in [Locks -> Seq(Callers)]
  BY NoCallTyped DEF Init
<1>3. QED
  BY <1>1, <1>2, NoCallShape DEF CallTypeOK, CriticalHolds, InCritical

(* The types of the daemon's state.  They rest on who holds the lock, for  *)
(* a call that returns takes the head off its queue.                       *)
THEOREM DaemonTyped == Spec => []TypeOK
<1> DEFINE Inv == /\ Safe /\ Queued /\ CallTypeOK /\ CriticalHolds
                  /\ MonitorsTyped /\ AgentTyped /\ Others
<1>1. Init => Inv
  BY SafeInit, TypesInit, OthersInit DEF Init, Queued
<1>2. Inv /\ [Next]_vars => Inv'
  BY SafeStep, QueuedStep, HoldersStep, MonitorsStep, AgentTypedStep, OthersStep, BusAssumption
<1>3. Inv => TypeOK
  BY DEF Safe, Shape, TaskShape, TaskRecords, Queued, MonitorsTyped, AgentTyped, Others,
         Boots, TypeOK, AuthTypeOK
<1>4. QED
  BY <1>1, <1>2, <1>3, PTL DEF Spec

(* Two calls of the daemon are never both between their first write and    *)
(* their return, in whatever tasks, callbacks and users they run.          *)
THEOREM DaemonCallsExclude == Spec => []LockExclusion
<1> DEFINE Inv == Safe /\ Queued /\ CallTypeOK /\ CriticalHolds
<1>1. Init => Inv
  BY SafeInit, TypesInit DEF Init, Queued
<1>2. Inv /\ [Next]_vars => Inv'
  BY SafeStep, QueuedStep, HoldersStep, BusAssumption
<1>3. Inv => LockExclusion
  BY DEF CriticalHolds, LockExclusion, Holds
<1>4. QED
  BY <1>1, <1>2, <1>3, PTL DEF Spec

-----------------------------------------------------------------------------
(* A task and its call.  A task that authorizes or denies is inside the    *)
(* call it made for the bus of its device, and a call returns to the very  *)
(* state of the task that made it.                                         *)
InTune(t) ==
    /\ task[t].pc = "authorizing" => call[t].pc \in {"authorize", "settle"}
    /\ task[t].pc \in {"containing", "denying"} =>
           call[t].pc \in {"deauthorize", "chmod"}
    /\ task[t].pc \notin {"authorizing", "containing", "denying"} =>
           call[t].pc = "idle"
    /\ task[t].pc \in {"authorizing", "denying"} => call[t].bus = Bus(t)

Tuned == \A t \in Tasks : InTune(t)

LEMMA CallStepShape ==
    ASSUME CallShape, NEW c \in Callers, CallStep(c)
    PROVE  /\ \A d \in Callers : d # c => call'[d] = call[d]
           /\ AuthorizeWrite(c) => call'[c].pc = "settle" /\ call'[c].bus = call[c].bus
           /\ DeauthorizeWrite(c) => call'[c].pc = "chmod" /\ call'[c].bus = call[c].bus
           /\ AuthorizeMissing(c) \/ AuthorizeFinish(c) \/ DeauthorizeNodes(c)
                  => call'[c] = NoCall
BY DEF CallStep, AuthorizeMissing, AuthorizeWrite, AuthorizeFinish, DeauthorizeWrite,
   DeauthorizeNodes, Return, CallShape, Calls

LEMMA WithdrawShape ==
    ASSUME CallShape, NEW b \in Buses, WithdrawAlert(b)
    PROVE  \A d \in Callers : call'[d] = call[d] \/ (d = WatcherOf[b] /\ call'[d] = NoCall)
BY TasksAreCallers DEF WithdrawAlert, callVars, CallShape

(* A task that moves leaves the other tasks and their calls alone.         *)
LEMMA OthersInTune ==
    ASSUME Tuned, NEW S,
           \A u \in Tasks \ S : task'[u] = task[u] /\ call'[u] = call[u],
           \A u \in Tasks \cap S : InTune(u)'
    PROVE  Tuned'
BY DEF Tuned, InTune, Bus

LEMMA WatchersAreNoTasks ==
    /\ \A b \in Buses : WatcherOf[b] \notin Tasks
    /\ \A u \in Users : u \notin Tasks
    /\ Startup # Processor /\ Startup \notin Workers /\ Processor \notin Workers
BY DaemonAssumption DEF Watchers

(* GoAuthorize and GoDeny                                                  *)
LEMMA GoesInTune ==
    ASSUME Safe, Tuned, NEW t \in Tasks, task[t].pc \notin {"idle", "containing"},
           GoAuthorize(t) \/ GoDeny(t)
    PROVE  Tuned'
<1>1. PICK pc \in {"authorizing", "denying"} :
          /\ task' = [task EXCEPT ![t].pc = pc]
          /\ pc = "authorizing" => Request(t, "authorize", Bus(t))
          /\ pc = "denying" => Request(t, "deauthorize", Bus(t))
  BY DEF GoAuthorize, GoDeny
<1>2. /\ task'[t] = [task[t] EXCEPT !.pc = pc]
      /\ \A u \in Tasks : u # t => task'[u] = task[u]
  BY <1>1 DEF Safe, Shape, TaskShape
<1>3. task'[t].pc = pc /\ task'[t].info = task[t].info
  BY <1>2 DEF Safe, Shape, TaskShape, TaskRecords
<1>4. Bus(t) \in Buses
  BY TaskKnows, BusAssumption DEF Safe, Shape
<1>5. /\ \A d \in Callers : d # t => call'[d] = call[d]
      /\ call'[t].pc = (IF pc = "authorizing" THEN "authorize" ELSE "deauthorize")
      /\ call'[t].bus = Bus(t)
  BY <1>1, <1>4, RequestShape, TasksAreCallers DEF Safe, Shape
<1>6. InTune(t)'
  BY <1>3, <1>5 DEF InTune, Bus
<1>7. \A u \in Tasks \ {t} : task'[u] = task[u] /\ call'[u] = call[u]
  BY <1>2, <1>5, TasksAreCallers
<1>8. \A u \in Tasks \cap {t} : InTune(u)'
  BY <1>6
<1>9. QED
  BY <1>7, <1>8, OthersInTune

(* Steps after which a task that called nothing still calls nothing        *)
LEMMA QuietInTune ==
    ASSUME Tuned, UNCHANGED call,
           \A u \in Tasks : task'[u] = task[u]
               \/ ({task[u].pc, task'[u].pc}
                      \cap {"authorizing", "containing", "denying"} = {})
    PROVE  Tuned'
BY DEF Tuned, InTune, Bus

LEMMA SpawnInTune ==
    ASSUME Safe, Tuned, NEW t \in Tasks, NEW pc \in {"namespace", "vm"}, Spawn(t, pc),
           task[t].pc \in {"telling analysis", "vmwait"}
    PROVE  Tuned'
<1>1. PICK w \in Workers :
          /\ task[w] = Idle
          /\ task' = [task EXCEPT ![t] = Idle, ![w] = Doing(pc, task[t].info)]
  BY DEF Spawn
<1>2. \A u \in Tasks : \/ task'[u] = task[u]
                       \/ u = t /\ task'[u] = Idle
                       \/ u = w /\ task'[u] = Doing(pc, task[t].info)
  BY <1>1, TasksAreCallers DEF Safe, Shape, TaskShape
<1>3. \A u \in Tasks : \/ task'[u] = task[u]
                       \/ /\ task[u].pc \in {"telling analysis", "vmwait", "idle"}
                          /\ task'[u].pc \in {"idle", "namespace", "vm"}
  <2>1. Idle.pc = "idle" /\ Doing(pc, task[t].info).pc = pc
    BY DEF Idle, Doing
  <2>2. task[w].pc = "idle"
    BY <1>1, <2>1
  <2>3. QED
    BY <1>2, <2>1, <2>2
<1>4. QED
  BY <1>3, QuietInTune DEF Spawn, callVars

LEMMA TasksInTune ==
    ASSUME Safe, Tuned, NEW t \in Tasks,
           EvaluatorStep(t) \/ ClientReads(t) \/ WorkerStep(t)
    PROVE  Tuned'
<1>1. CASE Evaluate(t)
  <2>1. PICK decision \in Decisions(Ident(t)) : Enforce(t, decision)
    BY <1>1 DEF Evaluate
  <2>2. task[t].pc = "evaluate"
    BY <1>1 DEF Evaluate
  <2>3. CASE GoAuthorize(t) \/ GoDeny(t)
    BY <2>2, <2>3, GoesInTune
  <2>4. ASSUME NEW pc \in {"telling", "telling analysis"}, Tells(t, pc) PROVE Tuned'
    BY <2>2, <2>4, QuietInTune DEF Tells, callVars, Safe, Shape, TaskShape, TaskRecords
  <2>5. QED
    BY <2>1, <2>3, <2>4 DEF Decisions, Enforce
<1>7. CASE Told(t)
  BY <1>7, QuietInTune DEF Told, authVars, callVars, Idle, Safe, Shape, TaskShape
<1>8. CASE ToldOfAnalysis(t)
  <2>1. task[t].pc = "telling analysis"
    BY <1>8 DEF ToldOfAnalysis
  <2>2. \/ GoDeny(t) \/ Spawn(t, "namespace") \/ Spawn(t, "vm")
        \/ task' = [task EXCEPT ![t].pc = "vmwait"] /\ UNCHANGED callVars
    BY <1>8 DEF ToldOfAnalysis, DeepAnalysis
  <2>3. CASE task' = [task EXCEPT ![t].pc = "vmwait"] /\ UNCHANGED callVars
    BY <2>1, <2>3, QuietInTune DEF callVars, Safe, Shape, TaskShape, TaskRecords
  <2>4. QED
    BY <2>1, <2>2, <2>3, GoesInTune, SpawnInTune
<1>2. CASE VmWaited(t)
  BY <1>2, SpawnInTune DEF VmWaited
<1>3. CASE FindStorageNode(t)
  <2>1. \/ task' = [task EXCEPT ![t] = Idle]
        \/ task' = [task EXCEPT ![t].pc = "vm"]
    BY <1>3 DEF FindStorageNode, Safe, Shape, TaskShape
  <2>2. task[t].pc = "namespace" /\ UNCHANGED call
    BY <1>3 DEF FindStorageNode, authVars, callVars
  <2>3. task'[t].pc \in {"idle", "vm"} /\ \A u \in Tasks : u # t => task'[u] = task[u]
    BY <2>1 DEF Idle, Safe, Shape, TaskShape, TaskRecords
  <2>4. QED
    BY <2>2, <2>3, QuietInTune
<1>4. CASE AnalysisInconclusive(t)
  BY <1>4, QuietInTune DEF AnalysisInconclusive, authVars, callVars, Idle, Safe,
     Shape, TaskShape
<1>5. CASE VmWaitTimesOut(t) \/ AnalysisClean(t) \/ AnalysisFindsThreat(t)
  BY <1>5, GoesInTune DEF VmWaitTimesOut, AnalysisClean, AnalysisFindsThreat
<1>6. QED
  BY <1>1, <1>2, <1>3, <1>4, <1>5, <1>7, <1>8 DEF EvaluatorStep, ClientReads, WorkerStep

LEMMA TaskCallInTune ==
    ASSUME Safe, Tuned, NEW t \in Tasks, TaskCall(t) PROVE Tuned'
<1>1. CallStep(t) /\ t \in Callers
  BY TasksAreCallers DEF TaskCall, AuthorizeFails, Grants, AuthorizeSucceeds, CutsOff,
     Deauthorized, CallStep
<1>2. \A u \in Tasks : u # t => call'[u] = call[u]
  BY <1>1, CallStepShape, TasksAreCallers DEF Safe, Shape
<1>3. CASE Grants(t) \/ CutsOff(t)
  <2>1. task' = task
    BY <1>3 DEF Grants, CutsOff
  <2>2. /\ call'[t].bus = call[t].bus
        /\ \/ call[t].pc = "authorize" /\ call'[t].pc = "settle"
           \/ call[t].pc = "deauthorize" /\ call'[t].pc = "chmod"
    BY <1>1, <1>3, CallStepShape
       DEF Grants, CutsOff, AuthorizeWrite, DeauthorizeWrite, Safe, Shape
  <2>3. InTune(t)'
    BY <2>1, <2>2 DEF Tuned, InTune, Bus
  <2>4. QED
    BY <1>2, <2>1, <2>3 DEF Tuned, InTune, Bus
<1>4. CASE AuthorizeFails(t) \/ AuthorizeSucceeds(t) \/ Deauthorized(t)
  <2>1. call'[t].pc = "idle"
    BY <1>1, <1>4, CallStepShape, NoCallShape
       DEF AuthorizeFails, AuthorizeSucceeds, Deauthorized, Safe, Shape
  <2>2. \A u \in Tasks : u # t => task'[u] = task[u]
    BY <1>4 DEF AuthorizeFails, AuthorizeSucceeds, Deauthorized, Safe, Shape, TaskShape
  <2>3. \/ task' = [task EXCEPT ![t] = Idle]
        \/ task' = [task EXCEPT ![t].pc = "evaluate"]
        \/ task' = [task EXCEPT ![t].pc = "telling"]
    BY <1>4 DEF AuthorizeFails, AuthorizeSucceeds, Deauthorized, Safe, Shape, TaskShape
  <2>4. task'[t].pc \in {"idle", "evaluate", "telling"}
    BY <2>3 DEF Idle, Safe, Shape, TaskShape, TaskRecords
  <2>5. InTune(t)'
    BY <2>1, <2>4 DEF InTune
  <2>6. QED
    BY <1>2, <2>2, <2>5 DEF Tuned, InTune, Bus
<1>5. QED
  BY <1>3, <1>4 DEF TaskCall

LEMMA TunedStep == ASSUME Safe, Queued, Tuned, [Next]_vars PROVE Tuned'
<1> USE TasksAreCallers, WatchersAreNoTasks
<1>1. ASSUME task' = task, \A t \in Tasks : call'[t] = call[t] PROVE Tuned'
  BY <1>1 DEF Tuned, InTune, Bus
<1>2. CASE KernelStep \/ AgentStep \/ StartHubs \/ StartListening \/ ListExisting
           \/ StartDone \/ PreflightDone \/ UNCHANGED vars
  BY <1>1, <1>2 DEF KernelStep, DevicePlugged, DeviceUnplugged, UdevWorks, AgentStep,
     AgentSetsHubs, AgentFindsNoSysfs, AgentCutsOff, AgentDone, StartHubs, StartListening,
     ListExisting, StartDone, PreflightDone, authVars, callVars, daemonVars, vars
<1>3. CASE TakeExisting
  <2>1. PICK info \in todo : task' = [task EXCEPT ![Startup] = Doing("evaluate", info)]
    BY <1>3 DEF TakeExisting
  <2>2. call' = call /\ task[Startup].pc = "idle"
    BY <1>3 DEF TakeExisting, authVars, callVars, Idle
  <2>3. \A u \in Tasks : u # Startup => task'[u] = task[u]
    BY <2>1 DEF Safe, Shape, TaskShape
  <2>4. task'[Startup].pc = "evaluate"
    BY <2>1 DEF Safe, Shape, TaskShape, Doing
  <2>5. QED
    BY <2>2, <2>3, <2>4, QuietInTune
<1>4. CASE TakeAdd
  <2> DEFINE b == Head(events).bus
  <2>1. b \in Buses
    <3>1. events # <<>>
      BY <1>4 DEF TakeAdd
    <3>2. Head(events) \in Events
      BY <3>1 DEF Queued
    <3>3. QED
      BY <3>2 DEF Events
  <2>2. /\ task' = [task EXCEPT ![Processor] = Doing("containing", Info(b))]
        /\ Request(Processor, "deauthorize", b)
    BY <1>4 DEF TakeAdd
  <2>3. /\ task'[Processor].pc = "containing"
        /\ \A u \in Tasks : u # Processor => task'[u] = task[u]
    BY <2>2 DEF Safe, Shape, TaskShape, Doing
  <2>4. /\ call'[Processor].pc = "deauthorize"
        /\ \A u \in Tasks : u # Processor => call'[u] = call[u]
    BY <2>1, <2>2, RequestShape DEF Safe, Shape
  <2>5. InTune(Processor)'
    BY <2>3, <2>4 DEF InTune
  <2>6. QED
    BY <2>3, <2>4, <2>5 DEF Tuned, InTune, Bus
<1>5. CASE TakeRemove
  <2>1. Head(events).bus \in Buses
    <3>1. events # <<>>
      BY <1>5 DEF TakeRemove
    <3>2. Head(events) \in Events
      BY <3>1 DEF Queued
    <3>3. QED
      BY <3>2 DEF Events
  <2>2. task' = task /\ WithdrawAlert(Head(events).bus)
    BY <1>5 DEF TakeRemove
  <2>3. QED
    BY <1>1, <2>1, <2>2, WithdrawShape DEF Safe, Shape
<1>6. ASSUME NEW t \in {Startup, Processor}, EvaluatorStep(t) \/ ClientReads(t) PROVE Tuned'
  BY <1>6, TasksInTune
<1>7. ASSUME NEW w \in Workers, WorkerStep(w) PROVE Tuned'
  BY <1>7, TasksInTune
<1>8. ASSUME NEW t \in Tasks, TaskCall(t) PROVE Tuned'
  BY <1>8, TaskCallInTune
<1>9. ASSUME NEW c \in Callers \ Tasks, task' = task,
             CallStep(c) \/ \E b \in Buses, op \in {"authorize", "deauthorize"} : Request(c, op, b)
      PROVE  Tuned'
  BY <1>1, <1>9, CallStepShape, RequestShape DEF Safe, Shape
<1>10. ASSUME NEW b \in Buses, Alert(b) \/ WatcherCall(b) PROVE Tuned'
  BY <1>9, <1>10 DEF Alert, WatcherCall, CutsOff, AlertHandled, CallStep, daemonVars
<1>11. ASSUME NEW u \in Users, UserAsks(u) \/ UserCall(u) PROVE Tuned'
  BY <1>9, <1>11 DEF UserAsks, UserAllows, UserDenies, UserCall, Grants, CutsOff,
     UserAnswered, CallStep, daemonVars
<1>12. CASE Crash
  <2>1. \A t \in Tasks : LockOf[t] = Daemon
    BY DaemonAssumption
  <2>2. \A t \in Tasks : call'[t] = NoCall /\ task'[t] = Idle
    BY <1>12, <2>1 DEF Crash, ProcessDies
  <2>3. QED
    BY <2>2 DEF Tuned, InTune, NoCall, Idle
<1>13. QED
  BY <1>2, <1>3, <1>4, <1>5, <1>6, <1>7, <1>8, <1>10, <1>11, <1>12 DEF Next, StartStep

-----------------------------------------------------------------------------
(* Before the daemon listens it does nothing, and nothing is left of what  *)
(* it did before it crashed.                                               *)
Asleep ==
    ~Listening =>
        /\ todo = {} /\ events = <<>>
        /\ \A t \in Tasks : task[t] = Idle
        /\ \A b \in Buses : monitors[b] = "none" /\ strays[b] = {}
        /\ \A c \in Callers : LockOf[c] = Daemon => call[c].pc = "idle"

LEMMA BootMoves ==
    ASSUME [Next]_vars PROVE boot' = boot \/ AgentStep \/ StartStep \/ Crash
<1>1. CASE KernelStep \/ PreflightDone \/ TakeAdd \/ TakeRemove \/ UNCHANGED vars
  BY <1>1 DEF KernelStep, DevicePlugged, DeviceUnplugged, UdevWorks, PreflightDone,
     TakeAdd, TakeRemove, vars, daemonVars, bootVars
<1>2. ASSUME NEW t \in Tasks, EvaluatorStep(t) \/ ClientReads(t) \/ WorkerStep(t) \/ TaskCall(t)
      PROVE  boot' = boot
  BY <1>2 DEF EvaluatorStep, Evaluate, VmWaited, VmWaitTimesOut, ClientReads, Told,
     ToldOfAnalysis, WorkerStep, FindStorageNode, AnalysisClean, AnalysisFindsThreat,
     AnalysisInconclusive, TaskCall, AuthorizeFails, Grants, AuthorizeSucceeds, CutsOff,
     Deauthorized,
     bootVars
<1>3. ASSUME NEW b \in Buses, Alert(b) \/ WatcherCall(b) PROVE boot' = boot
  BY <1>3 DEF Alert, WatcherCall, CutsOff, AlertHandled, daemonVars, bootVars
<1>4. ASSUME NEW u \in Users, UserAsks(u) \/ UserCall(u) PROVE boot' = boot
  BY <1>4 DEF UserAsks, UserAllows, UserDenies, UserCall, Grants, CutsOff,
     UserAnswered, daemonVars, bootVars
<1>5. QED
  BY <1>1, <1>2, <1>3, <1>4, TasksAreCallers DEF Next

LEMMA AsleepStep ==
    ASSUME Safe, Tuned, Asleep, [Next]_vars PROVE Asleep'
<1> USE TasksAreCallers
<1> DEFINE Still == /\ todo' = {} /\ events' = <<>>
                    /\ \A t \in Tasks : task'[t] = Idle
                    /\ \A b \in Buses : monitors'[b] = "none" /\ strays'[b] = {}
                    /\ \A c \in Callers : LockOf[c] = Daemon => call'[c].pc = "idle"
<1>1. CASE Crash
  BY <1>1, NoCallShape DEF Crash, ProcessDies, Asleep
<1>2. CASE Listening /\ ~Crash
  <2>1. Listening'
    BY <1>2, BootMoves DEF Listening, AgentStep, AgentSetsHubs, AgentFindsNoSysfs, AgentCutsOff,
       AgentDone, StartStep, StartHubs, StartListening, ListExisting,
       TakeExisting, StartDone, daemonVars, bootVars
  <2>2. QED
    BY <2>1 DEF Asleep
<1>3. CASE ~Listening /\ ~Crash
  <2> SUFFICES Still
    BY DEF Asleep
  <2>1. /\ todo = {} /\ events = <<>>
        /\ \A t \in Tasks : task[t] = Idle
        /\ \A b \in Buses : monitors[b] = "none" /\ strays[b] = {}
        /\ \A c \in Callers : LockOf[c] = Daemon => call[c].pc = "idle"
    BY <1>3 DEF Asleep
  <2>2. ASSUME UNCHANGED <<todo, events, task, call>>, UNCHANGED monitorVars \/ MonitorsCut
        PROVE  Still
    BY <2>1, <2>2 DEF MonitorsCut, monitorVars
  <2>3. boot \notin {"listening", "existing", "up"}
    BY <1>3 DEF Listening
  <2>4. CASE KernelStep
    BY <2>2, <2>4, <1>3 DEF KernelStep, DevicePlugged, DeviceUnplugged, UdevWorks,
       Heard, callVars, bootVars
  <2>5. CASE AgentStep \/ StartStep \/ PreflightDone \/ UNCHANGED vars
    BY <2>2, <2>3, <2>5 DEF AgentStep, AgentSetsHubs, AgentFindsNoSysfs,
       AgentCutsOff, AgentDone, StartStep, StartHubs, StartListening, ListExisting,
       TakeExisting, StartDone, PreflightDone, authVars, callVars, daemonVars, bootVars, vars
  <2>6. ~TakeAdd /\ ~TakeRemove
    BY <1>3 DEF TakeAdd, TakeRemove
  <2>7. ASSUME NEW t \in Tasks PROVE ~EvaluatorStep(t) /\ ~ClientReads(t) /\ ~WorkerStep(t)
    <3>1. task[t].pc = "idle"
      BY <2>1 DEF Idle
    <3>2. ~EvaluatorStep(t)
      BY <3>1 DEF EvaluatorStep, Evaluate, VmWaited, VmWaitTimesOut
    <3>3. ~ClientReads(t)
      BY <3>1 DEF ClientReads, Told, ToldOfAnalysis
    <3>4. ~WorkerStep(t)
      BY <3>1 DEF WorkerStep, FindStorageNode, AnalysisClean, AnalysisFindsThreat,
         AnalysisInconclusive
    <3>5. QED
      BY <3>2, <3>3, <3>4
  <2>8. ASSUME NEW c \in Callers, CallStep(c) PROVE LockOf[c] # Daemon
    BY <2>1, <2>8 DEF CallStep, AuthorizeMissing, AuthorizeWrite, AuthorizeFinish,
       DeauthorizeWrite, DeauthorizeNodes
  <2>9. ASSUME NEW t \in Tasks PROVE ~TaskCall(t)
    <3>1. LockOf[t] = Daemon
      BY DaemonAssumption
    <3>2. TaskCall(t) => CallStep(t)
      BY DEF TaskCall, AuthorizeFails, Grants, AuthorizeSucceeds, CutsOff,
         Deauthorized, CallStep
    <3>3. QED
      BY <2>8, <3>1, <3>2
  <2>10. ASSUME NEW b \in Buses PROVE ~Alert(b) /\ ~WatcherCall(b)
    BY <2>1, <2>8, WatchersLock DEF Alert, WatcherCall, CutsOff, AlertHandled, CallStep
  <2>11. ASSUME NEW u \in Users, UserAsks(u) PROVE Still
    <3>1. LockOf[u] # Daemon
      BY <2>3, <2>11 DEF UserAsks, UserAllows, UserDenies, Reachable
    <3>2. \A c \in Callers : c # u => call'[c] = call[c]
      BY <2>11, RequestShape DEF UserAsks, UserAllows, UserDenies, Safe, Shape
    <3>3. UNCHANGED <<todo, events, task, monitorVars>>
      BY <2>11 DEF UserAsks, UserAllows, UserDenies, daemonVars, bootVars
    <3>4. QED
      BY <2>1, <3>1, <3>2, <3>3 DEF monitorVars
  <2>12. ASSUME NEW u \in Users, UserCall(u) PROVE Still
    <3>1. CallStep(u)
      BY <2>12 DEF UserCall, Grants, CutsOff, UserAnswered, CallStep
    <3>2. LockOf[u] # Daemon /\ \A c \in Callers : c # u => call'[c] = call[c]
      BY <2>8, <3>1, CallStepShape DEF Safe, Shape
    <3>3. UNCHANGED <<todo, events, task>> /\ (UNCHANGED monitorVars \/ MonitorsCut)
      BY <2>12 DEF UserCall, Grants, CutsOff, UserAnswered, bootVars
    <3>4. QED
      BY <2>1, <3>2, <3>3 DEF MonitorsCut, monitorVars
  <2>13. QED
    BY <1>3, <2>4, <2>5, <2>6, <2>7, <2>9, <2>10, <2>11, <2>12 DEF Next
<1>4. QED
  BY <1>1, <1>2, <1>3

-----------------------------------------------------------------------------
(* A monitor registered for an empty port is still to be given up: the     *)
(* event of the removal came after the device that it watched.  And none   *)
(* reads on a bus that is off.                                             *)
Waits(act, b) == \E k \in DOMAIN events : events[k] = [act |-> act, bus |-> b]

Outlived ==
    \A b \in Buses : ReportedAs[b] = b /\ plugged[b] = None /\ monitors[b] # "none"
                        => Waits("remove", b)

Unread == \A b \in Buses : auth[b] = "off" => monitors[b] # "live" /\ "live" \notin strays[b]

LEMMA WaitsOn ==
    ASSUME Queued, NEW b \in Buses, NEW act \in {"add", "remove"}, Waits(act, b),
           \/ events' = events
           \/ \E e \in Events : events' = Append(events, e)
           \/ /\ events # <<>> /\ events' = Tail(events)
              /\ Head(events) # [act |-> act, bus |-> b]
    PROVE  Waits(act, b)'
<1> DEFINE e == [act |-> act, bus |-> b]
<1>1. PICK k \in DOMAIN events : events[k] = e
  BY DEF Waits
<1>2. k \in 1 .. Len(events) /\ Len(events) \in Nat
  BY <1>1 DEF Queued
<1> HIDE DEF e
<1>3. CASE events' = events
  BY <1>1, <1>3 DEF Waits, e
<1>4. CASE \E x \in Events : events' = Append(events, x)
  <2>1. k \in DOMAIN events' /\ events'[k] = e
    BY <1>1, <1>2, <1>4 DEF Queued
  <2>2. QED
    BY <2>1 DEF Waits, e
<1>5. CASE events # <<>> /\ events' = Tail(events) /\ Head(events) # e
  <2>1. k # 1
    BY <1>1, <1>5 DEF Queued
  <2>2. k - 1 \in DOMAIN events' /\ events'[k - 1] = e
    BY <1>1, <1>2, <1>5, <2>1 DEF Queued
  <2>3. QED
    BY <2>2 DEF Waits, e
<1>6. QED
  BY <1>3, <1>4, <1>5 DEF e

(* An event of the kernel is the last of the queue.                        *)
LEMMA HeardWaits ==
    ASSUME Queued, NEW b \in Buses, NEW act \in {"add", "remove"}, Heard(act, b)
    PROVE  /\ Listening => Waits(act, ReportedAs[b])'
           /\ events' = events \/ \E e \in Events : events' = Append(events, e)
<1> DEFINE e == [act |-> act, bus |-> ReportedAs[b]]
<1>1. e \in Events
  BY DaemonAssumption DEF Events
<1> HIDE DEF e
<1>2. events' = IF Listening THEN Append(events, e) ELSE events
  BY DEF Heard, e
<1>3. ASSUME Listening PROVE Waits(act, ReportedAs[b])'
  <2>1. Len(events) + 1 \in DOMAIN events' /\ events'[Len(events) + 1] = e
    BY <1>1, <1>2, <1>3 DEF Queued
  <2>2. QED
    BY <2>1 DEF Waits, e
<1>4. QED
  BY <1>1, <1>2, <1>3

LEMMA OutlivedStep ==
    ASSUME Safe, Queued, MonitorsTyped, Asleep, Outlived, [Next]_vars PROVE Outlived'
<1> USE TasksAreCallers
<1> SUFFICES ASSUME NEW b \in Buses, ReportedAs[b] = b,
                    plugged'[b] = None, monitors'[b] # "none"
             PROVE  Waits("remove", b)'
  BY DEF Outlived
<1>1. ASSUME plugged[b] = None, monitors[b] # "none" PROVE Waits("remove", b)
  BY <1>1 DEF Outlived
<1>2. ASSUME UNCHANGED <<plugged, events>>, UNCHANGED monitorVars \/ MonitorsCut
      PROVE  Waits("remove", b)'
  <2>1. monitors[b] # "none"
    BY <1>2 DEF MonitorsCut, monitorVars
  <2>2. QED
    BY <1>1, <1>2, <2>1, WaitsOn
<1>3. ASSUME NEW i \in Insertions, DevicePlugged(i) PROVE Waits("remove", b)'
  <2>1. PortOf[i] \in Buses /\ Heard("add", PortOf[i])
    BY <1>3, BusAssumption DEF DevicePlugged
  <2>2. plugged[b] = None
    BY <1>3, <2>1, BusAssumption DEF DevicePlugged, Plug, Safe, Shape, BusTypeOK
  <2>3. monitors[b] # "none"
    BY <1>3 DEF DevicePlugged, monitorVars
  <2>4. QED
    BY <1>1, <2>1, <2>2, <2>3, HeardWaits, WaitsOn
<1>4. ASSUME NEW x \in Buses, DeviceUnplugged(x) PROVE Waits("remove", b)'
  <2>1. Heard("remove", x) /\ monitors[b] # "none"
    BY <1>4 DEF DeviceUnplugged, MonitorsCut
  <2>2. Listening
    BY <2>1 DEF Asleep
  <2>3. CASE x = b
    BY <2>1, <2>2, <2>3, HeardWaits
  <2>4. CASE x # b
    <3>1. plugged[b] = None
      BY <1>4, <2>4 DEF DeviceUnplugged, Unplug, Safe, Shape, BusTypeOK
    <3>2. QED
      BY <1>1, <2>1, <3>1, HeardWaits, WaitsOn
  <2>5. QED
    BY <2>3, <2>4
<1>5. ASSUME NEW x \in Buses, UdevWorks(x) PROVE Waits("remove", b)'
  BY <1>2, <1>5 DEF UdevWorks, UdevWork, UdevAdd, NodeAppears, UdevChange
<1>6. CASE AgentStep \/ StartStep \/ PreflightDone \/ UNCHANGED vars
  BY <1>2, <1>6 DEF AgentStep, AgentSetsHubs, AgentFindsNoSysfs, AgentCutsOff, AgentDone,
     StartStep, StartHubs, StartListening, ListExisting, TakeExisting, StartDone,
     PreflightDone, SetHubDefaults, authVars, busVars, daemonVars, vars
<1>7. CASE TakeAdd \/ TakeRemove
  <2>1. events # <<>> /\ events' = Tail(events) /\ plugged' = plugged
    BY <1>7 DEF TakeAdd, TakeRemove, busVars
  <2>2. Head(events) # [act |-> "remove", bus |-> b]
    <3>1. CASE TakeAdd
      BY <3>1 DEF TakeAdd
    <3>2. CASE TakeRemove
      <4>1. ASSUME Head(events).bus = b PROVE monitors'[b] = "none"
        BY <3>2, <4>1 DEF TakeRemove, MonitorsTyped
      <4>2. QED
        BY <4>1
    <3>3. QED
      BY <1>7, <3>1, <3>2
  <2>3. monitors[b] # "none"
    BY <1>7 DEF TakeAdd, TakeRemove, MonitorsTyped, monitorVars
  <2>4. QED
    BY <1>1, <2>1, <2>2, <2>3, WaitsOn
<1>8. ASSUME NEW t \in Tasks, EvaluatorStep(t) \/ ClientReads(t) \/ WorkerStep(t)
      PROVE  Waits("remove", b)'
  BY <1>2, <1>8 DEF EvaluatorStep, Evaluate, VmWaited, VmWaitTimesOut, ClientReads, Told,
     ToldOfAnalysis, WorkerStep, FindStorageNode, AnalysisClean, AnalysisFindsThreat,
     AnalysisInconclusive, authVars, busVars
<1>9. ASSUME NEW c \in Callers, Grants(c) \/ CutsOff(c) PROVE Waits("remove", b)'
  BY <1>2, <1>9 DEF Grants, CutsOff, AuthorizeWrite, DeauthorizeWrite
<1>10. ASSUME NEW c \in Callers, UNCHANGED <<events, monitorVars>>,
              AuthorizeMissing(c) \/ AuthorizeFinish(c) \/ DeauthorizeNodes(c)
       PROVE  Waits("remove", b)'
  BY <1>2, <1>10, CallEnds DEF Safe, Shape
<1>11. ASSUME NEW t \in Tasks, AuthorizeSucceeds(t) PROVE Waits("remove", b)'
  <2>1. UNCHANGED <<plugged, events>> /\ MonitorsStarted(Bus(t), task[t].info)
    BY <1>11 DEF AuthorizeSucceeds, AuthorizeFinish
  <2>2. CASE UNCHANGED monitorVars
    BY <1>2, <2>1, <2>2
  <2>3. CASE plugged[Bus(t)] \in Hid /\ \E m : monitors' = [monitors EXCEPT ![Bus(t)] = m]
    <3>1. plugged[Bus(t)] # None
      BY <2>3, DaemonAssumption, BusAssumption
    <3>2. monitors'[b] = monitors[b]
      BY <2>1, <2>3, <3>1
    <3>3. QED
      BY <1>1, <2>1, <3>2, WaitsOn
  <2>4. QED
    BY <2>1, <2>2, <2>3 DEF MonitorsStarted
<1>12. ASSUME NEW t \in Tasks, TaskCall(t) PROVE Waits("remove", b)'
  BY <1>9, <1>10, <1>11, <1>12 DEF TaskCall, AuthorizeFails, Deauthorized
<1>13. ASSUME NEW x \in Buses, Alert(x) \/ WatcherCall(x) PROVE Waits("remove", b)'
  BY <1>2, <1>9, <1>10, <1>13 DEF Alert, WatcherCall, AlertHandled, busVars, daemonVars
<1>14. ASSUME NEW u \in Users, UserAsks(u) \/ UserCall(u) PROVE Waits("remove", b)'
  BY <1>2, <1>9, <1>10, <1>14 DEF UserAsks, UserAllows, UserDenies, UserCall,
     UserAnswered, busVars, daemonVars
<1>15. CASE Crash
  BY <1>15 DEF Crash
<1>16. QED
  BY <1>3, <1>4, <1>5, <1>6, <1>7, <1>8, <1>12, <1>13, <1>14, <1>15 DEF Next, KernelStep

LEMMA UnreadStep ==
    ASSUME Safe, MonitorsTyped, Asleep, Unread, [Next]_vars PROVE Unread'
<1> USE TasksAreCallers
<1>1. ASSUME UNCHANGED <<auth, monitorVars>> PROVE Unread'
  BY <1>1 DEF Unread, monitorVars
<1>2. ASSUME MonitorsCut PROVE Unread'
  BY <1>2 DEF Unread, MonitorsCut
<1>3. ASSUME NEW i \in Insertions, DevicePlugged(i) PROVE Unread'
  <2>1. UNCHANGED monitorVars /\ plugged[PortOf[i]] = None /\ PortOf[i] \in Buses
    BY <1>3, BusAssumption DEF DevicePlugged, Plug
  <2>2. auth[PortOf[i]] = "off" /\ \A b \in Buses : b # PortOf[i] => auth'[b] = auth[b]
    BY <1>3, <2>1 DEF DevicePlugged, Plug, Safe, Shape, PortsFit, BusTypeOK
  <2>3. QED
    BY <2>1, <2>2 DEF Unread, monitorVars
<1>4. CASE KernelStep
  BY <1>2, <1>3, <1>4 DEF KernelStep, DeviceUnplugged, UdevWorks
<1>5. CASE AgentStep
  <2>1. ~Listening /\ UNCHANGED monitorVars
    BY <1>5 DEF AgentStep, AgentSetsHubs, AgentFindsNoSysfs, AgentCutsOff, AgentDone, Listening
  <2>2. \A b \in Buses : monitors'[b] = "none" /\ strays'[b] = {}
    BY <2>1 DEF Asleep, monitorVars
  <2>3. QED
    BY <2>2 DEF Unread
<1>6. CASE StartStep \/ PreflightDone \/ TakeAdd \/ UNCHANGED vars
  BY <1>1, <1>6 DEF StartStep, StartHubs, StartListening, ListExisting, TakeExisting,
     StartDone, PreflightDone, SetHubDefaults, TakeAdd, authVars, busVars, daemonVars, vars
<1>7. CASE TakeRemove
  BY <1>7 DEF TakeRemove, busVars, Unread, MonitorsTyped
<1>8. ASSUME NEW t \in Tasks, EvaluatorStep(t) \/ ClientReads(t) \/ WorkerStep(t)
      PROVE  Unread'
  BY <1>1, <1>8 DEF EvaluatorStep, Evaluate, VmWaited, VmWaitTimesOut, ClientReads, Told,
     ToldOfAnalysis, WorkerStep, FindStorageNode, AnalysisClean, AnalysisFindsThreat,
     AnalysisInconclusive, authVars, busVars
<1>9. ASSUME NEW c \in Callers, Grants(c) PROVE Unread'
  <2>1. UNCHANGED monitorVars /\ \A b \in Buses : auth'[b] \in {auth[b], "granted"}
    BY <1>9 DEF Grants, AuthorizeWrite, TurnOn, Safe, Shape, BusTypeOK
  <2>2. QED
    BY <2>1 DEF Unread, monitorVars
<1>10. ASSUME NEW c \in Callers, CutsOff(c) PROVE Unread'
  BY <1>2, <1>10 DEF CutsOff
<1>11. ASSUME NEW c \in Callers, UNCHANGED monitorVars,
              AuthorizeMissing(c) \/ AuthorizeFinish(c) \/ DeauthorizeNodes(c)
       PROVE  Unread'
  BY <1>1, <1>11, CallEnds DEF Safe, Shape
<1>12. ASSUME NEW t \in Tasks, AuthorizeSucceeds(t) PROVE Unread'
  <2>1. auth' = auth /\ MonitorsStarted(Bus(t), task[t].info)
    BY <1>12 DEF AuthorizeSucceeds, AuthorizeFinish
  <2>2. CASE UNCHANGED monitorVars
    BY <1>1, <2>1, <2>2
  <2>3. CASE /\ auth[Bus(t)] # "off"
             /\ \E m : monitors' = [monitors EXCEPT ![Bus(t)] = m]
             /\ \E s : strays' = [strays EXCEPT ![Bus(t)] = s]
    <3>1. \A b \in Buses : b # Bus(t) => monitors'[b] = monitors[b] /\ strays'[b] = strays[b]
      BY <2>3 DEF MonitorsTyped
    <3>2. QED
      BY <2>1, <2>3, <3>1 DEF Unread
  <2>4. QED
    BY <2>1, <2>2, <2>3 DEF MonitorsStarted
<1>13. ASSUME NEW t \in Tasks, TaskCall(t) PROVE Unread'
  BY <1>9, <1>10, <1>11, <1>12, <1>13 DEF TaskCall, AuthorizeFails, Deauthorized
<1>14. ASSUME NEW b \in Buses, Alert(b) \/ WatcherCall(b) PROVE Unread'
  BY <1>1, <1>10, <1>11, <1>14 DEF Alert, WatcherCall, AlertHandled, busVars, daemonVars
<1>15. ASSUME NEW u \in Users, UserAsks(u) \/ UserCall(u) PROVE Unread'
  BY <1>1, <1>9, <1>10, <1>11, <1>15 DEF UserAsks, UserAllows, UserDenies, UserCall,
     UserAnswered, busVars, daemonVars
<1>16. CASE Crash
  BY <1>16 DEF Crash, Unread
<1>17. QED
  BY <1>4, <1>5, <1>6, <1>7, <1>8, <1>13, <1>14, <1>15, <1>16 DEF Next

(* What the daemon's invariants have in common, in all its states          *)
Sound ==
    /\ Safe /\ Queued /\ CallTypeOK /\ CriticalHolds
    /\ MonitorsTyped /\ Others /\ Tuned /\ Asleep

LEMMA SoundInit == Init => Sound
<1>1. Init => Tuned
  BY TasksAreCallers DEF Init, Tuned, InTune, Idle, NoCall
<1>2. Init => Asleep
  BY DEF Init, Asleep, NoCall
<1>3. QED
  BY <1>1, <1>2, SafeInit, TypesInit, OthersInit DEF Init, Queued, Sound

LEMMA SoundStep == Sound /\ [Next]_vars => Sound'
BY SafeStep, QueuedStep, HoldersStep, MonitorsStep, OthersStep, TunedStep, AsleepStep,
   BusAssumption
   DEF Sound

(* Once the events are handled nothing is registered for an empty port,    *)
(* and nothing reads there: a monitor is registered only while the device  *)
(* is there, and so before the event that gives it up is queued; those it  *)
(* was registered over die with the device.                                *)
THEOREM RemovedAreForgotten == Spec => []RemovedIsForgotten
<1>1. Init => Outlived /\ Unread
  BY DEF Init, Outlived, Unread
<1>2. Sound /\ Outlived /\ Unread /\ [Next]_vars => (Outlived /\ Unread)'
  BY OutlivedStep, UnreadStep DEF Sound
<1>3. Sound /\ Outlived /\ Unread => RemovedIsForgotten
  <2>1. ASSUME Rest PROVE \A b \in Buses : ~Waits("remove", b)
    BY <2>1 DEF Rest, EvaluatorsRest, Waits
  <2>2. QED
    BY <2>1 DEF Outlived, Unread, RemovedIsForgotten, Sound, Safe, PortsFit
<1>4. QED
  BY SoundInit, SoundStep, <1>1, <1>2, <1>3, PTL DEF Spec

-----------------------------------------------------------------------------
(* A device at a port of the machine that is not judged yet is on start()'s*)
(* list, or in the hands of start() or the processor, or its event is in   *)
(* the queue.                                                              *)
Awaited(b) ==
    \/ \E info \in todo : info.ins = plugged[b]
    \/ \E t \in {Startup, Processor} :
          task[t].info.ins = plugged[b] /\ task[t].pc \in {"containing", "evaluate"}
    \/ Waits("add", b)

NoneMissed ==
    /\ boot \in {"existing", "up"} =>
           \A b \in Buses : ReportedAs[b] = b /\ plugged[b] \notin judged \cup {None}
                                => Awaited(b)
    /\ boot = "up" => todo = {} /\ task[Startup] = Idle

LEMMA MissedInit == Init => NoneMissed
BY DaemonAssumption DEF Init, NoneMissed

(* Steps that judge nobody, forget nobody and plug nobody in               *)
LEMMA MissedKept ==
    ASSUME NoneMissed, Queued, boot' = boot, UNCHANGED todo, judged \subseteq judged',
           \A b \in Buses : plugged'[b] \in {plugged[b], None},
           \A b \in Buses : Waits("add", b) => Waits("add", b)',
           task'[Startup] = task[Startup]
               \/ (boot # "up" /\ task[Startup].pc \notin {"containing", "evaluate"}),
           task'[Processor] = task[Processor]
               \/ task[Processor].pc \notin {"containing", "evaluate"}
    PROVE  NoneMissed'
<1>1. ASSUME NEW b \in Buses, plugged'[b] \notin judged' \cup {None}, Awaited(b)
      PROVE  Awaited(b)'
  <2>1. plugged'[b] = plugged[b]
    BY <1>1
  <2>2. ASSUME NEW t \in {Startup, Processor}, task[t].pc \in {"containing", "evaluate"}
        PROVE  task'[t] = task[t]
    BY <2>2
  <2>3. QED
    BY <1>1, <2>1, <2>2 DEF Awaited
<1>2. QED
  BY <1>1 DEF NoneMissed

(* start() and the processor take a device on, and let it go when it is    *)
(* judged.                                                                 *)
LEMMA MissedStart ==
    ASSUME Sound, NoneMissed, StartStep PROVE NoneMissed'
<1> USE WatchersAreNoTasks
<1>1. UNCHANGED <<plugged, events, judged>>
  BY DEF StartStep, StartHubs, StartListening, ListExisting, TakeExisting, StartDone,
     SetHubDefaults, authVars, busVars, ghosts
<1>2. CASE StartHubs \/ StartListening
  BY <1>2 DEF StartHubs, StartListening, NoneMissed
<1>3. CASE ListExisting
  <2>1. \A b \in Buses : plugged[b] # None => Info(b) \in todo' /\ Info(b).ins = plugged[b]
    BY <1>3 DEF ListExisting, Info
  <2>2. \A b \in Buses : plugged[b] # None => Awaited(b)'
    BY <1>1, <2>1 DEF Awaited
  <2>3. boot' = "existing"
    BY <1>3 DEF ListExisting
  <2>4. QED
    BY <1>1, <2>2, <2>3 DEF NoneMissed
<1>4. CASE TakeExisting
  <2>1. PICK info \in todo :
            /\ todo' = todo \ {info}
            /\ task' = [task EXCEPT ![Startup] = Doing("evaluate", info)]
    BY <1>4 DEF TakeExisting
  <2>2. boot = "existing" /\ boot' = boot /\ task[Startup] = Idle
    BY <1>4 DEF TakeExisting
  <2>3. /\ task'[Startup].pc = "evaluate" /\ task'[Startup].info = info
        /\ task'[Processor] = task[Processor]
    BY <2>1, TasksAreCallers DEF Doing, Sound, Safe, Shape, TaskShape
  <2>4. ASSUME NEW b \in Buses, Awaited(b) PROVE Awaited(b)'
    <3>1. CASE \E x \in todo : x.ins = plugged[b]
      BY <1>1, <2>1, <2>3, <3>1 DEF Awaited
    <3>2. CASE \E t \in {Startup, Processor} :
                  task[t].info.ins = plugged[b] /\ task[t].pc \in {"containing", "evaluate"}
      BY <1>1, <2>2, <2>3, <3>2 DEF Awaited, Idle
    <3>3. CASE Waits("add", b)
      BY <1>1, <3>3 DEF Awaited, Waits
    <3>4. QED
      BY <2>4, <3>1, <3>2, <3>3 DEF Awaited
  <2>5. QED
    BY <1>1, <2>2, <2>4 DEF NoneMissed
<1>5. CASE StartDone
  <2>1. UNCHANGED <<todo, task>> /\ boot = "existing" /\ boot' = "up"
        /\ todo = {} /\ task[Startup] = Idle
    BY <1>5 DEF StartDone
  <2>2. \A b \in Buses : Awaited(b) => Awaited(b)'
    BY <1>1, <2>1 DEF Awaited, Waits
  <2>3. QED
    BY <1>1, <2>1, <2>2 DEF NoneMissed
<1>6. QED
  BY <1>2, <1>3, <1>4, <1>5 DEF StartStep

LEMMA MissedEvaluate ==
    ASSUME Sound, NoneMissed, NEW t \in {Startup, Processor}, Evaluate(t)
    PROVE  NoneMissed'
<1> USE TasksAreCallers, WatchersAreNoTasks
<1>1. /\ task[t].pc = "evaluate" /\ UNCHANGED <<plugged, boot, todo, events>>
      /\ judged' = judged \cup {task[t].info.ins}
  BY DEF Evaluate, busVars, bootVars
<1>2. \A u \in {Startup, Processor} : u # t => task'[u] = task[u]
  <2>1. PICK decision \in Decisions(Ident(t)) : Enforce(t, decision)
    BY DEF Evaluate
  <2>2. \/ GoAuthorize(t) \/ GoDeny(t)
        \/ Tells(t, "telling") \/ Tells(t, "telling analysis")
    BY <2>1 DEF Decisions, Enforce
  <2>3. task \in [Tasks -> TaskRecords] /\ {Startup, Processor} \subseteq Tasks
    BY DEF Sound, Safe, Shape, TaskShape, Tasks
  <2>4. ASSUME NEW u \in {Startup, Processor}, u # t PROVE task'[u] = task[u]
    <3>1. CASE GoAuthorize(t)
      BY <2>3, <2>4, <3>1 DEF GoAuthorize
    <3>2. CASE GoDeny(t)
      BY <2>3, <2>4, <3>2 DEF GoDeny
    <3>3. CASE Tells(t, "telling") \/ Tells(t, "telling analysis")
      BY <2>3, <2>4, <3>3 DEF Tells
    <3>4. QED
      BY <2>2, <3>1, <3>2, <3>3
  <2>5. QED
    BY <2>4
<1>3. ASSUME NEW b \in Buses, Awaited(b), plugged[b] \notin judged'
      PROVE  Awaited(b)'
  <2>1. plugged[b] # task[t].info.ins
    BY <1>1, <1>3
  <2>2. QED
    BY <1>1, <1>2, <1>3, <2>1 DEF Awaited, Waits
<1>4. boot # "up" \/ t # Startup
  BY <1>1 DEF NoneMissed, Idle
<1>5. QED
  BY <1>1, <1>2, <1>3, <1>4 DEF NoneMissed

LEMMA MissedEvents ==
    ASSUME Sound, NoneMissed, TakeAdd \/ TakeRemove PROVE NoneMissed'
<1> USE TasksAreCallers, WatchersAreNoTasks
<1>1. /\ events # <<>> /\ events' = Tail(events)
      /\ UNCHANGED <<plugged, boot, todo, judged>>
  BY DEF TakeAdd, TakeRemove, busVars, bootVars, ghosts
<1>2. ASSUME NEW b \in Buses, Waits("add", b), Head(events) # [act |-> "add", bus |-> b]
      PROVE  Waits("add", b)'
  BY <1>1, <1>2, WaitsOn DEF Sound
<1>3. CASE TakeRemove
  <2>1. task' = task /\ Head(events).act = "remove"
    BY <1>3 DEF TakeRemove
  <2>2. \A b \in Buses : Waits("add", b) => Waits("add", b)'
    <3>1. \A b \in Buses : Head(events) # [act |-> "add", bus |-> b]
      BY <2>1
    <3>2. QED
      BY <1>2, <3>1, Zenon
  <2>3. QED
    BY <1>1, <2>1, <2>2, MissedKept DEF Sound
<1>4. CASE TakeAdd
  <2> DEFINE x == Head(events).bus
  <2>1. task[Processor] = Idle /\ Head(events).act = "add"
        /\ task' = [task EXCEPT ![Processor] = Doing("containing", Info(x))]
    BY <1>4 DEF TakeAdd
  <2>2. /\ task'[Processor].pc = "containing" /\ task'[Processor].info = Info(x)
        /\ task'[Startup] = task[Startup]
    BY <2>1 DEF Doing, Sound, Safe, Shape, TaskShape
  <2>3. ASSUME NEW b \in Buses, Awaited(b), plugged[b] # None PROVE Awaited(b)'
    <3>1. CASE b = x
      BY <1>1, <2>2, <2>3, <3>1 DEF Awaited, Info
    <3>2. CASE b # x
      <4>1. Head(events) # [act |-> "add", bus |-> b]
        BY <3>2
      <4>2. Waits("add", b) => Waits("add", b)'
        BY <1>2, <4>1, Zenon
      <4>3. QED
        BY <1>1, <2>1, <2>2, <2>3, <4>2 DEF Awaited, Idle
    <3>3. QED
      BY <3>1, <3>2
  <2>4. QED
    BY <1>1, <2>2, <2>3 DEF NoneMissed
<1>5. QED
  BY <1>3, <1>4

LEMMA MissedCalls ==
    ASSUME Sound, NoneMissed, NEW t \in Tasks, TaskCall(t) PROVE NoneMissed'
<1> USE TasksAreCallers, WatchersAreNoTasks
<1>1. UNCHANGED <<plugged, boot, todo, events, judged>>
  BY DEF TaskCall, AuthorizeFails, Grants, AuthorizeSucceeds, CutsOff, Deauthorized,
     AuthorizeMissing, AuthorizeWrite, AuthorizeFinish, DeauthorizeWrite,
     DeauthorizeNodes, busVars, bootVars, ghosts
<1>2. \A b \in Buses : Waits("add", b) => Waits("add", b)'
  BY <1>1 DEF Waits
<1>3. CASE task' = task
  BY <1>1, <1>2, <1>3, MissedKept DEF Sound
<1>4. CASE AuthorizeFails(t) \/ AuthorizeSucceeds(t)
  <2>1. call[t].pc \in {"authorize", "settle"} /\ task' = [task EXCEPT ![t] = Idle]
    BY <1>4 DEF AuthorizeFails, AuthorizeSucceeds, AuthorizeMissing, AuthorizeFinish
  <2>2. task[t].pc = "authorizing"
    BY <2>1 DEF Sound, Tuned, InTune
  <2>3. \A u \in Tasks : u # t => task'[u] = task[u]
    BY <2>1 DEF Sound, Safe, Shape, TaskShape
  <2>4. t = Startup => boot # "up"
    BY <2>2 DEF NoneMissed, Idle
  <2>5. QED
    BY <1>1, <1>2, <2>2, <2>3, <2>4, MissedKept DEF Sound
<1>5. CASE Deauthorized(t)
  <2>1. /\ call[t].pc = "chmod"
        /\ \/ task' = [task EXCEPT ![t] = Idle]
           \/ task' = [task EXCEPT ![t].pc = "evaluate"]
           \/ task' = [task EXCEPT ![t].pc = "telling"]
        /\ task[t].pc = "containing" /\ task[t].info # NoInfo
             => task' = [task EXCEPT ![t] = [@ EXCEPT !.pc = "evaluate"]]
    BY <1>5 DEF Deauthorized, DeauthorizeNodes, Sound, Safe, Shape, TaskShape
  <2>2. task[t].pc \in {"containing", "denying"}
    BY <2>1 DEF Sound, Tuned, InTune
  <2>3. \A u \in Tasks : u # t => task'[u] = task[u]
    BY <2>1 DEF Sound, Safe, Shape, TaskShape
  <2>4. t = Startup => boot # "up"
    BY <2>2 DEF NoneMissed, Idle
  <2>5. CASE task[t].pc = "containing" /\ task[t].info # NoInfo
    <3>1. task'[t] = [task[t] EXCEPT !.pc = "evaluate"] /\ task[t] \in TaskRecords
      BY <2>1, <2>5 DEF Sound, Safe, Shape, TaskShape
    <3>2. task'[t].pc = "evaluate" /\ task'[t].info = task[t].info
      BY <3>1 DEF TaskRecords
    <3>3. \A b \in Buses : Awaited(b) => Awaited(b)'
      BY <1>1, <1>2, <2>3, <3>2 DEF Awaited
    <3>4. QED
      BY <1>1, <2>3, <2>4, <3>3 DEF NoneMissed
  <2>6. CASE task[t].info = NoInfo
    <3>1. \A b \in Buses : plugged[b] # None /\ Awaited(b) => Awaited(b)'
      BY <1>1, <1>2, <2>3, <2>6 DEF Awaited, NoInfo
    <3>2. QED
      BY <1>1, <2>3, <2>4, <3>1 DEF NoneMissed
  <2>7. CASE task[t].pc = "denying"
    BY <1>1, <1>2, <2>3, <2>4, <2>7, MissedKept DEF Sound
  <2>8. QED
    BY <2>2, <2>5, <2>6, <2>7
<1>6. QED
  BY <1>3, <1>4, <1>5 DEF TaskCall, Grants, CutsOff

LEMMA MissedStep == ASSUME Sound, NoneMissed, [Next]_vars PROVE NoneMissed'
<1> USE TasksAreCallers, WatchersAreNoTasks
<1>1. ASSUME NEW i \in Insertions, DevicePlugged(i) PROVE NoneMissed'
  <2> DEFINE x == PortOf[i]
  <2>1. x \in Buses /\ Heard("add", x) /\ UNCHANGED <<boot, todo, task, judged>>
    BY <1>1, BusAssumption DEF DevicePlugged, bootVars, ghosts
  <2>2. \A b \in Buses : b # x => plugged'[b] = plugged[b]
    BY <1>1 DEF DevicePlugged, Plug, Sound, Safe, Shape, BusTypeOK
  <2>3. ASSUME boot \in {"existing", "up"}, ReportedAs[x] = x PROVE Awaited(x)'
    BY <2>1, <2>3, HeardWaits DEF Sound, Listening, Awaited
  <2>4. ASSUME NEW b \in Buses, b # x, Awaited(b) PROVE Awaited(b)'
    <3>1. Waits("add", b) => Waits("add", b)'
      BY <2>1, HeardWaits, WaitsOn DEF Sound
    <3>2. QED
      BY <2>1, <2>2, <2>4, <3>1 DEF Awaited
  <2>5. QED
    BY <2>1, <2>2, <2>3, <2>4 DEF NoneMissed
<1>2. ASSUME NEW x \in Buses, DeviceUnplugged(x) PROVE NoneMissed'
  <2>1. Heard("remove", x) /\ UNCHANGED <<boot, todo, task, judged>>
    BY <1>2 DEF DeviceUnplugged, bootVars, ghosts
  <2>2. \A b \in Buses : plugged'[b] \in {plugged[b], None}
    BY <1>2 DEF DeviceUnplugged, Unplug, Sound, Safe, Shape, BusTypeOK
  <2>3. \A b \in Buses : Waits("add", b) => Waits("add", b)'
    BY <2>1, HeardWaits, WaitsOn DEF Sound
  <2>4. QED
    BY <2>1, <2>2, <2>3, MissedKept DEF Sound
<1>3. ASSUME boot' = boot, UNCHANGED <<plugged, todo, events, judged>>,
             task'[Startup] = task[Startup]
                 \/ (boot # "up" /\ task[Startup].pc \notin {"containing", "evaluate"}),
             task'[Processor] = task[Processor]
                 \/ task[Processor].pc \notin {"containing", "evaluate"}
      PROVE  NoneMissed'
  <2>1. \A b \in Buses : Waits("add", b) => Waits("add", b)'
    BY <1>3 DEF Waits
  <2>2. QED
    BY <1>3, <2>1, MissedKept DEF Sound
<1>4. ASSUME NEW x \in Buses, UdevWorks(x) PROVE NoneMissed'
  BY <1>3, <1>4 DEF UdevWorks, UdevWork, UdevAdd, NodeAppears, UdevChange, bootVars, ghosts
<1>5. CASE AgentStep
  <2>1. boot' \in {"initramfs", "sweep", "off"} \/ boot' = boot
    BY <1>5 DEF AgentStep, AgentSetsHubs, AgentFindsNoSysfs, AgentCutsOff, AgentDone
  <2>2. boot \in {"initramfs", "sweep"}
    BY <1>5 DEF AgentStep, AgentSetsHubs, AgentFindsNoSysfs, AgentCutsOff, AgentDone
  <2>3. QED
    BY <2>1, <2>2 DEF NoneMissed
<1>6. CASE PreflightDone \/ UNCHANGED vars
  BY <1>3, <1>6 DEF PreflightDone, vars, authVars, busVars, daemonVars, bootVars, ghosts
<1>7. ASSUME NEW t \in {Startup, Processor}, EvaluatorStep(t) \/ ClientReads(t)
      PROVE  NoneMissed'
  <2>1. CASE VmWaited(t) \/ VmWaitTimesOut(t) \/ ClientReads(t)
    <3>1. /\ task[t].pc \in {"vmwait", "telling", "telling analysis"}
          /\ UNCHANGED <<plugged, boot, todo, events, judged>>
      BY <2>1 DEF VmWaited, VmWaitTimesOut, ClientReads, Told, ToldOfAnalysis, authVars,
         busVars, bootVars, ghosts
    <3>2. \/ Spawn(t, "namespace") \/ Spawn(t, "vm") \/ GoDeny(t)
          \/ task' = [task EXCEPT ![t] = Idle] \/ task' = [task EXCEPT ![t].pc = "vmwait"]
      BY <2>1 DEF VmWaited, VmWaitTimesOut, ClientReads, Told, ToldOfAnalysis, DeepAnalysis
    <3>3. \A u \in {Startup, Processor} : u # t => task'[u] = task[u]
      BY <3>2 DEF Spawn, GoDeny, Sound, Safe, Shape, TaskShape
    <3>4. t = Startup => boot # "up"
      <4>1. Idle.pc = "idle" /\ task[t].pc # "idle"
        BY <3>1 DEF Idle
      <4>2. QED
        BY <4>1 DEF NoneMissed
    <3>5. QED
      BY <1>3, <3>1, <3>3, <3>4
  <2>2. QED
    BY <1>7, <2>1, MissedEvaluate DEF EvaluatorStep
<1>8. ASSUME NEW w \in Workers, WorkerStep(w) PROVE NoneMissed'
  <2>1. UNCHANGED <<plugged, boot, todo, events, judged>>
    BY <1>8 DEF WorkerStep, FindStorageNode, AnalysisClean, AnalysisFindsThreat,
       AnalysisInconclusive, authVars, busVars, bootVars, ghosts
  <2>2. task'[Startup] = task[Startup] /\ task'[Processor] = task[Processor]
    BY <1>8 DEF WorkerStep, FindStorageNode, AnalysisClean, AnalysisFindsThreat,
       AnalysisInconclusive, GoAuthorize, GoDeny, Sound, Safe, Shape, TaskShape
  <2>3. QED
    BY <1>3, <2>1, <2>2
<1>9. ASSUME NEW c \in Callers, UNCHANGED <<boot, todo, events, task, judged>>,
             CallStep(c) \/ UNCHANGED busVars
      PROVE  NoneMissed'
  <2>1. plugged' = plugged
    BY <1>9 DEF CallStep, AuthorizeMissing, AuthorizeWrite, AuthorizeFinish,
       DeauthorizeWrite, DeauthorizeNodes, busVars
  <2>2. QED
    BY <1>3, <1>9, <2>1
<1>10. ASSUME NEW b \in Buses, Alert(b) \/ WatcherCall(b) PROVE NoneMissed'
  BY <1>9, <1>10 DEF Alert, WatcherCall, CutsOff, AlertHandled, CallStep, daemonVars,
     bootVars, ghosts
<1>11. ASSUME NEW u \in Users, UserAsks(u) \/ UserCall(u) PROVE NoneMissed'
  BY <1>9, <1>11 DEF UserAsks, UserAllows, UserDenies, UserCall, Grants, CutsOff,
     UserAnswered, CallStep, daemonVars, bootVars, ghosts
<1>12. CASE Crash
  BY <1>12 DEF Crash, NoneMissed
<1>13. QED
  BY <1>1, <1>2, <1>4, <1>5, <1>6, <1>7, <1>8, <1>10, <1>11, <1>12,
     MissedStart, MissedEvents, MissedCalls DEF Next, KernelStep

(* No device at a port of the machine slips past the evaluation, whenever  *)
(* it is plugged in: between the observer and start()'s list, during a     *)
(* replug, or around a crash.  One behind a hub may, for its event names   *)
(* the hub.                                                                *)
THEOREM NobodyIsMissed == Spec => []EveryDeviceJudged
<1>1. Sound /\ NoneMissed /\ [Next]_vars => NoneMissed'
  BY MissedStep
<1>2. NoneMissed => EveryDeviceJudged
  <2>1. ASSUME NoneMissed, EvaluatorsRest, NEW b \in Buses PROVE ~Awaited(b)
    BY <2>1 DEF NoneMissed, EvaluatorsRest, Awaited, Waits, Idle
  <2>2. QED
    BY <2>1 DEF NoneMissed, EvaluatorsRest, EveryDeviceJudged
<1>3. QED
  BY SoundInit, SoundStep, MissedInit, <1>1, <1>2, PTL DEF Spec

-----------------------------------------------------------------------------
(* What was blocked stays out.  A device is let in or blocked by a task    *)
(* that is past its evaluation, by the callback of a monitor, or by a      *)
(* user.  After a single evaluation at a bus there is a single such task,  *)
(* and a monitor only when that task is done.                              *)
Final == {"denying", "telling"}

PastAt(t, b) == task[t].pc \notin {"idle", "containing", "evaluate"} /\ Bus(t) = b

Watching(b) == monitors[b] = "live" \/ "live" \in strays[b]
Watched(b) == Watching(b) \/ call[WatcherOf[b]].pc # "idle"
BlockedAt(b) == \E i \in blocked : PortOf[i] = b

Verdict(b) ==
    /\ evals[b] = 0 =>
        /\ \A t \in Tasks : ~PastAt(t, b)
        /\ ~Watched(b) /\ ~BlockedAt(b)
    /\ evals[b] # 2 =>
        /\ \A t, u \in Tasks : PastAt(t, b) /\ PastAt(u, b) => t = u
        /\ Watched(b) => \A t \in Tasks : ~PastAt(t, b)
        /\ BlockedAt(b) => \A t \in Tasks : PastAt(t, b) => task[t].pc \in Final
        /\ auth[b] = "granted" => plugged[b] \notin blocked

OneVerdict == \A b \in Buses : Verdict(b)

WatchersFit ==
    \A b \in Buses :
        /\ call[WatcherOf[b]].pc \in {"idle", "deauthorize", "chmod"}
        /\ call[WatcherOf[b]].pc # "idle" => call[WatcherOf[b]].bus = b

LEMMA VerdictInit == Init => OneVerdict /\ WatchersFit
<1> SUFFICES ASSUME Init PROVE OneVerdict /\ WatchersFit
  OBVIOUS
<1>1. \A b \in Buses : call[WatcherOf[b]].pc = "idle"
  BY TasksAreCallers, NoCallShape DEF Init
<1>2. \A t \in Tasks : task[t].pc = "idle"
  BY DEF Init, Idle
<1>3. \A b \in Buses : monitors[b] = "none" /\ strays[b] = {} /\ blocked = {}
  BY DEF Init
<1>4. \A b \in Buses : ~Watched(b) /\ ~BlockedAt(b) /\ \A t \in Tasks : ~PastAt(t, b)
  BY <1>1, <1>2, <1>3 DEF Watched, Watching, BlockedAt, PastAt
<1>5. QED
  BY <1>1, <1>3, <1>4 DEF OneVerdict, Verdict, WatchersFit

(* A callback is called for a monitor that reads, and it goes its way.     *)
LEMMA WatchersMove ==
    ASSUME Safe, Queued, WatchersFit, [Next]_vars, NEW b \in Buses
    PROVE  \/ call'[WatcherOf[b]] = call[WatcherOf[b]]
           \/ call'[WatcherOf[b]] = NoCall
           \/ /\ call'[WatcherOf[b]].pc \in {"deauthorize", "chmod"}
              /\ call'[WatcherOf[b]].bus = b
              /\ Watched(b)
<1> DEFINE w == WatcherOf[b]
           Moved == \/ call'[w] = call[w] \/ call'[w] = NoCall
                    \/ /\ call'[w].pc \in {"deauthorize", "chmod"} /\ call'[w].bus = b
                       /\ Watched(b)
<1> SUFFICES Moved
  OBVIOUS
<1> USE TasksAreCallers
<1>0. w \in Callers /\ w \notin Tasks /\ w \notin Users
  BY DaemonAssumption DEF Watchers
<1>1. ASSUME UNCHANGED call PROVE Moved
  BY <1>1
<1>2. ASSUME NEW c \in Callers \ {w},
             CallStep(c) \/ \E op, x : Request(c, op, x)
      PROVE  Moved
  <2>1. CASE CallStep(c)
    BY <1>0, <2>1, CallStepShape DEF Safe, Shape
  <2>2. CASE \E op, x : Request(c, op, x)
    BY <1>0, <2>2 DEF Request, Safe, Shape, CallShape
  <2>3. QED
    BY <1>2, <2>1, <2>2
<1>3. CASE KernelStep \/ AgentStep \/ StartStep \/ PreflightDone \/ UNCHANGED vars
  BY <1>1, <1>3 DEF KernelStep, DevicePlugged, DeviceUnplugged, UdevWorks, AgentStep,
     AgentSetsHubs, AgentFindsNoSysfs, AgentCutsOff, AgentDone, StartStep, StartHubs,
     StartListening, ListExisting, TakeExisting, StartDone, PreflightDone, authVars,
     callVars, vars
<1>4. CASE TakeAdd
  BY <1>0, <1>2, <1>4 DEF TakeAdd
<1>5. CASE TakeRemove
  <2>1. Head(events).bus \in Buses
    <3>1. events # <<>>
      BY <1>5 DEF TakeRemove
    <3>2. Head(events) \in Events
      BY <3>1 DEF Queued
    <3>3. QED
      BY <3>2 DEF Events
  <2>2. WithdrawAlert(Head(events).bus)
    BY <1>5 DEF TakeRemove
  <2>3. QED
    BY <1>0, <2>1, <2>2, WithdrawShape DEF Safe, Shape
<1>6. ASSUME NEW t \in Tasks, GoAuthorize(t) \/ GoDeny(t) PROVE Moved
  BY <1>0, <1>2, <1>6 DEF GoAuthorize, GoDeny
<1>7. ASSUME NEW t \in Tasks, EvaluatorStep(t) \/ ClientReads(t) PROVE Moved
  <2>1. CASE Evaluate(t)
    <3>1. PICK decision \in Decisions(Ident(t)) : Enforce(t, decision)
      BY <2>1 DEF Evaluate
    <3>2. GoAuthorize(t) \/ GoDeny(t) \/ UNCHANGED callVars
      BY <3>1 DEF Decisions, Enforce, Tells
    <3>3. QED
      BY <1>1, <1>6, <3>2 DEF callVars
  <2>2. CASE VmWaited(t) \/ VmWaitTimesOut(t) \/ Told(t) \/ ToldOfAnalysis(t)
    <3>1. GoDeny(t) \/ UNCHANGED callVars
      BY <2>2 DEF VmWaited, VmWaitTimesOut, Told, ToldOfAnalysis, DeepAnalysis, Spawn, authVars
    <3>2. QED
      BY <1>1, <1>6, <3>1 DEF callVars
  <2>3. QED
    BY <1>7, <2>1, <2>2 DEF EvaluatorStep, ClientReads
<1>8. ASSUME NEW t \in Workers, WorkerStep(t) PROVE Moved
  BY <1>1, <1>6, <1>8 DEF WorkerStep, FindStorageNode, AnalysisClean, AnalysisFindsThreat,
     AnalysisInconclusive, authVars, callVars
<1>9. ASSUME NEW t \in Tasks, TaskCall(t) PROVE Moved
  <2>1. CallStep(t)
    BY <1>9 DEF TaskCall, AuthorizeFails, Grants, AuthorizeSucceeds, CutsOff,
       Deauthorized, CallStep
  <2>2. QED
    BY <1>0, <1>2, <2>1
<1>10. ASSUME NEW x \in Buses, Alert(x) \/ WatcherCall(x) PROVE Moved
  <2>1. CASE x # b
    <3>1. WatcherOf[x] # w /\ WatcherOf[x] \in Callers
      BY <2>1, DaemonAssumption
    <3>2. \/ CallStep(WatcherOf[x]) \/ \E op, y : Request(WatcherOf[x], op, y)
      BY <1>10 DEF Alert, WatcherCall, CutsOff, AlertHandled, CallStep
    <3>3. QED
      BY <1>2, <3>1, <3>2
  <2>2. CASE x = b /\ Alert(b)
    <3>1. Request(w, "deauthorize", b) /\ Watched(b)
      BY <2>2 DEF Alert, Watched, Watching
    <3>2. QED
      BY <1>0, <3>1, RequestShape DEF Safe, Shape
  <2>3. CASE x = b /\ CutsOff(w)
    <3>1. DeauthorizeWrite(w) /\ call[w].pc = "deauthorize"
      BY <2>3 DEF CutsOff, DeauthorizeWrite
    <3>2. call'[w].pc = "chmod" /\ call'[w].bus = call[w].bus
      BY <1>0, <3>1, CallStepShape DEF CallStep, Safe, Shape
    <3>3. QED
      BY <3>1, <3>2 DEF WatchersFit, Watched
  <2>4. CASE x = b /\ AlertHandled(b)
    <3>1. DeauthorizeNodes(w)
      BY <2>4 DEF AlertHandled
    <3>2. QED
      BY <1>0, <3>1, CallStepShape DEF CallStep, Safe, Shape
  <2>5. QED
    BY <1>10, <2>1, <2>2, <2>3, <2>4 DEF WatcherCall
<1>11. ASSUME NEW u \in Users, UserAsks(u) \/ UserCall(u) PROVE Moved
  BY <1>0, <1>2, <1>11 DEF UserAsks, UserAllows, UserDenies, UserCall, Grants, CutsOff,
     UserAnswered, CallStep
<1>12. CASE Crash
  BY <1>0, <1>12, WatchersLock DEF Crash, ProcessDies
<1>13. QED
  BY <1>3, <1>4, <1>5, <1>7, <1>8, <1>9, <1>10, <1>11, <1>12 DEF Next

LEMMA WatchersFitStep ==
    ASSUME Safe, Queued, WatchersFit, [Next]_vars PROVE WatchersFit'
BY WatchersMove, NoCallShape DEF WatchersFit

(* A monitor reads from the moment a task let its device in.               *)
LEMMA WatchingMoves ==
    ASSUME MonitorsTyped, [Next]_vars, NEW b \in Buses, Watching(b)'
    PROVE  Watching(b) \/ \E t \in Tasks : AuthorizeSucceeds(t) /\ Bus(t) = b
<1> DEFINE Goal == Watching(b) \/ \E t \in Tasks : AuthorizeSucceeds(t) /\ Bus(t) = b
<1> USE TasksAreCallers
<1>1. ASSUME UNCHANGED monitorVars \/ MonitorsCut PROVE Goal
  BY <1>1 DEF Watching, monitorVars, MonitorsCut
<1>2. CASE KernelStep \/ AgentStep \/ StartStep \/ PreflightDone \/ TakeAdd \/ UNCHANGED vars
  BY <1>1, <1>2 DEF KernelStep, DevicePlugged, DeviceUnplugged, UdevWorks, AgentStep,
     AgentSetsHubs, AgentFindsNoSysfs, AgentCutsOff, AgentDone, StartStep, StartHubs,
     StartListening, ListExisting, TakeExisting, StartDone, PreflightDone, TakeAdd, vars,
     daemonVars
<1>3. CASE TakeRemove
  BY <1>3 DEF TakeRemove, Watching, MonitorsTyped
<1>4. ASSUME NEW t \in Tasks, EvaluatorStep(t) \/ ClientReads(t) \/ WorkerStep(t) PROVE Goal
  BY <1>1, <1>4 DEF EvaluatorStep, Evaluate, VmWaited, VmWaitTimesOut, ClientReads, Told,
     ToldOfAnalysis, WorkerStep, FindStorageNode, AnalysisClean, AnalysisFindsThreat,
     AnalysisInconclusive
<1>5. ASSUME NEW t \in Tasks, AuthorizeSucceeds(t), Bus(t) # b PROVE Goal
  <2>1. MonitorsStarted(Bus(t), task[t].info)
    BY <1>5 DEF AuthorizeSucceeds
  <2>2. monitors'[b] = monitors[b] /\ strays'[b] = strays[b]
    BY <1>5, <2>1 DEF MonitorsStarted, monitorVars, MonitorsTyped
  <2>3. QED
    BY <2>2 DEF Watching
<1>6. ASSUME NEW t \in Tasks, TaskCall(t) PROVE Goal
  BY <1>1, <1>5, <1>6 DEF TaskCall, AuthorizeFails, Grants, CutsOff, Deauthorized
<1>7. ASSUME NEW x \in Buses, Alert(x) \/ WatcherCall(x) PROVE Goal
  BY <1>1, <1>7 DEF Alert, WatcherCall, CutsOff, AlertHandled, daemonVars
<1>8. ASSUME NEW u \in Users, UserAsks(u) \/ UserCall(u) PROVE Goal
  BY <1>1, <1>8 DEF UserAsks, UserAllows, UserDenies, UserCall, Grants, CutsOff,
     UserAnswered, daemonVars
<1>9. CASE Crash
  BY <1>9 DEF Crash, Watching
<1>10. QED
  BY <1>2, <1>3, <1>4, <1>6, <1>7, <1>8, <1>9 DEF Next

(* Steps of the tasks that bring no task past its evaluation, and take     *)
(* none back that has denied                                               *)
Goes(t) ==
    \/ task'[t].pc \in {"idle", "containing", "evaluate"}
    \/ task'[t] = task[t]
    \/ /\ task'[t].info = task[t].info
       /\ task[t].pc \notin {"idle", "containing", "evaluate"}
       /\ task[t].pc \in Final => task'[t].pc \in Final

LEMMA VerdictKept ==
    ASSUME NEW b \in Buses, Verdict(b), evals'[b] = evals[b],
           \A t \in Tasks : Goes(t),
           Watched(b)' => Watched(b),
           BlockedAt(b)' => BlockedAt(b),
           auth'[b] = "granted" /\ plugged'[b] \in blocked'
               => auth[b] = "granted" /\ plugged[b] \in blocked
    PROVE  Verdict(b)'
<1>1. \A t \in Tasks : PastAt(t, b)' =>
          PastAt(t, b) /\ (task[t].pc \in Final => task'[t].pc \in Final)
  BY DEF Goes, PastAt, Bus
<1>2. QED
  BY <1>1 DEF Verdict

(* A device at a bus that is blocked is blocked at its port.               *)
LEMMA BlockedHere ==
    ASSUME Safe, Others, NEW b \in Buses, plugged[b] \in blocked
    PROVE  BlockedAt(b)
<1>1. plugged[b] # None
  BY BusAssumption DEF Others
<1>2. QED
  BY <1>1 DEF BlockedAt, Safe, PortsFit

(* The call that a task is in is the one that its state tells of.          *)
LEMMA TasksCall ==
    ASSUME Tuned, NEW t \in Tasks
    PROVE  /\ call[t].pc \in {"authorize", "settle"} =>
                  task[t].pc = "authorizing" /\ call[t].bus = Bus(t)
           /\ task[t].pc = "denying" => call[t].bus = Bus(t)
           /\ call[t].pc = "chmod" => task[t].pc \in {"containing", "denying"}
BY DEF Tuned, InTune

LEMMA VerdictOfCuts ==
    ASSUME Sound, WatchersFit, OneVerdict, NEW c \in Callers, CutsOff(c),
           NEW b \in Buses, Watched(b)' => Watched(b)
    PROVE  Verdict(b)'
<1> DEFINE x == call[c].bus
<1> USE DEF Sound
<1>1. Verdict(b) /\ UNCHANGED <<task, evals>>
  BY DEF OneVerdict, CutsOff
<1>2. \A t \in Tasks : Goes(t)
  BY <1>1 DEF Goes
<1>3. /\ x \in Buses /\ call[c].pc = "deauthorize" /\ plugged' = plugged
      /\ \A y \in Buses : auth'[y] \in {auth[y], "off"} /\ (y # x => auth'[y] = auth[y])
      /\ plugged[x] # None => auth'[x] = "off"
  BY DEF CutsOff, DeauthorizeWrite, TurnOff, Safe, Shape, CallShape, BusTypeOK
<1>4. auth'[x] # "granted"
  BY <1>3 DEF Safe, PortsFit
<1>5. CASE blocked' = blocked
  <2>1. BlockedAt(b)' => BlockedAt(b)
    BY <1>5 DEF BlockedAt
  <2>2. auth'[b] = "granted" /\ plugged'[b] \in blocked'
            => auth[b] = "granted" /\ plugged[b] \in blocked
    BY <1>3, <1>5
  <2>3. QED
    BY <1>1, <1>2, <2>1, <2>2, VerdictKept
<1>6. CASE Reports(c) /\ blocked' = blocked \cup ({plugged[x]} \ {None})
  <2>1. CASE x # b
    <3>1. plugged[x] # None => PortOf[plugged[x]] # b
      BY <1>3, <2>1 DEF Safe, PortsFit
    <3>2. BlockedAt(b)' => BlockedAt(b)
      BY <1>6, <3>1 DEF BlockedAt
    <3>3. auth'[b] = "granted" /\ plugged'[b] \in blocked'
              => auth[b] = "granted" /\ plugged[b] \in blocked
      <4>1. plugged[b] # None => PortOf[plugged[b]] = b
        BY DEF Safe, PortsFit
      <4>2. plugged'[b] \in blocked' => plugged[b] \in blocked
        BY <1>3, <1>6, <3>1, <4>1
      <4>3. QED
        BY <1>3, <2>1, <4>2
    <3>4. QED
      BY <1>1, <1>2, <3>2, <3>3, VerdictKept
  <2>2. CASE x = b /\ c \in Watchers
    <3>1. PICK y \in Buses : c = WatcherOf[y]
      BY <2>2 DEF Watchers
    <3>2. y = b
      BY <1>3, <2>2, <3>1 DEF WatchersFit
    <3>3. Watched(b)
      BY <1>3, <3>1, <3>2 DEF Watched
    <3>4. evals[b] # 0 /\ (evals[b] # 2 => \A t \in Tasks : ~PastAt(t, b))
      BY <1>1, <3>3 DEF Verdict
    <3>5. \A t \in Tasks : ~PastAt(t, b) => ~PastAt(t, b)'
      BY <1>1 DEF PastAt, Bus
    <3>6. QED
      BY <1>1, <1>4, <2>2, <3>4, <3>5 DEF Verdict
  <2>3. CASE x = b /\ c \in Tasks /\ task[c].pc = "denying"
    <3>1. PastAt(c, b)
      BY <2>3, TasksCall DEF PastAt
    <3>2. /\ evals[b] # 0
          /\ evals[b] # 2 => ~Watched(b) /\ \A t \in Tasks : PastAt(t, b) => t = c
      BY <1>1, <2>3, <3>1 DEF Verdict
    <3>3. \A t \in Tasks : PastAt(t, b)' => PastAt(t, b)
      BY <1>1 DEF PastAt, Bus
    <3>4. evals[b] # 2 => \A t \in Tasks : PastAt(t, b)' => t = c /\ task'[t].pc \in Final
      BY <1>1, <2>3, <3>2, <3>3 DEF Final
    <3>5. QED
      BY <1>1, <1>4, <2>3, <3>2, <3>4 DEF Verdict
  <2>4. QED
    BY <1>6, <2>1, <2>2, <2>3 DEF Reports
<1>7. QED
  BY <1>5, <1>6 DEF CutsOff

LEMMA VerdictOfGrants ==
    ASSUME Sound, OneVerdict, NEW c \in Tasks \cup Users, Grants(c),
           NEW b \in Buses, Watched(b)' => Watched(b)
    PROVE  Verdict(b)'
<1> DEFINE x == call[c].bus
<1> USE DEF Sound
<1>1. Verdict(b) /\ UNCHANGED <<task, evals>>
  BY DEF OneVerdict, Grants
<1>2. \A t \in Tasks : Goes(t)
  BY <1>1 DEF Goes
<1>3. /\ x \in Buses /\ call[c].pc = "authorize" /\ plugged' = plugged
      /\ \A y \in Buses : y # x => auth'[y] = auth[y]
  BY TasksAreCallers
     DEF Grants, AuthorizeWrite, TurnOn, Safe, Shape, CallShape, BusTypeOK
<1>4. blocked' \subseteq blocked
  BY DEF Grants
<1>5. BlockedAt(b)' => BlockedAt(b)
  BY <1>4 DEF BlockedAt
<1>6. CASE x # b
  BY <1>1, <1>2, <1>3, <1>4, <1>5, <1>6, VerdictKept
<1>7. CASE x = b /\ c \in Users
  <2>1. plugged'[b] \notin blocked'
    BY <1>3, <1>7 DEF Grants
  <2>2. QED
    BY <1>1, <1>2, <1>5, <2>1, VerdictKept
<1>8. CASE x = b /\ c \in Tasks
  <2>1. PastAt(c, b) /\ task[c].pc \notin Final
    BY <1>3, <1>8, TasksCall DEF PastAt, Final
  <2>2. evals[b] # 2 => ~BlockedAt(b)
    BY <1>1, <1>8, <2>1 DEF Verdict
  <2>3. CASE evals[b] # 2
    <3>1. plugged[b] \notin blocked
      BY <2>2, <2>3, BlockedHere
    <3>2. QED
      BY <1>1, <1>2, <1>3, <1>4, <1>5, <3>1, VerdictKept
  <2>4. CASE evals[b] = 2
    BY <1>1, <2>4 DEF Verdict
  <2>5. QED
    BY <2>3, <2>4
<1>9. QED
  BY <1>6, <1>7, <1>8

(* The first evaluation at a bus brings one task past it; from the second  *)
(* on nothing is claimed.                                                  *)
LEMMA VerdictOfEvaluate ==
    ASSUME Sound, OneVerdict, NEW t \in {Startup, Processor}, Evaluate(t),
           NEW b \in Buses, Watched(b)' => Watched(b)
    PROVE  Verdict(b)'
<1> DEFINE x == Bus(t)
<1> USE TasksAreCallers DEF Sound
<1>1. /\ Verdict(b) /\ task[t].pc = "evaluate" /\ UNCHANGED <<plugged, auth, blocked>>
      /\ evals' = [evals EXCEPT ![x] = IF @ < 2 THEN @ + 1 ELSE @]
  BY DEF OneVerdict, Evaluate, busVars
<1>2. x \in Buses
  BY <1>1, TaskTyped
<1>3. \E pc \in {"authorizing", "denying", "telling", "telling analysis"} :
          task' = [task EXCEPT ![t].pc = pc]
  BY DEF Evaluate, Decisions, Enforce, GoAuthorize, GoDeny, Tells
<1>4. /\ task'[t].info = task[t].info
      /\ \A u \in Tasks : u # t => task'[u] = task[u]
  BY <1>3 DEF Safe, Shape, TaskShape, TaskRecords
<1>5. \A u \in Tasks : PastAt(u, b)' => PastAt(u, b) \/ (u = t /\ x = b)
  BY <1>4 DEF PastAt, Bus
<1>6. BlockedAt(b)' => BlockedAt(b)
  BY <1>1 DEF BlockedAt
<1>7. CASE x # b
  <2>1. evals'[b] = evals[b]
    BY <1>1, <1>2, <1>7 DEF Others
  <2>2. \A u \in Tasks : PastAt(u, b) => u # t
    BY <1>7 DEF PastAt
  <2>3. \A u \in Tasks : PastAt(u, b)' => PastAt(u, b) /\ task'[u] = task[u]
    BY <1>4, <1>5, <1>7, <2>2
  <2>4. QED
    BY <1>1, <1>6, <2>1, <2>3 DEF Verdict
<1>8. CASE x = b /\ evals[b] = 0
  <2>1. evals'[b] = 1
    BY <1>1, <1>2, <1>8 DEF Others
  <2>2. /\ ~Watched(b)' /\ ~BlockedAt(b)'
        /\ \A u \in Tasks : PastAt(u, b)' => u = t
    BY <1>1, <1>5, <1>6, <1>8 DEF Verdict
  <2>3. plugged[b] \notin blocked
    BY <1>1, <1>8, BlockedHere DEF Verdict
  <2>4. QED
    BY <1>1, <2>1, <2>2, <2>3 DEF Verdict
<1>9. CASE x = b /\ evals[b] # 0
  <2>1. evals'[b] = 2
    BY <1>1, <1>2, <1>9 DEF Others
  <2>2. QED
    BY <2>1 DEF Verdict
<1>10. QED
  BY <1>7, <1>8, <1>9

LEMMA VerdictOfSpawn ==
    ASSUME Sound, OneVerdict, NEW t \in Tasks, NEW pc, Spawn(t, pc),
           task[t].pc \in {"telling analysis", "vmwait"},
           UNCHANGED <<plugged, auth, blocked, evals>>,
           NEW b \in Buses, Watched(b)' => Watched(b)
    PROVE  Verdict(b)'
<1> USE TasksAreCallers DEF Sound
<1>1. PICK w \in Workers :
          /\ task[w] = Idle
          /\ task' = [task EXCEPT ![t] = Idle, ![w] = Doing(pc, task[t].info)]
  BY DEF Spawn
<1>2. /\ \A u \in Tasks \ {t, w} : task'[u] = task[u]
      /\ w # t => task'[t].pc = "idle"
      /\ task'[w].info = task[t].info
  BY <1>1 DEF Idle, Doing, Safe, Shape, TaskShape
<1>3. task[w].pc = "idle" /\ w # t
  <2>1. Idle.pc = "idle"
    BY DEF Idle
  <2>2. QED
    BY <1>1, <2>1
<1>4. \A u \in Tasks : PastAt(u, b)' =>
          \/ u \notin {t, w} /\ PastAt(u, b) /\ task'[u] = task[u]
          \/ u = w /\ PastAt(t, b)
  BY <1>2, <1>3 DEF PastAt, Bus
<1>5. BlockedAt(b)' => BlockedAt(b)
  BY DEF BlockedAt
<1>6. task[t].pc \notin Final /\ Verdict(b)
  BY DEF Final, OneVerdict
<1>7. evals[b] # 2 =>
          /\ \A u, v \in Tasks : PastAt(u, b)' /\ PastAt(v, b)' => u = v
          /\ Watched(b)' => \A u \in Tasks : ~PastAt(u, b)'
          /\ BlockedAt(b)' => \A u \in Tasks : PastAt(u, b)' => task'[u].pc \in Final
  BY <1>4, <1>5, <1>6 DEF Verdict
<1>8. evals[b] = 0 => ~Watched(b)' /\ ~BlockedAt(b)' /\ \A u \in Tasks : ~PastAt(u, b)'
  BY <1>4, <1>5, <1>6 DEF Verdict
<1>9. QED
  BY <1>6, <1>7, <1>8 DEF Verdict

(* A task that has let its device in is done, and a monitor may read.      *)
LEMMA VerdictOfSuccess ==
    ASSUME Sound, OneVerdict, NEW t \in Tasks, AuthorizeSucceeds(t),
           NEW b \in Buses, Bus(t) = b
    PROVE  Verdict(b)'
<1> USE DEF Sound
<1>1. call[t].pc = "settle"
  BY DEF AuthorizeSucceeds, AuthorizeFinish
<1>2. task[t].pc = "authorizing"
  BY <1>1, TasksCall
<1>3. PastAt(t, b)
  BY <1>2 DEF PastAt
<1>4. UNCHANGED <<plugged, auth, evals, blocked>> /\ task' = [task EXCEPT ![t] = Idle]
  BY DEF AuthorizeSucceeds, AuthorizeFinish, ghosts
<1>5. Verdict(b) /\ evals[b] # 0
  BY <1>3 DEF OneVerdict, Verdict
<1>6. \A u \in Tasks : PastAt(u, b)' => PastAt(u, b) /\ u # t
  <2>1. task'[t].pc = "idle" /\ \A u \in Tasks : u # t => task'[u] = task[u]
    BY <1>4 DEF Idle, Safe, Shape, TaskShape
  <2>2. QED
    BY <2>1 DEF PastAt, Bus
<1>7. evals[b] # 2 => \A u \in Tasks : ~PastAt(u, b)'
  BY <1>3, <1>5, <1>6 DEF Verdict
<1>8. auth'[b] = "granted" /\ evals[b] # 2 => plugged'[b] \notin blocked'
  BY <1>4, <1>5 DEF Verdict
<1>9. QED
  BY <1>4, <1>5, <1>7, <1>8 DEF Verdict

LEMMA VerdictOfTasks ==
    ASSUME Sound, OneVerdict, NEW t \in Tasks,
           (t \in {Startup, Processor} /\ EvaluatorStep(t)) \/ ClientReads(t) \/ WorkerStep(t),
           NEW b \in Buses, Watched(b)' => Watched(b)
    PROVE  Verdict(b)'
<1> USE TasksAreCallers DEF Sound
<1>1. CASE t \in {Startup, Processor} /\ Evaluate(t)
  BY <1>1, VerdictOfEvaluate
<1>2. CASE ~Evaluate(t)
  <2>1. UNCHANGED <<plugged, auth, blocked, evals>>
    BY <1>2 DEF EvaluatorStep, VmWaited, VmWaitTimesOut, ClientReads, Told, ToldOfAnalysis,
       WorkerStep, FindStorageNode, AnalysisClean, AnalysisFindsThreat, AnalysisInconclusive,
       authVars, busVars, ghosts
  <2>2. task[t].pc \in {"telling", "telling analysis", "vmwait", "namespace", "vm"}
    BY <1>2 DEF EvaluatorStep, VmWaited, VmWaitTimesOut, ClientReads, Told, ToldOfAnalysis,
       WorkerStep, FindStorageNode, AnalysisClean, AnalysisFindsThreat, AnalysisInconclusive
  <2>3. \/ task' = [task EXCEPT ![t] = Idle]
        \/ /\ task[t].pc \notin Final
           /\ \E pc \in TaskStates : task' = [task EXCEPT ![t].pc = pc]
        \/ /\ task[t].pc \in {"telling analysis", "vmwait"}
           /\ Spawn(t, "namespace") \/ Spawn(t, "vm")
    <3>1. CASE VmWaited(t) \/ VmWaitTimesOut(t)
      BY <3>1 DEF VmWaited, VmWaitTimesOut, GoDeny, Final, TaskStates
    <3>2. CASE Told(t)
      BY <3>2 DEF Told
    <3>3. CASE ToldOfAnalysis(t)
      BY <3>3 DEF ToldOfAnalysis, DeepAnalysis, GoDeny, Final, TaskStates
    <3>4. CASE FindStorageNode(t)
      <4>1. \/ task' = [task EXCEPT ![t] = Idle]
            \/ task' = [task EXCEPT ![t].pc = "vm"]
        BY <3>4 DEF FindStorageNode, Safe, Shape, TaskShape
      <4>2. task[t].pc = "namespace"
        BY <3>4 DEF FindStorageNode
      <4>3. QED
        BY <4>1, <4>2 DEF Final, TaskStates
    <3>5. CASE AnalysisClean(t) \/ AnalysisFindsThreat(t)
      BY <3>5 DEF AnalysisClean, AnalysisFindsThreat, GoAuthorize, GoDeny, Final, TaskStates
    <3>6. CASE AnalysisInconclusive(t)
      BY <3>6 DEF AnalysisInconclusive
    <3>7. QED
      BY <1>2, <3>1, <3>2, <3>3, <3>4, <3>5, <3>6 DEF EvaluatorStep, ClientReads, WorkerStep
  <2>4. ASSUME \A u \in Tasks : Goes(u) PROVE Verdict(b)'
    <3>1. Verdict(b) /\ (BlockedAt(b)' => BlockedAt(b))
      BY <2>1 DEF OneVerdict, BlockedAt
    <3>2. QED
      BY <2>1, <2>4, <3>1, VerdictKept
  <2>5. CASE task' = [task EXCEPT ![t] = Idle]
    <3>1. task'[t].pc = "idle" /\ \A u \in Tasks : u # t => task'[u] = task[u]
      BY <2>5 DEF Idle, Safe, Shape, TaskShape
    <3>2. QED
      BY <2>4, <3>1 DEF Goes
  <2>6. ASSUME NEW pc \in TaskStates, task' = [task EXCEPT ![t].pc = pc],
               task[t].pc \notin Final
        PROVE  Verdict(b)'
    <3>1. /\ task'[t].info = task[t].info
          /\ \A u \in Tasks : u # t => task'[u] = task[u]
      BY <2>6 DEF Safe, Shape, TaskShape, TaskRecords
    <3>2. QED
      BY <2>2, <2>4, <2>6, <3>1 DEF Goes
  <2>7. QED
    BY <2>1, <2>3, <2>5, <2>6, VerdictOfSpawn
<1>3. QED
  <2>1. CASE t \notin {Startup, Processor}
    <3>1. ClientReads(t) \/ WorkerStep(t)
      BY <2>1
    <3>2. task[t].pc # "evaluate"
      BY <3>1 DEF ClientReads, Told, ToldOfAnalysis, WorkerStep, FindStorageNode,
         AnalysisClean, AnalysisFindsThreat, AnalysisInconclusive
    <3>3. QED
      BY <1>2, <3>2 DEF Evaluate
  <2>2. QED
    BY <1>1, <1>2, <2>1

LEMMA VerdictStep ==
    ASSUME Sound, WatchersFit, OneVerdict, [Next]_vars PROVE OneVerdict'
<1> SUFFICES ASSUME NEW b \in Buses PROVE Verdict(b)'
  BY DEF OneVerdict
<1> USE TasksAreCallers DEF Sound
<1>1. CASE \E t \in Tasks : AuthorizeSucceeds(t) /\ Bus(t) = b
  BY <1>1, VerdictOfSuccess
<1>2. CASE ~\E t \in Tasks : AuthorizeSucceeds(t) /\ Bus(t) = b
  <2>1. Watched(b)' => Watched(b)
    BY <1>2, WatchersMove, WatchingMoves, NoCallShape DEF Watched
  <2>2. ASSUME UNCHANGED <<evals, blocked>>, \A t \in Tasks : Goes(t),
               auth'[b] = "granted" => auth[b] = "granted" /\ plugged'[b] = plugged[b]
        PROVE  Verdict(b)'
    <3>1. Verdict(b) /\ (BlockedAt(b)' => BlockedAt(b))
      BY <2>2 DEF OneVerdict, BlockedAt
    <3>2. QED
      BY <2>1, <2>2, <3>1, VerdictKept
  <2>3. ASSUME task' = task, UNCHANGED <<evals, blocked>>,
               auth'[b] = "granted" => auth[b] = "granted" /\ plugged'[b] = plugged[b]
        PROVE  Verdict(b)'
    BY <2>2, <2>3 DEF Goes
  <2>4. CASE KernelStep
    <3>1. UNCHANGED <<task, evals, blocked>>
      BY <2>4 DEF KernelStep, DevicePlugged, DeviceUnplugged, UdevWorks, ghosts
    <3>2. auth'[b] = "granted" => auth[b] = "granted" /\ plugged'[b] = plugged[b]
      <4>1. ASSUME NEW i \in Insertions, Plug(i)
            PROVE  auth'[b] = "granted" => auth[b] = "granted" /\ plugged'[b] = plugged[b]
        BY <4>1 DEF Plug, Safe, Shape, BusTypeOK
      <4>2. ASSUME NEW x \in Buses, Unplug(x)
            PROVE  auth'[b] = "granted" => auth[b] = "granted" /\ plugged'[b] = plugged[b]
        BY <4>2 DEF Unplug, TurnOff, Safe, Shape, BusTypeOK
      <4>3. ASSUME NEW x \in Buses, UdevWork(x)
            PROVE  auth'[b] = "granted" => auth[b] = "granted" /\ plugged'[b] = plugged[b]
        BY <4>3 DEF UdevWork, UdevAdd, NodeAppears, UdevChange, TurnOff, Safe, Shape, BusTypeOK
      <4>4. QED
        BY <2>4, <4>1, <4>2, <4>3 DEF KernelStep, DevicePlugged, DeviceUnplugged, UdevWorks
    <3>3. QED
      BY <2>3, <3>1, <3>2
  <2>5. CASE AgentStep
    <3>1. UNCHANGED <<task, evals, blocked, plugged>>
      BY <2>5 DEF AgentStep, AgentSetsHubs, AgentFindsNoSysfs, AgentCutsOff, AgentDone,
         SetHubDefaults, authVars, busVars, ghosts
    <3>2. auth'[b] \in {auth[b], "off"}
      BY <2>5 DEF AgentStep, AgentSetsHubs, AgentFindsNoSysfs, AgentCutsOff, AgentDone,
         SetHubDefaults, TurnOff, authVars, busVars, Safe, Shape, BusTypeOK
    <3>3. QED
      BY <2>3, <3>1, <3>2
  <2>6. CASE StartHubs \/ StartListening \/ ListExisting \/ StartDone \/ PreflightDone
             \/ TakeRemove \/ UNCHANGED vars
    BY <2>3, <2>6 DEF StartHubs, StartListening, ListExisting, StartDone, PreflightDone,
       TakeRemove, SetHubDefaults, authVars, busVars, daemonVars, vars, ghosts
  <2>7. ASSUME NEW t \in Tasks, NEW info, NEW pc \in {"containing", "evaluate"},
               task' = [task EXCEPT ![t] = Doing(pc, info)]
        PROVE  \A u \in Tasks : Goes(u)
    BY <2>7 DEF Goes, Doing, Safe, Shape, TaskShape
  <2>8. CASE TakeExisting \/ TakeAdd
    <3>1. UNCHANGED <<evals, blocked, plugged, auth>>
      BY <2>8 DEF TakeExisting, TakeAdd, authVars, busVars, ghosts
    <3>2. \A u \in Tasks : Goes(u)
      BY <2>7, <2>8 DEF TakeExisting, TakeAdd
    <3>3. QED
      BY <2>2, <3>1, <3>2
  <2>9. ASSUME NEW t \in {Startup, Processor}, EvaluatorStep(t) \/ ClientReads(t)
        PROVE  Verdict(b)'
    BY <2>1, <2>9, VerdictOfTasks
  <2>10. ASSUME NEW w \in Workers, WorkerStep(w) PROVE Verdict(b)'
    BY <2>1, <2>10, VerdictOfTasks
  <2>11. ASSUME NEW c \in Callers, CutsOff(c) PROVE Verdict(b)'
    BY <2>1, <2>11, VerdictOfCuts
  <2>12. ASSUME NEW c \in Tasks \cup Users, Grants(c) PROVE Verdict(b)'
    BY <2>1, <2>12, VerdictOfGrants
  <2>13. ASSUME NEW c \in Callers, UNCHANGED <<task, evals, blocked>>,
                AuthorizeMissing(c) \/ AuthorizeFinish(c) \/ DeauthorizeNodes(c)
         PROVE  Verdict(b)'
    BY <2>3, <2>13, CallEnds DEF Safe, Shape
  <2>14. ASSUME NEW t \in Tasks, AuthorizeFails(t) \/ AuthorizeSucceeds(t) \/ Deauthorized(t)
         PROVE  Verdict(b)'
    <3>1. UNCHANGED <<evals, blocked, plugged, auth>>
      BY <2>14, CallEnds DEF AuthorizeFails, AuthorizeSucceeds, Deauthorized, ghosts, Safe, Shape
    <3>2. \/ task' = [task EXCEPT ![t] = Idle]
          \/ task' = [task EXCEPT ![t].pc = "evaluate"]
          \/ task[t].pc = "denying" /\ task' = [task EXCEPT ![t].pc = "telling"]
      BY <2>14 DEF AuthorizeFails, AuthorizeSucceeds, Deauthorized, Safe, Shape, TaskShape
    <3>3. \A u \in Tasks : u # t => task'[u] = task[u]
      BY <3>2 DEF Safe, Shape, TaskShape
    <3>4. \/ task'[t].pc \in {"idle", "evaluate"}
          \/ /\ task[t].pc = "denying" /\ task'[t].pc = "telling"
             /\ task'[t].info = task[t].info
      BY <3>2 DEF Idle, Safe, Shape, TaskShape, TaskRecords
    <3>5. \A u \in Tasks : Goes(u)
      BY <3>3, <3>4 DEF Goes, Final
    <3>6. QED
      BY <2>2, <3>1, <3>5
  <2>15. ASSUME NEW t \in Tasks, TaskCall(t) PROVE Verdict(b)'
    BY <2>11, <2>12, <2>14, <2>15 DEF TaskCall
  <2>16. ASSUME NEW x \in Buses, Alert(x) \/ WatcherCall(x) PROVE Verdict(b)'
    BY <2>3, <2>11, <2>13, <2>16 DEF Alert, WatcherCall, AlertHandled, busVars, daemonVars,
       ghosts
  <2>17. ASSUME NEW u \in Users, UserAsks(u) \/ UserCall(u) PROVE Verdict(b)'
    BY <2>3, <2>11, <2>12, <2>13, <2>17 DEF UserAsks, UserAllows, UserDenies, UserCall,
       UserAnswered, busVars, daemonVars, ghosts
  <2>18. CASE Crash
    <3>1. UNCHANGED <<evals, blocked, plugged, auth>> /\ \A t \in Tasks : task'[t].pc = "idle"
      BY <2>18 DEF Crash, busVars, Idle
    <3>2. QED
      BY <2>2, <3>1 DEF Goes
  <2>19. QED
    BY <2>4, <2>5, <2>6, <2>8, <2>9, <2>10, <2>15, <2>16, <2>17, <2>18 DEF Next, StartStep
<1>3. QED
  BY <1>1, <1>2

(* What the daemon reports as blocked or denied is not let in again, by no *)
(* analysis that is still running, no answer that comes late and no        *)
(* restart, unless the user allows it or another evaluation at its port    *)
(* came to another verdict.                                                *)
THEOREM BlockedIsOut == Spec => []BlockedStaysOut
<1>1. Sound /\ WatchersFit /\ OneVerdict /\ [Next]_vars => (WatchersFit /\ OneVerdict)'
  BY VerdictStep, WatchersFitStep DEF Sound
<1>2. Sound /\ OneVerdict => BlockedStaysOut
  BY DEF Sound, Others, OneVerdict, Verdict, BlockedStaysOut
<1>3. QED
  BY SoundInit, SoundStep, VerdictInit, <1>1, <1>2, PTL DEF Spec

=============================================================================
