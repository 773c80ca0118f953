----------------------------- MODULE WRUDaemon -----------------------------
(***************************************************************************)
(* The daemon of core/daemon.py with its event handler                     *)
(* (core/event_handler.py): start-up, the queue of USB events and its      *)
(* processor, the evaluation of a device, the analysis tasks, the HID      *)
(* monitors' alerts, the user's allow and deny, and a crash with restart.  *)
(*                                                                         *)
(* All of it runs in one event loop; a step is what runs between two       *)
(* awaits that can yield.  What a task knows of a device is the DeviceInfo *)
(* it was started with; authorize() and deauthorize() take a bus id.       *)
(*                                                                         *)
(* A bus of which ReportedAs names another one is behind a hub: its device *)
(* comes while the hub is on and leaves before the hub does, or some time  *)
(* after the hub was switched off.                                         *)
(*                                                                         *)
(* Left to other modules: the network branch of _authorize_device, the     *)
(* audit log, the tray, incident records and stop().                       *)
(***************************************************************************)
EXTENDS Authorization, SequencesExt

CONSTANTS Hid,          \* the insertions of keyboards and the like
          Named,        \* those whose product name sounds like storage
          ReportedAs,   \* the bus that an event of a bus is taken for
          IdentOf,      \* vendor:product:serial of an insertion
          Allowlisted,  \* the identities policy.json allows
          Blocklisted,  \* and those it blocks
          ClamAV,       \* enable_clamav
          VmConfigured, \* enable_vm_analysis, as configured
          AgentInstalled, \* is usb_init_agent.py part of the initramfs?
          Startup,      \* the task that runs start()
          Processor,    \* the task that runs _process_events()
          Workers,      \* the analysis tasks; asyncio bounds them not at all
          WatcherOf,    \* the callback task of the HID monitor of a bus
          Users,        \* callers of `wru allow`, `wru deny` or the API
          Daemon,       \* the daemon's lock
          MaxCrashes    \* bounds the crashes of a run

Tasks == {Startup, Processor} \cup Workers
Watchers == {WatcherOf[b] : b \in Buses}
Idents == {IdentOf[i] : i \in Insertions}

ASSUME DaemonAssumption ==
    /\ Hid \subseteq Insertions
    /\ Named \subseteq Insertions
    /\ ReportedAs \in [Buses -> Buses]
    /\ IdentOf \in [Insertions -> Idents]
    /\ Allowlisted \subseteq Idents /\ Blocklisted \subseteq Idents
    /\ {ClamAV, VmConfigured, AgentInstalled} \subseteq BOOLEAN
    /\ Startup # Processor
    /\ WatcherOf \in [Buses -> Watchers]
    /\ \A b, c \in Buses : WatcherOf[b] = WatcherOf[c] => b = c
    /\ {Startup, Processor} \cap Workers = {}
    /\ Tasks \cap Watchers = {} /\ (Tasks \cup Watchers) \cap Users = {}
    /\ Callers = Tasks \cup Watchers \cup Users
    /\ \A c \in Tasks \cup Watchers : LockOf[c] = Daemon
    /\ MaxCrashes \in Nat

VARIABLES boot,      \* how far the machine's start and start() are
          sweep,     \* the buses the agent has still to visit
          missed,    \* ghost: the insertions the agent could not keep off
          todo,      \* what _process_existing_devices has still to evaluate
          events,    \* _event_queue
          task,      \* what each task is doing, and for which DeviceInfo
          pending,   \* the keys of _pending_decisions
          monitors,  \* the HID monitor registered for a bus
          strays,    \* those that another one of the bus was registered over
          vmEnabled, \* config.enable_vm_analysis, which the preflight clears
          vmReady,   \* _vm_ready_event
          preflight, \* does the preflight task run?
          crashes,   \* how often the process died
          cleared,   \* ghost: identities some verdict or user approved
          judged,    \* ghost: insertions this process evaluated
          evals,     \* ghost: evaluations of devices at a bus, up to two
          blocked    \* ghost: insertions reported as blocked or denied

agentVars == <<sweep, missed>>
bootVars == <<boot, agentVars, todo>>
monitorVars == <<monitors, strays>>
vmVars == <<vmEnabled, vmReady, preflight>>
ghosts == <<cleared, judged, evals, blocked>>
daemonVars == <<bootVars, events, task, pending, monitorVars, vmVars, crashes, ghosts>>
vars == <<authVars, daemonVars>>

(* A DeviceInfo: the device read, and whether its interfaces were visible. *)
NoInfo == [ins |-> None, seen |-> FALSE]
Infos == [ins : Insertions, seen : BOOLEAN]
Info(b) == IF plugged[b] = None THEN NoInfo
           ELSE [ins |-> plugged[b], seen |-> auth[b] # "off"]

HasHid(info) == info.seen /\ info.ins \in Hid
HasStorage(info) == (info.seen /\ info.ins \in Storage) \/ info.ins \in Named

Idle == [pc |-> "idle", info |-> NoInfo]
Doing(pc, info) == [pc |-> pc, info |-> info]
Bus(t) == PortOf[task[t].info.ins]
Ident(t) == IdentOf[task[t].info.ins]

Events == [act : {"add", "remove"}, bus : Buses]
TaskStates == {"idle", "containing", "evaluate", "authorizing", "denying",
               "telling", "telling analysis", "vmwait", "namespace", "vm"}

TypeOK ==
    /\ AuthTypeOK
    /\ boot \in {"initramfs", "sweep", "off", "hubs", "listening", "existing", "up"}
    /\ sweep \subseteq Buses /\ missed \subseteq Insertions
    /\ todo \subseteq Infos
    /\ events \in Seq(Events)
    /\ task \in [Tasks -> [pc : TaskStates, info : Infos \cup {NoInfo}]]
    /\ \A t \in Tasks : task[t].pc \notin {"idle", "containing"}
                            => task[t].info \in Infos
    /\ pending \subseteq Buses
    /\ monitors \in [Buses -> {"none", "live", "dead"}]
    /\ strays \in [Buses -> SUBSET {"live", "dead"}]
    /\ {vmEnabled, vmReady, preflight} \subseteq BOOLEAN
    /\ crashes \in 0 .. MaxCrashes
    /\ cleared \subseteq Idents
    /\ judged \subseteq Insertions
    /\ evals \in [Buses -> 0 .. 2]
    /\ blocked \subseteq Insertions

Init ==
    /\ BusInit(1)
    /\ call = [c \in Callers |-> NoCall]
    /\ lock = [l \in Locks |-> <<>>]
    /\ boot = IF AgentInstalled THEN "initramfs" ELSE "off"
    /\ sweep = {} /\ missed = {}
    /\ todo = {}
    /\ events = <<>>
    /\ task = [t \in Tasks |-> Idle]
    /\ pending = {}
    /\ monitors = [b \in Buses |-> "none"]
    /\ strays = [b \in Buses |-> {}]
    /\ vmEnabled = VmConfigured
    /\ vmReady = FALSE
    /\ preflight = FALSE
    /\ crashes = 0
    /\ cleared = {}
    /\ judged = {}
    /\ evals = [b \in Buses |-> 0]
    /\ blocked = {}

-----------------------------------------------------------------------------
(* The kernel.  The observer thread puts what it hears into the queue, for *)
(* the bus that USBEvent.from_pyudev takes out of the path: the first part *)
(* below the root hub, so the hub's own bus for a device behind it.  A     *)
(* monitor's file descriptor fails for good once its device is off.        *)
ListeningBug == boot = "up"  \* observe once the existing devices are done

Listening == boot \in {"listening", "existing", "up"}

Heard(act, b) ==
    events' = IF Listening THEN Append(events, [act |-> act, bus |-> ReportedAs[b]])
              ELSE events

MonitorsCut ==
    /\ monitors' = [b \in Buses |->
                   IF auth'[b] = "off" /\ monitors[b] = "live" THEN "dead"
                   ELSE monitors[b]]
    /\ strays' = [b \in Buses |->
                   IF auth'[b] = "off" /\ "live" \in strays[b] THEN {"dead"}
                   ELSE strays[b]]

Behind(b) == {c \in Buses \ {b} : ReportedAs[c] = b}

DevicePlugged(i) ==
    /\ \A hub \in Buses : PortOf[i] \in Behind(hub) => auth[hub] # "off"
    /\ Plug(i)
    /\ Heard("add", PortOf[i])
    /\ UNCHANGED <<callVars, bootVars, task, pending, monitorVars, vmVars, crashes, ghosts>>

DeviceUnplugged(b) ==
    /\ \A c \in Behind(b) : plugged[c] = None
    /\ Unplug(b)
    /\ Heard("remove", b)
    /\ MonitorsCut
    /\ UNCHANGED <<callVars, bootVars, task, pending, vmVars, crashes, ghosts>>

UdevWorks(b) ==
    /\ UdevWork(b)
    /\ MonitorsCut
    /\ UNCHANGED <<callVars, bootVars, events, task, pending, vmVars, crashes, ghosts>>

-----------------------------------------------------------------------------
(* The initramfs agent, before the daemon: first the hubs, so that nothing *)
(* new is let in, then one pass over the devices.  Every error is logged   *)
(* and the agent goes on; without sysfs it does nothing at all.            *)
AgentSetsHubsBug ==  \* leaves the hubs to the daemon
    /\ boot = "initramfs"
    /\ boot' = "sweep"
    /\ sweep' = Buses
    /\ UNCHANGED <<authVars, missed, todo, events, task, pending, monitorVars, vmVars,
                   crashes, ghosts>>

AgentSetsHubs ==
    /\ boot = "initramfs"
    /\ boot' = "sweep"
    /\ SetHubDefaults
    /\ sweep' = Buses
    /\ missed' = IF authDefault' = 0 THEN {} ELSE Insertions
    /\ UNCHANGED <<callVars, todo, events, task, pending, monitorVars, vmVars, crashes, ghosts>>

AgentFindsNoSysfs ==
    /\ boot = "initramfs"
    /\ boot' = "off"
    /\ missed' = Insertions
    /\ UNCHANGED <<authVars, sweep, todo, events, task, pending, monitorVars, vmVars,
                   crashes, ghosts>>

(* One device of the pass; writing the 0 may fail.                         *)
AgentCutsOff(b) ==
    /\ boot = "sweep"
    /\ b \in sweep
    /\ sweep' = sweep \ {b}
    /\ \/ TurnOff(b) /\ UNCHANGED missed
       \/ /\ auth[b] # "off"
          /\ missed' = missed \cup {plugged[b]}
          /\ UNCHANGED <<auth, node, adds, changes>>
    /\ UNCHANGED <<plugged, authDefault, unseen, callVars, boot, todo, events, task,
                   pending, monitorVars, vmVars, crashes, ghosts>>

AgentDone ==
    /\ boot = "sweep"
    /\ sweep = {}
    /\ boot' = "off"
    /\ UNCHANGED <<authVars, agentVars, todo, events, task, pending, monitorVars,
                   vmVars, crashes, ghosts>>

-----------------------------------------------------------------------------
(* start().  The order of the first three matters: no new device is let in *)
(* from the first on, and none escapes between the observer and the list.  *)
StartHubs ==
    /\ boot = "off"
    /\ boot' = "hubs"
    /\ SetHubDefaults
    /\ UNCHANGED <<callVars, agentVars, todo, events, task, pending, monitorVars, vmVars,
                   crashes, ghosts>>

StartListening ==
    /\ boot = "hubs"
    /\ boot' = "listening"
    /\ UNCHANGED <<authVars, agentVars, todo, events, task, pending, monitorVars, vmVars,
                   crashes, ghosts>>

ListExisting ==
    /\ boot = "listening"
    /\ boot' = "existing"
    /\ todo' = {Info(b) : b \in {x \in Buses : plugged[x] # None}}
    /\ UNCHANGED <<authVars, agentVars, events, task, pending, monitorVars, vmVars, crashes,
                   ghosts>>

TakeExisting ==
    /\ boot = "existing"
    /\ task[Startup] = Idle
    /\ \E info \in todo :
         /\ todo' = todo \ {info}
         /\ task' = [task EXCEPT ![Startup] = Doing("evaluate", info)]
    /\ UNCHANGED <<authVars, boot, agentVars, events, pending, monitorVars, vmVars, crashes,
                   ghosts>>

StartDone ==
    /\ boot = "existing"
    /\ todo = {}
    /\ task[Startup] = Idle
    /\ boot' = "up"
    /\ preflight' = vmEnabled
    /\ UNCHANGED <<authVars, agentVars, todo, events, task, pending, monitorVars, vmEnabled,
                   vmReady, crashes, ghosts>>

(* The image is there, or could be made; or VM analysis is switched off.   *)
PreflightDone ==
    /\ preflight
    /\ preflight' = FALSE
    /\ vmReady' = TRUE
    /\ vmEnabled' \in {TRUE, FALSE}
    /\ UNCHANGED <<authVars, bootVars, events, task, pending, monitorVars, crashes, ghosts>>

-----------------------------------------------------------------------------
(* _process_events: one event at a time.                                   *)

(* An added device is read, then deauthorized at once.                     *)
TakeAdd ==
    /\ Listening /\ task[Processor] = Idle
    /\ events # <<>> /\ Head(events).act = "add"
    /\ LET b == Head(events).bus IN
         /\ task' = [task EXCEPT ![Processor] = Doing("containing", Info(b))]
         /\ Request(Processor, "deauthorize", b)
    /\ events' = Tail(events)
    /\ UNCHANGED <<busVars, bootVars, pending, monitorVars, vmVars, crashes, ghosts>>

(* Stopping a monitor cancels its callback if that still waits for the     *)
(* lock; the callback may be a stray's, which is not stopped.              *)
WithdrawAlert(b) ==
    LET w == WatcherOf[b]
        queue == lock[Daemon]
        waits == monitors[b] # "none" /\ call[w].pc = "deauthorize"
    IN  \/ /\ waits
           /\ call' = [call EXCEPT ![w] = NoCall]
           /\ \E i \in DOMAIN queue :
                /\ queue[i] = w
                /\ lock' = [lock EXCEPT ![Daemon] = RemoveAt(queue, i)]
        \/ (waits => strays[b] # {}) /\ UNCHANGED callVars

TakeRemoveBug ==  \* forgets the monitor
    /\ Listening /\ task[Processor] = Idle
    /\ events # <<>> /\ Head(events).act = "remove"
    /\ pending' = pending \ {Head(events).bus}
    /\ events' = Tail(events)
    /\ UNCHANGED <<authVars, bootVars, task, monitorVars, vmVars, crashes, ghosts>>

(* _handle_device_removal: the manager gives up the monitor registered for *)
(* the bus, and keeps those that were registered before it.                *)
TakeRemove ==
    /\ Listening /\ task[Processor] = Idle
    /\ events # <<>> /\ Head(events).act = "remove"
    /\ LET b == Head(events).bus IN
         /\ WithdrawAlert(b)
         /\ monitors' = [monitors EXCEPT ![b] = "none"]
         /\ pending' = pending \ {b}
    /\ events' = Tail(events)
    /\ UNCHANGED <<busVars, bootVars, task, strays, vmVars, crashes, ghosts>>

-----------------------------------------------------------------------------
(* _evaluate_device and _enforce_decision, by the start-up task and by the *)
(* processor.  Scoring is another module's; here any decision is possible  *)
(* for a device that is in no policy list.                                 *)
Decisions(id) ==
    IF id \in Blocklisted THEN {"DENY"}
    ELSE IF id \in Allowlisted THEN {"ALLOW"}
    ELSE {"ALLOW", "QUARANTINE", "ANALYZE", "DENY"}

(* The task goes on to authorize() or deauthorize() the bus of its device. *)
GoAuthorize(t) ==
    /\ task' = [task EXCEPT ![t].pc = "authorizing"]
    /\ Request(t, "authorize", Bus(t))
GoDeny(t) ==
    /\ task' = [task EXCEPT ![t].pc = "denying"]
    /\ Request(t, "deauthorize", Bus(t))

(* asyncio.create_task: the analysis is another task's from here on.       *)
Spawn(t, pc) ==
    /\ \E w \in Workers :
         /\ task[w] = Idle
         /\ task' = [task EXCEPT ![t] = Idle, ![w] = Doing(pc, task[t].info)]
    /\ UNCHANGED callVars

(* _analyze_device, from the choice of the method on                       *)
DeepAnalysis(t) ==
    IF HasStorage(task[t].info) /\ ClamAV THEN Spawn(t, "namespace")
    ELSE IF ~vmEnabled THEN GoDeny(t)
    ELSE IF vmReady THEN Spawn(t, "vm")
    ELSE task' = [task EXCEPT ![t].pc = "vmwait"] /\ UNCHANGED callVars

(* _notify_user: writer.drain() of each client has no time limit.  (The    *)
(* analyses and the alerts do the same last of all: it holds up nobody     *)
(* else there.)                                                            *)
Tells(t, pc) == task' = [task EXCEPT ![t].pc = pc] /\ UNCHANGED callVars

EnforceBug(t, decision) ==  \* a quarantined device is authorized meanwhile
    /\ decision \in {"ALLOW", "QUARANTINE"} => GoAuthorize(t)
    /\ decision = "ANALYZE" => Tells(t, "telling analysis")
    /\ decision = "DENY" => GoDeny(t)
    /\ cleared' = IF decision = "ALLOW" THEN cleared \cup {Ident(t)} ELSE cleared
    /\ pending' = IF decision \in {"QUARANTINE", "ANALYZE"}
                  THEN pending \cup {Bus(t)} ELSE pending

Enforce(t, decision) ==
    /\ decision = "ALLOW" => GoAuthorize(t)
    /\ decision = "QUARANTINE" => Tells(t, "telling")
    /\ decision = "ANALYZE" => Tells(t, "telling analysis")
    /\ decision = "DENY" => GoDeny(t)
    /\ cleared' = IF decision = "ALLOW" THEN cleared \cup {Ident(t)} ELSE cleared
    /\ pending' = IF decision \in {"QUARANTINE", "ANALYZE"}
                  THEN pending \cup {Bus(t)} ELSE pending

Evaluate(t) ==
    /\ task[t].pc = "evaluate"
    /\ \E decision \in Decisions(Ident(t)) : Enforce(t, decision)
    /\ judged' = judged \cup {task[t].info.ins}
    /\ evals' = [evals EXCEPT ![Bus(t)] = IF @ < 2 THEN @ + 1 ELSE @]
    /\ UNCHANGED <<busVars, bootVars, events, monitorVars, vmVars, crashes, blocked>>

(* The user is told: the step is taken when every client of the socket has *)
(* read what was written to it.                                            *)
Told(t) ==
    /\ task[t].pc = "telling"
    /\ task' = [task EXCEPT ![t] = Idle]
    /\ UNCHANGED <<authVars, bootVars, events, pending, monitorVars, vmVars, crashes, ghosts>>

ToldOfAnalysis(t) ==
    /\ task[t].pc = "telling analysis"
    /\ DeepAnalysis(t)
    /\ UNCHANGED <<busVars, bootVars, events, pending, monitorVars, vmVars, crashes, ghosts>>

(* The wait for the VM, at most five seconds, inside the evaluation.       *)
VmWaited(t) ==
    /\ task[t].pc = "vmwait" /\ vmReady
    /\ Spawn(t, "vm")
    /\ UNCHANGED <<busVars, bootVars, events, pending, monitorVars, vmVars, crashes, ghosts>>

VmWaitTimesOutBug(t) == FALSE /\ GoDeny(t)  \* a wait without a time-out

VmWaitNoReturnBug(t) ==  \* denies, and starts the analysis all the same
    /\ task[t].pc = "vmwait" /\ ~vmReady
    /\ \E w \in Workers :
         /\ task[w] = Idle
         /\ task' = [task EXCEPT ![t].pc = "denying", ![w] = Doing("vm", task[t].info)]
    /\ Request(t, "deauthorize", Bus(t))
    /\ UNCHANGED <<busVars, bootVars, events, pending, monitorVars, vmVars, crashes, ghosts>>

VmWaitTimesOut(t) ==
    /\ task[t].pc = "vmwait" /\ ~vmReady
    /\ GoDeny(t)
    /\ UNCHANGED <<busVars, bootVars, events, pending, monitorVars, vmVars, crashes, ghosts>>

-----------------------------------------------------------------------------
(* _run_namespace_analysis.  With a block node, NamespaceAnalyzer.analyze()*)
(* fails before it mounts anything, for its result lacks the field is_safe:*)
(* the exception ends the task and no verdict follows.  Without a node the *)
(* task turns to the VM, whether or not the preflight is through.          *)
FindStorageNodeBug(w) ==  \* takes the exception for a clean result
    /\ task[w].pc = "namespace"
    /\ GoAuthorize(w)
    /\ UNCHANGED <<busVars, bootVars, events, pending, monitorVars, vmVars, crashes, ghosts>>

FindStorageNode(w) ==
    /\ task[w].pc = "namespace"
    /\ task' = [task EXCEPT ![w] =
                  IF node[Bus(w)] = "absent" /\ vmEnabled THEN [@ EXCEPT !.pc = "vm"]
                  ELSE Idle]
    /\ UNCHANGED <<authVars, bootVars, events, pending, monitorVars, vmVars, crashes, ghosts>>

(* The result of the VM (_run_vm_analysis) is applied to the bus; an       *)
(* inconclusive one, or an exception, leaves things as they are.           *)
AnalysisClean(w) ==
    /\ task[w].pc = "vm"
    /\ GoAuthorize(w)
    /\ cleared' = cleared \cup {Ident(w)}
    /\ UNCHANGED <<busVars, bootVars, events, pending, monitorVars, vmVars, crashes,
                   judged, evals, blocked>>

AnalysisFindsThreat(w) ==
    /\ task[w].pc = "vm"
    /\ GoDeny(w)
    /\ UNCHANGED <<busVars, bootVars, events, pending, monitorVars, vmVars, crashes, ghosts>>

AnalysisInconclusive(w) ==
    /\ task[w].pc = "vm"
    /\ task' = [task EXCEPT ![w] = Idle]
    /\ UNCHANGED <<authVars, bootVars, events, pending, monitorVars, vmVars, crashes, ghosts>>

-----------------------------------------------------------------------------
(* The steps of authorize() and deauthorize(), with what their caller does *)
(* when they return.                                                       *)

(* authorize() returned False: nothing more is done.                       *)
AuthorizeFails(t) ==
    /\ AuthorizeMissing(t)
    /\ task' = [task EXCEPT ![t] = Idle]
    /\ UNCHANGED <<bootVars, events, pending, monitorVars, vmVars, crashes, ghosts>>

(* The write of 1, by any caller; the user's undoes what was blocked.      *)
Grants(c) ==
    /\ AuthorizeWrite(c)
    /\ blocked' = IF c \in Users THEN blocked \ {plugged[call[c].bus]} ELSE blocked
    /\ UNCHANGED <<bootVars, events, task, pending, monitorVars, vmVars, crashes,
                   cleared, judged, evals>>

(* _start_hid_monitoring: if the info says HID, each event node that is    *)
(* there already gets a monitor, and the last one is registered for the    *)
(* bus.  The manager hands out the monitor it has for a node, a dead one   *)
(* too: a device may get the node number of one before, of any bus.        *)
HandedOut ==
    {"live"} \cup {m \in {"dead"} : \E b \in Buses : m = monitors[b] \/ m \in strays[b]}

MonitorsStarted(b, info) ==
    \/ /\ HasHid(info) /\ plugged[b] \in Hid /\ auth[b] # "off"
       /\ \E last \in HandedOut : monitors' = [monitors EXCEPT ![b] = last]
       /\ \E others \in SUBSET HandedOut :
            strays' = [strays EXCEPT ![b] = strays[b] \cup others]
    \/ UNCHANGED monitorVars

(* _authorize_device after authorize() returned True                       *)
AuthorizeSucceeds(t) ==
    /\ AuthorizeFinish(t)
    /\ MonitorsStarted(Bus(t), task[t].info)
    /\ task' = [task EXCEPT ![t] = Idle]
    /\ UNCHANGED <<bootVars, events, pending, vmVars, crashes, ghosts>>

(* The write of 0, by any caller.  _deny_device and the alert report the   *)
(* device at the bus as denied or blocked.                                 *)
Reports(c) == c \in Watchers \/ (c \in Tasks /\ task[c].pc = "denying")

CutsOff(c) ==
    /\ DeauthorizeWrite(c)
    /\ MonitorsCut
    /\ blocked' = IF Reports(c) THEN blocked \cup ({plugged[call[c].bus]} \ {None})
                  ELSE blocked
    /\ UNCHANGED <<bootVars, events, task, pending, vmVars, crashes, cleared, judged, evals>>

(* _handle_event goes on to the evaluation, if it got a DeviceInfo.        *)
(* _deny_device is done, or tells the user of an incident.                 *)
Deauthorized(t) ==
    /\ DeauthorizeNodes(t)
    /\ \/ /\ task[t].pc = "containing"
          /\ task' = [task EXCEPT ![t] = IF @.info = NoInfo THEN Idle
                                         ELSE [@ EXCEPT !.pc = "evaluate"]]
       \/ /\ task[t].pc # "containing"
          /\ task' = [task EXCEPT ![t] = Idle]
       \/ /\ task[t].pc = "denying" /\ t \in {Startup, Processor}
          /\ task' = [task EXCEPT ![t].pc = "telling"]
    /\ UNCHANGED <<bootVars, events, pending, monitorVars, vmVars, crashes, ghosts>>

-----------------------------------------------------------------------------
(* _trigger_alert, with the callback _handle_hid_alert                     *)
Alert(b) ==
    /\ monitors[b] = "live" \/ "live" \in strays[b]
    /\ Request(WatcherOf[b], "deauthorize", b)
    /\ UNCHANGED <<busVars, daemonVars>>

AlertHandled(b) ==
    /\ DeauthorizeNodes(WatcherOf[b])
    /\ UNCHANGED daemonVars

(* `wru allow` and authorize_device(): no verdict asked, no monitor started*)
Reachable(u) ==
    /\ boot \notin {"initramfs", "sweep"}
    /\ LockOf[u] = Daemon => boot = "up"

UserAllows(u, b) ==
    /\ Reachable(u)
    /\ plugged[b] # None
    /\ Request(u, "authorize", b)
    /\ cleared' = cleared \cup {IdentOf[plugged[b]]}
    /\ UNCHANGED <<busVars, bootVars, events, task, pending, monitorVars, vmVars,
                   crashes, judged, evals, blocked>>

(* deny_device() looks the device up first, `wru deny` does not.           *)
UserDenies(u, b) ==
    /\ Reachable(u)
    /\ LockOf[u] = Daemon => plugged[b] # None
    /\ Request(u, "deauthorize", b)
    /\ UNCHANGED <<busVars, daemonVars>>

(* In the daemon, a success takes the bus off the pending decisions.       *)
UserAnswered(u) ==
    /\ \/ AuthorizeMissing(u) /\ UNCHANGED pending
       \/ /\ AuthorizeFinish(u) \/ DeauthorizeNodes(u)
          /\ pending' = IF LockOf[u] = Daemon THEN pending \ {call[u].bus} ELSE pending
    /\ UNCHANGED <<bootVars, events, task, monitorVars, vmVars, crashes, ghosts>>

(* The process dies, or its watchdog kills it, and systemd starts another. *)
Crash ==
    /\ boot \in {"hubs", "listening", "existing", "up"} /\ crashes < MaxCrashes
    /\ crashes' = crashes + 1
    /\ ProcessDies(Daemon)
    /\ boot' = "off"
    /\ todo' = {}
    /\ events' = <<>>
    /\ task' = [t \in Tasks |-> Idle]
    /\ pending' = {}
    /\ monitors' = [b \in Buses |-> "none"]
    /\ strays' = [b \in Buses |-> {}]
    /\ vmEnabled' = VmConfigured
    /\ vmReady' = FALSE
    /\ preflight' = FALSE
    /\ judged' = {}
    /\ UNCHANGED <<busVars, agentVars, cleared, evals, blocked>>

-----------------------------------------------------------------------------
KernelStep ==
    \/ \E i \in Insertions : DevicePlugged(i)
    \/ \E b \in Buses : DeviceUnplugged(b) \/ UdevWorks(b)

AgentStep ==
    \/ AgentSetsHubs \/ AgentFindsNoSysfs
    \/ \E b \in Buses : AgentCutsOff(b)
    \/ AgentDone

StartStep == StartHubs \/ StartListening \/ ListExisting \/ TakeExisting \/ StartDone

EvaluatorStep(t) == Evaluate(t) \/ VmWaited(t) \/ VmWaitTimesOut(t)

ClientReads(t) == Told(t) \/ ToldOfAnalysis(t)

WorkerStep(w) ==
    \/ FindStorageNode(w)
    \/ AnalysisClean(w) \/ AnalysisFindsThreat(w) \/ AnalysisInconclusive(w)

TaskCall(t) ==
    \/ AuthorizeFails(t) \/ Grants(t) \/ AuthorizeSucceeds(t)
    \/ CutsOff(t) \/ Deauthorized(t)

WatcherCall(b) == CutsOff(WatcherOf[b]) \/ AlertHandled(b)

UserCall(u) == Grants(u) \/ CutsOff(u) \/ UserAnswered(u)

UserAsks(u) == \E b \in Buses : UserAllows(u, b) \/ UserDenies(u, b)

Next ==
    \/ KernelStep
    \/ AgentStep \/ StartStep \/ PreflightDone
    \/ TakeAdd \/ TakeRemove
    \/ \E t \in {Startup, Processor} : EvaluatorStep(t) \/ ClientReads(t)
    \/ \E w \in Workers : WorkerStep(w)
    \/ \E t \in Tasks : TaskCall(t)
    \/ \E b \in Buses : Alert(b) \/ WatcherCall(b)
    \/ \E u \in Users : UserAsks(u) \/ UserCall(u)
    \/ Crash

(* The event loop runs every task that can run, and systemd starts the     *)
(* daemon; devices, users, alerts and crashes come as they like, and a     *)
(* client of the notification socket reads as it likes.                    *)
Fairness ==
    /\ WF_vars(AgentStep) /\ WF_vars(StartStep) /\ WF_vars(PreflightDone)
    /\ WF_vars(TakeAdd \/ TakeRemove)
    /\ \A t \in {Startup, Processor} : WF_vars(EvaluatorStep(t) \/ TaskCall(t))
    /\ \A w \in Workers : WF_vars(WorkerStep(w) \/ TaskCall(w))
    /\ \A b \in Buses : WF_vars(WatcherCall(b))
    /\ \A u \in Users : WF_vars(UserCall(u))

Spec == Init /\ [][Next]_vars
FairSpec == Spec /\ Fairness

-----------------------------------------------------------------------------
(* What authorize() let in had a verdict for it, from the policy, the      *)
(* scoring, an analysis or the user: README.md "Every USB device is        *)
(* deauthorized by default until it passes a multi-layer threat assessment"*)
GrantedIsCleared ==
    \A b \in Buses : auth[b] = "granted" => IdentOf[plugged[b]] \in cleared

(* The part of it that the code keeps, for a verdict is applied to a bus:  *)
(* authorize() lets in what is at a port only if a device that is or was   *)
(* at that port had a verdict for it.  A failed or inconclusive analysis,  *)
(* a time-out or a quarantine is none.                                     *)
PortWasCleared ==
    \A b \in Buses : auth[b] = "granted" =>
        \E i \in Insertions : PortOf[i] = b /\ IdentOf[i] \in cleared

(* The daemon as an implementation of the gate.                            *)
Gate == INSTANCE UsbGate WITH closed <- (authDefault = 0)
ImplementsGate == Gate!GateSpec

EvaluatorsRest ==
    /\ boot = "up" /\ events = <<>>
    /\ task[Processor] = Idle

Rest ==
    /\ EvaluatorsRest /\ ~preflight
    /\ \A t \in Tasks : task[t] = Idle
    /\ \A c \in Callers : call[c].pc = "idle"

(* No device at a port of the machine slips past the evaluation, whenever *)
(* it is plugged in: between start()'s list and its observer, during a     *)
(* replug, or around a crash ("All currently connected devices are         *)
(* re-evaluated on restart").  One behind a hub is judged only if it is    *)
(* there when the daemon starts.                                           *)
EveryDeviceJudged ==
    EvaluatorsRest =>
        \A b \in Buses : ReportedAs[b] = b => plugged[b] \in judged \cup {None}

(* Once the events are handled an empty port of the machine has no monitor *)
(* registered for it, and none that still reads, whichever task started it *)
(* and whenever the device went.                                           *)
RemovedIsForgotten ==
    Rest => \A b \in Buses : ReportedAs[b] = b /\ plugged[b] = None
                => monitors[b] = "none" /\ "live" \notin strays[b]

(* Every event is handled in the end, unless a client of the notification  *)
(* socket stops reading: the processor never waits for ever for the lock,  *)
(* a worker or the VM.                                                     *)
AwaitsClient(t) == task[t].pc \in {"telling", "telling analysis"}
EventsDrain == []<>(events = <<>>) \/ <>[]AwaitsClient(Processor)

(* start() completes, whatever the existing devices' verdicts are, with    *)
(* the same exception: the socket is served before it evaluates them.      *)
StartCompletes ==
    (boot = "hubs" ~> boot \in {"up", "off"}) \/ <>[]AwaitsClient(Startup)

(* "Device Blocked": what the daemon reports as denied or blocked is not   *)
(* let in again by what else it is doing.  The user may let it in, and so  *)
(* may another evaluation: of the device itself, if it was there when the  *)
(* daemon started and its event came too, or of one that was at the port   *)
(* before.  A single evaluation has a single verdict.                      *)
BlockedStaysOut ==
    \A b \in Buses : auth[b] = "granted" /\ plugged[b] \in blocked => evals[b] >= 2

(* "This ensures all USB devices connected during boot remain unauthorized *)
(* until explicitly approved": with the agent in the initramfs, the only   *)
(* devices in use by the kernel's default when the daemon starts, or ever  *)
(* after, are those the agent could not switch off, or any if it could not *)
(* close a hub.                                                            *)
NothingByDefault ==
    AgentInstalled /\ boot \notin {"initramfs", "sweep"}
        => \A b \in Buses : auth[b] = "default" => plugged[b] \in missed
=============================================================================
