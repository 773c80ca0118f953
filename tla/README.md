# A TLA+ model of WRU

WRU ("Who R U?") is a USB firewall for Linux: a daemon that keeps every new USB
device deauthorized until the policy, a threat score, an analysis or the user
lets it in. This directory holds TLA+ modules that model its core, the TLC
configurations that check them and proofs checked by TLAPS. Paths below are
relative to the repository; `daemon.py` is `src/wru/core/daemon.py`.

## 1. The system

| Part | State | Operations | Interacts with |
|---|---|---|---|
| USB bus, sysfs, udev (kernel; external), `udev/80-usb-quarantine.rules` | devices at the ports, `authorized`, `authorized_default`, block nodes | plug, unplug, enumerate, run the rules | everything |
| `DeviceAuthorization` (`core/authorization.py`) | one `asyncio.Lock` per object | `get_device_info`, `authorize`, `deauthorize`, `set_hub_defaults` | writes sysfs and the modes of nodes; used by the daemon and by every CLI command with an object of its own |
| `USBEventHandler` (`core/event_handler.py`) | event queue, observer thread, processor task; turns a path into a bus id | `start`, `stop`, `_on_device_event`, `_process_events`, `_handle_event` | deauthorizes what is added, calls the daemon |
| `WRUDaemon` (`core/daemon.py`) | life-cycle state, pending decisions, HID monitors and isolators by bus id, VM-ready event, policy lists | start, evaluate, enforce, analyses, alerts, removal, API, stop | owns all other parts; analyses are tasks of their own |
| Threat engine (`threat/*.py`) | CVE database, pattern history | `analyze`, allow/block list checks | called by the evaluation |
| Namespace, VM, storage, ClamAV analysis (`analysis/*.py`) | mounts, output directories, images | `analyze`, `scan_storage`, ... | started as tasks by `_analyze_device`; also by the CLI |
| HID monitor (`runtime/hid_monitor.py`) | keystroke windows, one monitor per event node | start, stop, keystroke, alert | its alert deauthorizes the device |
| Network isolator (`runtime/network_isolator.py`) | namespaces, firewall rules | isolate, analyse, restore | after an authorization |
| Forensic logger, incidents (`forensics/*.py`) | queue, recent buffer, files; incident records | log, rotate, start, stop; create, update | called from every task |
| Notification socket and tray applet (`daemon.py` 315-403, `tray/applet.py`) | connected clients, dialogs | broadcast, reconnect, ask the user | dialogs run `wru allow` / `wru deny` |
| CLI (`cli/admin.py`) | `policy.json` | allow, deny, analyze, preview, vm | own `DeviceAuthorization` in another process |
| initramfs agent (`src/initramfs/usb_init_agent.py`) | a socket | hub defaults, deauthorize all, serve requests | runs before the daemon |

### What is hard here

Everything in the daemon runs in one event loop, so two things happen "at once"
only where a task awaits; but it awaits in the worst places: while
`authorize()` waits half a second for the kernel, while an analysis runs for
half a minute, while the evaluation waits for the VM. Meanwhile devices are
pulled, replaced and plugged in again, udev runs the rules, a `wru` command in
another process writes the same sysfs files, and systemd may kill and restart the daemon
(`Restart=on-failure`, `WatchdogSec=5s` although nothing pings the watchdog).
Nearly all of these operations name a device by its bus id, that is by a port,
and a port outlives the device. PROJECT.json lists the hazards one by one, each
with its line and the properties that would catch it.

### What makes each part correct

* Authorization: the lock is exclusive and always released; nothing within the
  process takes back what `authorize()` is about to report; a node is open only
  for a device that was authorized.
* Daemon and event handler: what is let in was cleared; no device escapes the
  evaluation; what was blocked stays out; every event is handled and start-up
  ends; a removed device is forgotten.
* Logger: nothing accepted is lost or reordered, files grow past their limit only
  when they cannot be rotated, `stop()` returns.
* HID monitor: both windows speak of the same keys; a burst is noticed however
  late it is read; an alert is justified, and there is one per cooldown at most.
* Network isolator and incidents: a namespace has an owner, a complete `stop()`
  gives it back; an incident is not written over, and its file lists the response
  that was attempted.
* Threat engine: the score that is reported supports the decision, one more
  interface never lowers it, and cleaning the memory of connects changes nothing.
* Analyses: an error is never a clean result, a verdict is about the device's own
  VM, directories are removed, a found image is whole.
* CLI and tray: a policy entry is never lost and lets in the device that was asked
  for; what a scan found infected is not approved; the applet comes back.

## 2. The modules

| Module | Models | Extends |
|---|---|---|
| `UsbBus` | ports, sysfs attributes, block nodes, the udev rules | |
| `Authorization` | `authorize()`, `deauthorize()`, their lock, the processes that call them | `UsbBus` |
| `UsbGate` | abstract specification: a port opens only for a cleared identity | |
| `WRUDaemon` | initramfs agent, then the daemon with its event handler, composed with `Authorization`; refines `UsbGate` | `Authorization` |
| `ForensicLogger` | queue, writer, rotation, stop | |
| `ThreatScoring` | descriptor checks, CVE lookup, memory of connects, decision | |
| `HidMonitor` | read loop, windows, tests, alert and cooldown of one monitor | |
| `Incidents` | creation, response and file of incidents | |
| `RuntimeGuards` | isolators and incidents over start, stop, crash and restart | `Incidents` |
| `VmAnalysis` | analyses in a VM, download of its image | |
| `UserCommands` | `allow`, `deny`, `preview --scan --approve`, `policy.json` | |
| `TrayApplet` | notification socket, applet and dialog beside two shells | `UserCommands` |
| `MC...` | instances for TLC | |
| `AuthorizationProofs`, `WRUDaemonProofs`, `ForensicLoggerProofs`, `HidMonitorProofs`, `ThreatScoringProofs`, `RuntimeGuardsProofs`, `VmAnalysisProofs`, `TrayAppletProofs` | theorems and their proofs (section 5) | the module they are about |

How the parts meet: the threat engine's decision enters `WRUDaemon` as a choice
of any of the four, of the HID monitor its alert, of a VM its verdict. `RuntimeGuards`
and `TrayApplet` compose the other way: they have the life of the daemon's
process, as far as it matters to them, around what they are about.

### UsbBus

An *insertion* is one physical act of plugging in. `plugged` maps a bus id to
the insertion at it, `auth` to its `authorized` file ("off" is 0; for 1 the
value also says whether the kernel's default or `authorize()` wrote it, which
no code reads), `node` to the state of its block nodes ("closed" is mode 000), `adds`
to a pending udev "add" event of its storage interface, `changes` to a pending
"change" event of its block nodes. `Storage` are the devices the rule for interface
class 08 speaks of, `Disks` those that get block nodes. `Plug`, `Unplug`, `TurnOn`
and `TurnOff` are the kernel, modelled from what the code expects of it. `UdevAdd`
and `NodeAppears` are the rules of `80-usb-quarantine.rules`, if
`RulesInstalled`; `UdevChange` is what they leave out, a "change" event, after
which a node has the mode of the system's defaults. Disks are scanned some time after
the driver binds, so a node may appear after `udevadm settle`; a settle that times out
is ignored by the code (authorization.py 417) and is therefore no guard.
`SetHubDefaults` may fail at a hub, which is logged and passed over.

### Authorization

`call[c]` says where caller `c` stands. `asyncio.Lock` is a FIFO queue whose head
owns it; there is one lock per process. The steps:
`Request` (join), `AuthorizeMissing` (no such device: False), `AuthorizeWrite`
(write 1, then the sleep, the one place inside the lock that yields),
`AuthorizeFinish` (bind, settle, chmod 660, `udevadm trigger --action=change` for
every block device, True), `DeauthorizeWrite` (look up
nodes, write 0), `DeauthorizeNodes` (chmod 000, True). Between the last two the
code of one process does not yield; they are separate because the kernel and other
processes run on. Where the daemon's own tasks interleave there too, the model
allows more than the code; none of the counterexamples of section 4 needs it.
The device nodes are looked up by substring (`bus_id in str(path)`), which
`Covers` stands for. Failing writes of the attribute (no root, I/O error) are left out.

### WRUDaemon

With `AgentInstalled`, the initramfs agent works first: `AgentSetsHubs`, then one
pass over the buses (`sweep`, `AgentCutsOff`), in which each write may fail, then
`AgentDone`; or it finds no sysfs and does nothing (`AgentFindsNoSysfs`). `missed`,
a ghost, has the devices it saw and could not switch off, and all of them if it
could not close a hub. `boot` then follows `start()`: hub defaults,
observer on, list of existing devices, their
evaluation (`todo`), up. `events` is the queue the observer thread fills. The bus
it names is what `USBEvent.from_pyudev` takes out of the path, the first part below
the root hub: `ReportedAs` maps the bus of a device behind a hub to the hub's.
`task[Startup]` runs `start()`, `task[Processor]` runs `_process_events`, and
each of `Workers` is one analysis task (asyncio does not bound them: three
are as many as the evaluations of a run can start, so no `Spawn` waits). A task
carries the `DeviceInfo` it was started with: which insertion was read and
whether its interfaces were visible then (`Info`), since a deauthorized device
shows none; so `has_hid` and `has_storage` (with its fallback on the product name,
`Named`, which holds for any device so called) are operators of that snapshot.
`Evaluate` is `_evaluate_device` with
`_enforce_decision` up to the next await on the lock or a client; scoring is
abstracted to any of the four decisions, except for the policy lists. A quarantine,
an analysis and the incident of a denial tell the user over the notification socket,
whose `drain()` has no time limit: the task is then "telling", and only a client
that reads takes it on (`Told`, `ToldOfAnalysis`), for which no fairness is assumed.
The same wait at the end of an analysis or an alert holds up nobody else and is left
out. The steps
of `Authorization` are conjoined with what their caller does next
(`AuthorizeSucceeds` starts the HID monitors, `Deauthorized` goes on to the
evaluation, ...). `MonitorsStarted` finds any number of the device's event nodes,
none at all if they are not there yet; `monitors` has the one that is registered for the bus
in the end, `strays` those it was registered over, which the manager keeps. A
monitor whose device is off is "dead", and the manager hands it out again when a
node of the same name appears (`HandedOut`). `TakeRemove` stops the registered one. `Crash` is a dying process and systemd's restart. `Alert` is a
HID monitor's alert, whose callback runs as `WatcherOf[b]` and is cancelled with
the monitor. Users call either through the CLI (another process and lock) or
`authorize_device` / `deny_device`.

Ghost variables, which no action reads in a guard: `cleared` (identities some
verdict or user approved), `judged` (insertions this process evaluated), `evals`
(evaluations at a bus, up to two), `blocked` (insertions the daemon reported as
denied or blocked and no user has let in since), `missed`.

`UsbGate` is the abstract gate: `Clear` approves an identity, and a port opens only
if a device of that port was cleared. That it opens for that very device is more
than the code does (section 4).

An analysis of storage ends without a verdict if the block node is found
(`FindStorageNode`): `NamespaceAnalyzer.analyze` constructs an `AnalysisResult`
without its field `is_safe`, outside its `try`, and the `TypeError` is logged and ends the task.

Left to other modules: what notifications say and audit entries (no branch depends on
them), the network branch of `_authorize_device`, incident records and `stop()`.
Left out: udev events other than add and remove (they dispatch to nothing), and
which of its event nodes a monitor is for.

### ForensicLogger

Entries are numbered as they are logged. `WriterTakes` / `WriterWrites` /
`WriterFails` / `WriterTimesOut` are the writer loop, `AppendEntry` is
`_rotate_if_needed` with the append, `StopBegins` / `StopEnds` are `stop()`. A rename
that fails is logged and the entry goes to the file as it is, which the ghost
`unrotated` counts; a write may fail after the rotation as well as before it.

### ThreatScoring

`Analyze` is `ThreatEngine.analyze` as a whole: it has no await between reading
its memories and writing them. `weights` and `cves` are what `load_databases` left,
with or without the files. `plugs`, `events` and `globals` are the three memories
of connects, each cleaned by an age of its own (`Tracked`, `Kept`). A device is
what the checks ask of a `DeviceInfo`: classes of its interfaces and their number,
whether its serial looks generic, its vendor is on the list, its manufacturer
unknown, its vendor:product key, its id. `past` and `hist` are ghosts, the times of all
connects of a device and of all devices. What a memory keeps is taken out by position
(`At`), which is what the list comprehensions do, in a form a proof can use. Text matching and
the content of the CVE database are abstracted to these questions; checks that
nothing ever feeds (mutations, delayed enumeration) are left out.

### HidMonitor

`times` and `intervals` are the two deques, `pc` is where the loop awaits,
`evbuf` what the kernel holds while it is busy, `batch` what one read returned.
A key goes through `ProcessKeystroke`; an alert then blocks the loop (`LockScreen`),
awaits the daemon's callback, whose `deauthorize()` takes the device away
(`CallbackDeauthorizes`), and returns. A read of a device that is gone ends the
task (`ReadFails`). The coefficient of variation is compared in integers, squared.

### Incidents and RuntimeGuards

`report[r]` is what one reporting task awaits within `create_incident`: the lock
of the screens, the snapshot, the save. Whether a screen was locked makes no difference
to the code, so `LockScreens` is the attempt, and the ghost `tried` remembers for which
incident. The snapshot's directory or the file may fail (`NotSaved`). An id is the
pair of second and counter.
`RuntimeGuards` adds the isolators: `where` says in which namespace an adapter
is, `name` what its interface is called, `netns` which namespaces exist; all
three belong to the kernel and survive `Crash`. `task[t]` walks through
`isolate()` command by command, since each `ip` command is awaited. `CleanUpAfterFailure` is what a
failed `isolate()` does: it deletes the namespace of that name. `IsolateInterface` has
nothing to do when an isolator of the name is registered: it is taken as it is. `StopBegins`
to `StopEnds` is `stop()`; after `CleanUpEnds` the isolators are forgotten and the
process is "closing", it awaits the notification server and the audit log, while
analyses may still isolate. The ghosts `inherited` and `slipped` are the namespaces a
crashed process left and the names worked on while `stop()` ran. `StopBreaksOff` is the
`RuntimeError` of a dictionary that has changed under the iteration, which `stop()` logs
before it ends.

### VmAnalysis

`run[r]` follows one `analyze()`; `dir` and `log` are its directory and serial log,
which is an inode: a VM goes on writing to it after its directory was removed
(`attached`). The guest is a nondeterministic writer of three markers (`VmPrints`). The
log is read twice: the first failure is an error (`ReadFails`), the second is logged and
counts as no threat (`unread`). `rmtree` may fail unheard (`RemoveFails`, `undeleted`).
The second half is `create_vm_image`: one `.tmp` path, two callers, a rename.

### UserCommands and TrayApplet

One port, `here` and `on`, with `authorize()` as one step. `command[p]` is where a
`wru` process is: the policy file is read, emptied by `open(..., "w")` and written
in three steps, the last of which may fail, and "Added" is printed all the same. An
entry is made of the ids and the serial number, "*" if there is none (`EntryOf`), and
`Allows` is `check_allowlist`. A scan looks up the node, makes the mount directory, mounts, reads,
parses; a command may be killed at each. `TrayApplet` adds the daemon as seen from
outside (it loads the policy, lets in what is listed, decides by score or analysis on
the rest and asks about what it quarantines, restarts) and the
applet: `socket` holds the questions sent, `dialog` the one on the screen.
`Answer` starts `wru allow` or `wru deny` for the port, not for the device.

## 3. What TLC checks

Definitions named `...Bug` are faults, each in place just before the definition it
would replace: for every property of a passing run there is one that makes TLC
find the property violated (PROJECT.json, "mutants").

| Run | States | Shows |
|---|---|---|
| `AuthorizationTwoProcesses` | 34,900 | two callers in the daemon and a `wru` command, the rules, one bus id part of the other's path: types, lock exclusion, `UndoneOnlyFromOutside`; every call returns |
| `DaemonHotplug` | 296,000 | a keyboard that is there at start, another device at its port later, a CLI user: types, refinement of `UsbGate`, `BlockedStaysOut`, `RemovedIsForgotten`; under fairness events drain and start-up completes |
| `DaemonRestart` | 1,502,000 | the agent and its failures, a hub and a stick behind it, a crash anywhere, an API user, no VM: every device at a port of the machine is judged by the process that is up (`EveryDeviceJudged`), only what the agent missed is in use by default (`NothingByDefault`), `PortWasCleared` |
| `LoggerRuns` | 9,500 | order, no loss before stop, files bounded but for failed rotations, progress |
| `ThreatScoring` | 877,000 | score in range and in agreement with the decision; interfaces only add; the cleaned memories forget nothing that counts |
| `HidKeystrokes` | 3,648,000 | aligned windows, no burst unnoticed, no alert without reason or within the cooldown |
| `RuntimeGuards` | 2,136,000 | namespaces have an owner and `stop()` gives them back; incidents keep their files, which list what was attempted |
| `VmAnalyses` | 1,036,000 | own verdicts, nothing left behind, whole images; analyses end |
| `UserSide` | 991,000 | allowlist entries kept and asked for, no approval of what was read and infected; the applet reconnects |

Three more runs, `DaemonSwap`, `DaemonTwoPorts` and `LoggerStopHangs`, end in a
counterexample (section 4).

The daemon's runs divide the features between them, because together
they are out of reach: users of another process and the VM (`DaemonHotplug`), users
of the same one, crashes, the agent and hubs (`DaemonRestart`), the rules and two
devices side by side (`DaemonTwoPorts`). What a property excepts is named in it, by a
condition on the state or a ghost, and its comment says what the code does there:
`BlockedStaysOut` a second evaluation at the port and the user's own word;
`UndoneOnlyFromOutside` the udev rule and another process; `EveryDeviceJudged` and
`RemovedIsForgotten` devices behind a hub; `NothingByDefault` what the agent missed;
`EventsDrain` and `StartCompletes` a client that does not read; `StopGivesBack` what was
isolated while `stop()` ran; `FilesBounded` failed rotations; `NothingLeft` failed
removals; `EntriesKept` and `ImageIsWhole` concurrent writers, which the
code does not exclude. `OwnIncidentFile` needs that systemd waits a second
before it restarts the daemon.

### Bounds

* Daemon: two ports at most, or a hub and one behind it; two insertions at a port, of
  different identities; three analysis tasks, one crash, one user, one alert at a time
  for a bus. Every race in
  question is between one device and its successor at the same port, or one
  caller and another; a third of either adds no new order between a read and the
  use of what was read.
* Logger: five entries into a buffer of two with a rotation at two, so that a
  file rotates twice, or once after a rotation that failed.
* `ThreatScoring`: five analyses of three devices, two of which share an id, in
  nine seconds; `Tight` 1, `Window` 6, `MaxAge` 8, so that every memory is cleaned
  within a run, the fourth connect is reached and the cap of 100 exceeded.
* `HidKeystrokes`: windows of five keys, seven keys, six ticks; `MinKeys`,
  `MaxRate` and `MinIntervals` 3, so that the window overflows twice and two
  alerts and a cooldown (two ticks) fit in.
* `RuntimeGuards`: two adapters and two names, so that a name can be taken over;
  two reporters and incidents, one crash, two different seconds. Adapters,
  names and reporters are symmetric.
* `VmAnalyses`: two runs with the same ids, in one second or two; two downloads
  in two parts.
* `UserSide`: two sticks of the same ids, one infected and without a serial number; two
  plugs, one restart, two commands at two shells beside the dialog's, so that both may be
  at the policy file, and one silent minute.

`CHECK_DEADLOCK FALSE` is set where the insertions, entries, keys or commands of
a run are used up and nothing need happen any more; `MCAuthorization` can always
ask again and checks for deadlock. `TypeOK` of the modules that no run lists
documents the types; the other properties of their runs depend on them.

### Fairness

Weak fairness of each task's own steps (`CallStep`, `EvaluatorStep`,
`WorkerStep`, `WriterStep`, ...): the event loop runs every ready task, and the
waits the code itself bounds end (sleep, `wait_for` with a timeout). Nothing is assumed of
devices, users, alerts, verdicts, disk errors, crashes or clients of the notification
socket, whose `drain()` the code does not bound. `StartStep` includes
`StartHubs` because systemd restarts the service. In `VmAnalysis` a started
analysis goes on, since `Exits` is also the end of its time budget. In
`TrayApplet` the applet's loop, the server's task and the start of the daemon go
on; that a process runs its command to the end is not assumed.

## 4. Where the code and its words disagree

Three runs check a sentence of the repository and TLC finds a behaviour of the
code that contradicts it. PROJECT.json quotes the lines.

| Run | Property | What happens |
|---|---|---|
| `DaemonSwap` | `GrantedIsCleared` | a clean result is applied to the port, where another device sits by now |
| `DaemonTwoPorts` | `OpenNodeWasGranted` | a keyboard is authorized, the change events that follow give the closed nodes of the stick beside it the default mode again |
| `LoggerStopHangs` | `StopReturns` | the writer ends before the queue is empty and `stop()` waits for it for ever |

The modules have more of the kind, which no run is spent on. Where a condition in a
property or an exception in a ghost variable keeps it out of a passing run, the
name is given.

*Authorization and daemon*

* With the installed rules, authorizing a stick adds its interface again and the
  rule writes 0 while `authorize()` sleeps: it returns True for a device that is
  off. A `wru` command can do the same, since it has a lock of its own
  (authorization.py 117, 246). These are the two exceptions of `UndoneOnlyFromOutside`.
* Denying "1-1" closes the nodes of "1-10", which stays authorized
  (authorization.py 229, `Covers`).
* Without the agent, a device that is there at start and is quarantined or
  analysed stays authorized: nothing in the daemon switches it off (daemon.py 485).
  The agent does not tell anybody what it could not switch off (`missed`).
* The event of a device behind a hub names the hub (event_handler.py 51-65): the hub is
  switched off and evaluated again, the device is not (`ReportedAs`). Its "remove" forgets the
  hub's monitor and pending decision.
* A new keyboard is read while it is off and shows no interfaces, so no monitor
  is started, its interface heuristics see nothing and `has_network` is False
  (event_handler.py 218). One that is read while on may have no event nodes yet
  when the daemon looks, once (daemon.py 650).
* Of several event nodes only the last is registered (daemon.py 659), the monitors of
  the others are never stopped; when their device goes they end and stay in the manager, which
  hands them out, dead, for the next device with that node (hid_monitor.py 297).
* A client of the notification socket that stops reading holds up the processor, or
  `start()`, for good (daemon.py 358; the exception in `EventsDrain` and `StartCompletes`).
* `wru deny` during an analysis is overridden by its clean result (daemon.py 633);
  a device plugged in between observer and list is evaluated by both tasks, and
  what one blocked, and told the user so, the other may let in (daemon.py 170-171;
  the second evaluation in `BlockedStaysOut`).
* `start()` may wait for `_vm_ready_event`, which is only set by a task it
  creates afterwards, although "startup is never blocked" (daemon.py 142, 535):
  `VmWaitTimesOut` is the only way on.
* The namespace analysis ends in a `TypeError` (namespace.py 92), so that storage
  is never cleared by ClamAV and stays off until the user answers; the fallback without a
  block node uses the VM without waiting for it (daemon.py 570-574).
* `stop()` of the logger may cancel the writer while it holds the last entry
  (logger.py 93-98, `StopEnds`).

*Network isolator and incidents*

* A failed `isolate()` deletes the namespace of that name, also one that another
  task has just made or that a crashed process left (network_isolator.py 99), and the
  isolator is registered as if it were there. The adapter stays authorized and is
  logged as isolated (daemon.py 702).
* An isolator is found by the name of its interface (network_isolator.py 346): the next
  adapter that gets the name is logged as isolated and is not.
* `stop()` cancels the processor in the middle of an isolation, whose namespace
  nobody removes then; an analysis breaks off the clean-up (`brokenOff`), or isolates
  after it (`slipped`).
* The file of an incident says "locked_all_screens" also if no method could lock one
  (incident.py 136, 154-179); `ResponseOnFile` speaks of the attempt.
* Incident ids collide when the daemon is restarted by hand within a second
  (incident.py 76; `RestartBug`).

*Threat engine*

* Two connects of one device count as "multiple different devices" (patterns.py
  213, `Coordinated`), and so do the devices that `wru list` goes through, in its
  own engine; devices without a serial share an id.
* Nothing records "authorize" events or descriptors, so the checks of delayed
  enumeration and of mutations never fire.

*VM analysis*

* Two analyses of the same ids in the same second share a directory (vm.py 161,
  `Sharing`): one may read the other's log or find none. The log is looked at
  twice, and a failure of the second read is logged and counts as "no threat" (`unread`).
* Overlapping downloads share the `.tmp` file; a truncated image may end up at
  the final path, where it is found for ever (vm.py 424, `overlapped`).
* QEMU's `usb-host` selects by vendor and product and may take another device of
  the kind. The disk with the script is never attached, so a stock image prints
  no marker.

*Commands and applet*

* Two commands that change `policy.json` at a time lose an entry or leave it
  unreadable, and so does one that is killed or whose write fails (`disturbed`); the
  daemon then starts with empty lists, and every later `--permanent` fails on reading it
  although it prints "Added" (admin.py 498-523, 237).
* `allow --permanent` of a device without a serial number lists every device with its
  ids (admin.py 235).
* A scan is "clean" when the mount fails or the scanner is missing, and a scan
  error does not stop the approval (admin.py 442): `ScannedIsNotApproved` speaks
  only of what was read. Two scans of a port remove each other's mount point.
* A dialog or an approval answers for what is at the port by then. Notifications
  sent while the applet is reconnecting are lost.

## 5. What is proved

Every safety property a passing run checks is also a theorem, for every value of
the constants, from the named assumptions of the modules and the hypotheses
given here. A run and a theorem divide the work: the run shows that a property is
not true for want of behaviour (its mutant breaks it), the theorem that the bounds hid
nothing. The inductive invariants were checked with TLC on the runs' instances
where a proof attempt had left a doubt.

*Authorization* (`AuthorizationProofs`)

* `AuthTyped`: `AuthSpec => []AuthTypeOK`, and `OneCallAtATime`:
  `AuthSpec => []LockExclusion`. Inductive invariant `Owned`: types and
  `CriticalHolds` (who is past its first write is the head of its queue). They
  need each other: a return takes the tail of the queue, which is typed only if
  there is a head.
* `NothingInsideUndoes`: `AuthSpec => UndoneOnlyFromOutside`, an action property, from the
  same invariant: a `deauthorize()` that writes holds its lock, so one of the same
  process cannot write while `authorize()` sleeps, and one of another process writes
  to its own bus only, whatever nodes its lookup covers.

*Daemon* (`WRUDaemonProofs`), without hypotheses. First half:

* `OnlyClearedPorts`: `Spec => []PortWasCleared`. The invariant `Safe` carries the
  reason: whoever is queued for `authorize()` on a bus has a clearance for some
  device of that bus (`Approved`), and a plugged device sits at its own port
  (`PortsFit`). Exclusion of the lock is not needed. That the clearance is the device's own
  is false: `DaemonSwap`.
* `DaemonImplementsGate`: `Spec => ImplementsGate`, from the
  same invariant; one case per action, each a step of the gate or a stutter.
* `AgentClosesTheDoor`: `Spec => []NothingByDefault`. The invariant adds that a device in
  use by default is still to be visited by the agent or is `missed`, and that the
  hub defaults are 0 from its first step on unless everything counts as missed, so that a
  device plugged in during or after the sweep, or around a crash, is off.

The second half rests on `Sound`: types, `CriticalHolds` for the daemon's calls, that
a task and its call are at the same point (`Tuned`), and that nothing is left of an
earlier process before the daemon listens (`Asleep`).

* `DaemonTyped` and `DaemonCallsExclude`: `TypeOK` and `LockExclusion` hold of the
  composition, whose steps are no steps of `Authorization` alone.
* `RemovedAreForgotten`: `RemovedIsForgotten`. A monitor registered for an empty port has
  its "remove" still in the queue, because it was registered while the device was there; a
  stray that reads has its device at the port.
* `NobodyIsMissed`: `EveryDeviceJudged`. `NoneMissed`: a device nobody judged is in
  `todo`, in an "add" event or in the hands of `start()` or the processor. Any crash,
  replug or number of devices, at a port whose events name it.
* `BlockedIsOut`: `BlockedStaysOut`. `OneVerdict`: after one evaluation at a bus at most one
  task is past it, and a monitor reads only when that task is done, so
  what blocks a device is followed by nothing that lets it in. Users and crashes included.

*Logger* (`ForensicLoggerProofs`), without hypotheses

* `LoggerTyped`; `FilesKeepOrder` (`FilesInOrder`): `InLine`, what is written comes before
  what the writer holds, and this before what is queued. `LoggerLosesNothing`
  (`NothingLost`) is inductive given the types; so is `FilesStayBounded` (`FilesBounded`),
  in which each failed rotation counts.

*HID monitor* (`HidMonitorProofs`)

* `WindowsStayAligned`: `IntervalsAlign`. Invariant
  `Aligned`: the windows are sequences of numbers within their sizes; three cases,
  the first key, a window with room, and a full one, where both deques drop their
  oldest element at once because one is a place shorter than the other.
* `BurstsAreNoticed`, `AlertsAreJustified`, `MonitorTyped`: from `Watchful`, which places
  the batch and the kernel's buffer in the record of all keys typed: they are
  its end, in order, and the window is the stretch just before. The count the monitor
  takes over its window is then the count over the record. The window is wider than
  the rate limit, by assumption of the module and in the program.

*Threat engine* (`ThreatScoringProofs`)

* `DecisionsMatchScores`: from `ScoringAssumption`'s thresholds below the cap
  (lemma `CapChangesNothing`) and weights that are numbers.
* `InterfacesOnlyAdd`: `MoreIsNoSafer`, for every weights file that
  rates the composite at least as high as plain storage; by cases on what the
  additional interface turns on.
* `NothingIsForgotten`: `NothingNeededForgotten`. `Recording`: a memory is the end of the
  record of connects, and what it lacks is older than the age it is cleaned by
  (`Remembers`). Times are recorded in order, so the recent ones are an end, too
  (`WithinIsEnd`), and a look with any smaller age finds exactly them
  (`WithinRemembers`); two connects within `Tight` make two neighbours within it
  (`PairsAreNear`). It needs that no check looks further back than its memory reaches,
  which `ScoringAssumption` states of the program's numbers.
* `ScoringTyped`: `TypeOK`, with it every reported score between 0 and the cap.

*Isolators and incidents* (`RuntimeGuardsProofs`)

* `IncidentsKeepTheirFiles`: `OwnIncidentFile`. `OwnFile`: every id in use is behind
  the pair of second and counter, or, after a crash, of a second before the restart.
* `ResponsesAreComplete`: `ResponseOnFile`, by what the steps behind a response have left
  (`ResponseUnderWay`), for the attempt of this incident and no other's.
* `NamespacesAreOwned`: `NamespacesOwned`; nobody rests between making a namespace and
  registering its name, and a failed isolation registers it, too.
* `CompleteStopGivesBack`: `StopGivesBack`; what was cleaned has no namespace unless a task
  that was under way, or came while `stop()` ran, has made it again.

*VM* (`VmAnalysisProofs`)

* `VmTypesHold`; `NoDirectoryLeft` (`NothingLeft`): a directory is one that a running
  analysis has made (`DirsUsed`).
* `VerdictsAreOwn`: `OwnVerdict`. A log holds only what VMs of its directory printed
  (`LogsHonest`), and all of it for an analysis alone in its directory (`LogComplete`).
* `FoundImageIsWhole`: `ImageIsWhole`. Unless downloads overlapped, the `.tmp` file is what
  the one under way has written of it from the start (`TmpFromStart`).

*Commands and applet* (`TrayAppletProofs`, over `TrayApplet` with `UserCommands`)

* `OnlyAskedForListed`: `OnlyAskedForIsListed`, with what a command has in hand between
  reading and writing (`AskedInHand`); commands may overlap.
* `AddedIsKept`: `EntriesKept`. `OneChanges`: undisturbed, one command at most is at the file,
  and it holds everything that was added.
* `ScanBeforeApproval`: `ScannedIsNotApproved`. `ScanRemembers`: what was read and infected is
  known from the end of the read to the approval.

### What is only model-checked

Liveness: `CallsReturn`, `EventsDrain`, `StartCompletes`, `EntriesGetOut`,
`AnalysesEnd` and `AppletReconnects` depend on fairness and ENABLED, which the
prover does not handle. The counterexamples of section 4 are TLC's.

No theorem of the daemon, the logger, the isolators or the commands has a hypothesis beyond
its module's named assumptions; what the code does not keep is excepted in the
properties themselves, by name (section 3).

## 6. What is planned

1. Failing sysfs writes in `Authorization`.
2. Event nodes by name: which of a device's nodes a monitor is for, and the
   kernel's reuse of their numbers, so far any dead monitor.
3. The logger under `stop()` of the daemon.
4. The namespace analysis, once the code can reach it.

A new component's properties join a run of an existing one where its instance
serves: the project stays at a dozen runs, each for a question of its own.

## 7. What is not modelled

* The body of the namespace analysis (mount, ClamAV, autorun and file checks):
  no execution reaches it.
* Code without a caller: `update_incident` and the incident listings,
  `allow_traffic`, `restore_interface`, `preview_file`, the mutation checks and
  `clear_*` of the threat engine; the VM's script disk, which is made and not used.
* `list_files`, firewall rules and traffic capture, whose failures are ignored and
  on which nothing depends; the agent's request socket (testing only); the applet's menu.
* Reading and formatting of sysfs attributes, log wording, rich console output,
  GTK, QEMU and ClamAV themselves, the content of databases, permissions of the
  process (it runs as root), and the durations of waits: a timeout may always
  come first.
* Configuration files and install scripts: values are constants of the modules.
