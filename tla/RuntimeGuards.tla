---------------------------- MODULE RuntimeGuards ----------------------------
(***************************************************************************)
(* What the daemon keeps in force beside its decisions, over the life of   *)
(* its process: adapters isolated in network namespaces                    *)
(* (runtime/network_isolator.py, daemon.py _apply_network_monitoring) and  *)
(* incidents, from start() to stop(), and over crashes with the restart by *)
(* systemd.                                                                *)
(*                                                                         *)
(* Three kinds of task authorize devices: start() those that are there,    *)
(* the event processor, and an analysis that found a device clean.  A      *)
(* namespace and an interface belong to the kernel and outlive the         *)
(* process.  The firewall rules inside a namespace, whose failure is       *)
(* ignored, and the capture of traffic change nothing else and are left    *)
(* out, as are allow_traffic and restore_interface, which nobody calls.    *)
(* An adapter is one connection of one device: plugged in again, it is     *)
(* another.                                                                *)
(***************************************************************************)
EXTENDS Incidents

CONSTANTS Adapters,  \* USB network adapters
          Names,     \* interface names
          New, Host, Gone,  \* not plugged in yet; in the host's namespace; removed
          MaxCrashes \* bounds a run

ASSUME GuardAssumption ==
    /\ IsFiniteSet(Adapters) /\ IsFiniteSet(Names)
    /\ Cardinality(Names) >= Cardinality(Adapters)
    /\ {New, Host, Gone} \cap Names = {} /\ New # Host /\ New # Gone /\ Host # Gone
    /\ MaxCrashes \in Nat

Tasks == {"start", "processor", "analysis"}

VARIABLES proc,      \* the process
          downSince, \* the second it crashed in
          where,     \* adapter -> New, Host, Gone or the namespace of that name
          name,      \* adapter -> name of its interface
          netns,     \* the namespaces wru-net-<name> that exist
          isolators, \* name -> _isolated of the NetworkIsolator, of _isolators
          task,      \* where each task is in isolate_interface
          cleaned,   \* the isolators cleanup_all is done with
          iterated,  \* those there were when it began
          inherited, \* ghost: the namespaces the last process left behind
          slipped,   \* ghost: names with an isolation under way since stop()
          brokenOff, \* ghost: stop() ended with an error
          crashes

kernelVars == <<where, name, netns>>
stopVars == <<cleaned, iterated, brokenOff>>
lifeVars == <<proc, downSince, crashes>>
ghosts == <<inherited, slipped>>
guardVars == <<lifeVars, kernelVars, stopVars, isolators, task, ghosts>>
vars == <<incidentVars, guardVars>>

NoIsolators == [n \in {} |-> FALSE]
Resting == [step |-> "rest"]
InTask == [step : {"add", "move", "mark", "clean"}, name : Names]

GuardTypeOK ==
    /\ IncidentTypeOK
    /\ proc \in {"starting", "running", "stopping", "cleanup", "closing",
                "stopped", "crashed"}
    /\ where \in [Adapters -> Names \cup {New, Host, Gone}]
    /\ name \in [Adapters -> Names]
    /\ netns \subseteq Names
    /\ \A n \in DOMAIN isolators : isolators[n] \in BOOLEAN
    /\ \A t \in Tasks : task[t] \in InTask \cup {Resting}

GuardInit ==
    /\ proc = "starting" /\ downSince = 0
    /\ where \in [Adapters -> {New, Host}]
    /\ name = CHOOSE f \in [Adapters -> Names] : \A a, b \in Adapters : a # b => f[a] # f[b]
    /\ netns = {} /\ isolators = NoIsolators
    /\ task = [t \in Tasks |-> Resting]
    /\ cleaned = {} /\ iterated = {} /\ brokenOff = FALSE
    /\ inherited = {} /\ slipped = {} /\ crashes = 0

Init == IncidentInit /\ GuardInit

-----------------------------------------------------------------------------
(* The kernel.                                                             *)
FreeNames(w) == Names \ {name[a] : a \in {b \in Adapters : w[b] = Host}}

Plug(a) ==
    /\ where[a] = New
    /\ where' = [where EXCEPT ![a] = Host]
    /\ \E n \in FreeNames(where) : name' = [name EXCEPT ![a] = n]
    /\ UNCHANGED <<incidentVars, lifeVars, stopVars, netns, isolators, task, ghosts>>

Unplug(a) ==
    /\ where[a] \notin {New, Gone}
    /\ where' = [where EXCEPT ![a] = Gone]
    /\ UNCHANGED <<incidentVars, lifeVars, stopVars, name, netns, isolators, task, ghosts>>

(* ip netns delete: what is inside falls back to the host, under another   *)
(* name when its own is taken.                                             *)
Released(n) == [a \in Adapters |-> IF where[a] = n THEN Host ELSE where[a]]
DeleteNetns(n) ==
    /\ netns' = netns \ {n}
    /\ where' = Released(n)
    /\ \E f \in [Adapters -> Names] :
         /\ \A a \in Adapters : where[a] # n \/ name[a] \in FreeNames(where) => f[a] = name[a]
         /\ \A a, b \in Adapters :
              a # b /\ Released(n)[a] = Host /\ Released(n)[b] = Host => f[a] # f[b]
         /\ name' = f

-----------------------------------------------------------------------------
(* The tasks.                                                              *)
Active(t) == proc \in CASE t = "start"     -> {"starting"}
                        [] t = "processor" -> {"starting", "running"}
                        [] t = "analysis"  -> {"running", "stopping", "cleanup", "closing"}
Stopping == proc \in {"stopping", "cleanup", "closing"}
At(t, step) == Active(t) /\ task[t] # Resting /\ task[t].step = step
Go(t, step) == task' = [task EXCEPT ![t].step = step]
Register(n, isolated) ==
    isolators' = [m \in DOMAIN isolators \cup {n} |->
                    IF m = n THEN isolated ELSE isolators[m]]

(* An authorized device whose interface is found in sysfs.  An isolator of *)
(* that name is taken for the new interface as it is, whatever became of   *)
(* the one it was made for: nothing happens.                               *)
IsolateInterface(t, a) ==
    /\ Active(t) /\ task[t] = Resting
    /\ where[a] = Host /\ name[a] \notin DOMAIN isolators
    /\ task' = [task EXCEPT ![t] = [step |-> "add", name |-> name[a]]]
    /\ slipped' = IF Stopping THEN slipped \cup {name[a]} ELSE slipped
    /\ UNCHANGED <<incidentVars, lifeVars, stopVars, kernelVars, isolators, inherited>>

(* ip netns add fails when the namespace is there.                         *)
AddNetns(t) ==
    /\ At(t, "add")
    /\ netns' = netns \cup {task[t].name}
    /\ Go(t, IF task[t].name \in netns THEN "clean" ELSE "move")
    /\ UNCHANGED <<incidentVars, lifeVars, stopVars, where, name, isolators, ghosts>>

(* ip link set ... netns moves whatever has that name now.                 *)
MoveInterface(t) ==
    /\ At(t, "move")
    /\ LET n    == task[t].name
           here == {a \in Adapters : where[a] = Host /\ name[a] = n}
       IN  \/ /\ here # {} /\ n \in netns
              /\ where' = [a \in Adapters |-> IF a \in here THEN n ELSE where[a]]
              /\ Go(t, "mark")
           \/ /\ here = {} \/ n \notin netns
              /\ Go(t, "clean")
              /\ UNCHANGED where
    /\ UNCHANGED <<incidentVars, lifeVars, stopVars, name, netns, isolators, ghosts>>

MarkIsolated(t) ==
    /\ At(t, "mark")
    /\ Register(task[t].name, TRUE)
    /\ task' = [task EXCEPT ![t] = Resting]
    /\ UNCHANGED <<incidentVars, lifeVars, stopVars, kernelVars, ghosts>>

CleanUpAfterFailureBug(t) ==  \* an isolator that failed is forgotten
    /\ At(t, "clean")
    /\ task' = [task EXCEPT ![t] = Resting]
    /\ UNCHANGED <<incidentVars, lifeVars, stopVars, kernelVars, isolators, ghosts>>

(* isolate() failed: cleanup() deletes the namespace, whoever made it; the *)
(* manager registers the isolator all the same.                            *)
CleanUpAfterFailure(t) ==
    /\ At(t, "clean")
    /\ Register(task[t].name, FALSE)
    /\ task' = [task EXCEPT ![t] = Resting]
    /\ DeleteNetns(task[t].name)
    /\ UNCHANGED <<incidentVars, lifeVars, stopVars, ghosts>>

Isolate(t) ==
    \/ AddNetns(t) \/ MoveInterface(t) \/ MarkIsolated(t) \/ CleanUpAfterFailure(t)

-----------------------------------------------------------------------------
(* The process.                                                            *)
StartCompletes ==
    /\ proc = "starting" /\ task["start"] = Resting
    /\ proc' = "running"
    /\ UNCHANGED <<incidentVars, downSince, crashes, kernelVars, stopVars, isolators, task, ghosts>>

(* stop(): the event handler cancels the processor in the middle of what   *)
(* it does; the analyses run on.                                           *)
StopBegins ==
    /\ proc = "running"
    /\ proc' = "stopping"
    /\ task' = [task EXCEPT !["processor"] = Resting]
    /\ slipped' = {task[t].name : t \in {u \in Tasks : task[u] # Resting}}
    /\ UNCHANGED <<incidentVars, downSince, crashes, kernelVars, stopVars, isolators, inherited>>

(* The HID monitors have been stopped: cleanup_all begins.                 *)
CleanUpBegins ==
    /\ proc = "stopping"
    /\ proc' = "cleanup"
    /\ iterated' = DOMAIN isolators /\ cleaned' = {}
    /\ UNCHANGED <<incidentVars, downSince, crashes, kernelVars, brokenOff>>
    /\ UNCHANGED <<isolators, task, ghosts>>

(* cleanup(): restore() of what is isolated, and the namespace deleted in  *)
(* any case.                                                               *)
CleanUpBug(n) ==  \* the interface is left where it is
    /\ proc = "cleanup" /\ iterated = DOMAIN isolators
    /\ n \in iterated \ cleaned
    /\ cleaned' = cleaned \cup {n}
    /\ UNCHANGED <<incidentVars, lifeVars, kernelVars, iterated, brokenOff>>
    /\ UNCHANGED <<isolators, task, ghosts>>

CleanUp(n) ==
    /\ proc = "cleanup" /\ iterated = DOMAIN isolators
    /\ n \in iterated \ cleaned
    /\ cleaned' = cleaned \cup {n}
    /\ DeleteNetns(n)
    /\ UNCHANGED <<incidentVars, lifeVars, iterated, brokenOff, isolators, task, ghosts>>

(* The isolators are forgotten.  stop() still waits for the notification   *)
(* server and for the audit log.                                           *)
CleanUpEnds ==
    /\ proc = "cleanup" /\ iterated = DOMAIN isolators /\ cleaned = iterated
    /\ proc' = "closing"
    /\ isolators' = NoIsolators
    /\ UNCHANGED <<incidentVars, downSince, crashes, kernelVars, stopVars, task, ghosts>>

(* The event loop ends, and with it every task that is left.               *)
StopEnds ==
    /\ proc = "closing"
    /\ proc' = "stopped"
    /\ task' = [t \in Tasks |-> Resting]
    /\ RespondersEnd
    /\ UNCHANGED <<downSince, crashes, kernelVars, stopVars, isolators, ghosts>>

(* An analysis has added a monitor or an isolator while stop() awaits in   *)
(* the iteration over the dictionary: a RuntimeError, which is logged.     *)
StopBreaksOff ==
    /\ proc = "stopping" \/ (proc = "cleanup" /\ iterated # DOMAIN isolators)
    /\ proc' = "stopped" /\ brokenOff' = TRUE
    /\ task' = [t \in Tasks |-> Resting]
    /\ RespondersEnd
    /\ UNCHANGED <<downSince, crashes, kernelVars, cleaned, iterated, isolators, ghosts>>

Crash ==
    /\ proc \notin {"stopped", "crashed"} /\ crashes < MaxCrashes
    /\ proc' = "crashed" /\ downSince' = second
    /\ crashes' = crashes + 1
    /\ isolators' = NoIsolators
    /\ task' = [t \in Tasks |-> Resting]
    /\ inherited' = netns /\ slipped' = {} /\ cleaned' = {} /\ iterated' = {}
    /\ RespondersEnd
    /\ UNCHANGED <<kernelVars, brokenOff>>

RestartBug ==  \* RestartSec=0
    /\ proc = "crashed"
    /\ proc' = "starting"
    /\ UNCHANGED <<incidentVars, downSince, crashes, kernelVars, stopVars, isolators, task, ghosts>>

(* Restart=on-failure after RestartSec, a second                           *)
Restart ==
    /\ proc = "crashed" /\ second > downSince
    /\ proc' = "starting"
    /\ UNCHANGED <<incidentVars, downSince, crashes, kernelVars, stopVars, isolators, task, ghosts>>

Reporting(r) == proc \notin {"stopped", "crashed"} /\ Incident(r) /\ UNCHANGED guardVars
Clock == SecondPasses /\ UNCHANGED guardVars

Next ==
    \/ \E a \in Adapters : Plug(a) \/ Unplug(a)
    \/ \E t \in Tasks : Isolate(t) \/ \E a \in Adapters : IsolateInterface(t, a)
    \/ StartCompletes \/ StopBegins \/ CleanUpBegins
    \/ (\E n \in Names : CleanUp(n)) \/ CleanUpEnds \/ StopEnds \/ StopBreaksOff
    \/ Crash \/ Restart \/ Clock
    \/ \E r \in Reporters : Reporting(r)

Spec == Init /\ [][Next]_vars

-----------------------------------------------------------------------------
(* No namespace is lost to the process that made it: up to stop(), each    *)
(* one is registered, or a task is at work on it, so that stop() will      *)
(* delete it; whether isolate() succeeded or failed halfway, and whoever   *)
(* else isolated an interface of that name at the same time.               *)
NamespacesOwned ==
    proc \in {"starting", "running"} =>
        \A n \in netns \ inherited :
            n \in DOMAIN isolators \/ \E t \in Tasks : task[t] # Resting /\ task[t].name = n

(* A stop() that runs to its end gives back every adapter and deletes      *)
(* every namespace of the names it knew when it began to clean up, also    *)
(* what a crashed process had left under such a name.  What an analysis    *)
(* isolates while stop() runs, and what the processor was isolating when   *)
(* it was cancelled, may be left.                                          *)
StopGivesBack ==
    proc = "stopped" /\ ~brokenOff =>
        \A n \in iterated \ slipped : n \notin netns /\ \A a \in Adapters : where[a] # n
=============================================================================
