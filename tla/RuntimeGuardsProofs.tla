------------------------- MODULE RuntimeGuardsProofs -------------------------
(***************************************************************************)
(* The responder never writes over an incident and completes what it puts  *)
(* on file, over crashes and restarts; no namespace is lost to the process *)
(* that made it, and a complete stop() gives back what it knew of; for any *)
(* adapters, names, tasks that report and number of crashes.               *)
(***************************************************************************)
EXTENDS RuntimeGuards, FunctionTheorems, FiniteSetTheorems, TLAPS

Alive == proc \notin {"stopped", "crashed"}

Reports == [step : Steps, id : IncidentIds, number : 1 .. MaxIncidents,
            severity : Severities, actions : SUBSET {"locked_all_screens", "snapshot_created"}]

IncidentTyped ==
    /\ IncidentTypeOK
    /\ report \in [Reporters -> Reports \cup {Idle}]
    /\ counter <= created
    /\ downSince \in Nat /\ downSince <= second

(* Ids of this process do not come again because its counter grows, those  *)
(* of an earlier process because the clock has moved on since it ended.    *)
Used == DOMAIN files \cup {report[r].id : r \in {q \in Reporters : report[q] # Idle}}
Passed(id) == id[1] < second \/ (id[1] = second /\ id[2] <= counter)

IdsPassed ==
    /\ Alive => \A id \in Used : Passed(id)
    /\ proc = "crashed" => \A id \in Used : id[1] <= downSince
    /\ ~Alive => \A r \in Reporters : report[r] = Idle

OwnFile == IncidentTyped /\ IdsPassed /\ OwnIncidentFile

(* What the steps of a response that lie behind it have left.              *)
ResponseUnderWay ==
    \A r \in Reporters :
      report[r].step \in {"snapshot", "save"} /\ report[r].severity = "CRITICAL" =>
        /\ Lockdown => "locked_all_screens" \in report[r].actions
        /\ report[r].step = "save" => report[r].id \in snapshots

(* Incidents are told apart by their numbers, and those for which a lock    *)
(* was tried are those that say so.                                        *)
Locked(incident) == "locked_all_screens" \in incident.actions

Numbered ==
    /\ tried \subseteq 1 .. created
    /\ \A r \in Reporters : report[r] # Idle =>
         /\ report[r].number \in 1 .. created
         /\ Locked(report[r]) <=> report[r].number \in tried
         /\ \A q \in Reporters \ {r} : report[q] # Idle => report[q].number # report[r].number
         /\ \A id \in DOMAIN files : files[id].number # report[r].number
    /\ \A id \in DOMAIN files :
         /\ files[id].number \in 1 .. created
         /\ Locked(files[id]) <=> files[id].number \in tried

FilesComplete ==
    \A id \in DOMAIN files : files[id].severity = "CRITICAL" =>
        id \in snapshots /\ (Lockdown => Locked(files[id]))

Response == IncidentTyped /\ ResponseUnderWay /\ Numbered /\ FilesComplete

(* While stop() works, a task that isolates has slipped through; of what   *)
(* is cleaned only a task can bring something back, and cleaning is over   *)
(* when the tasks that did not slip through are.                           *)
Busy(t) == task[t] # Resting

Owned ==
    /\ NamespacesOwned
    /\ proc = "crashed" => netns \subseteq inherited

GivenBack ==
    /\ cleaned \subseteq iterated /\ iterated \subseteq Names
    /\ cleaned # {} => proc \in {"cleanup", "closing", "stopped"}
    /\ Stopping => \A t \in Tasks : Busy(t) => task[t].name \in slipped
    /\ \A n \in cleaned \ slipped : n \notin netns /\ \A a \in Adapters : where[a] # n
    /\ proc = "closing" \/ (proc = "stopped" /\ ~brokenOff) => cleaned = iterated

GuardTyped ==
    /\ proc \in {"starting", "running", "stopping", "cleanup", "closing", "stopped", "crashed"}
    /\ where \in [Adapters -> Names \cup {New, Host, Gone}]
    /\ name \in [Adapters -> Names]
    /\ netns \subseteq Names /\ DOMAIN isolators \subseteq Names
    /\ task \in [Tasks -> InTask \cup {Resting}]

Kept == GuardTyped /\ Owned /\ GivenBack

-----------------------------------------------------------------------------
(* What a step of the daemon is to the responder: no concern of it, part   *)
(* of a response, time, or the end of its process or of a crash's delay.   *)
LEMMA LifeOfResponders ==
    ASSUME [Next]_vars
    PROVE  \/ UNCHANGED <<incidentVars, downSince>> /\ (Alive' <=> Alive) /\ proc' # "crashed"
           \/ UNCHANGED <<incidentVars, downSince, proc>>
           \/ Alive /\ UNCHANGED <<proc, downSince>> /\ \E r \in Reporters : Incident(r)
           \/ SecondPasses /\ UNCHANGED <<proc, downSince>>
           \/ RespondersEnd /\ proc' = "stopped" /\ UNCHANGED downSince
           \/ RespondersEnd /\ Alive /\ proc' = "crashed" /\ downSince' = second
           \/ /\ UNCHANGED <<incidentVars, downSince>>
              /\ proc = "crashed" /\ proc' = "starting" /\ second > downSince
<1>1. ASSUME NEW a \in Adapters, Plug(a) \/ Unplug(a)
      PROVE  UNCHANGED <<incidentVars, downSince, proc>>
  BY <1>1 DEF Plug, Unplug, lifeVars
<1>2. ASSUME NEW t \in Tasks, Isolate(t) \/ \E a \in Adapters : IsolateInterface(t, a)
      PROVE  UNCHANGED <<incidentVars, downSince, proc>>
  BY <1>2 DEF Isolate, IsolateInterface, AddNetns, MoveInterface, MarkIsolated,
              CleanUpAfterFailure, lifeVars
<1>3. ASSUME StartCompletes \/ StopBegins \/ CleanUpBegins \/ CleanUpEnds
      PROVE  UNCHANGED <<incidentVars, downSince>> /\ (Alive' <=> Alive) /\ proc' # "crashed"
  BY <1>3 DEF StartCompletes, StopBegins, CleanUpBegins, CleanUpEnds, Alive
<1>4. ASSUME NEW n \in Names, CleanUp(n)
      PROVE  UNCHANGED <<incidentVars, downSince, proc>>
  BY <1>4 DEF CleanUp, lifeVars
<1>5. ASSUME StopEnds \/ StopBreaksOff
      PROVE  RespondersEnd /\ proc' = "stopped" /\ UNCHANGED downSince
  BY <1>5 DEF StopEnds, StopBreaksOff
<1>6. ASSUME Crash
      PROVE  RespondersEnd /\ Alive /\ proc' = "crashed" /\ downSince' = second
  BY <1>6 DEF Crash, Alive
<1>7. ASSUME Restart
      PROVE  /\ UNCHANGED <<incidentVars, downSince>>
             /\ proc = "crashed" /\ proc' = "starting" /\ second > downSince
  BY <1>7 DEF Restart
<1>8. ASSUME Clock
      PROVE  SecondPasses /\ UNCHANGED <<proc, downSince>>
  BY <1>8 DEF Clock, guardVars, lifeVars
<1>9. ASSUME NEW r \in Reporters, Reporting(r)
      PROVE  Alive /\ UNCHANGED <<proc, downSince>> /\ \E q \in Reporters : Incident(q)
  BY <1>9 DEF Reporting, guardVars, lifeVars, Alive
<1>10. ASSUME UNCHANGED vars
       PROVE  UNCHANGED <<incidentVars, downSince, proc>>
  BY <1>10 DEF vars, guardVars, lifeVars
<1>11. CASE UNCHANGED vars
  BY <1>10, <1>11
<1>12. CASE Next
  <2>1. CASE \/ \E a \in Adapters : Plug(a) \/ Unplug(a)
             \/ \E t \in Tasks : Isolate(t) \/ \E a \in Adapters : IsolateInterface(t, a)
             \/ \E n \in Names : CleanUp(n)
    BY <1>1, <1>2, <1>4, <2>1
  <2>2. CASE \/ StartCompletes \/ StopBegins \/ CleanUpBegins \/ CleanUpEnds
             \/ StopEnds \/ StopBreaksOff \/ Crash \/ Restart \/ Clock
             \/ \E r \in Reporters : Reporting(r)
    BY <1>3, <1>5, <1>6, <1>7, <1>8, <1>9, <2>2
  <2> QED  BY <1>12, <2>1, <2>2 DEF Next
<1> QED  BY <1>11, <1>12

-----------------------------------------------------------------------------
LEMMA IncidentBounds == MaxSeconds \in Nat /\ MaxIncidents \in Nat
BY IncidentAssumption DEF IncidentAssumption

LEMMA IncidentTypedInit == Init => IncidentTyped
<1> SUFFICES ASSUME Init PROVE IncidentTyped
  OBVIOUS
<1>1. DOMAIN [id \in {} |-> 0] = {}
  OBVIOUS
<1> QED  BY <1>1, IncidentBounds DEF Init, IncidentInit, GuardInit, IncidentTyped, IncidentTypeOK

(* A report is a report.                                                   *)
LEMMA ReportsAre ==
    ASSUME IncidentTyped, NEW r \in Reporters
    PROVE  /\ report[r] \in Reports \cup {Idle}
           /\ report[r].step \in Steps => report[r] \in Reports /\ report[r] # Idle
           /\ report[r] # Idle => report[r] \in Reports /\ report[r].id \in IncidentIds
BY DEF IncidentTyped, Reports, Idle, Steps

LEMMA IncidentTypedKept ==
    ASSUME IncidentTyped, NEW r \in Reporters, Incident(r), UNCHANGED downSince
    PROVE  IncidentTyped'
<1>1. /\ report \in [Reporters -> Reports \cup {Idle}]
      /\ counter \in Nat /\ created \in 0 .. MaxIncidents /\ counter <= created
      /\ second \in 0 .. MaxSeconds /\ DOMAIN files \subseteq IncidentIds
      /\ snapshots \subseteq IncidentIds /\ tried \subseteq 1 .. MaxIncidents
  BY IncidentBounds DEF IncidentTyped, IncidentTypeOK
<1>2. ASSUME report' \in [Reporters -> Reports \cup {Idle}], counter' \in Nat,
             counter' <= created', created' \in 0 .. MaxIncidents, UNCHANGED second,
             DOMAIN files' \subseteq IncidentIds, snapshots' \subseteq IncidentIds,
             tried' \subseteq 1 .. MaxIncidents
      PROVE  IncidentTyped'
  <2>1. counter' \in 0 .. MaxIncidents
    BY <1>2, IncidentBounds
  <2>2. \A q \in Reporters : report'[q] = Idle \/ report'[q] \in Reports
    BY <1>2
  <2> QED  BY <1>2, <2>1, <2>2 DEF IncidentTyped, IncidentTypeOK, Reports
<1>3. CASE CreateIncident(r)
  <2>1. PICK score \in Scores :
           report' = [report EXCEPT ![r] =
             [step |-> FirstStep(Severity(score)), id |-> NewId, number |-> created + 1,
              severity |-> Severity(score), actions |-> {}]]
    BY <1>3 DEF CreateIncident
  <2>2. Severity(score) \in Severities /\ FirstStep(Severity(score)) \in Steps
    BY DEF Severity, Severities, FirstStep, Steps
  <2>3. created + 1 \in 1 .. MaxIncidents /\ counter + 1 \in 1 .. MaxIncidents
    BY <1>1, <1>3, IncidentBounds DEF CreateIncident
  <2>4. NewId \in IncidentIds
    BY <1>1, <2>3 DEF NewId, IncidentIds
  <2>5. report' \in [Reporters -> Reports \cup {Idle}]
    <3> DEFINE sev == Severity(score)
               first == FirstStep(sev)
    <3>1. [step |-> first, id |-> NewId, number |-> created + 1, severity |-> sev,
           actions |-> {}] \in Reports
      BY <2>2, <2>3, <2>4 DEF Reports
    <3> QED  BY <1>1, <2>1, <3>1
  <2>6. /\ counter' = counter + 1 /\ created' = created + 1
        /\ UNCHANGED <<second, files, snapshots, tried>>
    BY <1>3 DEF CreateIncident
  <2> QED  BY <1>1, <1>2, <2>3, <2>5, <2>6
<1>4. CASE LockScreens(r)
  <2>1. report[r] \in Reports
    BY <1>4, ReportsAre DEF LockScreens, Steps
  <2>2. report' = [report EXCEPT ![r].step = IF report[r].severity = "CRITICAL" THEN "snapshot"
                                             ELSE "save",
                                 ![r].actions = @ \cup {"locked_all_screens"}]
    BY <1>4 DEF LockScreens
  <2>3. report' \in [Reporters -> Reports \cup {Idle}]
    BY <1>1, <2>1, <2>2 DEF Reports, Steps
  <2>4. tried' \subseteq 1 .. MaxIncidents
    BY <1>1, <1>4, <2>1 DEF LockScreens, Reports
  <2> QED  BY <1>1, <1>2, <1>4, <2>3, <2>4 DEF LockScreens
<1>5. CASE Snapshot(r)
  <2>1. report[r] \in Reports
    BY <1>5, ReportsAre DEF Snapshot, Steps
  <2>2. report' = [report EXCEPT ![r].step = "save", ![r].actions = @ \cup {"snapshot_created"}]
    BY <1>5 DEF Snapshot
  <2>3. report' \in [Reporters -> Reports \cup {Idle}]
    BY <1>1, <2>1, <2>2 DEF Reports, Steps
  <2>4. snapshots' \subseteq IncidentIds
    BY <1>1, <1>5, <2>1 DEF Snapshot, Reports
  <2> QED  BY <1>1, <1>2, <1>5, <2>3, <2>4 DEF Snapshot
<1>6. CASE SaveIncident(r)
  <2>1. report[r].id \in IncidentIds
    BY <1>6, ReportsAre DEF SaveIncident, Steps
  <2>2. DOMAIN files' = DOMAIN files \cup {report[r].id}
    BY <1>6 DEF SaveIncident
  <2>3. report' \in [Reporters -> Reports \cup {Idle}]
    BY <1>1, <1>6 DEF SaveIncident
  <2> QED  BY <1>1, <1>2, <1>6, <2>1, <2>2, <2>3 DEF SaveIncident
<1>7. CASE NotSaved(r)
  <2>1. report' \in [Reporters -> Reports \cup {Idle}]
    BY <1>1, <1>7 DEF NotSaved
  <2> QED  BY <1>1, <1>2, <1>7, <2>1 DEF NotSaved
<1> QED  BY <1>3, <1>4, <1>5, <1>6, <1>7 DEF Incident

LEMMA IncidentTypedStep ==
    ASSUME IncidentTyped, [Next]_vars
    PROVE  IncidentTyped'
<1>1. ASSUME UNCHANGED <<incidentVars, downSince>> PROVE IncidentTyped'
  BY <1>1 DEF IncidentTyped, IncidentTypeOK, incidentVars
<1>2. ASSUME SecondPasses, UNCHANGED downSince PROVE IncidentTyped'
  <2>1. second' \in 0 .. MaxSeconds /\ downSince' <= second'
    BY <1>2, IncidentBounds DEF IncidentTyped, IncidentTypeOK, SecondPasses
  <2> QED  BY <1>2, <2>1 DEF IncidentTyped, IncidentTypeOK, SecondPasses
<1>3. ASSUME RespondersEnd, downSince' \in {downSince, second} PROVE IncidentTyped'
  <2>1. downSince' \in Nat /\ downSince' <= second'
    BY <1>3, IncidentBounds DEF IncidentTyped, IncidentTypeOK, RespondersEnd
  <2>2. counter' \in 0 .. MaxIncidents /\ counter' <= created'
    BY <1>3, IncidentBounds DEF IncidentTyped, IncidentTypeOK, RespondersEnd
  <2>3. report' \in [Reporters -> Reports \cup {Idle}] /\ \A r \in Reporters : report'[r] = Idle
    BY <1>3 DEF RespondersEnd
  <2> QED  BY <1>3, <2>1, <2>2, <2>3 DEF IncidentTyped, IncidentTypeOK, RespondersEnd
<1> QED  BY <1>1, <1>2, <1>3, LifeOfResponders, IncidentTypedKept

-----------------------------------------------------------------------------
(* No id is used twice.                                                    *)
LEMMA UsedAreIds ==
    ASSUME IncidentTyped
    PROVE  \A id \in Used : id \in IncidentIds /\ id[1] \in Nat /\ id[2] \in Nat
<1>1. Used \subseteq IncidentIds
  BY ReportsAre DEF IncidentTyped, IncidentTypeOK, Used
<1>2. \A id \in IncidentIds : id[1] \in Nat /\ id[2] \in Nat
  BY IncidentBounds DEF IncidentIds
<1> QED  BY <1>1, <1>2

LEMMA OwnFileInit == Init => IdsPassed /\ OwnIncidentFile
<1> SUFFICES ASSUME Init PROVE IdsPassed /\ OwnIncidentFile
  OBVIOUS
<1>1. \A r \in Reporters : report[r] = Idle
  BY DEF Init, IncidentInit
<1>2. DOMAIN files = {}
  BY DEF Init, IncidentInit
<1>3. Used = {}
  BY <1>1, <1>2 DEF Used
<1>4. Alive /\ proc # "crashed"
  BY DEF Init, GuardInit, Alive
<1> QED  BY <1>1, <1>3, <1>4 DEF IdsPassed, OwnIncidentFile

(* A new incident gets an id that is not used yet.                         *)
LEMMA NewIdIsNew ==
    ASSUME IncidentTyped, IdsPassed, Alive
    PROVE  NewId \notin Used
<1>1. /\ NewId[1] = second /\ NewId[2] = counter + 1 /\ counter \in Nat /\ second \in Nat
  BY IncidentBounds DEF NewId, IncidentTyped, IncidentTypeOK
<1>2. ~Passed(NewId)
  BY <1>1 DEF Passed
<1> QED  BY <1>2 DEF IdsPassed

LEMMA OwnFileKept ==
    ASSUME OwnFile, Alive, NEW r \in Reporters, Incident(r), UNCHANGED <<proc, downSince>>
    PROVE  IdsPassed' /\ OwnIncidentFile'
<1>1. report \in [Reporters -> Reports \cup {Idle}] /\ counter \in Nat /\ second \in Nat
  BY IncidentBounds DEF OwnFile, IncidentTyped, IncidentTypeOK
<1>2. \A id \in Used : Passed(id) /\ id[1] \in Nat /\ id[2] \in Nat
  BY UsedAreIds DEF OwnFile, IdsPassed
<1>3. Alive' /\ proc' # "crashed"
  BY DEF Alive
<1>4. CASE CreateIncident(r)
  <2>1. PICK sev, first :
           report' = [report EXCEPT ![r] =
             [step |-> first, id |-> NewId, number |-> created + 1,
              severity |-> sev, actions |-> {}]]
    BY <1>4 DEF CreateIncident
  <2>2. /\ report[r] = Idle /\ UNCHANGED <<second, files>> /\ counter' = counter + 1
    BY <1>4 DEF CreateIncident
  <2>3. report'[r].id = NewId /\ \A q \in Reporters \ {r} : report'[q] = report[q]
    BY <1>1, <2>1
  <2>4. Used' \subseteq Used \cup {NewId}
    BY <2>2, <2>3 DEF Used
  <2>5. NewId \notin Used
    BY NewIdIsNew DEF OwnFile
  <2>6. \A id \in Used' : Passed(id)'
    <3>1. \A id \in Used : id[1] < second \/ (id[1] = second /\ id[2] <= counter + 1)
      BY <1>1, <1>2 DEF Passed
    <3>2. NewId[1] = second /\ NewId[2] = counter + 1
      BY DEF NewId
    <3>3. \A id \in Used' : id[1] < second \/ (id[1] = second /\ id[2] <= counter + 1)
      BY <1>1, <2>4, <3>1, <3>2
    <3> QED  BY <2>2, <3>3 DEF Passed
  <2>7. OwnIncidentFile'
    <3> SUFFICES ASSUME NEW q \in Reporters, report'[q] # Idle
                 PROVE  /\ report'[q].id \notin DOMAIN files
                        /\ \A p \in Reporters \ {q} :
                             report'[p] # Idle => report'[p].id # report'[q].id
      BY <2>2 DEF OwnIncidentFile
    <3>1. \A p \in Reporters \ {r} : report[p] # Idle => report[p].id # NewId
      BY <2>5 DEF Used
    <3>2. CASE q = r
      BY <2>3, <2>5, <3>1, <3>2 DEF Used
    <3>3. CASE q # r
      BY <2>3, <3>1, <3>3 DEF OwnFile, OwnIncidentFile
    <3> QED  BY <3>2, <3>3
  <2> QED  BY <1>3, <2>6, <2>7 DEF IdsPassed
<1>5. ASSUME UNCHANGED <<second, counter>>, Used' \subseteq Used
      PROVE  IdsPassed'
  <2>1. \A id \in Used' : Passed(id)'
    BY <1>2, <1>5 DEF Passed
  <2> QED  BY <1>3, <2>1 DEF IdsPassed
<1>6. CASE LockScreens(r) \/ Snapshot(r)
  <2>1. report[r] \in Reports /\ report[r] # Idle
    BY <1>6, ReportsAre DEF LockScreens, Snapshot, Steps, OwnFile
  <2>2. \A q \in Reporters : report'[q] # Idle => report[q] # Idle /\ report'[q].id = report[q].id
    BY <1>1, <1>6, <2>1 DEF LockScreens, Snapshot, Reports
  <2>3. UNCHANGED <<second, counter, files>>
    BY <1>6 DEF LockScreens, Snapshot
  <2>4. Used' \subseteq Used
    BY <2>2, <2>3 DEF Used
  <2>5. OwnIncidentFile'
    BY <2>2, <2>3 DEF OwnFile, OwnIncidentFile
  <2> QED  BY <1>5, <2>3, <2>4, <2>5
<1>7. CASE SaveIncident(r)
  <2>1. report[r] \in Reports /\ report[r] # Idle
    BY <1>7, ReportsAre DEF SaveIncident, Steps, OwnFile
  <2>2. report'[r] = Idle /\ \A q \in Reporters \ {r} : report'[q] = report[q]
    BY <1>1, <1>7 DEF SaveIncident
  <2>3. UNCHANGED <<second, counter>> /\ DOMAIN files' = DOMAIN files \cup {report[r].id}
    BY <1>7 DEF SaveIncident
  <2>4. Used' \subseteq Used
    BY <2>1, <2>2, <2>3 DEF Used
  <2>5. OwnIncidentFile'
    BY <2>1, <2>2, <2>3 DEF OwnFile, OwnIncidentFile
  <2> QED  BY <1>5, <2>3, <2>4, <2>5
<1>8. CASE NotSaved(r)
  <2>1. /\ report'[r] = Idle /\ \A q \in Reporters \ {r} : report'[q] = report[q]
        /\ UNCHANGED <<second, counter, files>>
    BY <1>1, <1>8 DEF NotSaved
  <2>2. Used' \subseteq Used
    BY <2>1 DEF Used
  <2>3. OwnIncidentFile'
    BY <2>1 DEF OwnFile, OwnIncidentFile
  <2> QED  BY <1>5, <2>1, <2>2, <2>3
<1> QED  BY <1>4, <1>6, <1>7, <1>8 DEF Incident

LEMMA OwnFileStep ==
    ASSUME OwnFile, [Next]_vars
    PROVE  OwnFile'
<1> USE DEF OwnFile
<1>1. IncidentTyped'
  BY IncidentTypedStep
<1>2. \A id \in Used : id[1] \in Nat /\ id[2] \in Nat
  BY UsedAreIds
<1>3. second \in Nat /\ counter \in Nat /\ downSince \in Nat /\ downSince <= second
  BY IncidentBounds DEF IncidentTyped, IncidentTypeOK
<1>4. Alive => proc # "crashed"
  BY DEF Alive
<1>5. ASSUME UNCHANGED incidentVars
      PROVE  Used' = Used /\ OwnIncidentFile' /\ \A id : Passed(id)' <=> Passed(id)
  BY <1>5 DEF incidentVars, Used, OwnIncidentFile, Passed
<1>6. ASSUME UNCHANGED incidentVars, Alive' <=> Alive, proc' # "crashed"
      PROVE  IdsPassed'
  BY <1>5, <1>6 DEF IdsPassed, incidentVars
<1>7. ASSUME UNCHANGED <<incidentVars, downSince, proc>>
      PROVE  IdsPassed'
  BY <1>5, <1>7 DEF IdsPassed, incidentVars, Alive
<1>8. ASSUME SecondPasses, UNCHANGED <<proc, downSince>>
      PROVE  IdsPassed' /\ OwnIncidentFile'
  <2>1. second' = second + 1 /\ UNCHANGED <<report, files, counter>>
    BY <1>8 DEF SecondPasses
  <2>2. Used' = Used /\ OwnIncidentFile'
    BY <2>1 DEF Used, OwnIncidentFile
  <2>3. \A id \in Used : Passed(id) => Passed(id)'
    BY <1>2, <1>3, <2>1 DEF Passed
  <2> QED  BY <1>8, <2>1, <2>2, <2>3 DEF IdsPassed, Alive
<1>9. ASSUME RespondersEnd
      PROVE  /\ Used' \subseteq Used /\ OwnIncidentFile' /\ second' = second
             /\ \A r \in Reporters : report'[r] = Idle
  BY <1>9 DEF RespondersEnd, Used, OwnIncidentFile
<1>10. ASSUME RespondersEnd, proc' = "stopped"
       PROVE  IdsPassed'
  BY <1>9, <1>10 DEF IdsPassed, Alive
<1>11. ASSUME RespondersEnd, Alive, proc' = "crashed", downSince' = second
       PROVE  IdsPassed'
  <2>1. \A id \in Used : id[1] <= second
    BY <1>2, <1>3, <1>11 DEF IdsPassed, Passed
  <2> QED  BY <1>9, <1>11, <2>1 DEF IdsPassed, Alive
<1>12. ASSUME UNCHANGED <<incidentVars, downSince>>, proc = "crashed", proc' = "starting",
              second > downSince
       PROVE  IdsPassed'
  <2>1. \A id \in Used : Passed(id)
    BY <1>2, <1>3, <1>12 DEF IdsPassed, Passed
  <2> QED  BY <1>5, <1>12, <2>1 DEF IdsPassed, Alive
<1> QED  BY <1>1, <1>5, <1>6, <1>7, <1>8, <1>9, <1>10, <1>11, <1>12, OwnFileKept, LifeOfResponders

(* The id of an incident is the second and a counter that starts again     *)
(* with the process, and nothing looks whether the file is there; still no *)
(* two incidents share one, for the counter grows within a process and     *)
(* RestartSec passes between two.                                          *)
THEOREM IncidentsKeepTheirFiles == Spec => []OwnIncidentFile
<1>1. Init => OwnFile
  BY IncidentTypedInit, OwnFileInit DEF OwnFile
<1>2. OwnFile /\ [Next]_vars => OwnFile'
  BY OwnFileStep
<1>3. OwnFile => OwnIncidentFile
  BY DEF OwnFile
<1> QED  BY <1>1, <1>2, <1>3, PTL DEF Spec

-----------------------------------------------------------------------------
(* A response is complete when it is put on file, and what the file says   *)
(* of the lock is what was done for the incident of that number.           *)
LEMMA ResponseInit == Init => Response
<1> SUFFICES ASSUME Init PROVE Response
  OBVIOUS
<1>1. \A r \in Reporters : report[r] = Idle /\ report[r].step = "idle"
  BY DEF Init, IncidentInit, Idle
<1>2. DOMAIN files = {} /\ tried = {}
  BY DEF Init, IncidentInit
<1>3. ResponseUnderWay /\ FilesComplete
  BY <1>1, <1>2 DEF ResponseUnderWay, FilesComplete
<1>4. Numbered
  BY <1>1, <1>2 DEF Numbered
<1> QED  BY <1>3, <1>4, IncidentTypedInit DEF Response

(* A step of one reporter that changes no other report.                    *)
LEMMA OthersUnderWay ==
    ASSUME ResponseUnderWay, NEW r \in Reporters, snapshots \subseteq snapshots',
           \A q \in Reporters \ {r} : report'[q] = report[q],
           report'[r].step \in {"snapshot", "save"} /\ report'[r].severity = "CRITICAL" =>
               /\ Lockdown => "locked_all_screens" \in report'[r].actions
               /\ report'[r].step = "save" => report'[r].id \in snapshots'
    PROVE  ResponseUnderWay'
BY DEF ResponseUnderWay

LEMMA NumberedByOthers ==
    ASSUME Numbered, NEW r \in Reporters, UNCHANGED <<files, tried, created>>,
           \A q \in Reporters \ {r} : report'[q] = report[q],
           report'[r] # Idle =>
             /\ report[r] # Idle /\ report'[r].number = report[r].number
             /\ Locked(report'[r]) <=> Locked(report[r])
    PROVE  Numbered'
<1> SUFFICES ASSUME NEW q \in Reporters, report'[q] # Idle
             PROVE  /\ report'[q].number \in 1 .. created
                    /\ Locked(report'[q]) <=> report'[q].number \in tried
                    /\ \A p \in Reporters \ {q} :
                         report'[p] # Idle => report'[p].number # report'[q].number
                    /\ \A id \in DOMAIN files : files[id].number # report'[q].number
  BY DEF Numbered
<1>1. \A p \in Reporters : report'[p] # Idle => report[p] # Idle
                           /\ report'[p].number = report[p].number
                           /\ (Locked(report'[p]) <=> Locked(report[p]))
  OBVIOUS
<1>2. /\ report[q] # Idle /\ report'[q].number = report[q].number
      /\ Locked(report'[q]) <=> Locked(report[q])
  BY <1>1
<1>3. \A p \in Reporters \ {q} : report'[p] # Idle => report'[p].number # report[q].number
  BY <1>1, <1>2 DEF Numbered
<1> QED  BY <1>2, <1>3 DEF Numbered

LEMMA ResponseCreated ==
    ASSUME Response, NEW r \in Reporters, CreateIncident(r)
    PROVE  ResponseUnderWay' /\ Numbered' /\ FilesComplete'
<1> USE DEF Response
<1>1. PICK score \in Scores :
         report' = [report EXCEPT ![r] =
           [step |-> FirstStep(Severity(score)), id |-> NewId, number |-> created + 1,
            severity |-> Severity(score), actions |-> {}]]
  BY DEF CreateIncident
<1> DEFINE sev == Severity(score)
<1>2. /\ report'[r].step = FirstStep(sev) /\ report'[r].severity = sev
      /\ report'[r].number = created + 1 /\ report'[r].actions = {}
      /\ \A q \in Reporters \ {r} : report'[q] = report[q]
  BY <1>1 DEF IncidentTyped
<1> HIDE DEF sev
<1>3. sev = "CRITICAL" => FirstStep(sev) # "save" /\ (FirstStep(sev) = "snapshot" => ~Lockdown)
  BY IncidentAssumption DEF FirstStep, IncidentAssumption
<1>4. /\ UNCHANGED <<files, snapshots, tried>> /\ report[r] = Idle
      /\ created' = created + 1 /\ created \in Nat
  BY IncidentBounds DEF CreateIncident, IncidentTyped, IncidentTypeOK
<1>5. ResponseUnderWay'
  BY <1>2, <1>3, <1>4, OthersUnderWay
<1>6. FilesComplete'
  BY <1>4 DEF FilesComplete
<1>7. \A k \in 1 .. created : k \in 1 .. created + 1 /\ k # created + 1
  BY <1>4
<1>8. created + 1 \in 1 .. created + 1 /\ created + 1 \notin tried
  BY <1>4, <1>7 DEF Numbered
<1>9. ASSUME NEW q \in Reporters, report'[q] # Idle
      PROVE  /\ report'[q].number \in 1 .. created + 1
             /\ Locked(report'[q]) <=> report'[q].number \in tried
             /\ \A p \in Reporters \ {q} :
                  report'[p] # Idle => report'[p].number # report'[q].number
             /\ \A id \in DOMAIN files : files[id].number # report'[q].number
  <2>1. CASE q = r
    BY <1>2, <1>7, <1>8, <2>1 DEF Numbered, Locked
  <2>2. CASE q # r
    BY <1>2, <1>7, <1>8, <1>9, <2>2 DEF Numbered
  <2> QED  BY <2>1, <2>2
<1>10. tried \subseteq 1 .. created + 1
  BY <1>7 DEF Numbered
<1>11. \A id \in DOMAIN files : /\ files[id].number \in 1 .. created + 1
                                /\ Locked(files[id]) <=> files[id].number \in tried
  BY <1>7 DEF Numbered
<1>12. Numbered'
  BY <1>4, <1>9, <1>10, <1>11 DEF Numbered
<1> QED  BY <1>5, <1>6, <1>12

LEMMA ResponseLocked ==
    ASSUME Response, NEW r \in Reporters, LockScreens(r)
    PROVE  ResponseUnderWay' /\ Numbered' /\ FilesComplete'
<1> USE DEF Response
<1>1. report[r] \in Reports /\ report[r] # Idle
  BY ReportsAre DEF LockScreens, Steps
<1>2. /\ report' = [report EXCEPT ![r].step = IF report[r].severity = "CRITICAL" THEN "snapshot"
                                              ELSE "save",
                                  ![r].actions = @ \cup {"locked_all_screens"}]
      /\ UNCHANGED <<files, snapshots, created>>
      /\ tried' = tried \cup {report[r].number}
  BY DEF LockScreens
<1>3. /\ report'[r].step = IF report[r].severity = "CRITICAL" THEN "snapshot" ELSE "save"
      /\ report'[r].severity = report[r].severity
      /\ report'[r].number = report[r].number
      /\ "locked_all_screens" \in report'[r].actions
      /\ \A q \in Reporters \ {r} : report'[q] = report[q]
  BY <1>1, <1>2 DEF Reports, IncidentTyped
<1>4. report'[r].step = "save" => report'[r].severity # "CRITICAL"
  BY <1>3
<1>5. ResponseUnderWay'
  BY <1>2, <1>3, <1>4, OthersUnderWay
<1>6. FilesComplete'
  BY <1>2 DEF FilesComplete
<1>7. ASSUME NEW q \in Reporters, report'[q] # Idle
      PROVE  /\ report'[q].number \in 1 .. created
             /\ Locked(report'[q]) <=> report'[q].number \in tried'
             /\ \A p \in Reporters \ {q} :
                  report'[p] # Idle => report'[p].number # report'[q].number
             /\ \A id \in DOMAIN files : files[id].number # report'[q].number
  <2>1. \A p \in Reporters : report'[p] # Idle => report[p] # Idle
                             /\ report'[p].number = report[p].number
    BY <1>1, <1>3
  <2>2. /\ report'[q].number \in 1 .. created
        /\ \A p \in Reporters \ {q} :
             report'[p] # Idle => report'[p].number # report'[q].number
        /\ \A id \in DOMAIN files : files[id].number # report'[q].number
    BY <1>7, <2>1 DEF Numbered
  <2>3. Locked(report'[q]) <=> report'[q].number \in tried'
    <3>1. CASE q = r
      <4>1. Locked(report'[r]) /\ report'[r].number \in tried'
        BY <1>2, <1>3 DEF Locked
      <4> QED  BY <3>1, <4>1
    <3>2. CASE q # r
      <4>1. report'[q] = report[q] /\ report[q] # Idle
        BY <1>3, <1>7, <3>2
      <4>2. report[q].number # report[r].number
        BY <1>1, <3>2, <4>1 DEF Numbered
      <4>3. Locked(report[q]) <=> report[q].number \in tried
        BY <4>1 DEF Numbered
      <4> QED  BY <1>2, <4>1, <4>2, <4>3
    <3> QED  BY <3>1, <3>2
  <2> QED  BY <2>2, <2>3
<1>8. \A id \in DOMAIN files : /\ files[id].number \in 1 .. created
                               /\ Locked(files[id]) <=> files[id].number \in tried'
  BY <1>1, <1>2 DEF Numbered
<1>9. tried' \subseteq 1 .. created
  BY <1>1, <1>2 DEF Numbered
<1>10. Numbered'
  BY <1>2, <1>7, <1>8, <1>9 DEF Numbered
<1> QED  BY <1>5, <1>6, <1>10

LEMMA ResponseSnapshot ==
    ASSUME Response, NEW r \in Reporters, Snapshot(r)
    PROVE  ResponseUnderWay' /\ Numbered' /\ FilesComplete'
<1> USE DEF Response
<1>1. report[r] \in Reports /\ report[r] # Idle /\ report[r].step = "snapshot"
  BY ReportsAre DEF Snapshot, Steps
<1>2. /\ report' = [report EXCEPT ![r].step = "save", ![r].actions = @ \cup {"snapshot_created"}]
      /\ UNCHANGED <<files, tried, created>> /\ snapshots' = snapshots \cup {report[r].id}
  BY DEF Snapshot
<1>3. /\ report'[r].step = "save" /\ report'[r].id = report[r].id
      /\ report'[r].number = report[r].number
      /\ report'[r].severity = report[r].severity
      /\ report'[r].actions = report[r].actions \cup {"snapshot_created"}
      /\ \A q \in Reporters \ {r} : report'[q] = report[q]
  BY <1>1, <1>2 DEF Reports, IncidentTyped
<1>4. report'[r].severity = "CRITICAL" /\ Lockdown
         => "locked_all_screens" \in report'[r].actions
  BY <1>1, <1>3 DEF ResponseUnderWay
<1>5. ResponseUnderWay'
  <2>1. snapshots \subseteq snapshots' /\ report'[r].id \in snapshots'
    BY <1>2, <1>3
  <2> QED  BY <1>3, <1>4, <2>1, OthersUnderWay
<1>6. FilesComplete'
  BY <1>2 DEF FilesComplete
<1>7. Locked(report'[r]) <=> Locked(report[r])
  BY <1>3 DEF Locked
<1>8. Numbered'
  BY <1>1, <1>2, <1>3, <1>7, NumberedByOthers
<1> QED  BY <1>5, <1>6, <1>8

LEMMA ResponseSaved ==
    ASSUME Response, NEW r \in Reporters, SaveIncident(r)
    PROVE  ResponseUnderWay' /\ Numbered' /\ FilesComplete'
<1> USE DEF Response
<1>1. report[r] # Idle /\ report[r].step = "save"
  BY ReportsAre DEF SaveIncident, Steps
<1>2. /\ UNCHANGED <<snapshots, tried, created>> /\ report'[r] = Idle
      /\ \A q \in Reporters \ {r} : report'[q] = report[q]
  BY DEF SaveIncident, IncidentTyped
<1> DEFINE mine == report[r].id
<1>3. /\ DOMAIN files' = DOMAIN files \cup {mine}
      /\ files'[mine].severity = report[r].severity
      /\ files'[mine].number = report[r].number
      /\ files'[mine].actions = report[r].actions
      /\ \A id \in DOMAIN files \ {mine} : files'[id] = files[id]
  BY DEF SaveIncident
<1> HIDE DEF mine
<1>4. ResponseUnderWay'
  BY <1>2, OthersUnderWay DEF Idle
<1>5. FilesComplete'
  <2>1. files'[mine].severity = "CRITICAL" =>
          mine \in snapshots /\ (Lockdown => Locked(files'[mine]))
    BY <1>1, <1>3 DEF ResponseUnderWay, Locked, mine
  <2> QED  BY <1>2, <1>3, <2>1 DEF FilesComplete
<1>6. /\ files'[mine].number \in 1 .. created
      /\ Locked(files'[mine]) <=> files'[mine].number \in tried
  BY <1>1, <1>3 DEF Numbered, Locked
<1>7. \A id \in DOMAIN files' : /\ files'[id].number \in 1 .. created
                                /\ Locked(files'[id]) <=> files'[id].number \in tried
  BY <1>3, <1>6 DEF Numbered
<1>8. ASSUME NEW q \in Reporters, report'[q] # Idle
      PROVE  /\ report'[q].number \in 1 .. created
             /\ Locked(report'[q]) <=> report'[q].number \in tried
             /\ \A p \in Reporters \ {q} :
                  report'[p] # Idle => report'[p].number # report'[q].number
             /\ \A id \in DOMAIN files' : files'[id].number # report'[q].number
  <2>1. q # r /\ report'[q] = report[q] /\ report[q] # Idle
    BY <1>2, <1>8
  <2>2. files'[mine].number # report[q].number
    BY <1>1, <1>3, <2>1 DEF Numbered
  <2>3. \A id \in DOMAIN files' : files'[id].number # report[q].number
    BY <1>3, <2>1, <2>2 DEF Numbered
  <2>4. \A p \in Reporters \ {q} :
          report'[p] # Idle => report'[p].number # report'[q].number
    BY <1>2, <2>1 DEF Numbered
  <2> QED  BY <2>1, <2>3, <2>4 DEF Numbered
<1>9. Numbered'
  BY <1>2, <1>7, <1>8 DEF Numbered
<1> QED  BY <1>4, <1>5, <1>9

LEMMA ResponseNotSaved ==
    ASSUME Response, NEW r \in Reporters, NotSaved(r)
    PROVE  ResponseUnderWay' /\ Numbered' /\ FilesComplete'
<1> USE DEF Response
<1>1. /\ UNCHANGED <<files, snapshots, tried, created>> /\ report'[r] = Idle
      /\ \A q \in Reporters \ {r} : report'[q] = report[q]
  BY DEF NotSaved, IncidentTyped
<1>2. ResponseUnderWay'
  BY <1>1, OthersUnderWay DEF Idle
<1>3. Numbered'
  BY <1>1, NumberedByOthers
<1> QED  BY <1>1, <1>2, <1>3 DEF FilesComplete

LEMMA ResponseStep ==
    ASSUME Response, [Next]_vars
    PROVE  Response'
<1>1. ASSUME UNCHANGED <<report, files, snapshots, tried, created>>
      PROVE  ResponseUnderWay' /\ Numbered' /\ FilesComplete'
  BY <1>1 DEF Response, ResponseUnderWay, Numbered, FilesComplete
<1>2. ASSUME RespondersEnd PROVE ResponseUnderWay' /\ Numbered' /\ FilesComplete'
  <2>1. /\ \A r \in Reporters : report'[r] = Idle /\ report'[r].step = "idle"
        /\ UNCHANGED <<files, snapshots, tried, created>>
    BY <1>2 DEF RespondersEnd, Idle
  <2> QED  BY <2>1 DEF Response, ResponseUnderWay, Numbered, FilesComplete
<1>3. UNCHANGED incidentVars \/ SecondPasses
         => UNCHANGED <<report, files, snapshots, tried, created>>
  BY DEF incidentVars, SecondPasses
<1>4. ASSUME NEW r \in Reporters, Incident(r)
      PROVE  ResponseUnderWay' /\ Numbered' /\ FilesComplete'
  BY <1>4, ResponseCreated, ResponseLocked, ResponseSnapshot, ResponseSaved, ResponseNotSaved
     DEF Incident
<1>5. IncidentTyped'
  BY IncidentTypedStep DEF Response
<1> QED  BY <1>1, <1>2, <1>3, <1>4, <1>5, LifeOfResponders DEF Response

(* A critical incident on file has its snapshot, and any incident on file  *)
(* lists the lock exactly when one was tried for it, as it was for a       *)
(* critical one where lockdown is enabled: the steps come in this order,   *)
(* and no file takes the actions of another incident, whatever other       *)
(* incidents, waits, failures or crashes come in between.                  *)
THEOREM ResponsesAreComplete == Spec => []ResponseOnFile
<1>1. Init => Response
  BY ResponseInit
<1>2. Response /\ [Next]_vars => Response'
  BY ResponseStep
<1>3. Response => ResponseOnFile
  BY DEF Response, FilesComplete, Numbered, Locked, ResponseOnFile
<1> QED  BY <1>1, <1>2, <1>3, PTL DEF Spec

-----------------------------------------------------------------------------
(* There are names for all adapters.                                       *)
LEMMA NamesSuffice ==
    \E f \in [Adapters -> Names] : \A a, b \in Adapters : a # b => f[a] # f[b]
<1> DEFINE A == Cardinality(Adapters)
           N == Cardinality(Names)
<1>1. A \in Nat /\ N \in Nat /\ A <= N
  BY GuardAssumption, FS_CardinalityType DEF GuardAssumption
<1>2. ExistsBijection(1 .. A, Adapters) /\ ExistsBijection(1 .. N, Names)
  BY GuardAssumption, FS_CardinalityType DEF GuardAssumption
<1>3. PICK g \in Bijection(Adapters, 1 .. A) : TRUE
  BY <1>2, Fun_ExistsBijSymmetric DEF ExistsBijection
<1>4. PICK h \in Bijection(1 .. N, Names) : TRUE
  BY <1>2 DEF ExistsBijection
<1>5. /\ g \in [Adapters -> 1 .. A] /\ \A a, b \in Adapters : g[a] = g[b] => a = b
      /\ h \in [1 .. N -> Names] /\ \A i, j \in 1 .. N : h[i] = h[j] => i = j
  BY <1>3, <1>4 DEF Bijection, Injection, IsInjective
<1>6. \A a \in Adapters : g[a] \in 1 .. N
  BY <1>1, <1>5
<1> DEFINE f == [a \in Adapters |-> h[g[a]]]
<1>7. f \in [Adapters -> Names]
  BY <1>5, <1>6
<1>8. \A a, b \in Adapters : a # b => f[a] # f[b]
  BY <1>5, <1>6
<1> QED  BY <1>7, <1>8

LEMMA KeptInit == Init => Kept
<1> SUFFICES ASSUME Init PROVE Kept
  OBVIOUS
<1>1. name \in [Adapters -> Names]
  BY NamesSuffice DEF Init, GuardInit
<1>2. DOMAIN isolators = {}
  BY DEF Init, GuardInit, NoIsolators
<1>3. GuardTyped
  BY <1>1, <1>2 DEF Init, GuardInit, GuardTyped
<1>4. /\ proc = "starting" /\ netns = {} /\ cleaned = {} /\ iterated = {}
      /\ ~Stopping
  BY DEF Init, GuardInit, Stopping
<1>5. Owned /\ GivenBack
  BY <1>4 DEF Owned, NamespacesOwned, GivenBack
<1> QED  BY <1>3, <1>5 DEF Kept

-----------------------------------------------------------------------------
LEMMA TasksAre ==
    ASSUME GuardTyped, NEW t \in Tasks
    PROVE  /\ task[t] \in InTask \cup {Resting}
           /\ Busy(t) => task[t] \in InTask /\ task[t].name \in Names
BY DEF GuardTyped, Busy, InTask

(* ip netns delete moves adapters out of that namespace and no other.      *)
LEMMA DeleteMoves ==
    ASSUME GuardTyped, NEW n \in Names, DeleteNetns(n)
    PROVE  /\ netns' = netns \ {n}
           /\ where' \in [Adapters -> Names \cup {New, Host, Gone}]
           /\ name' \in [Adapters -> Names]
           /\ \A a \in Adapters : /\ where[a] # n => where'[a] = where[a]
                                  /\ where[a] = n => where'[a] = Host
                                  /\ where'[a] # n
<1>1. Host \notin Names
  BY GuardAssumption DEF GuardAssumption
<1> QED  BY <1>1 DEF DeleteNetns, Released, GuardTyped

LEMMA GuardTypedStep ==
    ASSUME GuardTyped, [Next]_vars
    PROVE  GuardTyped'
<1> USE DEF GuardTyped
<1>1. ASSUME NEW a \in Adapters, Plug(a) PROVE GuardTyped'
  BY <1>1 DEF Plug, FreeNames, lifeVars, stopVars
<1>2. ASSUME NEW a \in Adapters, Unplug(a) PROVE GuardTyped'
  BY <1>2 DEF Unplug, lifeVars, stopVars
<1>3. ASSUME NEW t \in Tasks, NEW a \in Adapters, IsolateInterface(t, a) PROVE GuardTyped'
  <2>1. [step |-> "add", name |-> name[a]] \in InTask
    BY DEF InTask
  <2> QED  BY <1>3, <2>1 DEF IsolateInterface, lifeVars, stopVars, kernelVars
<1>4. ASSUME NEW t \in Tasks, NEW step \in {"add", "move", "mark", "clean"}, At(t, step)
      PROVE  /\ task[t] \in InTask /\ task[t].name \in Names
             /\ \A s \in {"add", "move", "mark", "clean"} :
                  [task EXCEPT ![t].step = s] \in [Tasks -> InTask \cup {Resting}]
  <2>1. task[t] \in InTask /\ task[t].name \in Names
    BY <1>4, TasksAre DEF At, Busy
  <2> QED  BY <2>1 DEF InTask
<1>5. ASSUME NEW t \in Tasks, AddNetns(t) PROVE GuardTyped'
  <2>1. task' \in [Tasks -> InTask \cup {Resting}] /\ task[t].name \in Names
    BY <1>4, <1>5 DEF AddNetns, Go
  <2> QED  BY <1>5, <2>1 DEF AddNetns, lifeVars, stopVars
<1>6. ASSUME NEW t \in Tasks, MoveInterface(t) PROVE GuardTyped'
  <2>1. task[t].name \in Names
    BY <1>4, <1>6 DEF MoveInterface
  <2>2. task' \in [Tasks -> InTask \cup {Resting}]
    BY <1>4, <1>6 DEF MoveInterface, Go
  <2>3. where' \in [Adapters -> Names \cup {New, Host, Gone}]
    BY <1>6, <2>1 DEF MoveInterface
  <2> QED  BY <1>6, <2>2, <2>3 DEF MoveInterface, lifeVars, stopVars
<1>7. ASSUME NEW t \in Tasks, MarkIsolated(t) PROVE GuardTyped'
  <2>1. DOMAIN isolators' \subseteq Names
    BY <1>4, <1>7 DEF MarkIsolated, Register
  <2> QED  BY <1>7, <2>1 DEF MarkIsolated, lifeVars, stopVars, kernelVars
<1>8. ASSUME NEW t \in Tasks, CleanUpAfterFailure(t) PROVE GuardTyped'
  <2>1. DOMAIN isolators' \subseteq Names
    BY <1>4, <1>8 DEF CleanUpAfterFailure, Register
  <2>2. /\ netns' \subseteq Names /\ name' \in [Adapters -> Names]
        /\ where' \in [Adapters -> Names \cup {New, Host, Gone}]
    <3>1. task[t].name \in Names /\ DeleteNetns(task[t].name)
      BY <1>4, <1>8 DEF CleanUpAfterFailure
    <3> QED  BY <3>1, DeleteMoves
  <2> QED  BY <1>8, <2>1, <2>2 DEF CleanUpAfterFailure, lifeVars, stopVars
<1>9. CASE StartCompletes \/ StopBegins \/ CleanUpBegins \/ CleanUpEnds
  BY <1>9 DEF StartCompletes, StopBegins, CleanUpBegins, CleanUpEnds, NoIsolators, kernelVars
<1>10. ASSUME NEW n \in Names, CleanUp(n) PROVE GuardTyped'
  BY <1>10, DeleteMoves DEF CleanUp, lifeVars
<1>11. CASE StopEnds \/ StopBreaksOff \/ Restart
  BY <1>11 DEF StopEnds, StopBreaksOff, Restart, kernelVars
<1>12. CASE Crash
  BY <1>12 DEF Crash, NoIsolators, kernelVars
<1>13. ASSUME UNCHANGED guardVars PROVE GuardTyped'
  BY <1>13 DEF guardVars, lifeVars, kernelVars
<1>14. UNCHANGED vars \/ Clock \/ (\E r \in Reporters : Reporting(r)) => UNCHANGED guardVars
  BY DEF vars, Clock, Reporting
<1> QED  BY <1>1, <1>2, <1>3, <1>5, <1>6, <1>7, <1>8, <1>9, <1>10, <1>11, <1>12, <1>13, <1>14
         DEF Next, Isolate

-----------------------------------------------------------------------------
LEMMA Places == {New, Host, Gone} \cap Names = {} /\ New # Gone /\ Host # Gone
BY GuardAssumption DEF GuardAssumption

(* The interface of an adapter that comes or goes is in no namespace.      *)
LEMMA KeptByKernel ==
    ASSUME Kept, NEW a \in Adapters, Plug(a) \/ Unplug(a)
    PROVE  Owned' /\ GivenBack'
<1>1. /\ \A b \in Adapters : where'[b] = where[b] \/ where'[b] \in {Host, Gone}
      /\ UNCHANGED <<proc, netns, isolators, task, inherited, slipped, stopVars>>
  BY DEF Plug, Unplug, lifeVars, ghosts, Kept, GuardTyped
<1>2. Owned'
  BY <1>1 DEF Kept, Owned, NamespacesOwned
<1>3. GivenBack'
  BY <1>1, Places DEF Kept, GivenBack, Busy, Stopping, stopVars
<1> QED  BY <1>2, <1>3

LEMMA KeptIsolate ==
    ASSUME Kept, NEW t \in Tasks, NEW a \in Adapters, IsolateInterface(t, a)
    PROVE  Owned' /\ GivenBack'
<1>1. /\ task[t] = Resting /\ name[a] \in Names
      /\ task' = [task EXCEPT ![t] = [step |-> "add", name |-> name[a]]]
      /\ slipped' = IF Stopping THEN slipped \cup {name[a]} ELSE slipped
      /\ UNCHANGED <<proc, where, netns, isolators, inherited, cleaned, iterated, brokenOff>>
  BY DEF IsolateInterface, lifeVars, stopVars, kernelVars, Kept, GuardTyped
<1>2. task'[t].name = name[a] /\ \A u \in Tasks \ {t} : task'[u] = task[u]
  BY <1>1 DEF Kept, GuardTyped
<1>3. Owned'
  BY <1>1, <1>2 DEF Kept, Owned, NamespacesOwned
<1>4. Stopping' => \A u \in Tasks : Busy(u)' => task'[u].name \in slipped'
  BY <1>1, <1>2 DEF Kept, GivenBack, Busy, Stopping
<1>5. GivenBack'
  BY <1>1, <1>4 DEF Kept, GivenBack
<1> QED  BY <1>3, <1>5

(* A task at work: the process is alive, and if it stops the name is one   *)
(* that slipped through.                                                   *)
LEMMA AtMeans ==
    ASSUME Kept, NEW t \in Tasks, NEW step \in {"add", "move", "mark", "clean"}, At(t, step)
    PROVE  /\ Busy(t) /\ task[t] \in InTask /\ task[t].name \in Names
           /\ proc \notin {"stopped", "crashed"}
           /\ task[t].name \notin cleaned \ slipped
<1>1. Busy(t)
  BY DEF At, Busy
<1>2. proc \in {"starting", "running"} \/ Stopping
  BY DEF At, Active, Tasks, Stopping
<1>3. ~Stopping => cleaned = {}
  BY <1>2 DEF Stopping, Kept, GivenBack
<1>4. task[t].name \notin cleaned \ slipped
  BY <1>1, <1>3 DEF Kept, GivenBack
<1>5. proc \notin {"stopped", "crashed"}
  BY <1>2 DEF Stopping
<1> QED  BY <1>1, <1>4, <1>5, TasksAre DEF Kept

(* A step of a task that keeps its name, or with which it ends.            *)
LEMMA OtherTasks ==
    ASSUME Kept, NEW t \in Tasks, Busy(t), \A u \in Tasks \ {t} : task'[u] = task[u],
           task'[t] = Resting \/ task'[t].name = task[t].name, UNCHANGED <<proc, slipped>>
    PROVE  Stopping' => \A u \in Tasks : Busy(u)' => task'[u].name \in slipped'
BY DEF Kept, GivenBack, Busy, Stopping

LEMMA KeptAdd ==
    ASSUME Kept, NEW t \in Tasks, AddNetns(t)
    PROVE  Owned' /\ GivenBack'
<1> DEFINE n == task[t].name
<1>1. /\ Busy(t) /\ task[t] \in InTask /\ n \in Names /\ n \notin cleaned \ slipped
      /\ proc \notin {"stopped", "crashed"}
  BY AtMeans DEF AddNetns
<1>2. /\ netns' = netns \cup {n}
      /\ task' = [task EXCEPT ![t].step = IF n \in netns THEN "clean" ELSE "move"]
      /\ UNCHANGED <<proc, where, isolators, inherited, slipped, cleaned, iterated, brokenOff>>
  BY DEF AddNetns, Go, lifeVars, stopVars, ghosts
<1>3. /\ task'[t].name = n /\ task'[t] # Resting
      /\ \A u \in Tasks \ {t} : task'[u] = task[u]
  BY <1>1, <1>2 DEF InTask, Resting, Kept, GuardTyped
<1>4. Stopping' => \A u \in Tasks : Busy(u)' => task'[u].name \in slipped'
  BY <1>1, <1>2, <1>3, OtherTasks
<1> HIDE DEF n
<1>5. Owned'
  BY <1>1, <1>2, <1>3 DEF Kept, Owned, NamespacesOwned, n
<1>6. GivenBack'
  BY <1>1, <1>2, <1>4 DEF Kept, GivenBack
<1> QED  BY <1>5, <1>6

LEMMA KeptMove ==
    ASSUME Kept, NEW t \in Tasks, MoveInterface(t)
    PROVE  Owned' /\ GivenBack'
<1> DEFINE n == task[t].name
<1>1. /\ Busy(t) /\ task[t] \in InTask /\ n \in Names /\ n \notin cleaned \ slipped
      /\ proc \notin {"stopped", "crashed"}
  BY AtMeans DEF MoveInterface
<1>2. /\ \A a \in Adapters : where'[a] = where[a] \/ where'[a] = n
      /\ \E s : task' = [task EXCEPT ![t].step = s]
      /\ UNCHANGED <<proc, netns, isolators, inherited, slipped, cleaned, iterated, brokenOff>>
  BY DEF MoveInterface, Go, lifeVars, stopVars, ghosts, Kept, GuardTyped
<1>3. /\ task'[t].name = n /\ task'[t] # Resting
      /\ \A u \in Tasks \ {t} : task'[u] = task[u]
  BY <1>1, <1>2 DEF InTask, Resting, Kept, GuardTyped
<1>4. Stopping' => \A u \in Tasks : Busy(u)' => task'[u].name \in slipped'
  BY <1>1, <1>2, <1>3, OtherTasks
<1> HIDE DEF n
<1>5. Owned'
  BY <1>1, <1>2, <1>3 DEF Kept, Owned, NamespacesOwned, n
<1>6. GivenBack'
  BY <1>1, <1>2, <1>4 DEF Kept, GivenBack
<1> QED  BY <1>5, <1>6

(* The task ends, and the isolator is registered.                          *)
LEMMA KeptMark ==
    ASSUME Kept, NEW t \in Tasks, MarkIsolated(t)
    PROVE  Owned' /\ GivenBack'
<1> DEFINE n == task[t].name
<1>1. Busy(t) /\ n \in Names /\ proc \notin {"stopped", "crashed"}
  BY AtMeans DEF MarkIsolated
<1>2. /\ DOMAIN isolators' = DOMAIN isolators \cup {n} /\ task' = [task EXCEPT ![t] = Resting]
      /\ UNCHANGED <<proc, where, netns, inherited, slipped, cleaned, iterated, brokenOff>>
  BY DEF MarkIsolated, Register, lifeVars, stopVars, kernelVars, ghosts
<1>3. task'[t] = Resting /\ \A u \in Tasks \ {t} : task'[u] = task[u]
  BY <1>2 DEF Kept, GuardTyped
<1>4. Stopping' => \A u \in Tasks : Busy(u)' => task'[u].name \in slipped'
  BY <1>1, <1>2, <1>3, OtherTasks
<1> HIDE DEF n
<1>5. Owned'
  BY <1>1, <1>2, <1>3 DEF Kept, Owned, NamespacesOwned, n
<1>6. GivenBack'
  BY <1>1, <1>2, <1>4 DEF Kept, GivenBack
<1> QED  BY <1>5, <1>6

LEMMA KeptAfterFailure ==
    ASSUME Kept, NEW t \in Tasks, CleanUpAfterFailure(t)
    PROVE  Owned' /\ GivenBack'
<1> DEFINE n == task[t].name
<1>1. Busy(t) /\ n \in Names /\ proc \notin {"stopped", "crashed"}
  BY AtMeans DEF CleanUpAfterFailure
<1>2. /\ DOMAIN isolators' = DOMAIN isolators \cup {n} /\ task' = [task EXCEPT ![t] = Resting]
      /\ DeleteNetns(n)
      /\ UNCHANGED <<proc, inherited, slipped, cleaned, iterated, brokenOff>>
  BY DEF CleanUpAfterFailure, Register, lifeVars, stopVars, ghosts
<1>3. task'[t] = Resting /\ \A u \in Tasks \ {t} : task'[u] = task[u]
  BY <1>2 DEF Kept, GuardTyped
<1>4. Stopping' => \A u \in Tasks : Busy(u)' => task'[u].name \in slipped'
  BY <1>1, <1>2, <1>3, OtherTasks
<1>5. /\ netns' \subseteq netns
      /\ \A a \in Adapters : where'[a] = where[a] \/ where'[a] = Host
  BY <1>1, <1>2, DeleteMoves DEF Kept
<1> HIDE DEF n
<1>6. Owned'
  BY <1>1, <1>2, <1>3, <1>5 DEF Kept, Owned, NamespacesOwned, n
<1>7. GivenBack'
  BY <1>1, <1>2, <1>4, <1>5, Places DEF Kept, GivenBack
<1> QED  BY <1>6, <1>7

LEMMA KeptCleanUp ==
    ASSUME Kept, NEW n \in Names, CleanUp(n)
    PROVE  Owned' /\ GivenBack'
<1>1. /\ proc = "cleanup" /\ n \in iterated /\ cleaned' = cleaned \cup {n} /\ DeleteNetns(n)
      /\ UNCHANGED <<proc, isolators, task, inherited, slipped, iterated, brokenOff>>
  BY DEF CleanUp, lifeVars, ghosts
<1>2. /\ netns' = netns \ {n}
      /\ \A a \in Adapters : where'[a] # n /\ (where'[a] = where[a] \/ where'[a] = Host)
  BY <1>1, DeleteMoves DEF Kept
<1>3. Owned'
  BY <1>1 DEF Owned, NamespacesOwned
<1>4. \A m \in cleaned' \ slipped : m \notin netns' /\ \A a \in Adapters : where'[a] # m
  BY <1>1, <1>2, Places DEF Kept, GivenBack
<1>5. Stopping' => \A u \in Tasks : Busy(u)' => task'[u].name \in slipped'
  BY <1>1 DEF Kept, GivenBack, Busy, Stopping
<1> QED  BY <1>1, <1>3, <1>4, <1>5 DEF Kept, GivenBack

(* The steps of stop() and of the end of the process.                      *)
LEMMA KeptStop ==
    ASSUME Kept, StopBegins \/ CleanUpBegins \/ CleanUpEnds \/ StopEnds \/ StopBreaksOff
    PROVE  Owned' /\ GivenBack'
<1>1. CASE StopBegins
  <2>1. /\ proc = "running" /\ proc' = "stopping" /\ cleaned = {}
        /\ UNCHANGED <<where, netns, cleaned, iterated, brokenOff>>
    BY <1>1 DEF StopBegins, kernelVars, stopVars, Kept, GivenBack
  <2>2. \A u \in Tasks : Busy(u)' => task'[u].name \in slipped'
    <3> SUFFICES ASSUME NEW u \in Tasks, Busy(u)' PROVE task'[u].name \in slipped'
      OBVIOUS
    <3>1. Busy(u) /\ task'[u] = task[u]
      BY <1>1 DEF StopBegins, Busy, Kept, GuardTyped
    <3> QED  BY <1>1, <3>1 DEF StopBegins, Busy
  <2> QED  BY <2>1, <2>2 DEF Kept, Owned, NamespacesOwned, GivenBack
<1>2. CASE CleanUpBegins
  <2>1. /\ proc = "stopping" /\ proc' = "cleanup" /\ cleaned' = {} /\ iterated' \subseteq Names
        /\ UNCHANGED <<task, slipped>>
    BY <1>2 DEF CleanUpBegins, ghosts, Kept, GuardTyped
  <2> QED  BY <2>1 DEF Kept, Owned, NamespacesOwned, GivenBack, Stopping, Busy
<1>3. CASE CleanUpEnds
  <2>1. /\ proc = "cleanup" /\ proc' = "closing" /\ cleaned = iterated
        /\ UNCHANGED <<where, netns, cleaned, iterated, task, slipped>>
    BY <1>3 DEF CleanUpEnds, kernelVars, stopVars, ghosts
  <2> QED  BY <2>1 DEF Kept, Owned, NamespacesOwned, GivenBack, Stopping, Busy
<1>4. CASE StopEnds
  <2>1. /\ proc = "closing" /\ proc' = "stopped"
        /\ UNCHANGED <<where, netns, cleaned, iterated, brokenOff, slipped>>
    BY <1>4 DEF StopEnds, kernelVars, stopVars, ghosts
  <2> QED  BY <2>1 DEF Kept, Owned, NamespacesOwned, GivenBack, Stopping
<1>5. CASE StopBreaksOff
  <2>1. /\ proc' = "stopped" /\ brokenOff' = TRUE
        /\ UNCHANGED <<where, netns, cleaned, iterated, slipped>>
    BY <1>5 DEF StopBreaksOff, kernelVars, ghosts
  <2> QED  BY <2>1 DEF Kept, Owned, NamespacesOwned, GivenBack, Stopping
<1> QED  BY <1>1, <1>2, <1>3, <1>4, <1>5

LEMMA KeptStep ==
    ASSUME Kept, [Next]_vars
    PROVE  Kept'
<1>1. GuardTyped'
  BY GuardTypedStep DEF Kept
<1> SUFFICES Owned' /\ GivenBack'
  BY <1>1 DEF Kept
<1>2. CASE StartCompletes
  <2>1. /\ proc = "starting" /\ proc' = "running"
        /\ UNCHANGED <<where, netns, isolators, task, inherited, slipped, cleaned, iterated>>
    BY <1>2 DEF StartCompletes, kernelVars, stopVars, ghosts
  <2> QED  BY <2>1 DEF Kept, Owned, NamespacesOwned, GivenBack, Stopping
<1>3. CASE Crash
  <2>1. proc' = "crashed" /\ cleaned' = {} /\ iterated' = {} /\ inherited' = netns'
    BY <1>3 DEF Crash, kernelVars
  <2> QED  BY <2>1 DEF Owned, NamespacesOwned, GivenBack, Stopping
<1>4. CASE Restart
  <2>1. /\ proc = "crashed" /\ proc' = "starting"
        /\ UNCHANGED <<where, netns, inherited, slipped, cleaned, iterated>>
    BY <1>4 DEF Restart, kernelVars, stopVars, ghosts
  <2> QED  BY <2>1 DEF Kept, Owned, NamespacesOwned, GivenBack, Stopping
<1>5. ASSUME UNCHANGED guardVars PROVE Owned' /\ GivenBack'
  BY <1>5 DEF guardVars, lifeVars, kernelVars, stopVars, ghosts, Kept, Owned, NamespacesOwned,
              GivenBack, Stopping, Busy
<1>6. UNCHANGED vars \/ Clock \/ (\E r \in Reporters : Reporting(r)) => UNCHANGED guardVars
  BY DEF vars, Clock, Reporting
<1>7. ASSUME NEW t \in Tasks, Isolate(t) PROVE Owned' /\ GivenBack'
  BY <1>7, KeptAdd, KeptMove, KeptMark, KeptAfterFailure DEF Isolate
<1> QED  BY <1>2, <1>3, <1>4, <1>5, <1>6, <1>7, KeptByKernel, KeptIsolate, KeptCleanUp,
            KeptStop DEF Next

(* Up to stop(), a namespace this process has made is registered with its  *)
(* manager or still at work in a task, although isolate() fails halfway,   *)
(* tasks isolate interfaces of one name at a time and isolators are taken  *)
(* again for other adapters: no name is lost that stop() has to clean up.  *)
THEOREM NamespacesAreOwned == Spec => []NamespacesOwned
<1>1. Init => Kept
  BY KeptInit
<1>2. Kept /\ [Next]_vars => Kept'
  BY KeptStep
<1>3. Kept => NamespacesOwned
  BY DEF Kept, Owned
<1> QED  BY <1>1, <1>2, <1>3, PTL DEF Spec

(* A stop() that runs to its end leaves no namespace of a name it knew     *)
(* when it began to clean up, and no adapter in one, although analyses go  *)
(* on isolating up to the end; but for the names they or the cancelled     *)
(* processor were at work on since stop() began.                           *)
THEOREM CompleteStopGivesBack == Spec => []StopGivesBack
<1>1. Init => Kept
  BY KeptInit
<1>2. Kept /\ [Next]_vars => Kept'
  BY KeptStep
<1>3. Kept => StopGivesBack
  BY DEF Kept, GivenBack, StopGivesBack
<1> QED  BY <1>1, <1>2, <1>3, PTL DEF Spec
=============================================================================
