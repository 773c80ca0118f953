------------------------------ MODULE Incidents ------------------------------
(***************************************************************************)
(* The IncidentResponder of forensics/incident.py: tasks of the daemon     *)
(* create incidents, respond to them with waits in between and write one   *)
(* file for each.  The id is the second and a counter of the process;      *)
(* nothing looks whether a file of that name is there.                     *)
(*                                                                         *)
(* update_incident, get_active_incidents and list_all_incidents have no    *)
(* caller in the program, so that nothing reads _active_incidents.  Time   *)
(* is counted in seconds.                                                  *)
(***************************************************************************)
EXTENDS Integers, FiniteSets

CONSTANTS Reporters,    \* tasks that may create an incident
          Scores,       \* the scores they report
          Lockdown,     \* enable_lockdown
          MaxSeconds, MaxIncidents  \* bound a run

ASSUME IncidentAssumption ==
    /\ Scores \subseteq Nat
    /\ Lockdown \in BOOLEAN
    /\ MaxSeconds \in Nat /\ MaxIncidents \in Nat

VARIABLES second,    \* the clock
          counter,   \* _incident_counter
          report,    \* what each reporter is at
          files,     \* id -> the incident on file
          snapshots, \* ids with a snapshot directory
          tried,     \* ghost: numbers of those for which a lock was tried
          created    \* ghost: number of incidents, which names each of them

incidentVars == <<second, counter, report, files, snapshots, tried, created>>

IncidentIds == (0 .. MaxSeconds) \X (1 .. MaxIncidents)
Severities == {"LOW", "MEDIUM", "HIGH", "CRITICAL"}
Steps == {"lock", "snapshot", "save"}
Idle == [step |-> "idle"]

IncidentTypeOK ==
    /\ second \in 0 .. MaxSeconds
    /\ counter \in 0 .. MaxIncidents /\ created \in 0 .. MaxIncidents
    /\ snapshots \subseteq IncidentIds
    /\ tried \subseteq 1 .. MaxIncidents
    /\ DOMAIN files \subseteq IncidentIds
    /\ \A r \in Reporters :
         report[r] = Idle \/
         report[r] \in [step : Steps, id : IncidentIds, number : 1 .. MaxIncidents,
                        severity : Severities,
                        actions : SUBSET {"locked_all_screens", "snapshot_created"}]

IncidentInit ==
    /\ second = 0 /\ counter = 0 /\ created = 0
    /\ report = [r \in Reporters |-> Idle]
    /\ snapshots = {} /\ tried = {}
    /\ files = [id \in {} |-> 0]

Severity(score) ==
    IF score >= 90 THEN "CRITICAL"
    ELSE IF score >= 70 THEN "HIGH"
    ELSE IF score >= 40 THEN "MEDIUM"
    ELSE "LOW"

FirstStepBug(severity) ==  \* the lock belongs to HIGH alone
    IF severity = "HIGH" /\ Lockdown THEN "lock"
    ELSE IF severity = "CRITICAL" THEN "snapshot"
    ELSE "save"

(* What _execute_response starts with                                      *)
FirstStep(severity) ==
    IF severity \in {"HIGH", "CRITICAL"} /\ Lockdown THEN "lock"
    ELSE IF severity = "CRITICAL" THEN "snapshot"
    ELSE "save"

(* _generate_incident_id                                                   *)
NewId == <<second, counter + 1>>

CreateIncident(r) ==
    /\ report[r] = Idle /\ created < MaxIncidents
    /\ \E score \in Scores :
         report' = [report EXCEPT ![r] =
             [step |-> FirstStep(Severity(score)), id |-> NewId, number |-> created + 1,
              severity |-> Severity(score), actions |-> {}]]
    /\ counter' = counter + 1
    /\ created' = created + 1
    /\ UNCHANGED <<second, files, snapshots, tried>>

(* _lock_all_screens tries four commands, of which none need work.  It     *)
(* returns nothing and changes nothing of the daemon's: when it ends with  *)
(* "Could not lock screen with any method", the action counts as taken     *)
(* all the same.                                                           *)
LockScreens(r) ==
    /\ report[r].step = "lock"
    /\ tried' = tried \cup {report[r].number}
    /\ report' = [report EXCEPT
         ![r].step = IF report[r].severity = "CRITICAL" THEN "snapshot" ELSE "save",
         ![r].actions = @ \cup {"locked_all_screens"}]
    /\ UNCHANGED <<second, counter, files, snapshots, created>>

(* The directory is made first; what cannot be captured is only logged.    *)
Snapshot(r) ==
    /\ report[r].step = "snapshot"
    /\ snapshots' = snapshots \cup {report[r].id}
    /\ report' = [report EXCEPT ![r].step = "save", ![r].actions = @ \cup {"snapshot_created"}]
    /\ UNCHANGED <<second, counter, files, tried, created>>

(* The directory cannot be made, an exception that ends create_incident(), *)
(* or the file cannot be written, which is logged.                         *)
NotSaved(r) ==
    /\ report[r].step \in {"snapshot", "save"}
    /\ report' = [report EXCEPT ![r] = Idle]
    /\ UNCHANGED <<second, counter, files, snapshots, tried, created>>

SaveIncident(r) ==
    /\ report[r].step = "save"
    /\ files' = [id \in DOMAIN files \cup {report[r].id} |->
                   IF id = report[r].id
                   THEN [number |-> report[r].number, severity |-> report[r].severity,
                         actions |-> report[r].actions]
                   ELSE files[id]]
    /\ report' = [report EXCEPT ![r] = Idle]
    /\ UNCHANGED <<second, counter, snapshots, tried, created>>

Incident(r) ==
    \/ CreateIncident(r) \/ LockScreens(r)
    \/ Snapshot(r) \/ NotSaved(r) \/ SaveIncident(r)

SecondPasses ==
    /\ second < MaxSeconds
    /\ second' = second + 1
    /\ UNCHANGED <<counter, report, files, snapshots, tried, created>>

(* The process ends: the files stay, the counter starts again.             *)
RespondersEnd ==
    /\ report' = [r \in Reporters |-> Idle]
    /\ counter' = 0
    /\ UNCHANGED <<second, files, snapshots, tried, created>>

-----------------------------------------------------------------------------
(* Nothing is written over: no two incidents, of one process or of one and *)
(* the process that replaced it, share an id.  On file or under way, each  *)
(* has a name of its own.                                                  *)
OwnIncidentFile ==
    /\ \A r \in Reporters : report[r] # Idle =>
         /\ report[r].id \notin DOMAIN files
         /\ \A q \in Reporters \ {r} : report[q] # Idle => report[q].id # report[r].id

(* A critical incident on file has its snapshot, and where lockdown is     *)
(* enabled it lists locked_all_screens, which stands for no more than the  *)
(* attempt: made for this incident, before its file was written, although  *)
(* others were handled and the process may have been replaced in between.  *)
(* That the screens were locked is not claimed, whatever the name says.    *)
ResponseOnFile ==
    \A id \in DOMAIN files :
        LET incident == files[id] IN
        /\ incident.severity = "CRITICAL" =>
             id \in snapshots /\ (Lockdown => "locked_all_screens" \in incident.actions)
        /\ "locked_all_screens" \in incident.actions <=> incident.number \in tried
=============================================================================
