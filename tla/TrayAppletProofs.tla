-------------------------- MODULE TrayAppletProofs --------------------------
(***************************************************************************)
(* What a user's commands do to policy.json and to a stick, beside the     *)
(* daemon and the applet: only what somebody asked for is listed, nothing  *)
(* that was added is lost undisturbed, and preview approves no stick whose *)
(* malware its scan has read; for any devices and any number of commands,  *)
(* restarts and notifications.                                             *)
(***************************************************************************)
EXTENDS TrayApplet, TLAPS

(* The file and the daemon hold only entries of devices asked for.         *)
AskedEntries == {EntryOf(a) : a \in asked}
ListAsked == policy.entries \cup listed \subseteq AskedEntries

(* An entry on its way to the file was asked for when its command was      *)
(* typed, and what is written with it comes from the file.                 *)
AskedInHand ==
    \A p \in Processes :
        /\ At(p, "authorize") /\ command[p].permanent => command[p].device \in asked
        /\ At(p, "policy") \/ Changing(p) => command[p].device \in asked
        /\ command[p] # NoCommand => command[p].entries \subseteq AskedEntries

(* Undisturbed, one command at most is between reading the file and having *)
(* written it, and it holds everything that was added.                     *)
OneChanges ==
    ~disturbed =>
        /\ \A p, q \in Processes : Changing(p) /\ Changing(q) => p = q
        /\ \A p \in Processes : Changing(p) => added \subseteq command[p].entries

(* What a scan has read to its end and found infected is known by then.    *)
ScanRemembers ==
    \A p \in Processes :
        /\ At(p, "makeDir") \/ At(p, "mount") => command[p].scanned = NoDevice
        /\ At(p, "parse") /\ command[p].scanned \in Infected => command[p].found
        /\ At(p, "approve") => command[p].scanned \notin Infected

Typed ==
    /\ CommandTypeOK /\ listed \subseteq Entries
    /\ ListAsked /\ AskedInHand

-----------------------------------------------------------------------------
(* The steps, by whose they are                                            *)
Begins(p) == (\E permanent \in BOOLEAN : Allow(p, permanent)) \/ Deny(p) \/ Preview(p)
OthersStep ==  \* of the applet and the daemon
    UNCHANGED commandVars /\ (UNCHANGED listed \/ LoadPolicy \/ DaemonStops)
StickMoves == Unplug \/ AnalysisEnds \/ \E d \in Devices : Plug(d)
CommandStep(p) == (Begins(p) \/ Works(p) \/ Killed(p)) /\ UNCHANGED listed

LEMMA StepIsOf ==
    ASSUME [Next]_vars
    PROVE  OthersStep \/ StickMoves \/ \E p \in Processes : CommandStep(p)
<1>1. CASE Tray
  BY <1>1 DEF Tray, LoadPolicy, Connect, ServerForgets, ConnectionEnds, Ask, DialogTimesOut,
              OthersStep
<1>2. CASE Answer
  BY <1>2, TrayAssumption DEF Answer, CommandStep, Begins
<1>3. CASE UserTypes
  BY <1>3, TrayAssumption DEF UserTypes, CommandStep, Begins, trayVars
<1>4. CASE DaemonStops
  BY <1>4 DEF DaemonStops, OthersStep
<1>5. CASE Unplug \/ AnalysisEnds \/ \E d \in Devices : Plug(d)
  BY <1>5 DEF StickMoves
<1>6. CASE \E p \in Processes : Working(p)
  BY <1>6 DEF Working, CommandStep, trayVars
<1>7. CASE UNCHANGED vars
  BY <1>7 DEF vars, trayVars, OthersStep
<1>8. QED
  BY <1>1, <1>2, <1>3, <1>4, <1>5, <1>6, <1>7 DEF Next

(* A stick that comes or goes leaves the file and the commands alone.      *)
LEMMA StickMovesAlone ==
    ASSUME StickMoves
    PROVE  UNCHANGED <<policyVars, previewVars, command, listed>>
BY DEF StickMoves, Unplug, AnalysisEnds, Plug, trayVars

LEMMA FreshCommand ==
    ASSUME CommandTypeOK, NEW permanent \in BOOLEAN, NEW step \in {"authorize", "deny", "makeDir"}
    PROVE  NewCommand(step, permanent) \in Commands
BY DEF CommandTypeOK, NewCommand, Commands

(* A step of a command changes no other.                                   *)
LEMMA OneCommandSteps ==
    ASSUME CommandTypeOK, NEW p \in Processes, CommandStep(p)
    PROVE  \E c \in Commands \cup {NoCommand} : command' = [command EXCEPT ![p] = c]
<1>1. CASE Begins(p)
  BY <1>1, FreshCommand DEF Begins, Allow, Deny, Preview
<1>2. CASE Works(p)
  <2>1. command[p] \in Commands
    BY <1>2 DEF CommandTypeOK, Works, At, Deauthorize, Authorize, ReadPolicy, TruncatePolicy,
                DumpPolicy, MakeMountDir, MountForScan, RunScan, ParseScan, ScanTimesOut, Approve
  <2>2. CASE Deauthorize(p) \/ Authorize(p) \/ TruncatePolicy(p) \/ DumpPolicy(p)
             \/ MakeMountDir(p) \/ ParseScan(p) \/ Approve(p)
    <3>1. \A step \in {"policy", "dump", "mount", "approve"} :
              [command[p] EXCEPT !.step = step] \in Commands
      BY <2>1 DEF Commands
    <3>2. \/ Ends(p)
          \/ \E step \in {"policy", "dump", "mount", "approve"} : Goes(p, step)
      BY <2>2 DEF Deauthorize, Authorize, TruncatePolicy, DumpPolicy, MakeMountDir, ParseScan,
                  Approve
    <3>3. QED
      BY <3>1, <3>2 DEF Ends, Goes
  <2>3. CASE ReadPolicy(p)
    <3>1. [command[p] EXCEPT !.step = "truncate", !.entries = policy.entries] \in Commands
      BY <2>1 DEF Commands, CommandTypeOK
    <3>2. CASE Ends(p)
      BY <3>2 DEF Ends
    <3>3. CASE command' = [command EXCEPT ![p].step = "truncate", ![p].entries = policy.entries]
      <4>1. command' = [command EXCEPT ![p] =
                          [command[p] EXCEPT !.step = "truncate", !.entries = policy.entries]]
        BY <2>1, <3>3 DEF Commands, CommandTypeOK
      <4>2. QED
        BY <3>1, <4>1
    <3>4. QED
      BY <2>3, <3>2, <3>3 DEF ReadPolicy
  <2>4. CASE MountForScan(p)
    <3>1. /\ [command[p] EXCEPT !.step = "scan", !.scanned = here] \in Commands
          /\ [command[p] EXCEPT !.step = "parse"] \in Commands
      BY <2>1 DEF Commands, CommandTypeOK
    <3>2. CASE Goes(p, "parse")
      <4>1. command' = [command EXCEPT ![p] = [command[p] EXCEPT !.step = "parse"]]
        BY <3>2, SMT DEF Goes
      <4>2. QED
        BY <3>1, <4>1
    <3>3. CASE command' = [command EXCEPT ![p].step = "scan", ![p].scanned = here]
      <4>1. command' = [command EXCEPT ![p] =
                          [command[p] EXCEPT !.step = "scan", !.scanned = here]]
        BY <2>1, <3>3 DEF Commands, CommandTypeOK
      <4>2. QED
        BY <3>1, <4>1
    <3>4. QED
      BY <2>4, <3>2, <3>3 DEF MountForScan
  <2>5. CASE RunScan(p)
    <3> DEFINE reads == here = command[p].scanned /\ on /\ mountDir
               after == [command[p] EXCEPT !.step = "parse",
                           !.scanned = IF reads THEN @ ELSE NoDevice,
                           !.found = reads /\ here \in Infected]
    <3>1. reads \in BOOLEAN /\ (reads /\ here \in Infected) \in BOOLEAN
      OBVIOUS
    <3>2. after \in Commands
      BY <2>1, <3>1 DEF Commands
    <3>3. QED
      BY <2>5, <3>2 DEF RunScan
  <2>6. CASE ScanTimesOut(p)
    <3>1. [command[p] EXCEPT !.step = "approve", !.scanned = NoDevice] \in Commands
      BY <2>1 DEF Commands
    <3>2. QED
      BY <2>6, <3>1 DEF ScanTimesOut
  <2>7. QED
    BY <1>2, <2>2, <2>3, <2>4, <2>5, <2>6 DEF Works
<1>3. CASE Killed(p)
  BY <1>3 DEF Killed, Ends
<1>4. QED
  BY <1>1, <1>2, <1>3 DEF CommandStep

LEMMA OthersAreUnchanged ==
    ASSUME CommandTypeOK, NEW p \in Processes, NEW c, command' = [command EXCEPT ![p] = c]
    PROVE  command'[p] = c /\ \A q \in Processes \ {p} : command'[q] = command[q]
BY DEF CommandTypeOK

LEMMA GoesTo ==
    ASSUME CommandTypeOK, NEW p \in Processes, NEW step, Goes(p, step), command[p] \in Commands
    PROVE  /\ command'[p].step = step
           /\ command'[p].entries = command[p].entries
           /\ command'[p].device = command[p].device
           /\ command'[p].scanned = command[p].scanned
           /\ command'[p].found = command[p].found
BY DEF CommandTypeOK, Goes, Commands

LEMMA NewCommandFields ==
    ASSUME NEW step, NEW permanent
    PROVE  /\ NewCommand(step, permanent).step = step
           /\ permanent => NewCommand(step, permanent).device = here
           /\ NewCommand(step, permanent).permanent = permanent
           /\ NewCommand(step, permanent).entries = {}
           /\ NewCommand(step, permanent).scanned = NoDevice
BY DEF NewCommand

-----------------------------------------------------------------------------
LEMMA TypedInit == Init => Typed
<1> SUFFICES ASSUME Init
             PROVE  Typed
  OBVIOUS
<1>1. \A p \in Processes : command[p] = NoCommand
  BY DEF Init, CommandInit
<1>2. policy.entries = {} /\ policy \in [entries : SUBSET Entries, whole : BOOLEAN]
  BY DEF Init, CommandInit
<1>3. CommandTypeOK
  BY <1>2 DEF Init, CommandInit, CommandTypeOK
<1>4. AskedInHand
  BY <1>1 DEF AskedInHand, At, Changing
<1>5. QED
  BY <1>2, <1>3, <1>4 DEF Init, Typed, ListAsked

LEMMA CommandTypedStep ==
    ASSUME Typed, NEW p \in Processes, CommandStep(p)
    PROVE  CommandTypeOK'
<1>1. CommandTypeOK /\ here \in Devices \cup {NoDevice}
  BY DEF Typed, CommandTypeOK
<1>2. command' \in [Processes -> Commands \cup {NoCommand}]
  BY <1>1, OneCommandSteps DEF CommandTypeOK
<1>3. CASE Begins(p)
  BY <1>1, <1>2, <1>3 DEF Begins, Allow, Deny, Preview, CommandTypeOK, portVars, previewVars,
                          policyVars
<1>4. CASE Killed(p)
  <2>1. disturbed' \in BOOLEAN
    BY <1>1, <1>4 DEF Killed, At, CommandTypeOK
  <2>2. QED
    BY <1>1, <1>2, <1>4, <2>1 DEF Killed, CommandTypeOK, portVars, previewVars
<1>5. CASE Deauthorize(p) \/ Authorize(p)
  BY <1>1, <1>2, <1>5 DEF Deauthorize, Authorize, CommandTypeOK, policyVars, previewVars
<1>6. CASE ReadPolicy(p)
  <2>1. disturbed' \in BOOLEAN
    BY <1>1, <1>6 DEF ReadPolicy, CommandTypeOK, Changing, At
  <2>2. QED
    BY <1>1, <1>2, <1>6, <2>1 DEF ReadPolicy, CommandTypeOK, portVars, previewVars
<1>7. CASE TruncatePolicy(p)
  BY <1>1, <1>2, <1>7 DEF TruncatePolicy, CommandTypeOK, portVars, previewVars
<1>8. CASE DumpPolicy(p)
  <2>1. /\ Entry(p) \in Entries /\ command[p].entries \subseteq Entries
        /\ disturbed' \in BOOLEAN
    <3>1. command[p].device \in asked /\ asked \subseteq Devices
      BY <1>8 DEF DumpPolicy, Typed, AskedInHand, Changing, At, CommandTypeOK
    <3>2. command[p] \in Commands
      BY <1>1, <1>8 DEF DumpPolicy, At, CommandTypeOK
    <3>3. disturbed' \in BOOLEAN
      BY <1>1, <1>8 DEF DumpPolicy, CommandTypeOK
    <3>4. QED
      BY <3>1, <3>2, <3>3 DEF Entry, Entries, Commands
  <2>2. policy' \in [entries : SUBSET Entries, whole : BOOLEAN] /\ added' \subseteq Entries
    <3>1. PICK whole \in BOOLEAN :
             policy' = [entries |-> IF whole THEN command[p].entries \cup {Entry(p)} ELSE {},
                        whole |-> whole]
      BY <1>8 DEF DumpPolicy
    <3>2. (IF whole THEN command[p].entries \cup {Entry(p)} ELSE {}) \subseteq Entries
      BY <2>1
    <3>3. policy' \in [entries : SUBSET Entries, whole : BOOLEAN]
      BY <3>1, <3>2
    <3>4. QED
      BY <1>1, <1>8, <2>1, <3>3 DEF DumpPolicy, CommandTypeOK
  <2>3. QED
    BY <1>1, <1>2, <1>8, <2>1, <2>2 DEF DumpPolicy, CommandTypeOK, portVars, previewVars
<1>9. CASE MakeMountDir(p) \/ MountForScan(p) \/ RunScan(p) \/ ParseScan(p) \/ ScanTimesOut(p)
  BY <1>1, <1>2, <1>9 DEF MakeMountDir, MountForScan, RunScan, ParseScan, ScanTimesOut,
     CommandTypeOK, portVars, policyVars, previewVars
<1>10. CASE Approve(p)
  <2>1. command[p] \in Commands
    BY <1>1, <1>10 DEF Approve, At, CommandTypeOK
  <2>2. approved' \subseteq [device : Devices, scanned : Devices \cup {NoDevice}]
    BY <1>1, <1>10, <2>1 DEF Approve, CommandTypeOK, Commands
  <2>3. QED
    BY <1>1, <1>2, <1>10, <2>2 DEF Approve, CommandTypeOK, policyVars
<1>11. QED
  BY <1>3, <1>4, <1>5, <1>6, <1>7, <1>8, <1>9, <1>10 DEF CommandStep, Works

(* What asks are in the hands of a command that is neither starting nor at *)
(* the file, was in them before.                                           *)
LEMMA AskedStep ==
    ASSUME Typed, NEW p \in Processes, CommandStep(p)
    PROVE  (AskedInHand /\ ListAsked)'
<1>1. CommandTypeOK /\ here \in Devices \cup {NoDevice}
  BY DEF Typed, CommandTypeOK
<1>2. \A q \in Processes \ {p} : command'[q] = command[q]
  BY <1>1, OneCommandSteps, OthersAreUnchanged
<1> DEFINE InHand(q) ==
      /\ At(q, "authorize") /\ command[q].permanent => command[q].device \in asked
      /\ At(q, "policy") \/ Changing(q) => command[q].device \in asked
      /\ command[q] # NoCommand => command[q].entries \subseteq AskedEntries
<1>3. \A q \in Processes : InHand(q)
  BY DEF Typed, AskedInHand
<1>4. asked \subseteq asked' /\ AskedEntries \subseteq AskedEntries'
  <2>1. asked \subseteq asked'
  BY DEF CommandStep, Begins, Works, Killed, Allow, Deny, Preview, Deauthorize, Authorize,
     ReadPolicy, TruncatePolicy, DumpPolicy, MakeMountDir, MountForScan, RunScan, ParseScan,
     ScanTimesOut, Approve, policyVars
  <2>2. QED
    BY <2>1 DEF AskedEntries
<1>5. \A q \in Processes \ {p} : InHand(q)'
  BY <1>2, <1>3, <1>4 DEF At, Changing
<1>6. InHand(p)' /\ ListAsked'
  <2>1. ListAsked /\ InHand(p) /\ UNCHANGED listed
    BY <1>3 DEF Typed, CommandStep
  <2>2. CASE Begins(p)
    <3>1. UNCHANGED <<policy, added>>
      BY <2>2 DEF Begins, Allow, Deny, Preview, policyVars
    <3>2. ASSUME NEW permanent \in BOOLEAN, Allow(p, permanent)
          PROVE  InHand(p)'
      <4>1. command'[p] = NewCommand("authorize", permanent)
        BY <1>1, <3>2, OthersAreUnchanged DEF Allow
      <4>2. asked' = IF permanent THEN asked \cup {here} ELSE asked
        BY <3>2 DEF Allow
      <4>3. command'[p].step = "authorize" /\ command'[p].entries = {}
        BY <4>1, NewCommandFields
      <4>4. command'[p].permanent => command'[p].device \in asked'
        BY <4>1, <4>2, NewCommandFields
      <4>5. QED
        BY <4>3, <4>4 DEF At, Changing
    <3>3. ASSUME Deny(p)
          PROVE  InHand(p)'
      <4>1. command'[p] = NewCommand("deny", FALSE)
        BY <1>1, <3>3, OthersAreUnchanged DEF Deny
      <4>2. command'[p].step = "deny" /\ command'[p].entries = {}
        BY <4>1 DEF NewCommand
      <4>3. QED
        BY <4>2 DEF At, Changing
    <3>4. ASSUME Preview(p)
          PROVE  InHand(p)'
      <4>1. command'[p] = NewCommand("makeDir", FALSE)
        BY <1>1, <3>4, OthersAreUnchanged DEF Preview
      <4>2. command'[p].step = "makeDir" /\ command'[p].entries = {}
        BY <4>1 DEF NewCommand
      <4>3. QED
        BY <4>2 DEF At, Changing
    <3>5. QED
      BY <1>4, <2>1, <2>2, <3>1, <3>2, <3>3, <3>4 DEF Begins, ListAsked
  <2>3. CASE Killed(p) \/ Deauthorize(p)
    <3>1. command'[p] = NoCommand
      BY <1>1, <2>3, OthersAreUnchanged DEF Killed, Deauthorize, Ends
    <3>2. UNCHANGED policy
      BY <2>3 DEF Killed, Deauthorize, policyVars
    <3>3. QED
      BY <1>4, <2>1, <3>1, <3>2 DEF ListAsked, At, Changing
  <2>4. ASSUME Works(p), ~Deauthorize(p)
        PROVE  command[p] \in Commands
    BY <1>1, <2>4 DEF Works, At, CommandTypeOK, Authorize, ReadPolicy, TruncatePolicy, DumpPolicy,
       MakeMountDir, MountForScan, RunScan, ParseScan, ScanTimesOut, Approve
  <2>5. CASE Authorize(p) \/ MakeMountDir(p) \/ ParseScan(p) \/ TruncatePolicy(p)
    <3>1. /\ command[p] \in Commands
          /\ Ends(p) \/ \E step \in {"policy", "mount", "approve", "dump"} : Goes(p, step)
      BY <2>4, <2>5 DEF Authorize, MakeMountDir, ParseScan, TruncatePolicy, Works, Deauthorize, At
    <3>2. UNCHANGED asked /\ (UNCHANGED policy \/ policy'.entries = {})
      BY <2>5 DEF Authorize, MakeMountDir, ParseScan, TruncatePolicy, policyVars
    <3>3. CASE Ends(p)
      <4>1. command'[p] = NoCommand
        BY <1>1, <3>3 DEF Ends, CommandTypeOK
      <4>2. QED
        BY <1>4, <2>1, <3>2, <4>1 DEF ListAsked, At, Changing
    <3>4. ASSUME ~Ends(p), NEW step \in {"policy", "mount", "approve", "dump"}, Goes(p, step)
          PROVE  InHand(p)' /\ ListAsked'
      <4>1. /\ command'[p].step = step
            /\ command'[p].entries = command[p].entries
            /\ command'[p].device = command[p].device
        BY <1>1, <3>1, <3>4, GoesTo
      <4>2. step = "policy" \/ step = "dump" => command[p].device \in asked
        <5>1. CASE Authorize(p)
          BY <2>1, <3>4, <5>1 DEF Authorize, At
        <5>2. CASE TruncatePolicy(p)
          BY <2>1, <5>2 DEF TruncatePolicy, Changing
        <5>3. CASE MakeMountDir(p) \/ ParseScan(p)
          <6>1. command'[p].step \in {"mount", "approve"}
            BY <1>1, <3>1, <3>4, <5>3, GoesTo DEF MakeMountDir, ParseScan
          <6>2. QED
            BY <4>1, <6>1
        <5>4. QED
          BY <2>5, <5>1, <5>2, <5>3
      <4>3. command[p] # NoCommand
        BY <2>5 DEF Authorize, MakeMountDir, ParseScan, TruncatePolicy, At
      <4>4. QED
        BY <1>4, <2>1, <3>2, <4>1, <4>2, <4>3 DEF ListAsked, At, Changing
    <3>5. QED
      BY <3>1, <3>3, <3>4
  <2>6. CASE ReadPolicy(p)
    <3>1. command[p] \in Commands
      BY <2>4, <2>6 DEF Works, ReadPolicy, Deauthorize, At
    <3>2. UNCHANGED <<asked, policy>> /\ At(p, "policy")
      BY <2>6 DEF ReadPolicy
    <3>3. CASE Ends(p)
      <4>1. command'[p] = NoCommand
        BY <1>1, <3>3 DEF Ends, CommandTypeOK
      <4>2. QED
        BY <1>4, <2>1, <3>2, <4>1 DEF ListAsked, At, Changing
    <3>4. CASE command' = [command EXCEPT ![p].step = "truncate", ![p].entries = policy.entries]
      <4>1. command'[p].entries = policy.entries /\ command'[p].device = command[p].device
        BY <1>1, <3>1, <3>4 DEF CommandTypeOK, Commands
      <4>2. command'[p].step = "truncate"
        BY <1>1, <3>1, <3>4 DEF CommandTypeOK, Commands
      <4>3. QED
        BY <1>4, <2>1, <3>2, <4>1, <4>2 DEF ListAsked, At, Changing
    <3>5. QED
      BY <2>6, <3>3, <3>4 DEF ReadPolicy
  <2>7. CASE DumpPolicy(p) \/ Approve(p)
    <3>1. command'[p] = NoCommand
      BY <1>1, <2>7, OthersAreUnchanged DEF DumpPolicy, Approve, Ends
    <3>2. UNCHANGED asked /\ (UNCHANGED policy \/ policy'.entries \subseteq AskedEntries)
      <4>1. CASE DumpPolicy(p)
        <5>1. command[p].entries \cup {Entry(p)} \subseteq AskedEntries
          BY <2>1, <4>1 DEF DumpPolicy, At, Changing, Entry, AskedEntries
        <5>2. PICK whole \in BOOLEAN :
                policy' = [entries |-> IF whole THEN command[p].entries \cup {Entry(p)}
                                       ELSE {},
                           whole |-> whole]
          BY <4>1 DEF DumpPolicy
        <5>3. policy'.entries \subseteq AskedEntries
          BY <5>1, <5>2
        <5>4. QED
          BY <4>1, <5>3 DEF DumpPolicy
      <4>2. QED
        BY <2>7, <4>1 DEF Approve, policyVars
    <3>3. QED
      BY <1>4, <2>1, <3>1, <3>2 DEF ListAsked, At, Changing
  <2>8. CASE MountForScan(p) \/ RunScan(p) \/ ScanTimesOut(p)
    <3>1. /\ command'[p].step \in {"scan", "parse", "approve"}
          /\ command'[p].entries = command[p].entries
      <4>1. command[p] \in Commands
        BY <2>4, <2>8 DEF MountForScan, RunScan, ScanTimesOut, Works, Deauthorize, At
      <4>2. CASE MountForScan(p)
        BY <1>1, <4>1, <4>2, GoesTo DEF MountForScan, CommandTypeOK, Commands
      <4>3. CASE RunScan(p)
        BY <1>1, <4>1, <4>3 DEF RunScan, CommandTypeOK, Commands
      <4>4. CASE ScanTimesOut(p)
        BY <1>1, <4>1, <4>4 DEF ScanTimesOut, CommandTypeOK, Commands
      <4>5. QED
        BY <2>8, <4>2, <4>3, <4>4
    <3>2. UNCHANGED policyVars /\ command[p] # NoCommand
      BY <2>8 DEF MountForScan, RunScan, ScanTimesOut, At
    <3>3. QED
      BY <1>4, <2>1, <3>1, <3>2 DEF policyVars, ListAsked, At, Changing
  <2>9. QED
    BY <2>2, <2>3, <2>5, <2>6, <2>7, <2>8 DEF CommandStep, Works
<1>7. QED
  BY <1>5, <1>6 DEF AskedInHand

LEMMA TypedStep == Typed /\ [Next]_vars => Typed'
<1> SUFFICES ASSUME Typed, [Next]_vars
             PROVE  Typed'
  OBVIOUS
<1>1. CASE OthersStep
  <2>1. listed' \subseteq Entries /\ ListAsked'
    BY <1>1 DEF OthersStep, LoadPolicy, DaemonStops, Typed, CommandTypeOK, ListAsked,
       commandVars, policyVars, AskedEntries
  <2>2. AskedEntries' = AskedEntries
    BY <1>1 DEF OthersStep, commandVars, policyVars, AskedEntries
  <2>3. QED
    BY <1>1, <2>1, <2>2
    DEF OthersStep, Typed, CommandTypeOK, AskedInHand, At, Changing, commandVars,
       portVars, policyVars, previewVars
<1>2. CASE StickMoves
  <2>1. here' \in Devices \cup {NoDevice} /\ on' \in BOOLEAN
    <3>1. CASE Unplug
      BY <3>1 DEF Unplug
    <3>2. ASSUME NEW d \in Devices, Plug(d)
          PROVE  here' \in Devices /\ on' \in BOOLEAN
      <4>1. PICK decision \in Decisions(d) : on' = (decision = "allow")
        BY <3>2 DEF Plug
      <4>2. QED
        BY <3>2, <4>1 DEF Plug
    <3>3. CASE AnalysisEnds
      BY <3>3 DEF AnalysisEnds, Typed, CommandTypeOK
    <3>4. QED
      BY <1>2, <3>1, <3>2, <3>3 DEF StickMoves
  <2>2. AskedEntries' = AskedEntries
    BY <1>2, StickMovesAlone DEF policyVars, AskedEntries
  <2>3. QED
    BY <1>2, <2>1, <2>2, StickMovesAlone DEF Typed, CommandTypeOK, AskedInHand, At, Changing,
       policyVars, previewVars, ListAsked
<1>3. CASE \E p \in Processes : CommandStep(p)
  BY <1>3, CommandTypedStep, AskedStep DEF Typed, CommandStep
<1>4. QED
  BY <1>1, <1>2, <1>3, StepIsOf

LEMMA AlwaysTyped == Spec => []Typed
<1>1. Init => Typed
  BY TypedInit
<1>2. Typed /\ [Next]_vars => Typed'
  BY TypedStep
<1>3. QED
  BY <1>1, <1>2, PTL DEF Spec

(* Whatever commands, sticks and restarts do to each other, only what      *)
(* somebody asked for is on the allowlist, of the file and of the daemon:  *)
(* `allow --permanent` writes the device it found first, and not the one   *)
(* that has taken the port since.                                          *)
THEOREM OnlyAskedForListed == Spec => []OnlyAskedForIsListed
<1>1. Typed => OnlyAskedForIsListed
  <2> SUFFICES ASSUME Typed, NEW d \in Devices, Allows(policy.entries \cup listed, d)
               PROVE  \E a \in asked : IdsOf[a] = IdsOf[d] /\ SerialOf[a] \in {"", SerialOf[d]}
    BY DEF OnlyAskedForIsListed
  <2>1. PICK a \in asked : Matches(EntryOf(a), d)
    BY DEF Typed, ListAsked, AskedEntries, Allows
  <2>2. a \in Devices
    BY DEF Typed, CommandTypeOK
  <2>3. IdsOf[a] = IdsOf[d]
    BY <2>1 DEF Matches, EntryOf
  <2>4. (IF SerialOf[a] = "" THEN "*" ELSE SerialOf[a]) \in {"*", SerialOf[d]}
    BY <2>1 DEF Matches, EntryOf
  <2>5. SerialOf[a] \in {"", SerialOf[d]}
    BY <2>2, <2>4, CommandAssumption DEF CommandAssumption
  <2>6. QED
    BY <2>3, <2>5
<1>2. QED
  BY <1>1, AlwaysTyped, PTL

-----------------------------------------------------------------------------
(* A command that is not at the file leaves it alone.                      *)
QuietStep(p) ==
    \/ Begins(p) \/ Deauthorize(p) \/ Authorize(p)
    \/ MakeMountDir(p) \/ MountForScan(p) \/ RunScan(p) \/ ParseScan(p)
    \/ ScanTimesOut(p) \/ Approve(p)

LEMMA QuietIsQuiet ==
    ASSUME CommandTypeOK, NEW p \in Processes, QuietStep(p)
    PROVE  UNCHANGED <<policy, added, disturbed>> /\ ~Changing(p) /\ ~Changing(p)'
<1>1. UNCHANGED <<policy, added, disturbed>>
  BY DEF QuietStep, Begins, Allow, Deny, Preview, Deauthorize, Authorize, MakeMountDir,
     MountForScan, RunScan, ParseScan, ScanTimesOut, Approve, policyVars
<1>2. ~Changing(p)
  BY DEF QuietStep, Begins, Allow, Deny, Preview, Deauthorize, Authorize, MakeMountDir,
     MountForScan, RunScan, ParseScan, ScanTimesOut, Approve, Changing, At
<1>3. CASE Begins(p)
  <2>1. \E step \in {"authorize", "deny", "makeDir"}, permanent \in BOOLEAN :
            command' = [command EXCEPT ![p] = NewCommand(step, permanent)]
    BY <1>3 DEF Begins, Allow, Deny, Preview
  <2>2. command'[p].step \in {"authorize", "deny", "makeDir"}
    BY <2>1, NewCommandFields DEF CommandTypeOK
  <2>3. QED
    BY <1>1, <1>2, <2>2 DEF Changing, At
<1>4. CASE ~Begins(p)
  <2>1. command[p] \in Commands
    BY <1>4 DEF QuietStep, Deauthorize, Authorize, MakeMountDir, MountForScan, RunScan, ParseScan,
       ScanTimesOut, Approve, At, CommandTypeOK
  <2>2. CASE Ends(p)
    BY <1>1, <1>2, <2>2 DEF Ends, CommandTypeOK, Changing, At
  <2>3. ASSUME NEW step \in {"policy", "mount", "parse", "approve"}, Goes(p, step)
        PROVE  ~Changing(p)'
    <3>1. command'[p].step = step
      BY <2>1, <2>3, GoesTo
    <3>2. QED
      BY <3>1 DEF Changing, At
  <2>4. CASE MountForScan(p) /\ ~Goes(p, "parse")
    <3>1. command'[p].step = "scan"
      BY <2>1, <2>4 DEF MountForScan, CommandTypeOK, Commands
    <3>2. QED
      BY <1>1, <1>2, <3>1 DEF Changing, At
  <2>5. CASE RunScan(p)
    <3>1. command'[p].step = "parse"
      BY <2>1, <2>5 DEF RunScan, CommandTypeOK, Commands
    <3>2. QED
      BY <1>1, <1>2, <3>1 DEF Changing, At
  <2>6. CASE ScanTimesOut(p)
    <3>1. command'[p].step = "approve"
      BY <2>1, <2>6 DEF ScanTimesOut, CommandTypeOK, Commands
    <3>2. QED
      BY <1>1, <1>2, <3>1 DEF Changing, At
  <2>7. QED
    BY <1>1, <1>2, <1>4, <2>2, <2>3, <2>4, <2>5, <2>6 DEF QuietStep, Deauthorize, Authorize,
       MakeMountDir, MountForScan, ParseScan, Approve
<1>5. QED
  BY <1>3, <1>4

LEMMA KeptStep ==
    ASSUME Typed, OneChanges, EntriesKept, [Next]_vars
    PROVE  (OneChanges /\ EntriesKept)'
<1>1. CASE OthersStep
  BY <1>1 DEF OthersStep, commandVars, policyVars, OneChanges, EntriesKept, Changing, At
<1>2. CASE StickMoves
  BY <1>2, StickMovesAlone DEF policyVars, OneChanges, EntriesKept, Changing, At
<1>3. ASSUME NEW p \in Processes, CommandStep(p)
      PROVE  (OneChanges /\ EntriesKept)'
  <2>1. CommandTypeOK
    BY DEF Typed
  <2>2. \A q \in Processes \ {p} :
            command'[q] = command[q] /\ (Changing(q)' <=> Changing(q))
    BY <1>3, <2>1, OneCommandSteps, OthersAreUnchanged DEF Changing, At
  <2>3. \A q \in Processes \ {p} : At(q, "dump")' <=> At(q, "dump")
    BY <2>2 DEF At
  <2>4. CASE QuietStep(p)
    <3>1. UNCHANGED <<policy, added, disturbed>> /\ ~Changing(p) /\ ~Changing(p)'
      BY <2>1, <2>4, QuietIsQuiet
    <3>2. ~At(p, "dump") /\ ~At(p, "dump")'
      BY <3>1 DEF Changing
    <3>3. EntriesKept'
      BY <2>3, <3>1, <3>2 DEF EntriesKept
    <3>4. OneChanges'
      BY <2>2, <3>1 DEF OneChanges
    <3>5. QED
      BY <3>3, <3>4
  <2>5. CASE Killed(p)
    <3>1. UNCHANGED <<policy, added>> /\ (~disturbed' => ~disturbed /\ ~At(p, "dump"))
      BY <2>5 DEF Killed
    <3>2. ~Changing(p)' /\ ~At(p, "dump")'
      BY <2>1, <2>5 DEF Killed, Ends, CommandTypeOK, Changing, At
    <3>3. EntriesKept'
      BY <2>3, <3>1, <3>2 DEF EntriesKept
    <3>4. OneChanges'
      BY <2>2, <3>1, <3>2 DEF OneChanges
    <3>5. QED
      BY <3>3, <3>4
  <2>6. CASE ReadPolicy(p)
    <3>1. /\ UNCHANGED <<policy, added>>
          /\ ~disturbed' => ~disturbed /\ \A q \in Processes \ {p} : ~Changing(q)
      BY <2>6 DEF ReadPolicy
    <3>2. ~At(p, "dump") /\ command[p] \in Commands
      BY <2>1, <2>6 DEF ReadPolicy, At, CommandTypeOK
    <3>3. ~disturbed' => policy.whole /\ added \subseteq policy.entries
      BY <3>1, <3>2 DEF EntriesKept, Changing
    <3>4. CASE Ends(p)
      <4>1. ~Changing(p)'
        BY <2>1, <3>4 DEF Ends, CommandTypeOK, Changing, At
      <4>2. QED
        BY <2>2, <3>1, <3>3, <4>1 DEF OneChanges, EntriesKept
    <3>5. CASE command' = [command EXCEPT ![p].step = "truncate", ![p].entries = policy.entries]
      <4>1. command'[p].entries = policy.entries
        BY <2>1, <3>2, <3>5 DEF CommandTypeOK, Commands
      <4>2. QED
        BY <2>2, <3>1, <3>3, <4>1 DEF OneChanges, EntriesKept
    <3>6. QED
      BY <2>6, <3>4, <3>5 DEF ReadPolicy
  <2>7. CASE TruncatePolicy(p)
    <3>1. UNCHANGED <<added, disturbed>> /\ Changing(p) /\ command[p] \in Commands
      BY <2>1, <2>7 DEF TruncatePolicy, Changing, At, CommandTypeOK
    <3>2. command'[p].step = "dump" /\ command'[p].entries = command[p].entries
      BY <2>1, <2>7, <3>1, GoesTo DEF TruncatePolicy
    <3>3. command'[p] # NoCommand
      <4>1. [command[p] EXCEPT !.step = "dump"].step = "dump" /\ NoCommand.step = "none"
        BY <3>1 DEF Commands, NoCommand
      <4>2. QED
        BY <3>2, <4>1
    <3>4. EntriesKept'
      BY <3>2, <3>3 DEF EntriesKept, At
    <3>5. OneChanges'
      BY <2>2, <3>1, <3>2 DEF OneChanges
    <3>6. QED
      BY <3>4, <3>5
  <2>8. CASE DumpPolicy(p)
    <3>1. /\ ~disturbed' => ~disturbed
          /\ added' = added \cup {Entry(p)} /\ Changing(p)
      BY <2>8 DEF DumpPolicy, Changing
    <3>2. ~Changing(p)'
      BY <2>1, <2>8 DEF DumpPolicy, Ends, CommandTypeOK, Changing, At
    <3>3. ~disturbed => \A q \in Processes : ~Changing(q)'
      BY <2>2, <3>1, <3>2 DEF OneChanges
    <3>4. ~disturbed' =>
             policy' = [entries |-> command[p].entries \cup {Entry(p)}, whole |-> TRUE]
      BY <2>8 DEF DumpPolicy
    <3>5. ~disturbed => added' \subseteq command[p].entries \cup {Entry(p)}
      BY <3>1 DEF OneChanges
    <3>6. EntriesKept'
      BY <3>1, <3>4, <3>5 DEF EntriesKept
    <3>7. OneChanges'
      BY <3>1, <3>3 DEF OneChanges
    <3>8. QED
      BY <3>6, <3>7
  <2>9. QED
    BY <1>3, <2>4, <2>5, <2>6, <2>7, <2>8 DEF CommandStep, Works, QuietStep
<1>4. QED
  BY <1>1, <1>2, <1>3, StepIsOf

(* Whatever was added to policy.json by one command at a time is there and *)
(* can be read, for any number of `allow --permanent` of any devices:      *)
(* _add_to_policy holds all that was added from when it read the file to   *)
(* when it has written it.                                                 *)
THEOREM AddedIsKept == Spec => []EntriesKept
<1>1. Init => OneChanges /\ EntriesKept
  <2>1. ASSUME Init
        PROVE  /\ \A p \in Processes : command[p] = NoCommand
               /\ policy.whole /\ added = {}
    BY <2>1 DEF Init, CommandInit
  <2>2. QED
    BY <2>1 DEF OneChanges, EntriesKept, Changing, At
<1>2. Typed /\ OneChanges /\ EntriesKept /\ [Next]_vars => (OneChanges /\ EntriesKept)'
  BY KeptStep
<1>3. QED
  BY <1>1, <1>2, AlwaysTyped, PTL DEF Spec

-----------------------------------------------------------------------------
LEMMA NothingIsClean == NoDevice \notin Infected
BY CommandAssumption

LEMMA ScanStep ==
    ASSUME Typed, ScanRemembers, ScannedIsNotApproved, [Next]_vars
    PROVE  (ScanRemembers /\ ScannedIsNotApproved)'
<1>1. CASE OthersStep
  BY <1>1 DEF OthersStep, commandVars, previewVars, ScanRemembers, ScannedIsNotApproved, At
<1>2. CASE StickMoves
  BY <1>2, StickMovesAlone DEF previewVars, ScanRemembers, ScannedIsNotApproved, At
<1>3. ASSUME NEW p \in Processes, CommandStep(p)
      PROVE  (ScanRemembers /\ ScannedIsNotApproved)'
  <2>1. CommandTypeOK
    BY DEF Typed
  <2> DEFINE Remembers(q) ==
        /\ At(q, "makeDir") \/ At(q, "mount") => command[q].scanned = NoDevice
        /\ At(q, "parse") /\ command[q].scanned \in Infected => command[q].found
        /\ At(q, "approve") => command[q].scanned \notin Infected
  <2>2. \A q \in Processes \ {p} : command'[q] = command[q]
    BY <1>3, <2>1, OneCommandSteps, OthersAreUnchanged
  <2>3. \A q \in Processes : Remembers(q)
    BY DEF ScanRemembers
  <2>4. \A q \in Processes \ {p} : Remembers(q)'
    BY <2>2, <2>3 DEF At
  <2>5. Remembers(p)'
    <3>1. CASE Begins(p)
      <4>1. \E step \in {"authorize", "deny", "makeDir"}, permanent \in BOOLEAN :
                command' = [command EXCEPT ![p] = NewCommand(step, permanent)]
        BY <3>1 DEF Begins, Allow, Deny, Preview
      <4>2. /\ command'[p].step \in {"authorize", "deny", "makeDir"}
            /\ command'[p].scanned = NoDevice
        BY <2>1, <4>1, NewCommandFields DEF CommandTypeOK
      <4>3. QED
        BY <4>2 DEF At
    <3>2. CASE Ends(p)
      BY <2>1, <3>2 DEF Ends, CommandTypeOK, At
    <3>3. ASSUME ~Begins(p), ~Killed(p)
          PROVE  command[p] \in Commands
      BY <1>3, <2>1, <3>3 DEF CommandStep, Works, At, CommandTypeOK, Deauthorize, Authorize,
         ReadPolicy, TruncatePolicy, DumpPolicy, MakeMountDir, MountForScan, RunScan, ParseScan,
         ScanTimesOut, Approve
    <3>4. ASSUME NEW step \in {"policy", "dump"}, Goes(p, step), ~Begins(p), ~Killed(p)
          PROVE  Remembers(p)'
      <4>1. command'[p].step = step
        BY <2>1, <3>3, <3>4, GoesTo
      <4>2. QED
        BY <4>1 DEF At
    <3>5. CASE ReadPolicy(p) /\ ~Ends(p)
      <4>1. command'[p].step = "truncate"
        BY <2>1, <3>5 DEF ReadPolicy, CommandTypeOK, Commands, At
      <4>2. QED
        BY <4>1 DEF At
    <3>6. CASE MakeMountDir(p)
      <4>1. command[p] \in Commands /\ command[p].scanned = NoDevice
        BY <2>1, <2>3, <3>6 DEF MakeMountDir, At, CommandTypeOK
      <4>2. command'[p].scanned = NoDevice /\ command'[p].step \in {"mount", "approve"}
        BY <2>1, <3>6, <4>1, GoesTo DEF MakeMountDir
      <4>3. QED
        BY <4>2, NothingIsClean DEF At
    <3>7. CASE MountForScan(p)
      <4>1. command[p] \in Commands /\ command[p].scanned = NoDevice
        BY <2>1, <2>3, <3>7 DEF MountForScan, At, CommandTypeOK
      <4>2. CASE Goes(p, "parse")
        <5>1. command'[p].scanned = NoDevice /\ command'[p].step = "parse"
          BY <2>1, <4>1, <4>2, GoesTo
        <5>2. QED
          BY <5>1, NothingIsClean DEF At
      <4>3. CASE ~Goes(p, "parse")
        <5>1. command'[p].step = "scan"
          BY <2>1, <3>7, <4>1, <4>3 DEF MountForScan, CommandTypeOK, Commands
        <5>2. QED
          BY <5>1 DEF At
      <4>4. QED
        BY <4>2, <4>3
    <3>8. CASE RunScan(p)
      <4> DEFINE reads == here = command[p].scanned /\ on /\ mountDir
      <4>1. command[p] \in Commands
        BY <2>1, <3>8 DEF RunScan, At, CommandTypeOK
      <4>2. /\ command'[p].step = "parse"
            /\ command'[p].scanned = IF reads THEN command[p].scanned ELSE NoDevice
            /\ command'[p].found = (reads /\ here \in Infected)
        BY <2>1, <3>8, <4>1 DEF RunScan, CommandTypeOK, Commands
      <4>3. command'[p].scanned \in Infected => reads /\ here \in Infected
        BY <4>2, NothingIsClean
      <4>4. QED
        BY <4>2, <4>3 DEF At
    <3>9. CASE ParseScan(p) /\ ~Ends(p)
      <4>1. /\ command[p] \in Commands
            /\ command[p].scanned \notin Infected
            /\ Goes(p, "approve")
        BY <2>1, <2>3, <3>9 DEF ParseScan, At, CommandTypeOK
      <4>2. command'[p].scanned \notin Infected /\ command'[p].step = "approve"
        BY <2>1, <4>1, GoesTo
      <4>3. QED
        BY <4>2 DEF At
    <3>10. CASE ScanTimesOut(p)
      <4>1. command'[p].scanned = NoDevice /\ command'[p].step = "approve"
        BY <2>1, <3>10 DEF ScanTimesOut, At, CommandTypeOK, Commands
      <4>2. QED
        BY <4>1, NothingIsClean DEF At
    <3>11. CASE ~Begins(p) /\ ~Killed(p) /\ (Authorize(p) \/ TruncatePolicy(p)) /\ ~Ends(p)
      BY <3>4, <3>11 DEF Authorize, TruncatePolicy
    <3>12. CASE Killed(p) \/ Deauthorize(p) \/ DumpPolicy(p) \/ Approve(p)
      BY <3>2, <3>12 DEF Killed, Deauthorize, DumpPolicy, Approve
    <3>13. QED
      BY <1>3, <3>1, <3>2, <3>5, <3>6, <3>7, <3>8, <3>9, <3>10, <3>11, <3>12 DEF CommandStep, Works
  <2>6. ScannedIsNotApproved'
    <3>1. CASE Approve(p)
      <4>1. command[p].scanned \notin Infected
        BY <2>3, <3>1 DEF Approve
      <4>2. approved' \subseteq approved \cup {[device |-> here, scanned |-> command[p].scanned]}
        BY <3>1 DEF Approve
      <4>3. QED
        BY <4>1, <4>2 DEF ScannedIsNotApproved
    <3>2. CASE ~Approve(p)
      <4>1. UNCHANGED approved
        BY <1>3, <3>2 DEF CommandStep, Begins, Works, Killed, Allow, Deny, Preview, Deauthorize,
           Authorize, ReadPolicy, TruncatePolicy, DumpPolicy, MakeMountDir, MountForScan, RunScan,
           ParseScan, ScanTimesOut, previewVars
      <4>2. QED
        BY <4>1 DEF ScannedIsNotApproved
    <3>3. QED
      BY <3>1, <3>2
  <2>7. QED
    BY <2>4, <2>5, <2>6 DEF ScanRemembers
<1>4. QED
  BY <1>1, <1>2, <1>3, StepIsOf

(* preview --scan --approve lets no stick in whose malware its scan has    *)
(* read to the end, whatever was plugged in between, whatever other scans  *)
(* unmounted, and however the scan ended.                                  *)
THEOREM ScanBeforeApproval == Spec => []ScannedIsNotApproved
<1>1. Init => ScanRemembers /\ ScannedIsNotApproved
  <2>1. ASSUME Init
        PROVE  approved = {} /\ \A p \in Processes : command[p] = NoCommand
    BY <2>1 DEF Init, CommandInit
  <2>2. QED
    BY <2>1 DEF ScanRemembers, ScannedIsNotApproved, At
<1>2. /\ Typed /\ ScanRemembers /\ ScannedIsNotApproved /\ [Next]_vars
      => (ScanRemembers /\ ScannedIsNotApproved)'
  BY ScanStep
<1>3. QED
  BY <1>1, <1>2, AlwaysTyped, PTL DEF Spec
=============================================================================
