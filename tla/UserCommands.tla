---------------------------- MODULE UserCommands ----------------------------
(***************************************************************************)
(* The commands a user answers the daemon with (cli/admin.py): allow, with *)
(* or without --permanent, deny, and preview --scan --approve with the     *)
(* scan of analysis/storage_preview.py, each a process of its own on one   *)
(* port, and policy.json, which allow --permanent reads, changes and       *)
(* writes without a lock.                                                  *)
(*                                                                         *)
(* authorize() and deauthorize() are one step here; Authorization has      *)
(* their insides.  list_files, between the scan and the approval, mounts   *)
(* at another directory and has no effect on either; preview_file has no   *)
(* caller.  The block node of a stick is there while the stick is on.      *)
(* What a scan cannot read it leaves to the user's judgement, as the code  *)
(* does; only the first partition is scanned.                              *)
(***************************************************************************)
EXTENDS Integers, FiniteSets

CONSTANTS Devices,    \* the sticks that may be plugged in
          NoDevice,
          IdsOf,      \* device -> its vendor and product id
          SerialOf,   \* device -> its serial number, "" for none
          Infected,   \* those with malware on them
          Scanner,    \* clamscan is installed
          Processes   \* those that run the commands

ASSUME CommandAssumption ==
    /\ Infected \subseteq Devices /\ NoDevice \notin Devices
    /\ \A d \in Devices : SerialOf[d] # "*"
    /\ Scanner \in BOOLEAN

VARIABLES here,     \* the device at the port
          on,       \* it is authorized
          policy,   \* policy.json: its allowlist, and whether it can be parsed
          command,  \* what each process is at
          mountDir, \* the mount point of scans of this port exists
          asked,    \* ghost: devices somebody wanted on the allowlist
          added,    \* ghost: entries that were written
          disturbed,\* ghost: two changed the file at a time, or one was killed or failed there
          approved  \* ghost: the approvals by preview

portVars == <<here, on>>
policyVars == <<policy, asked, added, disturbed>>
previewVars == <<mountDir, approved>>
commandVars == <<portVars, policyVars, previewVars, command>>

(* An entry of the allowlist, and what check_allowlist makes of it.        *)
EntryOf(d) == [ids |-> IdsOf[d], serial |-> IF SerialOf[d] = "" THEN "*" ELSE SerialOf[d]]
Entries == {EntryOf(d) : d \in Devices}
Matches(entry, d) == entry.ids = IdsOf[d] /\ entry.serial \in {"*", SerialOf[d]}
Allows(list, d) == \E entry \in list : Matches(entry, d)

NoCommand == [step |-> "none"]
(* device: what the entry is to be about; entries: the list as read;       *)
(* scanned: the device a scan has read to its end; found: what it printed  *)
Commands == [step : {"authorize", "policy", "truncate", "dump", "deny",
                     "makeDir", "mount", "scan", "parse", "approve"},
             device : Devices \cup {NoDevice}, permanent : BOOLEAN,
             entries : SUBSET Entries, scanned : Devices \cup {NoDevice}, found : BOOLEAN]
NewCommand(step, permanent) ==
    [step |-> step, device |-> IF permanent THEN here ELSE NoDevice, permanent |-> permanent,
     entries |-> {}, scanned |-> NoDevice, found |-> FALSE]

CommandTypeOK ==
    /\ here \in Devices \cup {NoDevice} /\ on \in BOOLEAN
    /\ policy \in [entries : SUBSET Entries, whole : BOOLEAN]
    /\ command \in [Processes -> Commands \cup {NoCommand}]
    /\ mountDir \in BOOLEAN /\ disturbed \in BOOLEAN
    /\ asked \subseteq Devices /\ added \subseteq Entries
    /\ approved \subseteq [device : Devices, scanned : Devices \cup {NoDevice}]

CommandInit ==
    /\ here = NoDevice /\ on = FALSE
    /\ policy = [entries |-> {}, whole |-> TRUE]
    /\ command = [p \in Processes |-> NoCommand]
    /\ mountDir = FALSE
    /\ asked = {} /\ added = {} /\ disturbed = FALSE /\ approved = {}

At(p, step) == command[p] # NoCommand /\ command[p].step = step
Goes(p, step) == command' = [command EXCEPT ![p].step = step]
Ends(p) == command' = [command EXCEPT ![p] = NoCommand]

-----------------------------------------------------------------------------
(* allow and deny                                                          *)
Allow(p, permanent) ==
    /\ command[p] = NoCommand /\ here # NoDevice
    /\ command' = [command EXCEPT ![p] = NewCommand("authorize", permanent)]
    /\ asked' = IF permanent THEN asked \cup {here} ELSE asked
    /\ UNCHANGED <<portVars, policy, added, disturbed, previewVars>>

Deny(p) ==
    /\ command[p] = NoCommand
    /\ command' = [command EXCEPT ![p] = NewCommand("deny", FALSE)]
    /\ UNCHANGED <<portVars, policyVars, previewVars>>

Deauthorize(p) ==
    /\ At(p, "deny")
    /\ on' = FALSE
    /\ Ends(p)
    /\ UNCHANGED <<here, policyVars, previewVars>>

(* authorize() switches on whatever is at the port by now.                 *)
Authorize(p) ==
    /\ At(p, "authorize")
    /\ on' = (here # NoDevice)
    /\ IF here # NoDevice /\ command[p].permanent THEN Goes(p, "policy") ELSE Ends(p)
    /\ UNCHANGED <<here, policyVars, previewVars>>

(* _add_to_policy                                                          *)
EntryBug(p) ==  \* the serial number is left out
    [ids |-> IdsOf[command[p].device], serial |-> "*"]

(* A device without a serial number stands for all of its ids.             *)
Entry(p) == EntryOf(command[p].device)

Changing(p) == At(p, "truncate") \/ At(p, "dump")

ReadPolicyBug(p) ==  \* the file is not read when it exists
    /\ At(p, "policy")
    /\ command' = [command EXCEPT ![p].step = "truncate", ![p].entries = {}]
    /\ disturbed' = (disturbed \/ \E q \in Processes \ {p} : Changing(q))
    /\ UNCHANGED <<portVars, policy, asked, added, previewVars>>

ReadPolicy(p) ==
    /\ At(p, "policy")
    /\ IF policy.whole /\ Entry(p) \notin policy.entries
       THEN command' = [command EXCEPT ![p].step = "truncate", ![p].entries = policy.entries]
       ELSE Ends(p)
    /\ disturbed' = (disturbed \/ \E q \in Processes \ {p} : Changing(q))
    /\ UNCHANGED <<portVars, policy, asked, added, previewVars>>

(* open(..., "w") empties the file.                                        *)
TruncatePolicy(p) ==
    /\ At(p, "truncate")
    /\ policy' = [entries |-> {}, whole |-> FALSE]
    /\ Goes(p, "dump")
    /\ UNCHANGED <<portVars, asked, added, disturbed, previewVars>>

(* The write may fail, which is printed, and the file stays as it is by    *)
(* then; two that have it open write over each other.  "Added" is printed  *)
(* in any case.                                                            *)
DumpPolicy(p) ==
    /\ At(p, "dump")
    /\ \E whole \in BOOLEAN :
         /\ policy' = [entries |-> IF whole THEN command[p].entries \cup {Entry(p)} ELSE {},
                       whole |-> whole]
         /\ disturbed' = (disturbed \/ ~whole)
    /\ added' = added \cup {Entry(p)}
    /\ Ends(p)
    /\ UNCHANGED <<portVars, asked, previewVars>>

-----------------------------------------------------------------------------
(* preview --scan --approve, from the moment the block node was found      *)
Preview(p) ==
    /\ command[p] = NoCommand /\ here # NoDevice /\ on
    /\ command' = [command EXCEPT ![p] = NewCommand("makeDir", FALSE)]
    /\ UNCHANGED <<portVars, policyVars, previewVars>>

(* The node is looked up once more.  Without one the scan has failed, and  *)
(* so says a message; the command goes on.                                 *)
MakeMountDir(p) ==
    /\ At(p, "makeDir")
    /\ IF here # NoDevice /\ on
       THEN mountDir' = TRUE /\ Goes(p, "mount")
       ELSE mountDir' = mountDir /\ Goes(p, "approve")
    /\ UNCHANGED <<portVars, policyVars, approved>>

(* The shell mounts and scans; without the directory, the node or the      *)
(* scanner it prints nothing, which reads like a clean scan.               *)
MountForScan(p) ==
    /\ At(p, "mount")
    /\ IF here # NoDevice /\ on /\ mountDir /\ Scanner
       THEN command' = [command EXCEPT ![p].step = "scan", ![p].scanned = here]
       ELSE Goes(p, "parse")
    /\ UNCHANGED <<portVars, policyVars, previewVars>>

(* clamscan reads to the end, unless the stick is off or another one, or   *)
(* another scan has removed the directory, and with it this mount.         *)
RunScan(p) ==
    /\ At(p, "scan")
    /\ LET reads == here = command[p].scanned /\ on /\ mountDir IN
       command' = [command EXCEPT ![p].step = "parse",
                     ![p].scanned = IF reads THEN @ ELSE NoDevice,
                     ![p].found = reads /\ here \in Infected]
    /\ UNCHANGED <<portVars, policyVars, previewVars>>

(* Found malware ends the command; an error, as the timeout is one, does   *)
(* not.                                                                    *)
ParseScanBug(p) ==  \* the message alone
    /\ At(p, "parse")
    /\ mountDir' = FALSE
    /\ Goes(p, "approve")
    /\ UNCHANGED <<portVars, policyVars, approved>>

ParseScan(p) ==
    /\ At(p, "parse")
    /\ mountDir' = FALSE
    /\ IF command[p].found THEN Ends(p) ELSE Goes(p, "approve")
    /\ UNCHANGED <<portVars, policyVars, approved>>

ScanTimesOut(p) ==
    /\ At(p, "scan")
    /\ mountDir' = FALSE
    /\ command' = [command EXCEPT ![p].step = "approve", ![p].scanned = NoDevice]
    /\ UNCHANGED <<portVars, policyVars, approved>>

Approve(p) ==
    /\ At(p, "approve")
    /\ on' = (here # NoDevice)
    /\ approved' = IF here = NoDevice THEN approved
                   ELSE approved \cup {[device |-> here, scanned |-> command[p].scanned]}
    /\ Ends(p)
    /\ UNCHANGED <<here, policyVars, mountDir>>

-----------------------------------------------------------------------------
(* Ctrl-C at any moment; the directory and a half-written file stay.       *)
Killed(p) ==
    /\ command[p] # NoCommand
    /\ Ends(p)
    /\ disturbed' = (disturbed \/ At(p, "dump"))
    /\ UNCHANGED <<portVars, policy, asked, added, previewVars>>

Works(p) ==
    \/ Deauthorize(p) \/ Authorize(p)
    \/ ReadPolicy(p) \/ TruncatePolicy(p) \/ DumpPolicy(p)
    \/ MakeMountDir(p) \/ MountForScan(p) \/ RunScan(p) \/ ParseScan(p)
    \/ ScanTimesOut(p) \/ Approve(p)

-----------------------------------------------------------------------------
(* What was added to the allowlist stays there and can be read, unless two *)
(* commands changed the file at a time, or one was killed or failed over   *)
(* it; in each of these cases entries can be lost, all of them at the      *)
(* worst.                                                                  *)
EntriesKept ==
    ~disturbed /\ (\A p \in Processes : ~At(p, "dump"))
        => policy.whole /\ added \subseteq policy.entries

(* preview approves a stick with malware on it only if its scan has not    *)
(* read that stick to the end.                                             *)
ScannedIsNotApproved ==
    \A a \in approved : a.device \in Infected => a.scanned # a.device
=============================================================================
