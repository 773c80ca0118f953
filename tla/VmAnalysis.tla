----------------------------- MODULE VmAnalysis -----------------------------
(***************************************************************************)
(* Analyses in a disposable VM (analysis/vm.py) and the download of its    *)
(* image.  An analysis makes a directory named by the ids of the device    *)
(* and the second, runs QEMU until it exits or its budget is over, reads   *)
(* the serial log in that directory for markers and removes the directory. *)
(* What the VM prints is its own affair: VmPrints is the guest.            *)
(*                                                                         *)
(* A log file is one inode: QEMU empties it when it opens it and writes to *)
(* it for as long as it runs, also after its directory has been removed.   *)
(***************************************************************************)
EXTENDS Integers, FiniteSets

CONSTANTS Runs,      \* analyses
          IdsOf,     \* run -> vendor and product id of the device
          Loaders,   \* those who call create_vm_image: the preflight, wru vm
          MaxSeconds \* bounds a run

ASSUME VmAssumption == MaxSeconds \in Nat /\ \A r \in Runs : IdsOf[r] # "none"

VARIABLES clock,    \* the second
          run,      \* where each analysis is
          dir,      \* its output directory
          dirs,     \* the directories that exist
          log,      \* directory -> serial.log: the markers in it, by the VM that wrote them
          attached, \* the VMs whose open log file is the one of that name
          printed,  \* ghost: the markers each VM has printed
          result,   \* what each analysis returns
          unread,   \* ghost: the analyses whose log could not be parsed
          undeleted,\* ghost: the directories that could not be removed
          image,    \* the parts of the image that are at its path, or NoFile
          tmp,      \* those of the .tmp file
          loader,   \* what each download is at
          overlapped \* ghost: two downloads were under way at a time

failures == <<unread, undeleted>>
vmVars == <<clock, run, dir, dirs, log, attached, printed, result, failures>>
imageVars == <<image, tmp, loader, overlapped>>
vars == <<vmVars, imageVars>>

Markers == {"started", "threat", "complete"}
Dirs == {IdsOf[r] : r \in Runs} \X (0 .. MaxSeconds)
NoDir == <<"none", 0>>
Parts == {1, 2}
NoFile == {0}
Files == (SUBSET Parts) \cup {NoFile}
NoResult == [success |-> FALSE, threat |-> FALSE, error |-> FALSE]

TypeOK ==
    /\ clock \in 0 .. MaxSeconds
    /\ run \in [Runs -> {"new", "made", "qemu", "read", "remove", "done"}]
    /\ dir \in [Runs -> Dirs \cup {NoDir}] /\ dirs \subseteq Dirs
    /\ DOMAIN log \subseteq dirs
    /\ \A d \in DOMAIN log : log[d] \subseteq Runs \X Markers
    /\ attached \subseteq Runs
    /\ printed \in [Runs -> SUBSET Markers]
    /\ result \in [Runs -> [success : BOOLEAN, threat : BOOLEAN, error : BOOLEAN]]
    /\ unread \subseteq Runs /\ undeleted \subseteq Dirs
    /\ image \in Files /\ tmp \in Files
    /\ loader \in [Loaders -> [step : {"rest", "load"}, file : {"tmp", "image", "lost"},
                               part : 0 .. 2]]
    /\ overlapped \in BOOLEAN

Init ==
    /\ clock = 0
    /\ run = [r \in Runs |-> "new"] /\ dir = [r \in Runs |-> NoDir]
    /\ dirs = {} /\ log = [d \in {} |-> {}] /\ attached = {}
    /\ printed = [r \in Runs |-> {}] /\ result = [r \in Runs |-> NoResult]
    /\ unread = {} /\ undeleted = {}
    /\ image \in {NoFile, Parts} /\ tmp = NoFile
    /\ loader = [l \in Loaders |-> [step |-> "rest", file |-> "tmp", part |-> 0]]
    /\ overlapped = FALSE

Passes == clock < MaxSeconds /\ clock' = clock + 1
          /\ UNCHANGED <<run, dir, dirs, log, attached, printed, result, failures, imageVars>>

-----------------------------------------------------------------------------
(* analyze()                                                               *)
At(r, step) == run[r] = step
Goes(r, step) == run' = [run EXCEPT ![r] = step]
Fails(r) == result' = [result EXCEPT ![r] = [NoResult EXCEPT !.error = TRUE]]

NoImage(r) ==
    /\ At(r, "new") /\ image = NoFile
    /\ Goes(r, "done") /\ Fails(r)
    /\ UNCHANGED <<clock, dir, dirs, log, attached, printed, failures, imageVars>>

MakeDir(r) ==
    /\ At(r, "new") /\ image # NoFile
    /\ Goes(r, "made")
    /\ dir' = [dir EXCEPT ![r] = <<IdsOf[r], clock>>]
    /\ dirs' = dirs \cup {<<IdsOf[r], clock>>}
    /\ UNCHANGED <<clock, log, attached, printed, result, failures, imageVars>>

(* The process is started in the directory, and cannot be without it.      *)
Launch(r) ==
    /\ At(r, "made") /\ dir[r] \in dirs
    /\ Goes(r, "qemu")
    /\ log' = [d \in DOMAIN log \cup {dir[r]} |-> IF d = dir[r] THEN {} ELSE log[d]]
    /\ attached' = attached \cup {r}
    /\ UNCHANGED <<clock, dir, dirs, printed, result, failures, imageVars>>

LaunchFails(r) ==
    /\ At(r, "made")
    /\ Goes(r, "remove") /\ Fails(r)
    /\ UNCHANGED <<clock, dir, dirs, log, attached, printed, failures, imageVars>>

(* The guest.  Two VMs on one file overwrite each other here and there.    *)
VmPrints(r) ==
    /\ At(r, "qemu")
    /\ \E m \in Markers \ printed[r] :
         /\ "complete" \notin printed[r]
         /\ m # "started" => "started" \in printed[r]
         /\ printed' = [printed EXCEPT ![r] = @ \cup {m}]
         /\ IF r \in attached
            THEN \E lost \in SUBSET {e \in log[dir[r]] : e[1] # r} :
                   log' = [log EXCEPT ![dir[r]] = (@ \ lost) \cup {<<r, m>>}]
            ELSE UNCHANGED log
    /\ UNCHANGED <<clock, run, dir, dirs, attached, result, failures, imageVars>>

(* QEMU exits within 5 seconds, before the script can have printed much.   *)
ExitsEarlyBug(r) ==  \* return before the finally
    /\ At(r, "qemu") /\ printed[r] \subseteq {"started"}
    /\ Goes(r, "done") /\ Fails(r)
    /\ UNCHANGED <<clock, dir, dirs, log, attached, printed, failures, imageVars>>

ExitsEarly(r) ==
    /\ At(r, "qemu") /\ printed[r] \subseteq {"started"}
    /\ Goes(r, "remove") /\ Fails(r)
    /\ UNCHANGED <<clock, dir, dirs, log, attached, printed, failures, imageVars>>

ExitsBug(r) ==  \* nothing but the end of the script ends the wait
    /\ At(r, "qemu") /\ "complete" \in printed[r]
    /\ Goes(r, "read")
    /\ UNCHANGED <<clock, dir, dirs, log, attached, printed, result, failures, imageVars>>

(* It exits later, or its budget is over and it is terminated.             *)
Exits(r) ==
    /\ At(r, "qemu")
    /\ Goes(r, "read")
    /\ UNCHANGED <<clock, dir, dirs, log, attached, printed, result, failures, imageVars>>

MarkersRead(r) == IF dir[r] \in DOMAIN log THEN {e[2] : e \in log[dir[r]]} ELSE {}

ReadLogBug(r) ==  \* a script that has started counts as run
    /\ At(r, "read")
    /\ Goes(r, "remove")
    /\ result' = [result EXCEPT ![r] =
         LET ran == "started" \in MarkersRead(r) IN
         [success |-> ran, threat |-> ran /\ "threat" \in MarkersRead(r), error |-> ~ran]]
    /\ UNCHANGED <<clock, dir, dirs, log, attached, printed, failures, imageVars>>

(* The log is read, and read again to be parsed if the script has come to  *)
(* its end.  When the second reading fails, this is logged, and the        *)
(* analysis is a success that has found nothing.                           *)
ReadLog(r) ==
    /\ At(r, "read")
    /\ Goes(r, "remove")
    /\ LET ran == "complete" \in MarkersRead(r) IN
       \/ /\ result' = [result EXCEPT ![r] =
                [success |-> ran, threat |-> ran /\ "threat" \in MarkersRead(r), error |-> ~ran]]
          /\ UNCHANGED unread
       \/ /\ ran
          /\ result' = [result EXCEPT ![r] = [NoResult EXCEPT !.success = TRUE]]
          /\ unread' = unread \cup {r}
    /\ UNCHANGED <<clock, dir, dirs, log, attached, printed, undeleted, imageVars>>

ReadFails(r) ==
    /\ At(r, "read")
    /\ Goes(r, "remove") /\ Fails(r)
    /\ UNCHANGED <<clock, dir, dirs, log, attached, printed, failures, imageVars>>

WithoutLog(d) ==
    /\ log' = [e \in DOMAIN log \ {d} |-> log[e]]
    /\ attached' = {q \in attached : dir[q] # d}

RemoveDir(r) ==
    /\ At(r, "remove")
    /\ Goes(r, "done")
    /\ dirs' = dirs \ {dir[r]}
    /\ WithoutLog(dir[r])
    /\ UNCHANGED <<clock, dir, printed, result, failures, imageVars>>

(* An error of rmtree is passed over.                                      *)
RemoveFails(r) ==
    /\ At(r, "remove") /\ dir[r] \in dirs
    /\ Goes(r, "done")
    /\ undeleted' = undeleted \cup {dir[r]}
    /\ WithoutLog(dir[r]) \/ UNCHANGED <<log, attached>>
    /\ UNCHANGED <<clock, dir, dirs, printed, result, unread, imageVars>>

Analyze(r) ==
    \/ NoImage(r) \/ MakeDir(r) \/ Launch(r) \/ LaunchFails(r)
    \/ ExitsEarly(r) \/ Exits(r) \/ ReadLog(r) \/ ReadFails(r)
    \/ RemoveDir(r) \/ RemoveFails(r)

-----------------------------------------------------------------------------
(* create_vm_image: download to a .tmp file that every call uses, then     *)
(* rename it.  The parts stand for how far a download is.                  *)
OpenTmp(l) ==
    /\ loader[l].step = "rest" /\ image = NoFile
    /\ tmp' = {}
    /\ loader' = [loader EXCEPT ![l] = [step |-> "load", file |-> "tmp", part |-> 0]]
    /\ overlapped' = (overlapped \/ \E k \in Loaders : loader[k].step = "load")
    /\ UNCHANGED <<vmVars, image>>

WritePart(l) ==
    /\ loader[l].step = "load" /\ loader[l].part < 2
    /\ loader' = [loader EXCEPT ![l].part = @ + 1]
    /\ tmp' = IF loader[l].file = "tmp" THEN tmp \cup {loader[l].part + 1} ELSE tmp
    /\ image' = IF loader[l].file = "image" THEN image \cup {loader[l].part + 1} ELSE image
    /\ UNCHANGED <<vmVars, overlapped>>

RenameTmpBug(l) ==  \* renamed without waiting for the last part
    /\ loader[l].step = "load" /\ loader[l].part >= 1
    /\ tmp # NoFile
    /\ image' = tmp /\ tmp' = NoFile
    /\ loader' = [loader EXCEPT ![l] = [step |-> "rest", file |-> "tmp", part |-> 0]]
    /\ UNCHANGED <<vmVars, overlapped>>

(* The files other downloads have open change their names with it.         *)
RenameTmp(l) ==
    /\ loader[l].step = "load" /\ loader[l].part = 2
    /\ tmp # NoFile
    /\ image' = tmp /\ tmp' = NoFile
    /\ loader' = [k \in Loaders |->
         IF k = l THEN [step |-> "rest", file |-> "tmp", part |-> 0]
         ELSE IF loader[k].file = "tmp" /\ loader[k].step = "load"
              THEN [loader[k] EXCEPT !.file = "image"]
         ELSE IF loader[k].file = "image" THEN [loader[k] EXCEPT !.file = "lost"]
         ELSE loader[k]]
    /\ UNCHANGED <<vmVars, overlapped>>

(* The rename finds no file, the connection breaks, or the process is      *)
(* killed: what was written stays.                                         *)
LoadFails(l) ==
    /\ loader[l].step = "load"
    /\ loader' = [loader EXCEPT ![l] = [step |-> "rest", file |-> "tmp", part |-> 0]]
    /\ UNCHANGED <<vmVars, image, tmp, overlapped>>

Load(l) == OpenTmp(l) \/ WritePart(l) \/ RenameTmp(l) \/ LoadFails(l)

Next ==
    \/ Passes
    \/ \E r \in Runs : Analyze(r) \/ VmPrints(r)
    \/ \E l \in Loaders : Load(l)

Fairness == \A r \in Runs : WF_vars(Analyze(r) /\ run[r] # "new")

Spec == Init /\ [][Next]_vars /\ Fairness

-----------------------------------------------------------------------------
Sharing(r) == {q \in Runs \ {r} : dir[q] = dir[r]}

(* An analysis that has its directory to itself returns what its own VM    *)
(* found, no matter what the others do: success exactly when the script    *)
(* came to its end before QEMU did, the threat exactly when it was         *)
(* printed by then, unless the log could not be parsed, when there is      *)
(* none.  Two that share a directory, as devices with the same ids do when *)
(* they are analysed in the same second, may take each other's log, but a  *)
(* success still stands for a VM that was given a device with these ids    *)
(* and came to its end.                                                    *)
OwnVerdict ==
    \A r \in Runs : result[r].success =>
        /\ \E q \in {r} \cup Sharing(r) : "complete" \in printed[q]
        /\ Sharing(r) = {} => /\ "complete" \in printed[r]
                             /\ result[r].threat <=> "threat" \in printed[r] /\ r \notin unread

(* However an analysis ends, its directory goes, unless it cannot be       *)
(* removed, which nobody hears of, or the process itself is killed, which  *)
(* is not followed here.                                                   *)
NothingLeft == (\A r \in Runs : run[r] \in {"new", "done"}) => dirs \subseteq undeleted

(* An image that is found is a whole image after any failed or killed      *)
(* download, unless two were under way at a time: they share the .tmp      *)
(* file, and the first to finish renames what the other has emptied.       *)
ImageIsWhole == ~overlapped => image \in {NoFile, Parts}

(* An analysis that was begun ends: again and again none is under way.     *)
AnalysesEnd == []<>(\A r \in Runs : run[r] \in {"new", "done"})
=============================================================================
