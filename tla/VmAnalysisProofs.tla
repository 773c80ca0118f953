--------------------------- MODULE VmAnalysisProofs ---------------------------
(***************************************************************************)
(* An analysis returns what its own VM printed, leaves no directory        *)
(* behind, and an image that is found is whole; for any number of analyses *)
(* of any devices and any number of downloads.                             *)
(***************************************************************************)
EXTENDS VmAnalysis, TLAPS

(* A directory is one an analysis that is under way has made, or one that  *)
(* could not be removed.                                                   *)
DirsUsed ==
    /\ \A r \in Runs : run[r] # "new" /\ run[r] # "done" => dir[r] \in Dirs
    /\ \A r \in Runs : run[r] = "new" => dir[r] = NoDir
    /\ \A d \in dirs :
         d \in undeleted \/ \E r \in Runs : run[r] \notin {"new", "done"} /\ dir[r] = d

(* A log holds what VMs of that directory have printed.                    *)
LogsHonest ==
    /\ \A q \in attached : dir[q] \in DOMAIN log
    /\ \A d \in DOMAIN log : \A e \in log[d] : dir[e[1]] = d /\ e[2] \in printed[e[1]]

(* A VM that has its directory to itself has all it printed in its log.    *)
LogComplete ==
    /\ \A r \in Runs : run[r] \in {"new", "made"} => printed[r] = {}
    /\ \A r \in Runs : run[r] \in {"qemu", "read"} /\ Sharing(r) = {} =>
         /\ run[r] = "qemu" => r \in attached
         /\ dir[r] \in DOMAIN log /\ \A m \in printed[r] : <<r, m>> \in log[dir[r]]

VerdictAtEnd ==
    \A r \in Runs : result[r].success => run[r] \in {"remove", "done"} /\ dir[r] \in Dirs

UnreadAtEnd == \A r \in unread : run[r] \in {"remove", "done"}

(* TypeOK, in two halves.  The second is not inductive by itself: a        *)
(* download adds to a file that it has open, which is one.                 *)
Loading(l) == loader[l].step = "load"

VmTyped ==
    /\ clock \in 0 .. MaxSeconds
    /\ run \in [Runs -> {"new", "made", "qemu", "read", "remove", "done"}]
    /\ dir \in [Runs -> Dirs \cup {NoDir}] /\ dirs \subseteq Dirs
    /\ DOMAIN log \subseteq dirs
    /\ \A d \in DOMAIN log : log[d] \subseteq Runs \X Markers
    /\ attached \subseteq Runs
    /\ printed \in [Runs -> SUBSET Markers]
    /\ result \in [Runs -> [success : BOOLEAN, threat : BOOLEAN, error : BOOLEAN]]
    /\ unread \subseteq Runs /\ undeleted \subseteq Dirs

ImageTyped ==
    /\ image \in Files /\ tmp \in Files
    /\ loader \in [Loaders -> [step : {"rest", "load"}, file : {"tmp", "image", "lost"},
                               part : 0 .. 2]]
    /\ overlapped \in BOOLEAN
    /\ \A l \in Loaders : Loading(l) =>
         /\ loader[l].file = "tmp" => tmp \in SUBSET Parts
         /\ loader[l].file = "image" => image \in SUBSET Parts

(* The one download under way has written the .tmp file from the start.    *)
TmpFromStart ==
    ~overlapped =>
        /\ \A k, l \in Loaders : Loading(k) /\ Loading(l) => k = l
        /\ \A l \in Loaders : Loading(l) =>
              loader[l].file = "tmp" /\ tmp = {x \in Parts : x <= loader[l].part}
        /\ image \in {NoFile, Parts}

-----------------------------------------------------------------------------
LEMMA VmBounds == MaxSeconds \in Nat /\ \A r \in Runs : IdsOf[r] # "none"
BY VmAssumption DEF VmAssumption

LEMMA NoDirIsNone == NoDir \notin Dirs
<1>1. \A d \in Dirs : \E r \in Runs : d[1] = IdsOf[r]
  BY DEF Dirs
<1>2. NoDir[1] = "none"
  BY DEF NoDir
<1> QED  BY <1>1, <1>2, VmBounds

LEMMA FilesAre == \A f : f \in Files <=> f = NoFile \/ f \in SUBSET Parts
BY DEF Files

(* A step is one of an analysis, of its guest or of the clock, or else it  *)
(* concerns the image.                                                     *)
LEMMA StepsApart ==
    ASSUME [Next]_vars
    PROVE  \/ UNCHANGED vmVars
           \/ Passes
           \/ \E r \in Runs : Analyze(r) \/ VmPrints(r)
BY DEF Next, vars, Load, OpenTmp, WritePart, RenameTmp, LoadFails

LEMMA VmTypeInit == Init => VmTyped /\ ImageTyped
<1> SUFFICES ASSUME Init PROVE VmTyped /\ ImageTyped
  OBVIOUS
<1>1. DOMAIN log = {} /\ (\A l \in Loaders : ~Loading(l))
  BY DEF Init, Loading
<1>2. NoResult \in [success : BOOLEAN, threat : BOOLEAN, error : BOOLEAN]
  BY DEF NoResult
<1>3. image \in Files /\ tmp \in Files
  <2>1. tmp = NoFile /\ (image = NoFile \/ image = Parts)
    BY DEF Init
  <2> QED  BY <2>1, FilesAre
<1>4. VmTyped
  BY <1>1, <1>2, VmBounds DEF Init, VmTyped
<1>5. ImageTyped
  <2>1. loader \in [Loaders -> [step : {"rest", "load"}, file : {"tmp", "image", "lost"},
                                part : 0 .. 2]]
    BY DEF Init
  <2> QED  BY <1>1, <1>3, <2>1 DEF Init, ImageTyped
<1> QED  BY <1>4, <1>5

LEMMA VmTypedStep ==
    ASSUME VmTyped, [Next]_vars
    PROVE  VmTyped'
<1> USE DEF VmTyped, failures
<1>1. CASE UNCHANGED vmVars
  BY <1>1 DEF vmVars
<1>2. CASE Passes
  BY <1>2, VmBounds DEF Passes
<1>4. ASSUME NEW r \in Runs, NEW s \in {"made", "qemu", "read", "remove", "done"}, Goes(r, s)
      PROVE  run' \in [Runs -> {"new", "made", "qemu", "read", "remove", "done"}]
  BY <1>4 DEF Goes
<1>5. ASSUME NEW r \in Runs, Fails(r)
      PROVE  result' \in [Runs -> [success : BOOLEAN, threat : BOOLEAN, error : BOOLEAN]]
  <2>1. NoResult \in [success : BOOLEAN, threat : BOOLEAN, error : BOOLEAN]
    BY DEF NoResult
  <2>2. [NoResult EXCEPT !.error = TRUE] \in [success : BOOLEAN, threat : BOOLEAN, error : BOOLEAN]
    BY <2>1
  <2> QED  BY <1>5, <2>2 DEF Fails
<1>6. ASSUME NEW r \in Runs, NoImage(r) \/ LaunchFails(r) \/ ExitsEarly(r) \/ ReadFails(r)
      PROVE  VmTyped'
  <2>1. run' \in [Runs -> {"new", "made", "qemu", "read", "remove", "done"}]
    BY <1>4, <1>6 DEF NoImage, LaunchFails, ExitsEarly, ReadFails
  <2>2. result' \in [Runs -> [success : BOOLEAN, threat : BOOLEAN, error : BOOLEAN]]
    BY <1>5, <1>6 DEF NoImage, LaunchFails, ExitsEarly, ReadFails
  <2> QED  BY <1>6, <2>1, <2>2 DEF NoImage, LaunchFails, ExitsEarly, ReadFails
<1>7. ASSUME NEW r \in Runs, MakeDir(r) PROVE VmTyped'
  <2>1. <<IdsOf[r], clock>> \in Dirs
    BY DEF Dirs
  <2>2. run' \in [Runs -> {"new", "made", "qemu", "read", "remove", "done"}]
    BY <1>4, <1>7 DEF MakeDir
  <2> QED  BY <1>7, <2>1, <2>2 DEF MakeDir
<1>8. ASSUME NEW r \in Runs, Launch(r) PROVE VmTyped'
  <2>1. run' \in [Runs -> {"new", "made", "qemu", "read", "remove", "done"}]
    BY <1>4, <1>8 DEF Launch
  <2>2. DOMAIN log' \subseteq dirs' /\ \A d \in DOMAIN log' : log'[d] \subseteq Runs \X Markers
    BY <1>8 DEF Launch
  <2> QED  BY <1>8, <2>1, <2>2 DEF Launch
<1>9. ASSUME NEW r \in Runs, VmPrints(r) PROVE VmTyped'
  <2>1. PICK m \in Markers :
          /\ printed' = [printed EXCEPT ![r] = @ \cup {m}]
          /\ IF r \in attached
             THEN \E lost \in SUBSET {e \in log[dir[r]] : e[1] # r} :
                    log' = [log EXCEPT ![dir[r]] = (@ \ lost) \cup {<<r, m>>}]
             ELSE UNCHANGED log
    BY <1>9 DEF VmPrints
  <2>2. DOMAIN log' = DOMAIN log /\ \A d \in DOMAIN log' : log'[d] \subseteq log[d] \cup {<<r, m>>}
    BY <2>1
  <2>3. printed' \in [Runs -> SUBSET Markers]
    BY <2>1
  <2> QED  BY <1>9, <2>2, <2>3 DEF VmPrints
<1>10. ASSUME NEW r \in Runs, Exits(r) PROVE VmTyped'
  <2>1. run' \in [Runs -> {"new", "made", "qemu", "read", "remove", "done"}]
    BY <1>4, <1>10 DEF Exits
  <2> QED  BY <1>10, <2>1 DEF Exits
<1>11. ASSUME NEW r \in Runs, ReadLog(r) PROVE VmTyped'
  <2>1. run' \in [Runs -> {"new", "made", "qemu", "read", "remove", "done"}]
    BY <1>4, <1>11 DEF ReadLog
  <2>2. result' \in [Runs -> [success : BOOLEAN, threat : BOOLEAN, error : BOOLEAN]]
    <3> DEFINE Res == [success : BOOLEAN, threat : BOOLEAN, error : BOOLEAN]
               ran == "complete" \in MarkersRead(r)
               threat == ran /\ "threat" \in MarkersRead(r)
    <3>1. [NoResult EXCEPT !.success = TRUE] \in Res
      <4>1. NoResult \in Res
        BY DEF NoResult
      <4> QED  BY <4>1
    <3>2. [success |-> ran, threat |-> threat, error |-> ~ran] \in Res
      <4> HIDE DEF ran, threat
      <4>1. ran \in BOOLEAN
        <5>1. ran = TRUE \/ ran = FALSE
          BY DEF ran
        <5> QED  BY <5>1
      <4>2. (~ran) \in BOOLEAN
        BY <4>1
      <4>3. threat \in BOOLEAN
        <5>1. threat = TRUE \/ threat = FALSE
          BY DEF threat
        <5> QED  BY <5>1
      <4> QED  BY <4>1, <4>2, <4>3
    <3>3. \E x \in Res : result' = [result EXCEPT ![r] = x]
      <4> HIDE DEF Res
      <4> QED  BY <1>11, <3>1, <3>2 DEF ReadLog
    <3> QED  BY <3>3
  <2>3. unread' \subseteq Runs
    BY <1>11 DEF ReadLog
  <2> QED  BY <1>11, <2>1, <2>2, <2>3 DEF ReadLog
<1>12. ASSUME NEW r \in Runs, RemoveDir(r) \/ RemoveFails(r) PROVE VmTyped'
  <2>1. run' \in [Runs -> {"new", "made", "qemu", "read", "remove", "done"}]
    BY <1>4, <1>12 DEF RemoveDir, RemoveFails
  <2>2. DOMAIN log' \subseteq dirs' /\ \A d \in DOMAIN log' : log'[d] \subseteq Runs \X Markers
    BY <1>12 DEF RemoveDir, RemoveFails, WithoutLog
  <2>3. /\ dirs' \subseteq dirs /\ undeleted' \subseteq undeleted \cup dirs
        /\ attached' \subseteq attached
    BY <1>12 DEF RemoveDir, RemoveFails, WithoutLog
  <2> QED  BY <1>12, <2>1, <2>2, <2>3 DEF RemoveDir, RemoveFails
<1> QED  BY <1>1, <1>2, <1>6, <1>7, <1>8, <1>9, <1>10, <1>11, <1>12, StepsApart DEF Analyze

LEMMA ImageTypedStep ==
    ASSUME ImageTyped, [Next]_vars
    PROVE  ImageTyped'
<1> DEFINE Loaderish == [step : {"rest", "load"}, file : {"tmp", "image", "lost"}, part : 0 .. 2]
<1>1. ASSUME UNCHANGED imageVars PROVE ImageTyped'
  BY <1>1 DEF imageVars, ImageTyped, Loading
<1>2. /\ image \in Files /\ tmp \in Files /\ loader \in [Loaders -> Loaderish]
      /\ overlapped \in BOOLEAN
      /\ \A l \in Loaders : Loading(l) =>
            /\ loader[l].file = "tmp" => tmp \in SUBSET Parts
            /\ loader[l].file = "image" => image \in SUBSET Parts
  BY DEF ImageTyped
<1>3. [step |-> "rest", file |-> "tmp", part |-> 0] \in Loaderish
      /\ [step |-> "load", file |-> "tmp", part |-> 0] \in Loaderish
  OBVIOUS
<1>4. ASSUME NEW l \in Loaders, OpenTmp(l) PROVE ImageTyped'
  <2>1. /\ tmp' = {} /\ image' = image /\ overlapped' \in BOOLEAN
        /\ loader' = [loader EXCEPT ![l] = [step |-> "load", file |-> "tmp", part |-> 0]]
    BY <1>2, <1>4 DEF OpenTmp
  <2>2. loader' \in [Loaders -> Loaderish]
    BY <1>2, <1>3, <2>1
  <2>3. \A k \in Loaders : Loading(k)' /\ loader'[k].file = "image"
           => Loading(k) /\ loader[k].file = "image"
    BY <1>2, <2>1 DEF Loading
  <2>4. tmp' \in Files
    BY <2>1, FilesAre
  <2> QED  BY <1>2, <2>1, <2>2, <2>3, <2>4 DEF ImageTyped
<1>5. ASSUME NEW l \in Loaders, WritePart(l) PROVE ImageTyped'
  <2>1. /\ Loading(l) /\ loader[l].part \in 0 .. 1
        /\ loader' = [loader EXCEPT ![l].part = @ + 1]
        /\ tmp' = IF loader[l].file = "tmp" THEN tmp \cup {loader[l].part + 1} ELSE tmp
        /\ image' = IF loader[l].file = "image" THEN image \cup {loader[l].part + 1} ELSE image
        /\ UNCHANGED overlapped
    BY <1>2, <1>5 DEF WritePart, Loading
  <2>2. /\ loader' \in [Loaders -> Loaderish]
        /\ \A k \in Loaders : loader'[k].step = loader[k].step /\ loader'[k].file = loader[k].file
    BY <1>2, <2>1
  <2>3. loader[l].part + 1 \in Parts
    BY <2>1 DEF Parts
  <2>4. /\ tmp \in SUBSET Parts => tmp' \in SUBSET Parts
        /\ image \in SUBSET Parts => image' \in SUBSET Parts
    BY <2>1, <2>3
  <2>5. tmp' \in Files /\ image' \in Files
    <3>1. (tmp' = tmp \/ tmp \in SUBSET Parts) /\ (image' = image \/ image \in SUBSET Parts)
      BY <1>2, <2>1
    <3> QED  BY <1>2, <2>4, <3>1, FilesAre
  <2> QED  BY <1>2, <2>1, <2>2, <2>4, <2>5 DEF ImageTyped, Loading
<1>6. ASSUME NEW l \in Loaders, RenameTmp(l) PROVE ImageTyped'
  <2>1. /\ tmp # NoFile /\ image' = tmp /\ tmp' = NoFile /\ UNCHANGED overlapped
        /\ loader' = [k \in Loaders |->
             IF k = l THEN [step |-> "rest", file |-> "tmp", part |-> 0]
             ELSE IF loader[k].file = "tmp" /\ loader[k].step = "load"
                  THEN [loader[k] EXCEPT !.file = "image"]
             ELSE IF loader[k].file = "image" THEN [loader[k] EXCEPT !.file = "lost"]
             ELSE loader[k]]
    BY <1>6 DEF RenameTmp
  <2>2. loader' \in [Loaders -> Loaderish]
    BY <1>2, <1>3, <2>1
  <2>3. tmp \in SUBSET Parts
    <3>1. tmp \in Files /\ tmp # NoFile
      BY <1>2, <2>1
    <3> QED  BY <3>1, FilesAre
  <2>4. \A k \in Loaders : loader'[k].step = "load" => loader'[k].file # "tmp"
    BY <1>2, <2>1
  <2>5. image' \in Files /\ tmp' \in Files
    BY <1>2, <2>1, FilesAre
  <2> QED  BY <1>2, <2>1, <2>2, <2>3, <2>4, <2>5 DEF ImageTyped, Loading
<1>7. ASSUME NEW l \in Loaders, LoadFails(l) PROVE ImageTyped'
  <2>1. /\ UNCHANGED <<image, tmp, overlapped>>
        /\ loader' = [loader EXCEPT ![l] = [step |-> "rest", file |-> "tmp", part |-> 0]]
    BY <1>7 DEF LoadFails
  <2>2. /\ loader' \in [Loaders -> Loaderish]
        /\ \A k \in Loaders : loader'[k].step = "load" => loader'[k] = loader[k]
    BY <1>2, <1>3, <2>1
  <2> QED  BY <1>2, <2>1, <2>2 DEF ImageTyped, Loading
<1>8. UNCHANGED vars \/ Passes \/ (\E r \in Runs : Analyze(r) \/ VmPrints(r)) => UNCHANGED imageVars
  BY DEF vars, Passes, Analyze, VmPrints, NoImage, MakeDir, Launch, LaunchFails, ExitsEarly,
         Exits, ReadLog, ReadFails, RemoveDir, RemoveFails
<1> QED  BY <1>1, <1>4, <1>5, <1>6, <1>7, <1>8 DEF Next, Load

(* The type invariant: no step takes a file, a log or a result for what it *)
(* is not.                                                                 *)
THEOREM VmTypesHold == Spec => []TypeOK
<1>1. VmTyped /\ ImageTyped /\ [Next]_vars => (VmTyped /\ ImageTyped)'
  BY VmTypedStep, ImageTypedStep
<1>2. VmTyped /\ ImageTyped => TypeOK
  BY DEF VmTyped, ImageTyped, TypeOK
<1> QED  BY VmTypeInit, <1>1, <1>2, PTL DEF Spec

-----------------------------------------------------------------------------
(* Directories.                                                            *)
LEMMA DirsUsedStep ==
    ASSUME VmTyped, DirsUsed, [Next]_vars
    PROVE  DirsUsed'
<1> DEFINE Active(r) == run[r] \notin {"new", "done"}
<1>0. /\ run \in [Runs -> {"new", "made", "qemu", "read", "remove", "done"}]
      /\ dir \in [Runs -> Dirs \cup {NoDir}] /\ clock \in 0 .. MaxSeconds
  BY DEF VmTyped
<1>1. CASE UNCHANGED <<run, dir, dirs, undeleted>>
  BY <1>1 DEF DirsUsed
<1>2. ASSUME NEW r \in Runs, NEW s \in {"qemu", "read", "remove"}, Goes(r, s), Active(r),
             UNCHANGED <<dir, dirs, undeleted>>
      PROVE  DirsUsed'
  <2>1. /\ \A q \in Runs : run'[q] = "new" <=> run[q] = "new"
        /\ \A q \in Runs : run'[q] = "done" <=> run[q] = "done"
    BY <1>0, <1>2 DEF Goes
  <2> QED  BY <1>2, <2>1 DEF DirsUsed
<1>3. ASSUME NEW r \in Runs, NoImage(r) PROVE DirsUsed'
  <2>1. /\ run[r] = "new" /\ run'[r] = "done" /\ \A q \in Runs \ {r} : run'[q] = run[q]
        /\ UNCHANGED <<dir, dirs, undeleted>>
    BY <1>0, <1>3 DEF NoImage, Goes, At, failures
  <2> QED  BY <2>1 DEF DirsUsed
<1>4. ASSUME NEW r \in Runs, MakeDir(r) PROVE DirsUsed'
  <2>1. /\ run[r] = "new" /\ run'[r] = "made" /\ \A q \in Runs \ {r} : run'[q] = run[q]
        /\ dir'[r] = <<IdsOf[r], clock>> /\ \A q \in Runs \ {r} : dir'[q] = dir[q]
        /\ dirs' = dirs \cup {<<IdsOf[r], clock>>} /\ UNCHANGED undeleted
    BY <1>0, <1>4 DEF MakeDir, Goes, At, failures
  <2>2. <<IdsOf[r], clock>> \in Dirs
    BY <1>0 DEF Dirs
  <2>3. ASSUME NEW d \in dirs', d \notin undeleted'
        PROVE  \E q \in Runs : run'[q] \notin {"new", "done"} /\ dir'[q] = d
    <3>1. CASE d = <<IdsOf[r], clock>>
      BY <2>1, <3>1
    <3>2. CASE d \in dirs
      <4>1. PICK q \in Runs : run[q] \notin {"new", "done"} /\ dir[q] = d
        BY <2>1, <2>3, <3>2 DEF DirsUsed
      <4>2. q # r
        BY <2>1, <4>1
      <4> QED  BY <2>1, <4>1, <4>2
    <3> QED  BY <2>1, <2>3, <3>1, <3>2
  <2> QED  BY <2>1, <2>2, <2>3 DEF DirsUsed
<1>5. ASSUME NEW r \in Runs, RemoveDir(r) \/ RemoveFails(r) PROVE DirsUsed'
  <2>1. /\ run'[r] = "done" /\ \A q \in Runs \ {r} : run'[q] = run[q]
        /\ UNCHANGED dir /\ dirs' \subseteq dirs /\ undeleted \subseteq undeleted'
        /\ dir[r] \in dirs' => dir[r] \in undeleted'
    BY <1>0, <1>5 DEF RemoveDir, RemoveFails, Goes, failures
  <2>2. ASSUME NEW d \in dirs', d \notin undeleted'
        PROVE  \E q \in Runs : run'[q] \notin {"new", "done"} /\ dir'[q] = d
    <3>1. PICK q \in Runs : run[q] \notin {"new", "done"} /\ dir[q] = d
      BY <2>1, <2>2 DEF DirsUsed
    <3>2. q # r
      BY <2>1, <2>2, <3>1
    <3> QED  BY <2>1, <3>1, <3>2
  <2> QED  BY <2>1, <2>2 DEF DirsUsed
<1>6. ASSUME NEW r \in Runs,
             Launch(r) \/ LaunchFails(r) \/ ExitsEarly(r) \/ Exits(r) \/ ReadLog(r) \/ ReadFails(r)
      PROVE  DirsUsed'
  <2>1. /\ Active(r) /\ UNCHANGED <<dir, dirs, undeleted>>
        /\ \E s \in {"qemu", "read", "remove"} : Goes(r, s)
    BY <1>6 DEF Launch, LaunchFails, ExitsEarly, Exits, ReadLog, ReadFails, At, failures
  <2> QED  BY <1>2, <2>1
<1>7. UNCHANGED vmVars \/ Passes \/ (\E r \in Runs : VmPrints(r))
        => UNCHANGED <<run, dir, dirs, undeleted>>
  BY DEF vmVars, Passes, VmPrints, failures
<1> QED  BY <1>1, <1>3, <1>4, <1>5, <1>6, <1>7, StepsApart DEF Analyze

(* What a run has been given stays, and sharing it does not end.           *)
LEMMA DirStays ==
    ASSUME VmTyped, DirsUsed, [Next]_vars, NEW r \in Runs, dir[r] \in Dirs
    PROVE  dir'[r] = dir[r] /\ Sharing(r) \subseteq Sharing(r)'
<1>1. \A q \in Runs : dir'[q] = dir[q] \/ dir[q] = NoDir
  <2>1. ASSUME NEW p \in Runs, MakeDir(p) PROVE \A q \in Runs : dir'[q] = dir[q] \/ dir[q] = NoDir
    BY <2>1 DEF MakeDir, At, VmTyped, DirsUsed
  <2>2. UNCHANGED vmVars \/ Passes \/ (\E p \in Runs : VmPrints(p) \/ (Analyze(p) /\ ~MakeDir(p)))
          => UNCHANGED dir
    BY DEF vmVars, Passes, VmPrints, Analyze, NoImage, Launch, LaunchFails, ExitsEarly, Exits,
           ReadLog, ReadFails, RemoveDir, RemoveFails
  <2> QED  BY <2>1, <2>2, StepsApart
<1> QED  BY <1>1, NoDirIsNone DEF Sharing

(* However an analysis ends, its directory goes with it, and one that      *)
(* others share goes with the first of them: when all have ended, none is  *)
(* left but those that could not be removed.                               *)
THEOREM NoDirectoryLeft == Spec => []NothingLeft
<1>1. Init => VmTyped /\ DirsUsed
  <2> SUFFICES ASSUME Init PROVE DirsUsed
    BY VmTypeInit
  <2>1. (\A r \in Runs : run[r] = "new" /\ dir[r] = NoDir) /\ dirs = {}
    BY DEF Init
  <2> QED  BY <2>1 DEF DirsUsed
<1>2. VmTyped /\ DirsUsed /\ [Next]_vars => (VmTyped /\ DirsUsed)'
  BY VmTypedStep, DirsUsedStep
<1>3. DirsUsed => NothingLeft
  BY DEF DirsUsed, NothingLeft
<1> QED  BY <1>1, <1>2, <1>3, PTL DEF Spec

-----------------------------------------------------------------------------
(* The image.                                                              *)
LEMMA TmpFromStartStep ==
    ASSUME ImageTyped, TmpFromStart, [Next]_vars
    PROVE  TmpFromStart'
<1> SUFFICES ASSUME ~overlapped'
             PROVE  /\ \A k, l \in Loaders : Loading(k)' /\ Loading(l)' => k = l
                    /\ \A l \in Loaders : Loading(l)' =>
                          loader'[l].file = "tmp" /\ tmp' = {x \in Parts : x <= loader'[l].part}
                    /\ image' \in {NoFile, Parts}
  BY DEF TmpFromStart
<1>1. /\ loader \in [Loaders -> [step : {"rest", "load"}, file : {"tmp", "image", "lost"},
                                 part : 0 .. 2]]
  BY DEF ImageTyped
<1>2. ASSUME ~overlapped
      PROVE  /\ \A k, l \in Loaders : Loading(k) /\ Loading(l) => k = l
             /\ \A l \in Loaders : Loading(l) =>
                   loader[l].file = "tmp" /\ tmp = {x \in Parts : x <= loader[l].part}
             /\ image \in {NoFile, Parts}
  BY <1>2 DEF TmpFromStart
<1>3. CASE UNCHANGED imageVars
  BY <1>2, <1>3 DEF imageVars, Loading
<1>4. ASSUME NEW l \in Loaders, OpenTmp(l)
      PROVE  /\ \A k, m \in Loaders : Loading(k)' /\ Loading(m)' => k = m
             /\ \A m \in Loaders : Loading(m)' =>
                   loader'[m].file = "tmp" /\ tmp' = {x \in Parts : x <= loader'[m].part}
             /\ image' \in {NoFile, Parts}
  <2>1. /\ ~overlapped /\ \A k \in Loaders : ~Loading(k)
        /\ tmp' = {} /\ image' = image
        /\ loader'[l] = [step |-> "load", file |-> "tmp", part |-> 0]
        /\ \A k \in Loaders \ {l} : loader'[k] = loader[k]
    BY <1>1, <1>4 DEF OpenTmp, Loading
  <2>2. {x \in Parts : x <= 0} = {}
    BY DEF Parts
  <2> QED  BY <1>2, <2>1, <2>2 DEF Loading
<1>5. ASSUME NEW l \in Loaders, WritePart(l)
      PROVE  /\ \A k, m \in Loaders : Loading(k)' /\ Loading(m)' => k = m
             /\ \A m \in Loaders : Loading(m)' =>
                   loader'[m].file = "tmp" /\ tmp' = {x \in Parts : x <= loader'[m].part}
             /\ image' \in {NoFile, Parts}
  <2>1. /\ ~overlapped /\ Loading(l) /\ loader[l].part \in 0 .. 1 /\ loader[l].file = "tmp"
        /\ tmp' = tmp \cup {loader[l].part + 1} /\ image' = image
        /\ loader'[l].step = "load" /\ loader'[l].file = "tmp"
        /\ loader'[l].part = loader[l].part + 1
        /\ \A k \in Loaders \ {l} : loader'[k] = loader[k]
    BY <1>1, <1>2, <1>5 DEF WritePart, Loading
  <2>2. \A p \in 0 .. 1 : {x \in Parts : x <= p} \cup {p + 1} = {x \in Parts : x <= p + 1}
    BY DEF Parts
  <2>3. tmp' = {x \in Parts : x <= loader'[l].part}
    BY <1>2, <2>1, <2>2
  <2>4. \A k \in Loaders : Loading(k)' => k = l
    BY <1>2, <2>1 DEF Loading
  <2> QED  BY <1>2, <2>1, <2>3, <2>4
<1>6. ASSUME NEW l \in Loaders, RenameTmp(l)
      PROVE  (\A k \in Loaders : ~Loading(k)') /\ image' \in {NoFile, Parts}
  <2>1. /\ ~overlapped /\ Loading(l) /\ loader[l].part = 2 /\ image' = tmp
        /\ loader' = [k \in Loaders |->
             IF k = l THEN [step |-> "rest", file |-> "tmp", part |-> 0]
             ELSE IF loader[k].file = "tmp" /\ loader[k].step = "load"
                  THEN [loader[k] EXCEPT !.file = "image"]
             ELSE IF loader[k].file = "image" THEN [loader[k] EXCEPT !.file = "lost"]
             ELSE loader[k]]
    BY <1>6 DEF RenameTmp, Loading
  <2>2. \A k \in Loaders \ {l} : loader[k].step # "load"
    BY <1>2, <2>1 DEF Loading
  <2>3. \A k \in Loaders : loader'[k].step # "load"
    BY <1>1, <2>1, <2>2
  <2>4. {x \in Parts : x <= 2} = Parts
    BY DEF Parts
  <2> QED  BY <1>2, <2>1, <2>3, <2>4 DEF Loading
<1>7. ASSUME NEW l \in Loaders, LoadFails(l)
      PROVE  /\ \A k, m \in Loaders : Loading(k)' /\ Loading(m)' => k = m
             /\ \A m \in Loaders : Loading(m)' =>
                   loader'[m].file = "tmp" /\ tmp' = {x \in Parts : x <= loader'[m].part}
             /\ image' \in {NoFile, Parts}
  <2>1. /\ ~overlapped /\ UNCHANGED <<image, tmp>>
        /\ \A k \in Loaders : loader'[k].step = "load" => loader'[k] = loader[k]
    BY <1>1, <1>7 DEF LoadFails
  <2> QED  BY <1>2, <2>1 DEF Loading
<1>8. UNCHANGED vars \/ Passes \/ (\E r \in Runs : Analyze(r) \/ VmPrints(r)) => UNCHANGED imageVars
  BY DEF vars, Passes, Analyze, VmPrints, NoImage, MakeDir, Launch, LaunchFails, ExitsEarly,
         Exits, ReadLog, ReadFails, RemoveDir, RemoveFails
<1> QED  BY <1>3, <1>4, <1>5, <1>6, <1>7, <1>8 DEF Next, Load

(* What create_vm_image has put at the path of the image is a whole image, *)
(* after any number of downloads that broke off at any point, as long as   *)
(* no two were under way at a time.                                        *)
THEOREM FoundImageIsWhole == Spec => []ImageIsWhole
<1>1. Init => ImageTyped /\ TmpFromStart
  <2> SUFFICES ASSUME Init PROVE TmpFromStart
    BY VmTypeInit
  <2>1. (\A l \in Loaders : ~Loading(l)) /\ image \in {NoFile, Parts}
    BY DEF Init, Loading
  <2> QED  BY <2>1 DEF TmpFromStart
<1>2. ImageTyped /\ TmpFromStart /\ [Next]_vars => (ImageTyped /\ TmpFromStart)'
  BY ImageTypedStep, TmpFromStartStep
<1>3. TmpFromStart => ImageIsWhole
  BY DEF TmpFromStart, ImageIsWhole
<1> QED  BY <1>1, <1>2, <1>3, PTL DEF Spec

-----------------------------------------------------------------------------
(* Verdicts.                                                               *)
(* A guest that prints: its own entry is new in the log its name leads to, *)
(* and only entries of others are lost there.                              *)
LEMMA Printing ==
    ASSUME VmTyped, LogsHonest, NEW r \in Runs, VmPrints(r)
    PROVE  /\ run[r] = "qemu" /\ UNCHANGED <<run, dir, dirs, attached, result>>
           /\ DOMAIN log' = DOMAIN log
           /\ \E m \in Markers :
                /\ printed'[r] = printed[r] \cup {m}
                /\ \A d \in DOMAIN log : log'[d] \subseteq log[d] \cup
                      (IF r \in attached /\ d = dir[r] THEN {<<r, m>>} ELSE {})
                /\ r \in attached => <<r, m>> \in log'[dir[r]]
                /\ \A d \in DOMAIN log, e \in Runs \X Markers :
                      e \in log[d] /\ (d # dir[r] \/ e[1] = r) => e \in log'[d]
           /\ \A q \in Runs \ {r} : printed'[q] = printed[q]
<1>1. PICK m \in Markers :
        /\ printed' = [printed EXCEPT ![r] = @ \cup {m}]
        /\ IF r \in attached
           THEN \E lost \in SUBSET {e \in log[dir[r]] : e[1] # r} :
                  log' = [log EXCEPT ![dir[r]] = (@ \ lost) \cup {<<r, m>>}]
           ELSE UNCHANGED log
  BY DEF VmPrints
<1>2. run[r] = "qemu" /\ UNCHANGED <<run, dir, dirs, attached, result>>
  BY DEF VmPrints, At
<1>3. printed'[r] = printed[r] \cup {m} /\ \A q \in Runs \ {r} : printed'[q] = printed[q]
  BY <1>1 DEF VmTyped
<1>4. CASE r \notin attached
  BY <1>1, <1>2, <1>3, <1>4
<1>5. CASE r \in attached
  <2>1. PICK lost \in SUBSET {e \in log[dir[r]] : e[1] # r} :
           log' = [log EXCEPT ![dir[r]] = (@ \ lost) \cup {<<r, m>>}]
    BY <1>1, <1>5
  <2>2. dir[r] \in DOMAIN log
    BY <1>5 DEF LogsHonest
  <2>3. /\ DOMAIN log' = DOMAIN log
        /\ log'[dir[r]] = (log[dir[r]] \ lost) \cup {<<r, m>>}
        /\ \A d \in DOMAIN log \ {dir[r]} : log'[d] = log[d]
    BY <2>1, <2>2
  <2>4. \A e \in lost : e[1] # r
    BY <2>1
  <2> QED  BY <1>2, <1>3, <1>5, <2>3, <2>4
<1> QED  BY <1>4, <1>5

LEMMA LogsHonestStep ==
    ASSUME VmTyped, DirsUsed, LogsHonest, LogComplete, [Next]_vars
    PROVE  LogsHonest'
<1>0. /\ \A d \in DOMAIN log : log[d] \subseteq Runs \X Markers
      /\ DOMAIN log \subseteq Dirs /\ attached \subseteq Runs
  BY DEF VmTyped
<1>1. \A d \in DOMAIN log : \A e \in log[d] :
         e[1] \in Runs /\ dir[e[1]] = d /\ e[2] \in printed[e[1]]
  BY <1>0 DEF LogsHonest
<1>2. \A q \in Runs : dir[q] \in Dirs => dir'[q] = dir[q]
  BY DirStays
<1>3. ASSUME UNCHANGED <<log, attached, printed>> PROVE LogsHonest'
  <2>1. \A q \in attached : dir[q] \in DOMAIN log
    BY DEF LogsHonest
  <2> QED  BY <1>0, <1>1, <1>2, <1>3, <2>1 DEF LogsHonest
<1>4. ASSUME NEW r \in Runs, Launch(r) PROVE LogsHonest'
  <2>1. /\ DOMAIN log' = DOMAIN log \cup {dir[r]} /\ log'[dir[r]] = {}
        /\ \A d \in DOMAIN log \ {dir[r]} : log'[d] = log[d]
        /\ attached' = attached \cup {r} /\ UNCHANGED <<dir, printed>>
    BY <1>4 DEF Launch
  <2> QED  BY <1>1, <2>1 DEF LogsHonest
<1>5. ASSUME NEW r \in Runs, VmPrints(r) PROVE LogsHonest'
  <2>1. /\ UNCHANGED <<dir, attached>> /\ DOMAIN log' = DOMAIN log
        /\ \A q \in Runs : printed[q] \subseteq printed'[q]
        /\ \A d \in DOMAIN log : \A e \in log'[d] :
              e \in log[d] \/ (d = dir[r] /\ e[1] = r /\ e[2] \in printed'[r])
    <3>1. /\ UNCHANGED <<dir, attached>> /\ DOMAIN log' = DOMAIN log
          /\ \A q \in Runs \ {r} : printed'[q] = printed[q]
      BY <1>5, Printing
    <3>2. PICK m \in Markers :
             /\ printed'[r] = printed[r] \cup {m}
             /\ \A d \in DOMAIN log : log'[d] \subseteq log[d] \cup
                   (IF r \in attached /\ d = dir[r] THEN {<<r, m>>} ELSE {})
      BY <1>5, Printing
    <3>3. \A q \in Runs : printed[q] \subseteq printed'[q]
      BY <3>1, <3>2
    <3>4. <<r, m>>[1] = r /\ <<r, m>>[2] = m
      OBVIOUS
    <3>5. ASSUME NEW d \in DOMAIN log, NEW e \in log'[d]
          PROVE  e \in log[d] \/ (d = dir[r] /\ e[1] = r /\ e[2] \in printed'[r])
      <4>1. e \in log[d] \/ (d = dir[r] /\ e = <<r, m>>)
        BY <3>2
      <4> QED  BY <3>2, <3>4, <4>1
    <3> QED  BY <3>1, <3>3, <3>5
  <2> QED  BY <1>1, <2>1 DEF LogsHonest
<1>6. ASSUME NEW r \in Runs, RemoveDir(r) \/ RemoveFails(r), WithoutLog(dir[r])
      PROVE  LogsHonest'
  <2>1. /\ DOMAIN log' = DOMAIN log \ {dir[r]} /\ \A d \in DOMAIN log' : log'[d] = log[d]
        /\ attached' = {q \in attached : dir[q] # dir[r]} /\ UNCHANGED <<dir, printed>>
    BY <1>6 DEF RemoveDir, RemoveFails, WithoutLog
  <2> QED  BY <1>1, <2>1 DEF LogsHonest
<1>7. UNCHANGED vmVars \/ Passes
        \/ (\E r \in Runs : NoImage(r) \/ MakeDir(r) \/ LaunchFails(r) \/ ExitsEarly(r)
                            \/ Exits(r) \/ ReadLog(r) \/ ReadFails(r))
        => UNCHANGED <<log, attached, printed>>
  BY DEF vmVars, Passes, NoImage, MakeDir, LaunchFails, ExitsEarly, Exits, ReadLog, ReadFails
<1>8. ASSUME NEW r \in Runs, RemoveDir(r) \/ RemoveFails(r)
      PROVE  WithoutLog(dir[r]) \/ UNCHANGED <<log, attached, printed>>
  BY <1>8 DEF RemoveDir, RemoveFails
<1> QED  BY <1>3, <1>4, <1>5, <1>6, <1>7, <1>8, StepsApart DEF Analyze

LEMMA LogCompleteStep ==
    ASSUME VmTyped, DirsUsed, LogsHonest, LogComplete, [Next]_vars
    PROVE  LogComplete'
<1> DEFINE Whole(r) == /\ run[r] = "qemu" => r \in attached
                       /\ dir[r] \in DOMAIN log /\ \A m \in printed[r] : <<r, m>> \in log[dir[r]]
<1>0. /\ run \in [Runs -> {"new", "made", "qemu", "read", "remove", "done"}]
      /\ printed \in [Runs -> SUBSET Markers]
  BY DEF VmTyped
<1>1. /\ \A r \in Runs : run[r] \in {"new", "made"} => printed[r] = {}
      /\ \A r \in Runs : run[r] \in {"qemu", "read"} /\ Sharing(r) = {} => Whole(r)
  BY DEF LogComplete
<1>2. \A r \in Runs : run[r] \in {"made", "qemu", "read", "remove"} =>
         dir[r] \in Dirs /\ dir'[r] = dir[r] /\ (Sharing(r)' = {} => Sharing(r) = {})
  BY <1>0, DirStays DEF DirsUsed
<1>3. ASSUME NEW r \in Runs, NEW q \in Runs \ {r}, dir[q] = dir[r] PROVE Sharing(r) # {}
  BY <1>3 DEF Sharing
<1>4. ASSUME UNCHANGED <<log, attached, printed>>,
             \A r \in Runs : \/ run'[r] = run[r]
                             \/ run[r] = "new" /\ run'[r] = "made"
                             \/ run[r] = "qemu" /\ run'[r] = "read"
                             \/ run'[r] \in {"remove", "done"}
      PROVE  LogComplete'
  <2>1. ASSUME NEW r \in Runs, run'[r] \in {"new", "made"} PROVE printed'[r] = {}
    BY <1>1, <1>4, <2>1
  <2>2. ASSUME NEW r \in Runs, run'[r] \in {"qemu", "read"}, Sharing(r)' = {}
        PROVE  Whole(r)'
    <3>1. run[r] \in {"qemu", "read"} /\ (run'[r] = "qemu" => run[r] = "qemu")
      BY <1>4, <2>2
    <3>2. Whole(r)
      BY <1>1, <1>2, <2>2, <3>1
    <3> QED  BY <1>2, <1>4, <3>1, <3>2
  <2> QED  BY <2>1, <2>2 DEF LogComplete
<1>5. ASSUME NEW r \in Runs, Launch(r) PROVE LogComplete'
  <2>1. /\ run[r] = "made" /\ run'[r] = "qemu" /\ \A q \in Runs \ {r} : run'[q] = run[q]
        /\ DOMAIN log' = DOMAIN log \cup {dir[r]}
        /\ \A d \in DOMAIN log \ {dir[r]} : log'[d] = log[d]
        /\ attached' = attached \cup {r} /\ UNCHANGED <<dir, printed>>
    BY <1>0, <1>5 DEF Launch, Goes, At
  <2>2. ASSUME NEW q \in Runs, run'[q] \in {"new", "made"} PROVE printed'[q] = {}
    BY <1>1, <2>1, <2>2
  <2>3. ASSUME NEW q \in Runs, run'[q] \in {"qemu", "read"}, Sharing(q)' = {}
        PROVE  Whole(q)'
    <3>1. CASE q = r
      BY <1>1, <2>1, <3>1
    <3>2. CASE q # r
      <4>1. Sharing(q) = {} /\ Whole(q)
        BY <1>1, <1>2, <2>1, <2>3, <3>2
      <4>2. dir[q] # dir[r]
        BY <1>3, <3>2, <4>1
      <4> QED  BY <2>1, <3>2, <4>1, <4>2
    <3> QED  BY <3>1, <3>2
  <2> QED  BY <2>2, <2>3 DEF LogComplete
<1>6. ASSUME NEW r \in Runs, VmPrints(r) PROVE LogComplete'
  <2>1. /\ run[r] = "qemu" /\ UNCHANGED <<run, dir, attached>> /\ DOMAIN log' = DOMAIN log
        /\ \A q \in Runs \ {r} : printed'[q] = printed[q]
    BY <1>6, Printing
  <2>2. PICK m \in Markers :
           /\ printed'[r] = printed[r] \cup {m}
           /\ r \in attached => <<r, m>> \in log'[dir[r]]
           /\ \A d \in DOMAIN log, e \in Runs \X Markers :
                 e \in log[d] /\ (d # dir[r] \/ e[1] = r) => e \in log'[d]
    BY <1>6, Printing
  <2>3. ASSUME NEW q \in Runs, run'[q] \in {"new", "made"} PROVE printed'[q] = {}
    BY <1>1, <2>1, <2>3
  <2>4. ASSUME NEW q \in Runs, run'[q] \in {"qemu", "read"}, Sharing(q)' = {}
        PROVE  Whole(q)'
    <3>1. Sharing(q) = {} /\ Whole(q)
      BY <1>1, <1>2, <2>1, <2>4
    <3>2. ASSUME NEW n \in printed'[q] PROVE <<q, n>> \in log'[dir[q]]
      <4>1. CASE q = r /\ n = m
        BY <2>1, <2>2, <3>1, <4>1
      <4>2. CASE ~(q = r /\ n = m)
        <5>1. n \in printed[q] /\ n \in Markers
          BY <1>0, <2>1, <2>2, <3>2, <4>2
        <5>2. <<q, n>> \in log[dir[q]] /\ <<q, n>> \in Runs \X Markers /\ dir[q] \in DOMAIN log
          BY <3>1, <5>1
        <5>3. q = r \/ dir[q] # dir[r]
          BY <1>3, <3>1
        <5> QED  BY <2>2, <5>2, <5>3
      <4> QED  BY <4>1, <4>2
    <3> QED  BY <2>1, <3>1, <3>2
  <2> QED  BY <2>3, <2>4 DEF LogComplete
<1>7. ASSUME NEW r \in Runs, RemoveDir(r) \/ RemoveFails(r), WithoutLog(dir[r])
      PROVE  LogComplete'
  <2>1. /\ run'[r] = "done" /\ \A q \in Runs \ {r} : run'[q] = run[q]
        /\ DOMAIN log' = DOMAIN log \ {dir[r]} /\ \A d \in DOMAIN log' : log'[d] = log[d]
        /\ attached' = {q \in attached : dir[q] # dir[r]} /\ UNCHANGED <<dir, printed>>
    BY <1>0, <1>7 DEF RemoveDir, RemoveFails, WithoutLog, Goes
  <2>2. ASSUME NEW q \in Runs, run'[q] \in {"new", "made"} PROVE printed'[q] = {}
    BY <1>1, <2>1, <2>2
  <2>3. ASSUME NEW q \in Runs, run'[q] \in {"qemu", "read"}, Sharing(q)' = {}
        PROVE  Whole(q)'
    <3>1. q # r /\ Sharing(q) = {} /\ Whole(q)
      BY <1>1, <1>2, <2>1, <2>3
    <3>2. dir[q] # dir[r]
      BY <1>3, <3>1
    <3> QED  BY <2>1, <3>1, <3>2
  <2> QED  BY <2>2, <2>3 DEF LogComplete
<1>8. UNCHANGED vmVars \/ Passes => UNCHANGED <<log, attached, printed, run>>
  BY DEF vmVars, Passes
<1>9. ASSUME NEW r \in Runs,
             \/ NoImage(r) \/ MakeDir(r) \/ LaunchFails(r) \/ ExitsEarly(r)
             \/ Exits(r) \/ ReadLog(r) \/ ReadFails(r)
             \/ RemoveFails(r) /\ UNCHANGED <<log, attached>>
      PROVE  /\ UNCHANGED <<log, attached, printed>>
             /\ \A q \in Runs : \/ run'[q] = run[q]
                                \/ run[q] = "new" /\ run'[q] = "made"
                                \/ run[q] = "qemu" /\ run'[q] = "read"
                                \/ run'[q] \in {"remove", "done"}
  BY <1>0, <1>9 DEF NoImage, MakeDir, LaunchFails, ExitsEarly, Exits, ReadLog, ReadFails,
                    RemoveFails, Goes, At
<1>10. ASSUME NEW r \in Runs, RemoveDir(r) \/ RemoveFails(r)
       PROVE  WithoutLog(dir[r]) \/ (RemoveFails(r) /\ UNCHANGED <<log, attached>>)
  BY <1>10 DEF RemoveDir, RemoveFails
<1> QED  BY <1>4, <1>5, <1>6, <1>7, <1>8, <1>9, <1>10, StepsApart DEF Analyze

Verdict(r) ==
    /\ \E q \in {r} \cup Sharing(r) : "complete" \in printed[q]
    /\ Sharing(r) = {} => /\ "complete" \in printed[r]
                          /\ result[r].threat <=> "threat" \in printed[r] /\ r \notin unread

(* What ReadLog makes of the log is what the VMs of the directory printed. *)
LEMMA ReadVerdict ==
    ASSUME VmTyped, DirsUsed, LogsHonest, LogComplete, NEW r \in Runs, ReadLog(r),
           result'[r].success, ~result[r].success, r \notin unread
    PROVE  Verdict(r)' /\ run'[r] = "remove" /\ dir'[r] \in Dirs
<1>1. /\ run[r] = "read" /\ run'[r] = "remove" /\ dir[r] \in Dirs
      /\ UNCHANGED <<dir, log, printed>>
  BY DEF ReadLog, At, Goes, VmTyped, DirsUsed
<1>2. /\ "complete" \in MarkersRead(r)
      /\ result'[r].threat <=> "threat" \in MarkersRead(r) /\ r \notin unread'
  <2> DEFINE ran == "complete" \in MarkersRead(r)
             threat == ran /\ "threat" \in MarkersRead(r)
  <2>1. \/ result'[r] = [success |-> ran, threat |-> threat, error |-> ~ran] /\ UNCHANGED unread
        \/ ran /\ ~result'[r].threat /\ r \in unread'
    BY DEF ReadLog, VmTyped, NoResult
  <2>2. ran /\ (result'[r].threat <=> threat /\ r \notin unread')
    <3> HIDE DEF ran, threat
    <3>1. CASE ran /\ ~result'[r].threat /\ r \in unread'
      BY <3>1
    <3>2. CASE result'[r] = [success |-> ran, threat |-> threat, error |-> ~ran] /\ UNCHANGED unread
      <4>1. result'[r].success = ran /\ result'[r].threat = threat
        BY <3>2
      <4> QED  BY <3>2, <4>1
    <3> QED  BY <2>1, <3>1, <3>2
  <2> QED  BY <2>2
<1>3. ASSUME NEW m \in MarkersRead(r)
      PROVE  \E q \in {r} \cup Sharing(r) : m \in printed[q]
  <2>1. PICK e \in log[dir[r]] : dir[r] \in DOMAIN log /\ m = e[2]
    BY <1>3 DEF MarkersRead
  <2>2. e[1] \in Runs /\ dir[e[1]] = dir[r] /\ m \in printed[e[1]]
    BY <2>1 DEF VmTyped, LogsHonest
  <2> QED  BY <2>2 DEF Sharing
<1>4. ASSUME Sharing(r) = {}, NEW m \in printed[r] PROVE m \in MarkersRead(r)
  <2>1. dir[r] \in DOMAIN log /\ <<r, m>> \in log[dir[r]]
    BY <1>1, <1>4 DEF LogComplete
  <2>2. <<r, m>>[2] = m
    OBVIOUS
  <2> QED  BY <2>1, <2>2 DEF MarkersRead
<1>5. \E q \in {r} \cup Sharing(r) : "complete" \in printed[q]
  BY <1>2, <1>3
<1>6. ASSUME Sharing(r) = {}
      PROVE  /\ "complete" \in printed[r]
             /\ result'[r].threat <=> "threat" \in printed[r] /\ r \notin unread'
  <2>1. \A m \in MarkersRead(r) : m \in printed[r]
    BY <1>3, <1>6
  <2> QED  BY <1>2, <1>4, <1>6, <2>1
<1>7. Sharing(r)' = Sharing(r)
  BY <1>1 DEF Sharing
<1> QED  BY <1>1, <1>5, <1>6, <1>7 DEF Verdict

LEMMA UnreadStep ==
    ASSUME VmTyped, UnreadAtEnd, [Next]_vars
    PROVE  /\ UnreadAtEnd'
           /\ \A r \in Runs : ~ReadLog(r) => (r \in unread' <=> r \in unread)
<1>1. CASE UNCHANGED vmVars \/ Passes \/ \E q \in Runs : VmPrints(q)
  <2>1. UNCHANGED <<run, unread>>
    BY <1>1 DEF vmVars, failures, Passes, VmPrints
  <2> QED  BY <2>1 DEF UnreadAtEnd
<1>2. ASSUME NEW q \in Runs, Analyze(q)
      PROVE  /\ UnreadAtEnd'
             /\ \A r \in Runs : ~ReadLog(r) => (r \in unread' <=> r \in unread)
  <2>1. CASE ReadLog(q)
    <3>1. /\ unread' = unread \/ unread' = unread \cup {q}
          /\ run'[q] = "remove" /\ \A p \in Runs \ {q} : run'[p] = run[p]
      BY <2>1 DEF ReadLog, Goes, VmTyped
    <3>2. unread \subseteq Runs
      BY DEF VmTyped
    <3>3. UnreadAtEnd'
      BY <3>1, <3>2 DEF UnreadAtEnd
    <3> QED  BY <2>1, <3>1, <3>3
  <2>2. CASE ~ReadLog(q)
    <3>1. UNCHANGED unread
      BY <1>2, <2>2 DEF Analyze, failures, NoImage, MakeDir, Launch, LaunchFails, ExitsEarly,
                        Exits, ReadFails, RemoveDir, RemoveFails
    <3>2. \A p \in Runs : run[p] \in {"remove", "done"} => run'[p] \in {"remove", "done"}
      BY <1>2, <2>2 DEF Analyze, NoImage, MakeDir, Launch, LaunchFails, ExitsEarly,
                        Exits, ReadFails, RemoveDir, RemoveFails, Goes, At, VmTyped
    <3>3. unread \subseteq Runs
      BY DEF VmTyped
    <3> QED  BY <3>1, <3>2, <3>3 DEF UnreadAtEnd
  <2> QED  BY <2>1, <2>2
<1> QED  BY <1>1, <1>2, StepsApart

LEMMA OwnVerdictStep ==
    ASSUME VmTyped, DirsUsed, LogsHonest, LogComplete, VerdictAtEnd, UnreadAtEnd, OwnVerdict,
           [Next]_vars
    PROVE  VerdictAtEnd' /\ OwnVerdict'
<1> SUFFICES ASSUME NEW r \in Runs, result'[r].success
             PROVE  run'[r] \in {"remove", "done"} /\ dir'[r] \in Dirs /\ Verdict(r)'
  BY DEF VerdictAtEnd, OwnVerdict, Verdict
<1>1. CASE ReadLog(r)
  <2>1. run[r] = "read"
    BY <1>1 DEF ReadLog, At
  <2>2. ~result[r].success /\ r \notin unread
    BY <2>1 DEF VerdictAtEnd, UnreadAtEnd
  <2> QED  BY <1>1, <2>2, ReadVerdict
<1>2. ASSUME UNCHANGED result \/ \E q \in Runs : Fails(q) \/ (q # r /\ ReadLog(q))
      PROVE  result[r].success /\ result'[r] = result[r]
  <2>1. CASE UNCHANGED result
    BY <2>1
  <2>2. ASSUME NEW q \in Runs, Fails(q) PROVE result[r].success /\ result'[r] = result[r]
    BY <2>2 DEF Fails, VmTyped, NoResult
  <2>3. ASSUME NEW q \in Runs \ {r}, ReadLog(q) PROVE result[r].success /\ result'[r] = result[r]
    BY <2>3 DEF ReadLog, VmTyped
  <2> QED  BY <1>2, <2>1, <2>2, <2>3
<1>3. CASE ~ReadLog(r)
  <2>1. UNCHANGED result \/ \E q \in Runs : Fails(q) \/ (q # r /\ ReadLog(q))
    <3>1. UNCHANGED vmVars \/ Passes => UNCHANGED result
      BY DEF vmVars, Passes
    <3>2. \A q \in Runs :
             VmPrints(q) \/ MakeDir(q) \/ Launch(q) \/ Exits(q) \/ RemoveDir(q) \/ RemoveFails(q)
             => UNCHANGED result
      BY DEF VmPrints, MakeDir, Launch, Exits, RemoveDir, RemoveFails
    <3>3. \A q \in Runs : NoImage(q) \/ LaunchFails(q) \/ ExitsEarly(q) \/ ReadFails(q)
             => Fails(q)
      BY DEF NoImage, LaunchFails, ExitsEarly, ReadFails
    <3> QED  BY <1>3, <3>1, <3>2, <3>3, StepsApart DEF Analyze
  <2>2. /\ result[r].success /\ result'[r] = result[r]
        /\ run[r] \in {"remove", "done"} /\ dir[r] \in Dirs /\ Verdict(r)
    BY <1>2, <2>1 DEF VerdictAtEnd, OwnVerdict, Verdict
  <2>3. dir'[r] = dir[r] /\ Sharing(r) \subseteq Sharing(r)'
    BY <2>2, DirStays
  <2>4. \A q \in Runs : printed[q] \subseteq printed'[q]
    <3>1. ASSUME NEW q \in Runs, VmPrints(q) PROVE \A p \in Runs : printed[p] \subseteq printed'[p]
      BY <3>1, Printing
    <3>2. UNCHANGED vmVars \/ Passes \/ (\E q \in Runs : Analyze(q)) => UNCHANGED printed
      BY DEF vmVars, Passes, Analyze, NoImage, MakeDir, Launch, LaunchFails, ExitsEarly, Exits,
             ReadLog, ReadFails, RemoveDir, RemoveFails
    <3> QED  BY <3>1, <3>2, StepsApart
  <2>5. run'[r] \in {"remove", "done"} /\ printed'[r] = printed[r]
    <3>1. ASSUME NEW q \in Runs, VmPrints(q) PROVE run' = run /\ printed'[r] = printed[r]
      <4>1. run[q] = "qemu" /\ run' = run /\ \A p \in Runs \ {q} : printed'[p] = printed[p]
        BY <3>1, Printing
      <4> QED  BY <2>2, <4>1
    <3>2. ASSUME NEW q \in Runs, Analyze(q)
          PROVE  run'[r] \in {"remove", "done"} /\ printed' = printed
      BY <2>2, <3>2 DEF Analyze, NoImage, MakeDir, Launch, LaunchFails, ExitsEarly, Exits,
                        ReadLog, ReadFails, RemoveDir, RemoveFails, Goes, At, VmTyped
    <3>3. UNCHANGED vmVars \/ Passes => UNCHANGED <<run, printed>>
      BY DEF vmVars, Passes
    <3> QED  BY <2>2, <3>1, <3>2, <3>3, StepsApart
  <2>6. \E q \in {r} \cup Sharing(r)' : "complete" \in printed'[q]
    BY <2>2, <2>3, <2>4 DEF Verdict, Sharing
  <2>7. Sharing(r)' = {} => Sharing(r) = {}
    BY <2>3
  <2>8. r \in unread' <=> r \in unread
    BY <1>3, UnreadStep
  <2> QED  BY <2>2, <2>3, <2>5, <2>6, <2>7, <2>8 DEF Verdict
<1> QED  BY <1>1, <1>3

(* A success stands for a VM of these ids that came to its end, and for an *)
(* analysis that has its directory to itself it is its own VM's, with the  *)
(* threat exactly if that VM printed it: no other analysis, removal of a   *)
(* directory or emptied log comes between.                                 *)
THEOREM VerdictsAreOwn == Spec => []OwnVerdict
<1> DEFINE Inv == /\ VmTyped /\ DirsUsed /\ LogsHonest /\ LogComplete
                  /\ VerdictAtEnd /\ UnreadAtEnd /\ OwnVerdict
<1>1. Init => Inv
  <2> SUFFICES ASSUME Init PROVE Inv
    OBVIOUS
  <2>1. /\ \A r \in Runs : run[r] = "new" /\ dir[r] = NoDir /\ printed[r] = {}
        /\ \A r \in Runs : result[r] = NoResult
        /\ dirs = {} /\ attached = {} /\ DOMAIN log = {}
    BY DEF Init
  <2>2. ~NoResult.success
    BY DEF NoResult
  <2>3. DirsUsed /\ LogsHonest /\ LogComplete
    BY <2>1 DEF DirsUsed, LogsHonest, LogComplete
  <2>4. VerdictAtEnd /\ OwnVerdict
    BY <2>1, <2>2 DEF VerdictAtEnd, OwnVerdict
  <2>5. UnreadAtEnd
    BY DEF Init, UnreadAtEnd
  <2> QED  BY <2>3, <2>4, <2>5, VmTypeInit
<1>2. Inv /\ [Next]_vars => Inv'
  BY VmTypedStep, DirsUsedStep, LogsHonestStep, LogCompleteStep, UnreadStep, OwnVerdictStep
<1>3. Inv => OwnVerdict
  OBVIOUS
<1> HIDE DEF Inv
<1> QED  BY <1>1, <1>2, <1>3, PTL DEF Spec
=============================================================================
