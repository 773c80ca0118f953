------------------------ MODULE AuthorizationProofs ------------------------
(***************************************************************************)
(* Proofs about Authorization, for any number of buses, insertions,        *)
(* callers and processes.                                                  *)
(***************************************************************************)
EXTENDS Authorization, TLAPS

-----------------------------------------------------------------------------
(* What Init and the steps of the kernel and of one call do to the types.  *)

LEMMA TurnOffTyped ==
    ASSUME BusTypeOK, NEW b \in Buses, TurnOff(b)
    PROVE  /\ auth' \in [Buses -> AuthValues] /\ node' \in [Buses -> NodeModes]
           /\ adds' \in [Buses -> BOOLEAN] /\ changes' \in [Buses -> BOOLEAN]
<1>1. auth' \in [Buses -> AuthValues]
  BY DEF BusTypeOK, TurnOff, AuthValues
<1>2. node' \in [Buses -> NodeModes]
  BY DEF BusTypeOK, TurnOff, NodeModes
<1>3. adds' \in [Buses -> BOOLEAN]
  BY DEF BusTypeOK, TurnOff
<1>4. changes' \in [Buses -> BOOLEAN]
  BY DEF BusTypeOK, TurnOff
<1>5. QED
  BY <1>1, <1>2, <1>3, <1>4

LEMMA KernelTyped ==
    ASSUME BusTypeOK, Kernel PROVE BusTypeOK'
<1> USE BusAssumption DEF BusTypeOK, AuthValues, NodeModes
<1>1. ASSUME NEW i \in Insertions, Plug(i) PROVE BusTypeOK'
  BY <1>1 DEF Plug
<1>2. ASSUME NEW b \in Buses, Unplug(b) PROVE BusTypeOK'
  BY <1>2, TurnOffTyped DEF Unplug
<1>3. ASSUME NEW b \in Buses, UdevAdd(b) PROVE BusTypeOK'
  <2>1. CASE RulesInstalled
    BY <1>3, <2>1, TurnOffTyped DEF UdevAdd
  <2>2. CASE ~RulesInstalled
    BY <1>3, <2>2 DEF UdevAdd
  <2>3. QED
    BY <2>1, <2>2
<1>4. ASSUME NEW b \in Buses, NodeAppears(b) PROVE BusTypeOK'
  BY <1>4 DEF NodeAppears
<1>5. ASSUME NEW b \in Buses, UdevChange(b) PROVE BusTypeOK'
  BY <1>5 DEF UdevChange
<1>6. QED
  BY <1>1, <1>2, <1>3, <1>4, <1>5 DEF Kernel, UdevWork

LEMMA NoCallTyped == NoCall \in Calls
BY DEF NoCall, Calls

LEMMA RequestTyped ==
    ASSUME CallTypeOK, NEW c \in Callers, NEW b \in Buses,
           NEW op \in {"authorize", "deauthorize"}, Request(c, op, b)
    PROVE  CallTypeOK'
<1>1. [NoCall EXCEPT !.pc = op, !.bus = b] \in Calls
  BY DEF NoCall, Calls
<1>2. call' \in [Callers -> Calls]
  BY <1>1 DEF Request, CallTypeOK
<1>3. \A d \in Callers : call'[d].pc # "idle" => call'[d].bus \in Buses
  BY DEF Request, CallTypeOK, NoCall
<1>4. LockOf[c] \in Locks
  BY AuthAssumption
<1>5. Append(lock[LockOf[c]], c) \in Seq(Callers)
  BY <1>4 DEF CallTypeOK
<1>6. lock' \in [Locks -> Seq(Callers)]
  BY <1>4, <1>5 DEF Request, CallTypeOK
<1>7. QED
  BY <1>2, <1>3, <1>6 DEF CallTypeOK

LEMMA ReturnTyped ==
    ASSUME CallTypeOK, NEW c \in Callers, Holds(c), Return(c)
    PROVE  CallTypeOK'
<1>1. call' \in [Callers -> Calls]
  BY NoCallTyped DEF Return, CallTypeOK
<1>2. \A d \in Callers : call'[d].pc # "idle" => call'[d].bus \in Buses
  BY DEF Return, CallTypeOK, NoCall
<1>3. Tail(lock[LockOf[c]]) \in Seq(Callers)
  BY AuthAssumption DEF Holds, CallTypeOK
<1>4. lock' \in [Locks -> Seq(Callers)]
  BY <1>3 DEF Return, CallTypeOK
<1>5. QED
  BY <1>1, <1>2, <1>4 DEF CallTypeOK

LEMMA ProcessDiesTyped ==
    ASSUME CallTypeOK, NEW l \in Locks, ProcessDies(l)
    PROVE  CallTypeOK'
<1>1. call' \in [Callers -> Calls]
  BY NoCallTyped DEF ProcessDies, CallTypeOK
<1>2. \A d \in Callers : call'[d].pc # "idle" => call'[d].bus \in Buses
  BY DEF ProcessDies, CallTypeOK, NoCall
<1>3. lock' \in [Locks -> Seq(Callers)]
  BY DEF ProcessDies, CallTypeOK
<1>4. QED
  BY <1>1, <1>2, <1>3 DEF CallTypeOK

LEMMA CallStepTyped ==
    ASSUME AuthTypeOK, CriticalHolds, NEW c \in Callers, CallStep(c)
    PROVE  AuthTypeOK'
<1> USE DEF AuthTypeOK
<1>1. CASE AuthorizeMissing(c)
  <2>1. CallTypeOK'
    BY <1>1, ReturnTyped DEF AuthorizeMissing
  <2>2. BusTypeOK'
    BY <1>1 DEF AuthorizeMissing, busVars, BusTypeOK
  <2>3. QED
    BY <2>1, <2>2
<1>2. CASE AuthorizeWrite(c)
  <2> DEFINE b == call[c].bus
  <2>1. b \in Buses /\ plugged[b] \in Insertions
    BY <1>2 DEF AuthorizeWrite, CallTypeOK, BusTypeOK
  <2>2. BusTypeOK'
    BY <1>2, <2>1 DEF AuthorizeWrite, TurnOn, BusTypeOK, AuthValues
  <2>3. CallTypeOK'
    <3> DEFINE new == [call[c] EXCEPT !.pc = "settle"]
    <3>1. call[c] \in Calls
      BY DEF CallTypeOK
    <3>2. new \in Calls /\ new.bus = b
      BY <2>1, <3>1 DEF Calls
    <3>3. call' = [call EXCEPT ![c] = new] /\ lock' = lock
      BY <1>2 DEF AuthorizeWrite
    <3> HIDE DEF new, b
    <3>4. call'[c] = new /\ \A d \in Callers : d # c => call'[d] = call[d]
      BY <3>3 DEF CallTypeOK
    <3>5. call' \in [Callers -> Calls]
      BY <3>2, <3>3 DEF CallTypeOK
    <3>6. QED
      BY <2>1, <3>2, <3>3, <3>4, <3>5 DEF CallTypeOK
  <2>4. QED
    BY <2>2, <2>3
<1>3. CASE AuthorizeFinish(c)
  <2>1. Holds(c)
    BY <1>3 DEF AuthorizeFinish, CriticalHolds, InCritical
  <2>2. CallTypeOK'
    BY <1>3, <2>1, ReturnTyped DEF AuthorizeFinish
  <2>3. BusTypeOK'
    BY <1>3 DEF AuthorizeFinish, BusTypeOK, NodeModes
  <2>4. QED
    BY <2>2, <2>3
<1>4. CASE DeauthorizeWrite(c)
  <2>1. call[c].bus \in Buses
    BY <1>4 DEF DeauthorizeWrite, CallTypeOK
  <2>2. BusTypeOK'
    BY <1>4, <2>1 DEF DeauthorizeWrite, TurnOff, BusTypeOK, AuthValues, NodeModes
  <2>3. PICK nodes \in SUBSET Buses :
             call' = [call EXCEPT ![c].pc = "chmod", ![c].nodes = nodes]
    <3> DEFINE found == {x \in Covers[call[c].bus] : node[x] # "absent"}
               nodes == IF plugged[call[c].bus] # None THEN found ELSE {}
    <3>1. nodes \in SUBSET Buses
      BY <2>1, AuthAssumption
    <3>2. call' = [call EXCEPT ![c].pc = "chmod", ![c].nodes = nodes]
      BY <1>4 DEF DeauthorizeWrite
    <3>3. QED
      BY <3>1, <3>2
  <2>4. call' \in [Callers -> Calls]
    <3>1. call[c] \in Calls
      BY DEF CallTypeOK
    <3>2. [call[c] EXCEPT !.pc = "chmod", !.nodes = nodes] \in Calls
      BY <3>1 DEF Calls
    <3>3. QED
      BY <2>3, <3>2 DEF CallTypeOK
  <2>5. \A d \in Callers : call'[d].pc # "idle" => call'[d].bus \in Buses
    BY <2>1, <2>3 DEF CallTypeOK, Calls
  <2>6. lock' = lock
    BY <1>4 DEF DeauthorizeWrite
  <2>7. QED
    BY <2>2, <2>4, <2>5, <2>6 DEF CallTypeOK
<1>5. CASE DeauthorizeNodes(c)
  <2>1. Holds(c)
    BY <1>5 DEF DeauthorizeNodes, CriticalHolds, InCritical
  <2>2. CallTypeOK'
    BY <1>5, <2>1, ReturnTyped DEF DeauthorizeNodes
  <2>3. BusTypeOK'
    BY <1>5 DEF DeauthorizeNodes, BusTypeOK, NodeModes
  <2>4. QED
    BY <2>2, <2>3
<1>6. QED
  BY <1>1, <1>2, <1>3, <1>4, <1>5 DEF CallStep

LEMMA AuthInitTyped == AuthInit => AuthTypeOK
<1> SUFFICES ASSUME AuthInit PROVE AuthTypeOK
  OBVIOUS
<1> USE BusAssumption
<1>1. \A b \in Buses : ExistingAt(b) \in Insertions \cup {None}
  BY DEF ExistingAt
<1>2. BusTypeOK
  BY <1>1 DEF AuthInit, BusInit, BusTypeOK, AuthValues, NodeModes
<1>3. CallTypeOK
  BY NoCallTyped DEF AuthInit, CallTypeOK, NoCall
<1>4. QED
  BY <1>2, <1>3 DEF AuthTypeOK

-----------------------------------------------------------------------------
(* Who is in its critical part is at the head of its queue: Append keeps   *)
(* the head of a queue that is not empty, and only the head takes itself   *)
(* off, while nobody else of the same queue is in a critical part.         *)

LEMMA RequestKeepsHolders ==
    ASSUME CallTypeOK, CriticalHolds, NEW c \in Callers, NEW b \in Buses,
           NEW op \in {"authorize", "deauthorize"}, Request(c, op, b)
    PROVE  CriticalHolds'
<1> SUFFICES ASSUME NEW d \in Callers, InCritical(d)' PROVE Holds(d)'
  BY DEF CriticalHolds
<1>1. LockOf[c] \in Locks /\ LockOf[d] \in Locks
  BY AuthAssumption
<1>2. d # c /\ InCritical(d)
  BY DEF InCritical, Request, CallTypeOK, NoCall
<1>3. lock[LockOf[d]] # <<>> /\ Head(lock[LockOf[d]]) = d
  BY <1>2 DEF CriticalHolds, Holds
<1>4. lock[LockOf[d]] \in Seq(Callers)
  BY <1>1 DEF CallTypeOK
<1>5. CASE LockOf[d] # LockOf[c]
  BY <1>1, <1>3, <1>5 DEF Request, CallTypeOK, Holds
<1>6. CASE LockOf[d] = LockOf[c]
  <2>1. lock'[LockOf[d]] = Append(lock[LockOf[d]], c)
    BY <1>1, <1>6 DEF Request, CallTypeOK
  <2>2. Append(lock[LockOf[d]], c) # <<>> /\ Head(Append(lock[LockOf[d]], c)) = d
    BY <1>3, <1>4
  <2>3. QED
    BY <2>1, <2>2 DEF Holds
<1>7. QED
  BY <1>5, <1>6

LEMMA ReturnKeepsHolders ==
    ASSUME CallTypeOK, CriticalHolds, NEW c \in Callers, Holds(c), Return(c)
    PROVE  CriticalHolds'
<1> SUFFICES ASSUME NEW d \in Callers, InCritical(d)' PROVE Holds(d)'
  BY DEF CriticalHolds
<1>1. LockOf[c] \in Locks /\ LockOf[d] \in Locks
  BY AuthAssumption
<1>2. d # c /\ InCritical(d)
  BY DEF InCritical, Return, CallTypeOK, NoCall
<1>3. Holds(d)
  BY <1>2 DEF CriticalHolds
<1>4. LockOf[d] # LockOf[c]
  BY <1>2, <1>3 DEF Holds
<1>5. lock'[LockOf[d]] = lock[LockOf[d]]
  BY <1>1, <1>4 DEF Return, CallTypeOK
<1>6. QED
  BY <1>3, <1>5 DEF Holds

LEMMA ProcessDiesKeepsHolders ==
    ASSUME CallTypeOK, CriticalHolds, NEW l \in Locks, ProcessDies(l)
    PROVE  CriticalHolds'
<1> SUFFICES ASSUME NEW d \in Callers, InCritical(d)' PROVE Holds(d)'
  BY DEF CriticalHolds
<1>1. LockOf[d] # l /\ InCritical(d)
  BY DEF InCritical, ProcessDies, NoCall
<1>2. lock'[LockOf[d]] = lock[LockOf[d]]
  BY <1>1, AuthAssumption DEF ProcessDies, CallTypeOK
<1>3. QED
  BY <1>1, <1>2 DEF CriticalHolds, Holds

LEMMA CallStepKeepsHolders ==
    ASSUME CallTypeOK, CriticalHolds, NEW c \in Callers, CallStep(c)
    PROVE  CriticalHolds'
<1>1. Holds(c)
  BY DEF CallStep, AuthorizeMissing, AuthorizeWrite, AuthorizeFinish,
         DeauthorizeWrite, DeauthorizeNodes, CriticalHolds, InCritical
<1>2. CASE Return(c)
  BY <1>1, <1>2, ReturnKeepsHolders
<1>3. CASE ~Return(c)
  <2>1. lock' = lock /\ \A d \in Callers : d # c => call'[d] = call[d]
    BY <1>3 DEF CallStep, AuthorizeMissing, AuthorizeWrite, AuthorizeFinish,
                DeauthorizeWrite, DeauthorizeNodes, CallTypeOK
  <2>2. QED
    BY <1>1, <2>1 DEF CriticalHolds, InCritical, Holds
<1>4. QED
  BY <1>2, <1>3

-----------------------------------------------------------------------------
(* Types and lock ownership need each other: a call that returns without   *)
(* being at the head of its queue would take the Tail of an empty one.     *)
Owned == AuthTypeOK /\ CriticalHolds

LEMMA OwnedInit == AuthInit => Owned
BY AuthInitTyped DEF Owned, AuthInit, CriticalHolds, InCritical, NoCall

LEMMA OwnedStep == Owned /\ [AuthNext]_authVars => Owned'
<1> SUFFICES ASSUME Owned, [AuthNext]_authVars PROVE Owned'
  OBVIOUS
<1> USE DEF Owned, AuthTypeOK
<1>1. CASE Kernel /\ UNCHANGED callVars
  <2>1. BusTypeOK'
    BY <1>1, KernelTyped
  <2>2. CallTypeOK'
    BY <1>1 DEF callVars, CallTypeOK
  <2>3. CriticalHolds'
    BY <1>1 DEF callVars, CriticalHolds, InCritical, Holds
  <2>4. QED
    BY <2>1, <2>2, <2>3
<1>2. ASSUME NEW c \in Callers, Asks(c) PROVE Owned'
  <2>1. BusTypeOK'
    BY <1>2 DEF Asks, busVars, BusTypeOK
  <2>2. CallTypeOK' /\ CriticalHolds'
    BY <1>2, RequestTyped, RequestKeepsHolders DEF Asks
  <2>3. QED
    BY <2>1, <2>2
<1>3. ASSUME NEW c \in Callers, CallStep(c) PROVE Owned'
  BY <1>3, CallStepTyped, CallStepKeepsHolders
<1>4. ASSUME NEW l \in Locks, Killed(l) PROVE Owned'
  <2>1. BusTypeOK'
    BY <1>4 DEF Killed, busVars, BusTypeOK
  <2>2. CallTypeOK' /\ CriticalHolds'
    BY <1>4, ProcessDiesTyped, ProcessDiesKeepsHolders DEF Killed
  <2>3. QED
    BY <2>1, <2>2
<1>5. CASE UNCHANGED authVars
  BY <1>5 DEF authVars, busVars, callVars, BusTypeOK, CallTypeOK,
              CriticalHolds, InCritical, Holds
<1>6. QED
  BY <1>1, <1>2, <1>3, <1>4, <1>5 DEF AuthNext

(* The types of the state of authorize() and deauthorize(), whatever their *)
(* callers do and whenever a process dies.                                 *)
THEOREM AuthTyped == AuthSpec => []AuthTypeOK
<1>1. Owned => AuthTypeOK
  BY DEF Owned
<1>2. QED
  BY OwnedInit, OwnedStep, <1>1, PTL DEF AuthSpec

(* Two calls of one process are never both between their first write and   *)
(* their return: both would be the head of the same queue.                 *)
THEOREM OneCallAtATime == AuthSpec => []LockExclusion
<1>1. Owned => LockExclusion
  BY DEF Owned, CriticalHolds, LockExclusion, Holds
<1>2. QED
  BY OwnedInit, OwnedStep, <1>1, PTL DEF AuthSpec

-----------------------------------------------------------------------------
LEMMA KernelUndoes ==
    ASSUME Owned, Kernel, NEW b \in Buses, plugged'[b] = plugged[b],
           auth[b] # "off", auth'[b] = "off"
    PROVE  RulesInstalled /\ adds[b]
<1> USE BusAssumption DEF Owned, AuthTypeOK, BusTypeOK
<1>1. ASSUME NEW i \in Insertions, Plug(i) PROVE FALSE
  <2>1. plugged[PortOf[i]] = None /\ plugged'[PortOf[i]] = i
    BY <1>1 DEF Plug
  <2>2. b # PortOf[i]
    BY <2>1
  <2>3. auth'[b] = auth[b]
    BY <1>1, <2>2 DEF Plug
  <2>4. QED
    BY <2>3
<1>2. ASSUME NEW x \in Buses, Unplug(x) PROVE FALSE
  BY <1>2 DEF Unplug, TurnOff
<1>3. ASSUME NEW x \in Buses, UdevAdd(x) PROVE RulesInstalled /\ adds[b]
  BY <1>3 DEF UdevAdd, TurnOff
<1>4. ASSUME NEW x \in Buses, NodeAppears(x) \/ UdevChange(x) PROVE FALSE
  BY <1>4 DEF NodeAppears, UdevChange
<1>5. QED
  BY <1>1, <1>2, <1>3, <1>4 DEF Kernel, UdevWork

LEMMA CallUndoes ==
    ASSUME Owned, NEW c \in Callers, call[c].pc = "settle",
           NEW d \in Callers, CallStep(d),
           auth[call[c].bus] # "off", auth'[call[c].bus] = "off"
    PROVE  /\ LockOf[d] # LockOf[c]
           /\ call[d].pc = "deauthorize" /\ call[d].bus = call[c].bus
           /\ call'[d].pc = "chmod"
<1> USE DEF Owned, AuthTypeOK, BusTypeOK
<1>1. call[c].bus \in Buses
  BY DEF CallTypeOK
<1>2. ~(AuthorizeMissing(d) \/ AuthorizeFinish(d) \/ DeauthorizeNodes(d))
  BY DEF AuthorizeMissing, AuthorizeFinish, DeauthorizeNodes, busVars
<1>3. ~AuthorizeWrite(d)
  BY <1>1 DEF AuthorizeWrite, TurnOn
<1>4. DeauthorizeWrite(d)
  BY <1>2, <1>3 DEF CallStep
<1>5. call[d].pc = "deauthorize" /\ call'[d].pc = "chmod" /\ Holds(d)
  BY <1>4 DEF DeauthorizeWrite, CallTypeOK, Calls
<1>6. call[d].bus = call[c].bus
  BY <1>1, <1>4 DEF DeauthorizeWrite, TurnOff
<1>7. Holds(c)
  BY DEF CriticalHolds, InCritical
<1>8. LockOf[d] # LockOf[c]
  BY <1>5, <1>7 DEF Holds
<1>9. QED
  BY <1>5, <1>6, <1>8

LEMMA UndoingStep ==
    ASSUME Owned, [AuthNext]_authVars, NEW c \in Callers,
           call[c].pc = "settle", plugged'[call[c].bus] = plugged[call[c].bus],
           auth[call[c].bus] # "off", auth'[call[c].bus] = "off"
    PROVE  \/ RulesInstalled /\ adds[call[c].bus]
           \/ \E d \in Callers :
                /\ LockOf[d] # LockOf[c]
                /\ call[d].pc = "deauthorize" /\ call[d].bus = call[c].bus
                /\ call'[d].pc = "chmod"
<1>1. call[c].bus \in Buses
  BY DEF Owned, AuthTypeOK, CallTypeOK
<1>2. CASE Kernel
  BY <1>1, <1>2, KernelUndoes
<1>3. ASSUME NEW d \in Callers, CallStep(d)
      PROVE  \E e \in Callers :
                /\ LockOf[e] # LockOf[c]
                /\ call[e].pc = "deauthorize" /\ call[e].bus = call[c].bus
                /\ call'[e].pc = "chmod"
  BY <1>3, CallUndoes
<1>4. ~((\E d \in Callers : Asks(d)) \/ (\E l \in Locks : Killed(l)) \/ UNCHANGED authVars)
  BY DEF Asks, Killed, authVars, busVars
<1>5. QED
  BY <1>2, <1>3, <1>4 DEF AuthNext

(* While authorize() waits for the kernel, nothing but the udev rule for   *)
(* storage and a deauthorize() of that bus in another process switches its *)
(* device off, for any number of callers, processes that die, and buses    *)
(* whose ids are parts of each other's paths.                              *)
THEOREM NothingInsideUndoes == AuthSpec => UndoneOnlyFromOutside
<1> DEFINE Kept ==
      \A c \in Callers :
          LET b == call[c].bus IN
          /\ call[c].pc = "settle" /\ call'[c].pc = "settle"
          /\ plugged'[b] = plugged[b]
          /\ auth[b] # "off" /\ auth'[b] = "off"
          => \/ RulesInstalled /\ adds[b]
             \/ \E d \in Callers :
                  /\ LockOf[d] # LockOf[c]
                  /\ call[d].pc = "deauthorize" /\ call[d].bus = b
                  /\ call'[d].pc = "chmod"
<1>1. Owned /\ [AuthNext]_authVars => [Kept]_authVars
  BY UndoingStep
<1> HIDE DEF Kept
<1>2. AuthSpec => [][Kept]_authVars
  BY OwnedInit, OwnedStep, <1>1, PTL DEF AuthSpec
<1>3. QED
  BY <1>2 DEF UndoneOnlyFromOutside, Kept
=============================================================================
