-------------------------- MODULE HidMonitorProofs --------------------------
(***************************************************************************)
(* The two windows of a HID monitor stay aligned, for any window size and  *)
(* any keys, however late they are read.                                   *)
(***************************************************************************)
EXTENDS HidMonitor, SequenceTheorems, FiniteSetTheorems, TLAPS

(* The key times in the kernel and in the batch are numbers, the full      *)
(* window is full in both deques at once.                                  *)
WindowsTyped ==
    /\ now \in Int
    /\ evbuf \in Seq(Int) /\ batch \in Seq(Int)
    /\ times \in Seq(Int) /\ Len(times) <= WindowSize
    /\ intervals \in Seq(Int)

Aligned == WindowsTyped /\ IntervalsAlign

windowVars == <<now, evbuf, batch, times, intervals>>

LEMMA Sizes == WindowSize \in Nat /\ WindowSize >= 2
BY MonitorAssumption DEF MonitorAssumption

LEMMA AlignedInit == Init => Aligned
BY Sizes DEF Init, Aligned, WindowsTyped, IntervalsAlign

(* One key: the first of all, one more, or one that pushes the oldest out. *)
LEMMA KeyAligns ==
    ASSUME Aligned, ProcessKeystroke
    PROVE  Aligned'
<1>1. /\ batch \in Seq(Int) /\ batch # <<>> /\ times \in Seq(Int)
      /\ intervals \in Seq(Int) /\ Len(times) <= WindowSize
      /\ now \in Int /\ evbuf \in Seq(Int)
  BY DEF Aligned, WindowsTyped, ProcessKeystroke
<1>2. PICK t \in Int : /\ Tail(batch) \in Seq(Int)
                      /\ batch' = Tail(batch) /\ now' = now /\ evbuf' = evbuf
                      /\ times' = TimesWith(t) /\ intervals' = IntervalsWith(t)
  <2>1. Head(batch) \in Int /\ Tail(batch) \in Seq(Int)
    BY <1>1, HeadTailProperties
  <2> QED  BY <2>1 DEF ProcessKeystroke
<1>3. CASE times = <<>>
  <2>1. intervals' = intervals /\ intervals = <<>>
    BY <1>2, <1>3 DEF IntervalsWith, Aligned, IntervalsAlign
  <2>2. times' = Append(<<>>, t)
    BY <1>2, <1>3, Sizes DEF TimesWith, Pushed
  <2>3. times' \in Seq(Int) /\ Len(times') = 1
    BY <1>2, <2>2
  <2> QED  BY <1>1, <1>2, <2>1, <2>3, Sizes DEF Aligned, WindowsTyped, IntervalsAlign
<1>4. CASE times # <<>>
  <2> DEFINE n == Len(times)
             gap == t - times[n]
  <2>1. n \in Nat \ {0} /\ n <= WindowSize
    BY <1>1, <1>4, EmptySeq
  <2>2. gap \in Int
    BY <1>1, <1>2, <2>1
  <2>3. /\ Len(intervals) = n - 1
        /\ \A k \in DOMAIN intervals : intervals[k] = times[k + 1] - times[k]
    BY <1>4 DEF Aligned, IntervalsAlign
  <2>4. DOMAIN intervals = 1 .. n - 1
    BY <1>1, <2>3
  <2>5. \A k \in 1 .. n - 1 : intervals[k] = times[k + 1] - times[k]
    BY <2>3, <2>4
  <2>6. times' = IF n < WindowSize THEN Append(times, t) ELSE Append(Tail(times), t)
    BY <1>2 DEF TimesWith, Pushed
  <2>7. intervals' = IF n - 1 < WindowSize - 1 THEN Append(intervals, gap)
                                               ELSE Append(Tail(intervals), gap)
    BY <1>2, <1>4, <2>3 DEF IntervalsWith, Pushed, Last
  <2> HIDE DEF gap
  <2>8. CASE n < WindowSize
    <3>1. /\ times' \in Seq(Int) /\ Len(times') = n + 1
          /\ \A k \in 1 .. n : times'[k] = times[k]
          /\ times'[n + 1] = t
      BY <1>1, <1>2, <2>6, <2>8, AppendProperties
    <3>2. intervals' = Append(intervals, gap)
      BY <2>1, <2>7, <2>8, Sizes
    <3>3. /\ intervals' \in Seq(Int) /\ Len(intervals') = (n - 1) + 1
          /\ \A k \in 1 .. n - 1 : intervals'[k] = intervals[k]
          /\ intervals'[(n - 1) + 1] = gap
      BY <1>1, <2>2, <2>3, <3>2, AppendProperties
    <3>4. Len(intervals') = n /\ intervals'[n] = t - times[n]
      BY <2>1, <3>3 DEF gap
    <3>5. ASSUME NEW k \in 1 .. n
          PROVE  intervals'[k] = times'[k + 1] - times'[k]
      <4> HIDE DEF n
      <4>1. CASE k = n
        BY <3>1, <3>4, <4>1
      <4>2. CASE k # n
        <5>1. k \in 1 .. n - 1 /\ k + 1 \in 1 .. n
          BY <2>1, <4>2
        <5> QED  BY <2>5, <3>1, <3>3, <5>1
      <4> QED  BY <4>1, <4>2
    <3>6. DOMAIN intervals' = 1 .. n /\ times' # <<>>
      BY <2>1, <3>1, <3>3, <3>4
    <3> HIDE DEF n
    <3>7. Len(times') <= WindowSize /\ Len(intervals') = Len(times') - 1
      BY <2>1, <2>8, <3>1, <3>4, Sizes
    <3>8. WindowsTyped'
      BY <1>1, <1>2, <3>1, <3>3, <3>7 DEF WindowsTyped
    <3>9. IntervalsAlign'
      BY <3>5, <3>6, <3>7 DEF IntervalsAlign
    <3> QED  BY <3>8, <3>9 DEF Aligned
  <2>9. CASE n = WindowSize
    <3>1. /\ Tail(times) \in Seq(Int) /\ Len(Tail(times)) = n - 1
          /\ \A k \in 1 .. n - 1 : Tail(times)[k] = times[k + 1]
      BY <1>1, <1>4, HeadTailProperties
    <3>2. times' = Append(Tail(times), t)
      BY <2>1, <2>6, <2>9, Sizes
    <3>3. /\ times' \in Seq(Int) /\ Len(times') = (n - 1) + 1
          /\ \A k \in 1 .. n - 1 : times'[k] = Tail(times)[k]
          /\ times'[(n - 1) + 1] = t
      BY <1>2, <3>1, <3>2, AppendProperties
    <3>4. Len(times') = n /\ times'[n] = t
      BY <2>1, <3>3
    <3>5. intervals' = Append(Tail(intervals), gap) /\ intervals # <<>>
      BY <1>1, <2>1, <2>3, <2>7, <2>9, Sizes
    <3>6. /\ Tail(intervals) \in Seq(Int) /\ Len(Tail(intervals)) = n - 2
          /\ \A k \in 1 .. n - 2 : Tail(intervals)[k] = intervals[k + 1]
      BY <1>1, <2>1, <2>3, <3>5, HeadTailProperties
    <3>7. /\ intervals' \in Seq(Int) /\ Len(intervals') = (n - 2) + 1
          /\ \A k \in 1 .. n - 2 : intervals'[k] = Tail(intervals)[k]
          /\ intervals'[(n - 2) + 1] = gap
      BY <2>2, <3>5, <3>6, AppendProperties
    <3>8. Len(intervals') = n - 1 /\ intervals'[n - 1] = t - times[n]
      BY <2>1, <3>7 DEF gap
    <3>9. ASSUME NEW k \in 1 .. n - 1
          PROVE  intervals'[k] = times'[k + 1] - times'[k]
      <4> HIDE DEF n
      <4>1. CASE k = n - 1
        <5>1. k + 1 = n /\ times'[k] = times[n] /\ times'[k + 1] = t
          BY <2>1, <3>1, <3>3, <3>4, <4>1
        <5> QED  BY <3>8, <4>1, <5>1
      <4>2. CASE k # n - 1
        <5>1. k \in 1 .. n - 2 /\ k + 1 \in 1 .. n - 1
          BY <2>1, <4>2
        <5>2. intervals'[k] = times[(k + 1) + 1] - times[k + 1]
          BY <2>5, <3>6, <3>7, <5>1
        <5> QED  BY <3>1, <3>3, <5>1, <5>2
      <4> QED  BY <4>1, <4>2
    <3>10. DOMAIN intervals' = 1 .. n - 1 /\ times' # <<>>
      BY <2>1, <3>3, <3>4, <3>7, <3>8
    <3> HIDE DEF n
    <3> QED  BY <1>1, <1>2, <2>1, <2>9, <3>3, <3>4, <3>7, <3>8, <3>9, <3>10, Sizes
             DEF Aligned, WindowsTyped, IntervalsAlign
  <2> QED  BY <2>1, <2>8, <2>9, Sizes
<1> QED  BY <1>3, <1>4

LEMMA AlignedStep == Aligned /\ [Next]_vars => Aligned'
<1> SUFFICES ASSUME Aligned, [Next]_vars PROVE Aligned'
  OBVIOUS
<1>1. CASE TimePasses
  BY <1>1 DEF TimePasses, Aligned, WindowsTyped, IntervalsAlign
<1>2. CASE KeyTyped
  BY <1>2 DEF KeyTyped, Aligned, WindowsTyped, IntervalsAlign
<1>3. CASE ReadBatch
  BY <1>3 DEF ReadBatch, Aligned, WindowsTyped, IntervalsAlign
<1>4. CASE ProcessKeystroke
  BY <1>4, KeyAligns
<1>5. CASE UNCHANGED windowVars
  BY <1>5 DEF windowVars, Aligned, WindowsTyped, IntervalsAlign
<1>6. CASE DeviceGoes \/ ReadFails \/ LockScreen \/ CallbackDeauthorizes
           \/ CallbackReturns \/ Stop \/ UNCHANGED vars
  BY <1>5, <1>6 DEF DeviceGoes, ReadFails, LockScreen, CallbackDeauthorizes,
                    CallbackReturns, Stop, vars, windowVars
<1> QED  BY <1>1, <1>2, <1>3, <1>4, <1>6 DEF Next

(* The intervals a monitor keeps are those between the key times it keeps, *)
(* from the first key on, through a full window and past any alert.        *)
THEOREM WindowsStayAligned == Spec => []IntervalsAlign
<1>1. Aligned => IntervalsAlign
  BY DEF Aligned
<1> QED  BY <1>1, AlignedInit, AlignedStep, PTL DEF Spec

-----------------------------------------------------------------------------
(* The keys on their way, from the first that was looked at to the last in *)
(* the kernel, are in the order of their times.                            *)
Stream == typed \o batch \o evbuf
KeysOrdered ==
    \A i, j \in DOMAIN Stream : i <= j => Stream[i] <= Stream[j] /\ Stream[j] <= now

(* The times that are kept are the newest of all that were typed.          *)
TimesAreNewest == times = Newest(typed)

(* lastAlert is when the last alert was raised, and each was raised for    *)
(* keys that had been looked at.                                           *)
AlertsRemembered ==
    /\ alerts = <<>> => lastAlert = -Cooldown
    /\ alerts # <<>> => lastAlert = Last(alerts).time
    /\ \A k \in DOMAIN alerts : alerts[k].keys \in 1 .. Len(typed)

Kinds ==
    /\ now \in Times /\ readAt \in Times
    /\ link \in {"up", "gone"}
    /\ evbuf \in Seq(Times) /\ batch \in Seq(Times) /\ typed \in Seq(Times)
    /\ pc \in {"reading", "locking", "callback", "recording", "ended"}
    /\ lastAlert \in Times \cup {-Cooldown}
    /\ alerts \in Seq([time : Times, keys : Nat])

LEMMA Bounds ==
    /\ {WindowSize, MinKeys, MaxRate, MinIntervals, Second, Cooldown} \subseteq Nat \ {0}
    /\ MaxTime \in Nat /\ MinKeys <= MaxRate + 1 /\ MaxRate < WindowSize
    /\ Times \subseteq Nat
BY MonitorAssumption DEF Times

LEMMA TimesAreInt == Times \subseteq Int
BY DEF Times

LEMMA KindsInit == Init => Kinds
BY Bounds DEF Init, Kinds, Times

(* The oldest of the batch                                                 *)
LEMMA HeadOfBatch ==
    ASSUME Kinds, ProcessKeystroke
    PROVE  /\ Head(batch) \in Times /\ Head(batch) = batch[1] /\ Len(batch) \in Nat \ {0}
           /\ Tail(batch) \in Seq(Times)
BY HeadTailProperties, EmptySeq DEF Kinds, ProcessKeystroke

LEMMA KindsStep == Kinds /\ [Next]_vars => Kinds'
<1> SUFFICES ASSUME Kinds, [Next]_vars
             PROVE  Kinds'
  OBVIOUS
<1>1. CASE TimePasses
  <2>1. now + 1 \in Times
    BY <1>1, Bounds DEF TimePasses, Kinds, Times
  <2>2. QED
    BY <1>1, <2>1 DEF TimePasses, Kinds
<1>2. CASE KeyTyped
  BY <1>2, AppendProperties DEF KeyTyped, Kinds
<1>3. CASE ReadBatch
  BY <1>3 DEF ReadBatch, Kinds
<1>4. CASE ProcessKeystroke
  <2>1. batch' \in Seq(Times) /\ typed' \in Seq(Times)
    BY <1>4, HeadOfBatch, AppendProperties DEF ProcessKeystroke, Kinds
  <2>2. alerts' \in Seq([time : Times, keys : Nat])
    <3>1. [time |-> now, keys |-> Len(typed) + 1] \in [time : Times, keys : Nat]
      BY LenProperties DEF Kinds
    <3>2. Append(alerts, [time |-> now, keys |-> Len(typed) + 1])
              \in Seq([time : Times, keys : Nat])
      BY <3>1, AppendProperties DEF Kinds
    <3>3. QED
      BY <1>4, <3>2 DEF ProcessKeystroke, Kinds
  <2>3. pc' \in {"reading", "locking"} /\ lastAlert' \in {now, lastAlert}
    BY <1>4 DEF ProcessKeystroke
  <2>4. QED
    BY <1>4, <2>1, <2>2, <2>3 DEF ProcessKeystroke, Kinds
<1>5. CASE DeviceGoes \/ ReadFails \/ LockScreen \/ CallbackDeauthorizes \/ CallbackReturns
           \/ Stop \/ UNCHANGED vars
  BY <1>5 DEF DeviceGoes, ReadFails, LockScreen, CallbackDeauthorizes, CallbackReturns, Stop,
              vars, Kinds
<1>6. QED
  BY <1>1, <1>2, <1>3, <1>4, <1>5 DEF Next

(* The actions that touch neither keys nor alerts                          *)
keyVars == <<evbuf, batch, times, intervals, typed, readAt, lastAlert, alerts>>

LEMMA KeysOrAlerts ==
    ASSUME [Next]_vars, ~TimePasses, ~KeyTyped, ~ReadBatch, ~ProcessKeystroke
    PROVE  UNCHANGED keyVars /\ UNCHANGED now
BY DEF Next, DeviceGoes, ReadFails, LockScreen, CallbackDeauthorizes, CallbackReturns, Stop, vars,
   keyVars

-----------------------------------------------------------------------------
LEMMA StreamProperties ==
    ASSUME Kinds
    PROVE  /\ Stream \in Seq(Times)
           /\ Len(typed) \in Nat /\ Len(batch) \in Nat /\ Len(evbuf) \in Nat
           /\ Len(Stream) = Len(typed) + Len(batch) + Len(evbuf)
           /\ DOMAIN Stream = 1 .. Len(Stream)
           /\ \A i \in 1 .. Len(Stream) : Stream[i] \in Times
           /\ \A i \in 1 .. Len(typed) : Stream[i] = typed[i]
           /\ batch # <<>> => Stream[Len(typed) + 1] = Head(batch)
<1>1. typed \in Seq(Times) /\ batch \in Seq(Times) /\ evbuf \in Seq(Times)
  BY DEF Kinds
<1>2. Len(typed) \in Nat /\ Len(batch) \in Nat /\ Len(evbuf) \in Nat
  BY <1>1, LenProperties
<1> DEFINE s == typed \o batch
<1>3. /\ s \in Seq(Times) /\ Len(s) = Len(typed) + Len(batch)
      /\ \A i \in 1 .. Len(typed) + Len(batch) :
           s[i] = IF i <= Len(typed) THEN typed[i] ELSE batch[i - Len(typed)]
  BY <1>1, ConcatProperties
<1>4. s \in Seq(Times)
  BY <1>3
<1> HIDE DEF s
<1>5. /\ Stream \in Seq(Times) /\ Len(Stream) = Len(s) + Len(evbuf)
      /\ \A i \in 1 .. Len(s) + Len(evbuf) :
           Stream[i] = IF i <= Len(s) THEN s[i] ELSE evbuf[i - Len(s)]
  <2>1. /\ s \o evbuf \in Seq(Times) /\ Len(s \o evbuf) = Len(s) + Len(evbuf)
        /\ \A i \in 1 .. Len(s) + Len(evbuf) :
             (s \o evbuf)[i] = IF i <= Len(s) THEN s[i] ELSE evbuf[i - Len(s)]
    BY ONLY <1>1, <1>4, ConcatProperties
  <2>2. QED
    BY <2>1 DEF Stream, s
<1>6. DOMAIN Stream = 1 .. Len(Stream) /\ \A i \in 1 .. Len(Stream) : Stream[i] \in Times
  BY <1>5, LenProperties, ElementOfSeq
<1>7. \A i \in 1 .. Len(typed) : Stream[i] = typed[i]
  BY <1>2, <1>3, <1>5
<1>8. ASSUME batch # <<>>
      PROVE  Stream[Len(typed) + 1] = Head(batch)
  <2>1. Len(batch) \in Nat \ {0} /\ Head(batch) = batch[1]
    BY <1>1, <1>8, EmptySeq
  <2>2. Len(typed) + 1 \in 1 .. Len(typed) + Len(batch)
    BY <1>2, <2>1
  <2>3. s[Len(typed) + 1] = batch[1] /\ Stream[Len(typed) + 1] = s[Len(typed) + 1]
    <3>1. s[Len(typed) + 1] = batch[(Len(typed) + 1) - Len(typed)]
      BY <1>2, <1>3, <2>2
    <3>2. QED
      BY <1>2, <1>3, <1>5, <2>2, <3>1
  <2>4. QED
    BY <2>1, <2>3
<1>9. QED
  BY <1>2, <1>3, <1>5, <1>6, <1>7, <1>8

LEMMA OrderedStep ==
    ASSUME Kinds, KeysOrdered, [Next]_vars
    PROVE  KeysOrdered'
<1>1. typed \in Seq(Times) /\ batch \in Seq(Times) /\ evbuf \in Seq(Times) /\ now \in Times
  BY DEF Kinds
<1>2. CASE TimePasses
  <2>1. Stream' = Stream /\ now' = now + 1
    BY <1>2 DEF TimePasses, Stream
  <2>2. \A j \in DOMAIN Stream : Stream[j] \in Nat
    BY StreamProperties, Bounds
  <2>3. QED
    BY <1>1, <2>1, <2>2, Bounds DEF KeysOrdered
<1>3. CASE KeyTyped
  <2> DEFINE s == typed \o batch
  <2>1. s \in Seq(Times)
    BY <1>1, ConcatProperties
  <2>2. Stream' = s \o Append(evbuf, now)
    BY <1>3 DEF KeyTyped, Stream
  <2>3. Append(evbuf, now) = evbuf \o <<now>> /\ <<now>> \in Seq(Times)
    BY <1>1, AppendIsConcat
  <2>4. Stream' = Stream \o <<now>>
    BY <1>1, <2>1, <2>2, <2>3, ConcatAssociative DEF Stream
  <2>5. Stream' = Append(Stream, now)
    BY <1>1, <2>4, StreamProperties, AppendIsConcat
  <2>6. /\ Len(Stream') = Len(Stream) + 1 /\ DOMAIN Stream' = 1 .. Len(Stream) + 1
        /\ \A i \in 1 .. Len(Stream) : Stream'[i] = Stream[i]
        /\ Stream'[Len(Stream) + 1] = now
    BY <1>1, <2>5, StreamProperties, AppendProperties, LenProperties
  <2>7. now' = now /\ Len(Stream) \in Nat /\ now \in Nat
    BY <1>1, <1>3, StreamProperties, Bounds DEF KeyTyped
  <2>8. \A i \in 1 .. Len(Stream) : Stream[i] <= now /\ Stream[i] \in Nat
    <3> HIDE DEF s
    <3>1. \A i \in 1 .. Len(Stream) : i <= i /\ i \in DOMAIN Stream /\ Stream[i] \in Times
      BY StreamProperties
    <3>2. QED
      BY <3>1, Bounds DEF KeysOrdered
  <2>9. ASSUME NEW i \in DOMAIN Stream', NEW j \in DOMAIN Stream', i <= j
        PROVE  Stream'[i] <= Stream'[j] /\ Stream'[j] <= now
    <3>1. CASE j = Len(Stream) + 1
      BY <2>6, <2>7, <2>8, <2>9, <3>1
    <3>2. CASE j # Len(Stream) + 1
      <4>1. i \in 1 .. Len(Stream) /\ j \in 1 .. Len(Stream)
        BY <2>6, <2>7, <2>9, <3>2
      <4>2. QED
        BY <2>6, <2>9, <4>1, StreamProperties DEF KeysOrdered
    <3>3. QED
      BY <3>1, <3>2
  <2>10. QED
    BY <2>7, <2>9 DEF KeysOrdered
<1>4. CASE ReadBatch
  <2>1. Stream' = typed \o evbuf \o <<>> /\ Stream = typed \o <<>> \o evbuf /\ now' = now
    BY <1>4 DEF ReadBatch, Stream
  <2>2. typed \o evbuf \in Seq(Times)
    BY <1>1, ConcatProperties
  <2>3. Stream' = Stream
    BY <1>1, <2>1, <2>2, ConcatEmptySeq
  <2>4. QED
    BY <2>1, <2>3 DEF KeysOrdered
<1>5. CASE ProcessKeystroke
  <2> DEFINE t == Head(batch)
  <2>1. t \in Times /\ Tail(batch) \in Seq(Times) /\ batch # <<>>
    BY <1>5, HeadOfBatch DEF ProcessKeystroke
  <2>2. typed' = Append(typed, t) /\ batch' = Tail(batch) /\ evbuf' = evbuf /\ now' = now
    BY <1>5 DEF ProcessKeystroke
  <2>3. batch = <<t>> \o Tail(batch)
    <3>1. /\ <<t>> \in Seq(Times) /\ Len(<<t>>) = 1 /\ <<t>>[1] = t
      BY <2>1
    <3>2. /\ <<t>> \o Tail(batch) \in Seq(Times)
          /\ Len(<<t>> \o Tail(batch)) = Len(batch)
          /\ \A i \in 1 .. Len(batch) : (<<t>> \o Tail(batch))[i] = batch[i]
      <4>1. Len(Tail(batch)) = Len(batch) - 1 /\ Len(batch) \in Nat \ {0} /\ t = batch[1]
        BY <1>1, <1>5, HeadOfBatch, HeadTailProperties DEF ProcessKeystroke
      <4>2. /\ <<t>> \o Tail(batch) \in Seq(Times)
            /\ Len(<<t>> \o Tail(batch)) = 1 + Len(Tail(batch))
            /\ \A i \in 1 .. 1 + Len(Tail(batch)) :
                 (<<t>> \o Tail(batch))[i] = IF i <= 1 THEN <<t>>[i] ELSE Tail(batch)[i - 1]
        <5> HIDE DEF t
        <5>1. QED
          BY <2>1, <3>1, ConcatProperties
      <4>3. \A i \in 1 .. Len(Tail(batch)) : Tail(batch)[i] = batch[i + 1]
        BY <1>1, <2>1, HeadTailProperties
      <4> HIDE DEF t
      <4>4. ASSUME NEW i \in 1 .. Len(batch)
            PROVE  (<<t>> \o Tail(batch))[i] = batch[i]
        <5>1. CASE i = 1
          BY <3>1, <4>1, <4>2, <5>1
        <5>2. CASE i # 1
          <6>1. i - 1 \in 1 .. Len(Tail(batch)) /\ (i - 1) + 1 = i
            BY <4>1, <5>2
          <6>2. QED
            BY <4>1, <4>2, <4>3, <5>2, <6>1
        <5>3. QED
          BY <5>1, <5>2
      <4>5. QED
        BY <4>1, <4>2, <4>4
    <3> HIDE DEF t
    <3>3. QED
      BY <1>1, <3>2, SeqEqual
  <2>4. Append(typed, t) = typed \o <<t>> /\ <<t>> \in Seq(Times)
    BY <1>1, <2>1, AppendIsConcat
  <2> HIDE DEF t
  <2>5. Stream' = (typed \o <<t>>) \o Tail(batch) \o evbuf
    BY <2>2, <2>4 DEF Stream
  <2>6. (typed \o <<t>>) \o Tail(batch) = typed \o (<<t>> \o Tail(batch))
    BY <1>1, <2>1, <2>4, ConcatAssociative
  <2>7. Stream' = Stream
    BY <2>3, <2>5, <2>6 DEF Stream
  <2>8. QED
    BY <2>2, <2>7 DEF KeysOrdered
<1>6. CASE UNCHANGED keyVars /\ UNCHANGED now
  BY <1>6 DEF keyVars, KeysOrdered, Stream
<1>7. QED
  BY <1>2, <1>3, <1>4, <1>5, <1>6, KeysOrAlerts

-----------------------------------------------------------------------------
LEMMA NewestProperties ==
    ASSUME NEW s \in Seq(Int)
    PROVE  /\ Newest(s) \in Seq(Int)
           /\ Len(Newest(s)) = IF Len(s) <= WindowSize THEN Len(s) ELSE WindowSize
           /\ \A k \in 1 .. Len(Newest(s)) :
                Newest(s)[k] = s[(Len(s) - Len(Newest(s))) + k]
<1>1. Len(s) \in Nat /\ WindowSize \in Nat /\ WindowSize >= 2
  BY LenProperties, Sizes
<1>2. CASE Len(s) <= WindowSize
  BY <1>1, <1>2 DEF Newest
<1>3. CASE ~(Len(s) <= WindowSize)
  <2> DEFINE m == Len(s) - WindowSize + 1
  <2>1. m \in Int /\ Len(s) \in Int /\ m <= Len(s) /\ Len(s) - m + 1 = WindowSize /\ m >= 1
    BY <1>1, <1>3
  <2>2. \A i \in m .. Len(s) : s[i] \in Int
    BY <1>1, <2>1, ElementOfSeq
  <2>3. Newest(s) = SubSeq(s, m, Len(s))
    BY <1>3 DEF Newest
  <2> HIDE DEF m
  <2>4. /\ SubSeq(s, m, Len(s)) \in Seq(Int)
        /\ Len(SubSeq(s, m, Len(s))) = IF m <= Len(s) THEN Len(s) - m + 1 ELSE 0
        /\ \A i \in 1 .. Len(s) - m + 1 : SubSeq(s, m, Len(s))[i] = s[m + i - 1]
    BY <2>1, <2>2, SubSeqProperties
  <2>5. Newest(s) \in Seq(Int) /\ Len(Newest(s)) = WindowSize
    BY <2>1, <2>3, <2>4
  <2>6. \A k \in 1 .. WindowSize : m + k - 1 = (Len(s) - WindowSize) + k
    BY <1>1, <2>1 DEF m
  <2>7. \A k \in 1 .. WindowSize : Newest(s)[k] = s[(Len(s) - WindowSize) + k]
    BY <2>1, <2>3, <2>4, <2>6
  <2>8. QED
    BY <1>3, <2>5, <2>7
<1>4. QED
  BY <1>2, <1>3

(* The deque with maxlen keeps the newest.                                 *)
LEMMA PushedIsNewest ==
    ASSUME NEW s \in Seq(Int), NEW t \in Int
    PROVE  Pushed(Newest(s), t, WindowSize) = Newest(Append(s, t))
<1> DEFINE n == Len(s)
           w == Newest(s)
           v == Newest(Append(s, t))
<1>1. n \in Nat /\ WindowSize \in Nat /\ WindowSize >= 2
  BY LenProperties, Sizes
<1>2. /\ Append(s, t) \in Seq(Int) /\ Len(Append(s, t)) = n + 1
      /\ \A i \in 1 .. n : Append(s, t)[i] = s[i]
      /\ Append(s, t)[n + 1] = t
  BY AppendProperties
<1>3. /\ w \in Seq(Int) /\ Len(w) = IF n <= WindowSize THEN n ELSE WindowSize
      /\ \A k \in 1 .. Len(w) : w[k] = s[(n - Len(w)) + k]
  BY NewestProperties
<1>4. /\ v \in Seq(Int) /\ Len(v) = IF n + 1 <= WindowSize THEN n + 1 ELSE WindowSize
      /\ \A k \in 1 .. Len(v) : v[k] = Append(s, t)[((n + 1) - Len(v)) + k]
  <2> DEFINE a == Append(s, t)
  <2>1. a \in Seq(Int) /\ Len(a) = n + 1
    BY <1>2
  <2> HIDE DEF a
  <2>2. /\ Newest(a) \in Seq(Int)
        /\ Len(Newest(a)) = IF Len(a) <= WindowSize THEN Len(a) ELSE WindowSize
        /\ \A k \in 1 .. Len(Newest(a)) : Newest(a)[k] = a[(Len(a) - Len(Newest(a))) + k]
    BY <2>1, NewestProperties
  <2>3. QED
    BY <2>1, <2>2 DEF a
<1> HIDE DEF n, w, v
<1>5. CASE n < WindowSize
  <2>1. Len(w) = n /\ Len(v) = n + 1 /\ Pushed(w, t, WindowSize) = Append(w, t)
    BY <1>1, <1>3, <1>4, <1>5 DEF Pushed
  <2>2. /\ Append(w, t) \in Seq(Int) /\ Len(Append(w, t)) = n + 1
        /\ \A i \in 1 .. n : Append(w, t)[i] = w[i]
        /\ Append(w, t)[n + 1] = t
    BY <1>3, <2>1, AppendProperties
  <2>3. ASSUME NEW k \in 1 .. n + 1
        PROVE  Append(w, t)[k] = v[k]
    <3>1. v[k] = Append(s, t)[k]
      <4>1. ((n + 1) - Len(v)) + k = k /\ k \in 1 .. Len(v)
        BY <1>1, <2>1
      <4>2. QED
        BY <1>4, <4>1
    <3>2. CASE k = n + 1
      BY <1>2, <2>2, <3>1, <3>2
    <3>3. CASE k # n + 1
      <4>1. k \in 1 .. n
        BY <1>1, <3>3
      <4>2. w[k] = s[k]
        <5>1. (n - Len(w)) + k = k /\ k \in 1 .. Len(w)
          BY <1>1, <2>1, <4>1
        <5>2. QED
          BY <1>3, <5>1
      <4>3. QED
        BY <1>2, <2>2, <3>1, <4>1, <4>2
    <3>4. QED
      BY <3>2, <3>3
  <2>4. Append(w, t) = v
    BY <1>4, <2>1, <2>2, <2>3, SeqEqual
  <2>5. QED
    BY <2>1, <2>4 DEF w, v
<1>6. CASE ~(n < WindowSize)
  <2>1. /\ Len(w) = WindowSize /\ Len(v) = WindowSize /\ w # <<>>
        /\ Pushed(w, t, WindowSize) = Append(Tail(w), t)
    BY <1>1, <1>3, <1>4, <1>6 DEF Pushed
  <2>2. /\ Tail(w) \in Seq(Int) /\ Len(Tail(w)) = WindowSize - 1
        /\ \A i \in 1 .. WindowSize - 1 : Tail(w)[i] = w[i + 1]
    BY <1>3, <2>1, HeadTailProperties
  <2> DEFINE u == Tail(w)
  <2>3. u \in Seq(Int) /\ Len(u) = WindowSize - 1
    BY <2>2
  <2> HIDE DEF u
  <2>4. /\ Append(u, t) \in Seq(Int) /\ Len(Append(u, t)) = (WindowSize - 1) + 1
        /\ \A i \in 1 .. WindowSize - 1 : Append(u, t)[i] = u[i]
        /\ Append(u, t)[(WindowSize - 1) + 1] = t
    BY <2>3, AppendProperties
  <2>5. ASSUME NEW k \in 1 .. WindowSize
        PROVE  Append(u, t)[k] = v[k]
    <3>1. v[k] = Append(s, t)[((n + 1) - WindowSize) + k]
      BY <1>1, <1>4, <2>1
    <3>2. CASE k = WindowSize
      <4>1. ((n + 1) - WindowSize) + k = n + 1 /\ (WindowSize - 1) + 1 = k
        BY <1>1, <3>2
      <4>2. QED
        BY <1>2, <2>4, <3>1, <4>1
    <3>3. CASE k # WindowSize
      <4>1. k \in 1 .. WindowSize - 1 /\ k + 1 \in 1 .. WindowSize
        BY <1>1, <3>3
      <4>2. u[k] = w[k + 1]
        BY <2>2, <4>1 DEF u
      <4>3. w[k + 1] = s[(n - WindowSize) + (k + 1)]
        BY <1>3, <2>1, <4>1
      <4>4. (n - WindowSize) + (k + 1) = ((n + 1) - WindowSize) + k
        BY <1>1
      <4>5. ((n + 1) - WindowSize) + k \in 1 .. n
        BY <1>1, <1>6, <4>1
      <4>6. QED
        BY <1>2, <2>4, <3>1, <4>1, <4>2, <4>3, <4>4, <4>5
    <3>4. QED
      BY <3>2, <3>3
  <2>6. Len(Append(u, t)) = Len(v)
    BY <1>1, <2>1, <2>4
  <2>7. \A i \in 1 .. Len(Append(u, t)) : Append(u, t)[i] = v[i]
    BY <2>1, <2>5, <2>6
  <2>8. Append(u, t) = v
    BY <1>4, <2>4, <2>6, <2>7, SeqEqual
  <2>9. QED
    BY <2>1, <2>8 DEF u, w, v
<1>7. QED
  BY <1>5, <1>6

LEMMA IntTyped == Kinds => typed \in Seq(Int)
BY TimesAreInt, SeqMonotonic DEF Kinds

LEMMA NewestStep ==
    ASSUME Kinds, TimesAreNewest, [Next]_vars
    PROVE  TimesAreNewest'
<1>1. CASE ProcessKeystroke
  <2>1. Head(batch) \in Int
    <3>1. Head(batch) \in Times
      BY <1>1, HeadOfBatch
    <3>2. QED
      BY <3>1, TimesAreInt
  <2>2. times' = Pushed(times, Head(batch), WindowSize) /\ typed' = Append(typed, Head(batch))
    BY <1>1 DEF ProcessKeystroke, TimesWith
  <2>3. times = Newest(typed)
    BY DEF TimesAreNewest
  <2>4. QED
    BY <2>1, <2>2, <2>3, IntTyped, PushedIsNewest DEF TimesAreNewest
<1>2. CASE TimePasses \/ KeyTyped \/ ReadBatch
  BY <1>2 DEF TimePasses, KeyTyped, ReadBatch, TimesAreNewest, Newest
<1>3. CASE UNCHANGED keyVars
  BY <1>3 DEF keyVars, TimesAreNewest, Newest
<1>4. QED
  BY <1>1, <1>2, <1>3, KeysOrAlerts

-----------------------------------------------------------------------------
(* The rate is over the limit just when the key MaxRate before the last    *)
(* was typed within the second before it.                                  *)
LEMMA RateIsBurst ==
    ASSUME NEW s \in Seq(Int), s # <<>>,
           \A i, j \in 1 .. Len(s) : i <= j => s[i] <= s[j]
    PROVE  FastAmong(s) <=> Rate(Newest(s)) > MaxRate
<1> DEFINE n == Len(s)
           w == Newest(s)
           m == Len(w)
           recent == {k \in 1 .. m : s[n] - w[k] <= Second}
<1>1. n \in Nat \ {0} /\ DOMAIN s = 1 .. n
  BY EmptySeq, LenProperties
<1>2. /\ m \in Nat \ {0} /\ DOMAIN w = 1 .. m /\ m <= n
      /\ (n <= WindowSize /\ m = n) \/ m = WindowSize
      /\ \A k \in 1 .. m : w[k] = s[(n - m) + k]
  <2>1. w \in Seq(Int) /\ WindowSize \in Nat /\ WindowSize >= 2
    BY NewestProperties, Sizes
  <2>2. /\ m = IF n <= WindowSize THEN n ELSE WindowSize
        /\ \A k \in 1 .. m : w[k] = s[(n - m) + k]
    BY NewestProperties
  <2>3. DOMAIN w = 1 .. m
    BY <2>1, LenProperties
  <2> HIDE DEF n, w, m
  <2>4. QED
    BY <1>1, <2>1, <2>2, <2>3
<1>3. MaxRate \in Nat /\ MaxRate < WindowSize /\ WindowSize \in Nat /\ Second \in Nat
  BY Bounds
<1>4. Last(w) = s[n]
  <2> HIDE DEF n, w, m
  <2>1. m \in 1 .. m /\ (n - m) + m = n
    BY <1>1, <1>2
  <2>2. w[m] = s[n]
    BY <1>2, <2>1
  <2>3. QED
    BY <2>2 DEF Last, m
<1>5. Rate(w) = Cardinality(recent)
  BY <1>2, <1>4 DEF Rate
<1>6. FastAmong(s) <=> \E k \in 1 .. n : k <= n - MaxRate /\ s[n] - s[k] <= Second
  BY <1>1 DEF FastAmong, Last
<1>7. \A k \in 1 .. n : s[k] \in Int
  BY ElementOfSeq
<1>8. IsFiniteSet(1 .. m) /\ recent \in SUBSET (1 .. m)
  BY <1>2, FS_Interval
<1>9. IsFiniteSet(recent) /\ Cardinality(recent) \in Nat
  BY <1>8, FS_Subset, FS_CardinalityType
<1> HIDE DEF n, w, m, recent
<1>10. ASSUME NEW k \in 1 .. n, k <= n - MaxRate, s[n] - s[k] <= Second
       PROVE  Cardinality(recent) > MaxRate
  <2>1. m - MaxRate >= 1
    BY <1>1, <1>2, <1>3, <1>10
  <2>2. ASSUME NEW j \in (m - MaxRate) .. m
        PROVE  j \in recent
    <3>1. j \in 1 .. m /\ (n - m) + j \in 1 .. n /\ k <= (n - m) + j
      BY <1>1, <1>2, <1>3, <1>10, <2>1
    <3>2. s[k] <= s[(n - m) + j] /\ w[j] = s[(n - m) + j]
      BY <1>2, <3>1 DEF n
    <3>3. s[n] - w[j] <= Second
      BY <1>1, <1>3, <1>7, <1>10, <3>1, <3>2
    <3>4. QED
      BY <3>1, <3>3 DEF recent
  <2>3. (m - MaxRate) .. m \in SUBSET recent
    BY <2>2
  <2>4. Cardinality((m - MaxRate) .. m) = MaxRate + 1
    BY <1>2, <1>3, FS_Interval
  <2>5. Cardinality((m - MaxRate) .. m) <= Cardinality(recent)
    BY <1>9, <2>3, FS_Subset
  <2>6. QED
    BY <1>3, <1>9, <2>4, <2>5
<1>11. ASSUME \A k \in 1 .. n : k <= n - MaxRate => ~(s[n] - s[k] <= Second)
       PROVE  ~(Cardinality(recent) > MaxRate)
  <2>1. ASSUME NEW j \in recent
        PROVE  j \in (m - MaxRate + 1) .. m
    <3>1. j \in 1 .. m /\ s[n] - w[j] <= Second
      BY <2>1 DEF recent
    <3>2. w[j] = s[(n - m) + j] /\ (n - m) + j \in 1 .. n
      BY <1>1, <1>2, <3>1
    <3>3. ~((n - m) + j <= n - MaxRate)
      BY <1>11, <3>1, <3>2
    <3>4. QED
      BY <1>1, <1>2, <1>3, <3>1, <3>3
  <2>2. recent \in SUBSET ((m - MaxRate + 1) .. m)
    BY <2>1
  <2>3. /\ IsFiniteSet((m - MaxRate + 1) .. m)
        /\ Cardinality((m - MaxRate + 1) .. m) <= MaxRate
    <3>1. m - MaxRate + 1 \in Int /\ m \in Int
      BY <1>2, <1>3
    <3>2. /\ IsFiniteSet((m - MaxRate + 1) .. m)
          /\ Cardinality((m - MaxRate + 1) .. m) =
               IF m - MaxRate + 1 > m THEN 0 ELSE m - (m - MaxRate + 1) + 1
      BY <3>1, FS_Interval
    <3>3. QED
      BY <1>2, <1>3, <3>2
  <2>4. Cardinality(recent) <= Cardinality((m - MaxRate + 1) .. m)
    BY <2>2, <2>3, FS_Subset
  <2>5. Cardinality((m - MaxRate + 1) .. m) \in Nat
    BY <2>3, FS_CardinalityType
  <2>6. QED
    BY <1>3, <1>9, <2>3, <2>4, <2>5
<1>12. QED
  BY <1>5, <1>6, <1>10, <1>11 DEF w

-----------------------------------------------------------------------------
Attentive == Aligned /\ Kinds /\ KeysOrdered /\ TimesAreNewest /\ AlertsRemembered

Justified(keys) ==
    \/ FastAmong(keys)
    \/ Len(Newest(keys)) > MinIntervals /\ Regular(Gaps(Newest(keys)))

LEMMA JustifiedAlerts ==
    AlertsJustified <=>
        \A k \in DOMAIN alerts :
            /\ Justified(SubSeq(typed, 1, alerts[k].keys))
            /\ k > 1 => alerts[k].time - alerts[k - 1].time >= Cooldown
BY DEF AlertsJustified, Justified

(* The key that is looked at is the next of the stream, so what was typed  *)
(* with it is in order as well.                                            *)
LEMMA NextKeyInOrder ==
    ASSUME Kinds, KeysOrdered, ProcessKeystroke
    PROVE  \A i, j \in 1 .. Len(typed) + 1 :
               i <= j => Append(typed, Head(batch))[i] <= Append(typed, Head(batch))[j]
<1> DEFINE t == Head(batch)
<1>1. /\ typed \in Seq(Times) /\ Len(typed) \in Nat /\ t \in Times /\ Len(batch) \in Nat \ {0}
      /\ batch # <<>>
  BY HeadOfBatch, LenProperties DEF Kinds, ProcessKeystroke
<1>2. \A i \in 1 .. Len(typed) + 1 : i \in DOMAIN Stream
  BY <1>1, StreamProperties
<1> HIDE DEF t
<1>3. /\ \A i \in 1 .. Len(typed) : Append(typed, t)[i] = typed[i]
      /\ Append(typed, t)[Len(typed) + 1] = t
  BY <1>1, AppendProperties
<1>4. \A i \in 1 .. Len(typed) + 1 : Append(typed, t)[i] = Stream[i]
  BY <1>1, <1>3, StreamProperties DEF t
<1>5. QED
  BY <1>2, <1>4 DEF KeysOrdered, t

LEMMA WindowSpeaksOfTyped ==
    ASSUME Kinds, KeysOrdered, TimesAreNewest, Aligned, ProcessKeystroke
    PROVE  /\ times' = Newest(typed') /\ typed' \in Seq(Int)
           /\ Len(typed') = Len(typed) + 1 /\ Len(typed) \in Nat
           /\ FastAmong(typed') <=> Rate(times') > MaxRate
           /\ intervals' = Gaps(times') /\ Len(times') = Len(intervals') + 1
           /\ Len(intervals') \in Nat
<1>1. TimesAreNewest' /\ Aligned'
  BY NewestStep, KeyAligns DEF Next
<1>2. Head(batch) \in Int /\ typed' = Append(typed, Head(batch))
  <2>1. Head(batch) \in Times
    BY HeadOfBatch
  <2>2. QED
    BY <2>1, TimesAreInt DEF ProcessKeystroke
<1>3. /\ typed \in Seq(Int) /\ Len(typed) \in Nat
      /\ typed' \in Seq(Int) /\ Len(typed') = Len(typed) + 1
  <2>1. typed \in Seq(Int)
    BY IntTyped
  <2>2. QED
    BY <1>2, <2>1, AppendProperties, LenProperties
<1>4. typed' # <<>>
  BY <1>3, EmptySeq
<1>5. times' = Newest(typed')
  BY <1>1 DEF TimesAreNewest
<1>6. \A i, j \in 1 .. Len(typed') : i <= j => typed'[i] <= typed'[j]
  BY <1>2, <1>3, NextKeyInOrder
<1> DEFINE s == typed'
<1>7. FastAmong(s) <=> Rate(Newest(s)) > MaxRate
  <2>1. s \in Seq(Int) /\ s # <<>> /\ \A i, j \in 1 .. Len(s) : i <= j => s[i] <= s[j]
    BY <1>3, <1>4, <1>6
  <2> HIDE DEF s
  <2>2. QED
    BY <2>1, RateIsBurst
<1>8. times' # <<>> /\ times' \in Seq(Int) /\ intervals' \in Seq(Int)
  <2>1. /\ times' \in Seq(Int) /\ intervals' \in Seq(Int)
    BY <1>1 DEF Aligned, WindowsTyped
  <2>2. Len(Newest(s)) = IF Len(s) <= WindowSize THEN Len(s) ELSE WindowSize
    <3>1. s \in Seq(Int)
      BY <1>3
    <3> HIDE DEF s
    <3>2. QED
      BY <3>1, NewestProperties
  <2>3. Len(times') # 0
    BY <1>3, <1>5, <2>2, Sizes
  <2>4. QED
    BY <2>1, <2>3, EmptySeq
<1>9. /\ Len(intervals') = Len(times') - 1
      /\ \A k \in DOMAIN intervals' : intervals'[k] = times'[k + 1] - times'[k]
  BY <1>1, <1>8 DEF Aligned, IntervalsAlign
<1>10. DOMAIN intervals' = 1 .. Len(times') - 1 /\ Len(times') \in Nat \ {0}
  BY <1>8, <1>9, LenProperties, EmptySeq
<1>11. intervals' = [k \in DOMAIN intervals' |-> intervals'[k]]
  BY <1>8, LenProperties
<1>12. intervals' = Gaps(times')
  BY <1>9, <1>10, <1>11 DEF Gaps
<1>13. QED
  BY <1>3, <1>5, <1>7, <1>8, <1>9, <1>10, <1>12

LEMMA BurstsFillTheWindow ==
    ASSUME NEW s \in Seq(Int), FastAmong(s)
    PROVE  Len(Newest(s)) >= MinKeys
<1>1. PICK k \in DOMAIN s : k <= Len(s) - MaxRate
  BY DEF FastAmong
<1>2. Len(s) \in Nat /\ k \in 1 .. Len(s)
  BY LenProperties
<1>3. Len(s) >= MaxRate + 1 /\ MaxRate \in Nat
  BY <1>1, <1>2, Bounds
<1>4. Len(Newest(s)) = IF Len(s) <= WindowSize THEN Len(s) ELSE WindowSize
  BY NewestProperties
<1>5. /\ MinKeys <= MaxRate + 1 /\ MaxRate < WindowSize
      /\ MinKeys \in Nat /\ MaxRate \in Nat /\ WindowSize \in Nat
  BY Bounds
<1>6. QED
  BY <1>2, <1>3, <1>4, <1>5

LEMMA PrefixOfAppend ==
    ASSUME NEW s \in Seq(Int), NEW t \in Int, NEW n \in 1 .. Len(s)
    PROVE  SubSeq(Append(s, t), 1, n) = SubSeq(s, 1, n)
<1>1. /\ Len(s) \in Nat /\ Append(s, t) \in Seq(Int)
      /\ \A i \in 1 .. Len(s) : Append(s, t)[i] = s[i]
      /\ \A i \in 1 .. n : i \in 1 .. Len(s) /\ s[i] \in Int
  BY LenProperties, AppendProperties, ElementOfSeq
<1> DEFINE a == Append(s, t)
<1>2. n \in Int /\ 1 <= n /\ \A i \in 1 .. n : a[i] \in Int /\ a[i] = s[i]
  BY <1>1
<1> HIDE DEF a
<1>3. /\ SubSeq(s, 1, n) \in Seq(Int) /\ Len(SubSeq(s, 1, n)) = n
      /\ \A i \in 1 .. n : SubSeq(s, 1, n)[i] = s[i]
  BY <1>1, <1>2, SubSeqProperties
<1>4. /\ SubSeq(a, 1, n) \in Seq(Int) /\ Len(SubSeq(a, 1, n)) = n
      /\ \A i \in 1 .. n : SubSeq(a, 1, n)[i] = a[i]
  BY <1>2, SubSeqProperties
<1>5. SubSeq(a, 1, n) = SubSeq(s, 1, n)
  BY <1>2, <1>3, <1>4, SeqEqual
<1>6. QED
  BY <1>5 DEF a

-----------------------------------------------------------------------------
Watchful == Attentive /\ BurstNoticed /\ AlertsJustified

(* One key, with or without an alert                                       *)
LEMMA KeyIsWatched ==
    ASSUME Watchful, ProcessKeystroke
    PROVE  (AlertsRemembered /\ BurstNoticed /\ AlertsJustified)'
<1> DEFINE alarm == /\ Len(times') >= MinKeys
                    /\ Suspicious(times', intervals')
                    /\ Cooled
           new == [time |-> now, keys |-> Len(typed) + 1]
<1>1. /\ Kinds /\ KeysOrdered /\ TimesAreNewest /\ Aligned /\ AlertsRemembered
      /\ BurstNoticed /\ AlertsJustified
  BY DEF Watchful, Attentive
<1>2. /\ times' = Newest(typed') /\ typed' \in Seq(Int)
      /\ Len(typed') = Len(typed) + 1 /\ Len(typed) \in Nat
      /\ FastAmong(typed') <=> Rate(times') > MaxRate
      /\ intervals' = Gaps(times') /\ Len(times') = Len(intervals') + 1
      /\ Len(intervals') \in Nat
  BY <1>1, WindowSpeaksOfTyped
<1>3. /\ lastAlert' = IF alarm THEN now ELSE lastAlert
      /\ alerts' = IF alarm THEN Append(alerts, new) ELSE alerts
      /\ typed' = Append(typed, Head(batch)) /\ readAt' = now
  BY DEF ProcessKeystroke
<1>4. typed \in Seq(Int) /\ Head(batch) \in Int
  <2>1. Head(batch) \in Times
    BY <1>1, HeadOfBatch
  <2>2. QED
    BY <1>1, <2>1, TimesAreInt, IntTyped
<1>5. now \in Nat /\ Cooldown \in Nat \ {0} /\ lastAlert \in Int
  BY <1>1, MonitorAssumption DEF Kinds, Times
<1>6. /\ new \in [time : Times, keys : Nat] /\ new.time = now /\ new.keys = Len(typed) + 1
      /\ alerts \in Seq([time : Times, keys : Nat])
  BY <1>1, <1>2 DEF Kinds
<1> HIDE DEF new
<1>7. /\ Len(alerts) \in Nat /\ DOMAIN alerts = 1 .. Len(alerts)
      /\ alerts # <<>> => Len(alerts) \in Nat \ {0}
      /\ Append(alerts, new) \in Seq([time : Times, keys : Nat])
      /\ Len(Append(alerts, new)) = Len(alerts) + 1
      /\ \A k \in 1 .. Len(alerts) : Append(alerts, new)[k] = alerts[k]
      /\ Append(alerts, new)[Len(alerts) + 1] = new
      /\ DOMAIN Append(alerts, new) = 1 .. Len(alerts) + 1
      /\ Append(alerts, new) # <<>>
  <2>1. /\ Append(alerts, new) \in Seq([time : Times, keys : Nat])
        /\ Len(Append(alerts, new)) = Len(alerts) + 1
        /\ \A k \in 1 .. Len(alerts) : Append(alerts, new)[k] = alerts[k]
        /\ Append(alerts, new)[Len(alerts) + 1] = new
    BY <1>6, AppendProperties
  <2>2. /\ Len(alerts) \in Nat /\ DOMAIN alerts = 1 .. Len(alerts)
        /\ alerts # <<>> => Len(alerts) \in Nat \ {0}
    BY <1>6, LenProperties, EmptySeq
  <2> DEFINE a == Append(alerts, new)
  <2>3. a \in Seq([time : Times, keys : Nat]) /\ Len(a) = Len(alerts) + 1
    BY <2>1
  <2> HIDE DEF a
  <2>4. DOMAIN a = 1 .. Len(alerts) + 1 /\ a # <<>>
    BY <2>2, <2>3, LenProperties, EmptySeq
  <2>5. QED
    BY <2>1, <2>2, <2>4 DEF a
<1>8. \A k \in 1 .. Len(alerts) :
          /\ alerts[k].keys \in 1 .. Len(typed)
          /\ Justified(SubSeq(typed, 1, alerts[k].keys))
          /\ k > 1 => alerts[k].time - alerts[k - 1].time >= Cooldown
  BY <1>1, <1>7, JustifiedAlerts DEF AlertsRemembered
<1> HIDE DEF alarm
<1>9. \A k \in 1 .. Len(alerts) : Justified(SubSeq(typed', 1, alerts[k].keys))
  <2>1. ASSUME NEW k \in 1 .. Len(alerts)
        PROVE  SubSeq(typed', 1, alerts[k].keys) = SubSeq(typed, 1, alerts[k].keys)
    BY <1>3, <1>4, <1>8, PrefixOfAppend
  <2>2. QED
    BY <1>8, <2>1
<1>10. CASE alarm
  <2>1. alerts' = Append(alerts, new) /\ lastAlert' = now
    BY <1>3, <1>10
  <2>2. Last(alerts') = new
    BY <1>7, <2>1 DEF Last
  <2>3. AlertsRemembered'
    <3>1. ASSUME NEW k \in 1 .. Len(alerts) + 1
          PROVE  alerts'[k].keys \in 1 .. Len(typed')
      <4>1. CASE k = Len(alerts) + 1
        BY <1>2, <1>6, <1>7, <2>1, <4>1
      <4>2. CASE k # Len(alerts) + 1
        <5>1. k \in 1 .. Len(alerts)
          BY <1>7, <4>2
        <5>2. QED
          BY <1>2, <1>7, <1>8, <2>1, <5>1
      <4>3. QED
        BY <4>1, <4>2
    <3>2. QED
      BY <1>6, <1>7, <2>1, <2>2, <3>1 DEF AlertsRemembered
  <2>4. BurstNoticed'
    BY <1>3, <1>5, <1>6, <1>7, <2>1, <2>2 DEF BurstNoticed
  <2>5. Justified(SubSeq(typed', 1, new.keys))
    <3>1. SubSeq(typed', 1, Len(typed')) = typed'
      BY <1>2, SubSeqFull
    <3>2. \/ Rate(times') > MaxRate
          \/ Len(intervals') >= MinIntervals /\ Regular(intervals')
      BY <1>10 DEF alarm, Suspicious
    <3>3. Justified(typed')
      <4>1. MinIntervals \in Nat
        BY MonitorAssumption
      <4>2. QED
        BY <1>2, <3>2, <4>1 DEF Justified
    <3>4. QED
      BY <1>2, <1>6, <3>1, <3>3
  <2>6. Len(alerts) # 0 => now - alerts[Len(alerts)].time >= Cooldown
    BY <1>1, <1>7, <1>10 DEF alarm, Cooled, AlertsRemembered, Last
  <2>7. ASSUME NEW k \in 1 .. Len(alerts) + 1
        PROVE  /\ Justified(SubSeq(typed', 1, alerts'[k].keys))
               /\ k > 1 => alerts'[k].time - alerts'[k - 1].time >= Cooldown
    <3>1. CASE k = Len(alerts) + 1
      <4>1. alerts'[k] = new
        BY <1>7, <2>1, <3>1
      <4>2. ASSUME k > 1
            PROVE  alerts'[k - 1] = alerts[Len(alerts)] /\ Len(alerts) # 0
        <5>1. k - 1 = Len(alerts) /\ k - 1 \in 1 .. Len(alerts)
          BY <1>7, <3>1, <4>2
        <5>2. QED
          BY <1>7, <2>1, <5>1
      <4>3. QED
        BY <1>6, <2>5, <2>6, <4>1, <4>2
    <3>2. CASE k # Len(alerts) + 1
      <4>1. k \in 1 .. Len(alerts) /\ alerts'[k] = alerts[k]
        BY <1>7, <2>1, <3>2
      <4>2. ASSUME k > 1
            PROVE  alerts'[k - 1] = alerts[k - 1]
        <5>1. k - 1 \in 1 .. Len(alerts)
          BY <1>7, <4>1, <4>2
        <5>2. QED
          BY <1>7, <2>1, <5>1
      <4>3. QED
        BY <1>8, <1>9, <4>1, <4>2
    <3>3. QED
      BY <3>1, <3>2
  <2>8. AlertsJustified'
    BY <1>7, <2>1, <2>7 DEF AlertsJustified, Justified
  <2>9. QED
    BY <2>3, <2>4, <2>8
<1>11. CASE ~alarm
  <2>1. alerts' = alerts /\ lastAlert' = lastAlert
    BY <1>3, <1>11
  <2>2. AlertsRemembered'
    <3>1. \A k \in 1 .. Len(alerts) : alerts[k].keys \in 1 .. Len(typed')
      BY <1>2, <1>8
    <3>2. QED
      BY <1>1, <1>7, <2>1, <3>1 DEF AlertsRemembered
  <2>3. AlertsJustified'
    BY <1>7, <1>8, <1>9, <2>1 DEF AlertsJustified, Justified
  <2>4. ASSUME FastAmong(typed')
        PROVE  alerts # <<>> /\ now - Last(alerts).time < Cooldown
    <3>1. Len(times') >= MinKeys /\ Suspicious(times', intervals')
      <4> DEFINE s == typed'
      <4>1. Len(Newest(s)) >= MinKeys
        <5>1. s \in Seq(Int) /\ FastAmong(s)
          BY <1>2, <2>4
        <5> HIDE DEF s
        <5>2. QED
          BY <5>1, BurstsFillTheWindow
      <4>2. QED
        BY <1>2, <2>4, <4>1 DEF Suspicious
    <3>2. now - lastAlert < Cooldown
      BY <1>5, <1>11, <3>1 DEF alarm, Cooled
    <3>3. alerts # <<>>
      BY <1>1, <1>5, <3>2 DEF AlertsRemembered
    <3>4. QED
      BY <1>1, <3>2, <3>3 DEF AlertsRemembered
  <2>5. BurstNoticed'
    BY <1>3, <2>1, <2>4 DEF BurstNoticed
  <2>6. QED
    BY <2>2, <2>3, <2>5
<1>12. QED
  BY <1>10, <1>11

LEMMA WatchfulInit == Init => Watchful
<1> SUFFICES ASSUME Init
             PROVE  Watchful
  OBVIOUS
<1>1. Kinds /\ Aligned
  BY KindsInit, AlignedInit
<1>2. KeysOrdered
  <2>1. Len(Stream) = 0
    BY <1>1, StreamProperties DEF Init
  <2>2. DOMAIN Stream = {}
    BY <1>1, <2>1, StreamProperties
  <2>3. QED
    BY <2>2 DEF KeysOrdered
<1>3. TimesAreNewest
  <2>1. Newest(<<>>) = <<>>
    BY Sizes DEF Newest
  <2>2. QED
    BY <2>1 DEF Init, TimesAreNewest
<1>4. AlertsRemembered /\ BurstNoticed /\ AlertsJustified
  BY DEF Init, AlertsRemembered, BurstNoticed, AlertsJustified
<1>5. QED
  BY <1>1, <1>2, <1>3, <1>4 DEF Watchful, Attentive

LEMMA WatchfulStep == Watchful /\ [Next]_vars => Watchful'
<1> SUFFICES ASSUME Watchful, [Next]_vars
             PROVE  Watchful'
  OBVIOUS
<1>1. (Aligned /\ Kinds /\ KeysOrdered /\ TimesAreNewest)'
  BY AlignedStep, KindsStep, OrderedStep, NewestStep DEF Watchful, Attentive
<1>2. CASE ProcessKeystroke
  BY <1>1, <1>2, KeyIsWatched DEF Watchful, Attentive
<1>3. CASE TimePasses \/ KeyTyped \/ ReadBatch
  BY <1>1, <1>3 DEF TimePasses, KeyTyped, ReadBatch, Watchful, Attentive, AlertsRemembered,
     BurstNoticed, AlertsJustified
<1>4. CASE UNCHANGED keyVars
  BY <1>1, <1>4 DEF keyVars, Watchful, Attentive, AlertsRemembered, BurstNoticed, AlertsJustified
<1>5. QED
  BY <1>2, <1>3, <1>4, KeysOrAlerts

LEMMA AlwaysWatchful == Spec => []Watchful
BY WatchfulInit, WatchfulStep, PTL DEF Spec

(* A burst of injected keystrokes is answered however long the loop was    *)
(* busy when it came: the key that completes it raises an alert, or was    *)
(* read within the cooldown of one; for any window, limits and cooldown    *)
(* with a window wider than the limit, as the program's are.               *)
THEOREM BurstsAreNoticed == Spec => []BurstNoticed
BY AlwaysWatchful, PTL DEF Watchful

(* No alert without its reason in what was typed, whatever had left the    *)
(* window by then, and none within the cooldown of another.                *)
THEOREM AlertsAreJustified == Spec => []AlertsJustified
BY AlwaysWatchful, PTL DEF Watchful

LEMMA WatchfulTypes == Watchful => TypeOK
<1> SUFFICES ASSUME Watchful
             PROVE  TypeOK
  OBVIOUS
<1>1. /\ Kinds /\ KeysOrdered /\ times = Newest(typed) /\ typed \in Seq(Times) /\ now \in Times
      /\ times \in Seq(Int) /\ Len(times) <= WindowSize /\ intervals \in Seq(Int)
      /\ IntervalsAlign
  BY DEF Watchful, Attentive, TimesAreNewest, Aligned, WindowsTyped, Kinds
<1> DEFINE n == Len(typed)
           m == Len(times)
<1>2. /\ n \in Nat /\ m \in Nat /\ m <= n /\ WindowSize \in Nat
      /\ \A k \in 1 .. m : times[k] = typed[(n - m) + k]
      /\ DOMAIN times = 1 .. m
  <2>1. typed \in Seq(Int)
    BY <1>1, IntTyped
  <2>2. /\ m = IF n <= WindowSize THEN n ELSE WindowSize
        /\ \A k \in 1 .. m : times[k] = typed[(n - m) + k]
    BY <1>1, <2>1, NewestProperties
  <2>3. n \in Nat /\ m \in Nat /\ WindowSize \in Nat /\ DOMAIN times = 1 .. m
    BY <1>1, Sizes, LenProperties
  <2> HIDE DEF n, m
  <2>4. m <= n
    BY <2>2, <2>3
  <2>5. QED
    BY <2>2, <2>3, <2>4
<1>3. \A i \in 1 .. n : typed[i] \in Times
  BY <1>1, ElementOfSeq
<1>4. \A i, j \in 1 .. n : i <= j => typed[i] <= typed[j]
  <2>1. \A i \in 1 .. n : i \in DOMAIN Stream /\ Stream[i] = typed[i]
    BY <1>1, StreamProperties
  <2>2. QED
    BY <1>1, <2>1 DEF KeysOrdered
<1> HIDE DEF n, m
<1>5. \A k \in 1 .. m : (n - m) + k \in 1 .. n
  BY <1>2
<1>6. \A k \in 1 .. m : times[k] \in Times
  BY <1>2, <1>3, <1>5
<1>7. times \in Seq(Times)
  <2>1. times = [k \in 1 .. m |-> times[k]]
    BY <1>1, <1>2, LenProperties DEF m
  <2>2. times \in [1 .. m -> Times]
    BY <1>6, <2>1
  <2>3. QED
    BY <1>2, <2>2, SeqDef
<1>8. /\ Len(intervals) \in Nat /\ Len(intervals) <= WindowSize - 1
      /\ \A k \in 1 .. Len(intervals) : intervals[k] \in Times
  <2>1. CASE times = <<>>
    <3>1. Len(intervals) = 0
      BY <1>1, <2>1 DEF IntervalsAlign
    <3>2. QED
      BY <3>1, Sizes
  <2>2. CASE times # <<>>
    <3>1. m # 0
      BY <1>1, <2>2, EmptySeq DEF m
    <3>2. /\ Len(intervals) = m - 1
          /\ \A k \in DOMAIN intervals : intervals[k] = times[k + 1] - times[k]
          /\ DOMAIN intervals = 1 .. Len(intervals)
      BY <1>1, <2>2, LenProperties DEF IntervalsAlign, m
    <3>3. ASSUME NEW k \in 1 .. m - 1
          PROVE  intervals[k] \in Times
      <4>1. k \in 1 .. m /\ k + 1 \in 1 .. m /\ (n - m) + k <= (n - m) + (k + 1)
        BY <1>2, <3>1
      <4>2. times[k] \in Times /\ times[k + 1] \in Times /\ times[k] <= times[k + 1]
        BY <1>2, <1>4, <1>5, <1>6, <4>1
      <4>3. intervals[k] = times[k + 1] - times[k]
        BY <3>2
      <4>4. QED
        BY <4>2, <4>3, Bounds DEF Times
    <3>4. QED
      BY <1>1, <1>2, <3>1, <3>2, <3>3 DEF m
  <2>3. QED
    BY <2>1, <2>2
<1>9. intervals \in Seq(Times)
  <2>1. intervals \in [1 .. Len(intervals) -> Times]
    BY <1>1, <1>8, LenProperties
  <2>2. QED
    BY <1>8, <2>1, SeqDef
<1>10. QED
  BY <1>1, <1>7, <1>8, <1>9 DEF Kinds, TypeOK

(* The deques never grow past their sizes, and no interval is negative:    *)
(* the keys are looked at in the order they were typed in.                 *)
THEOREM MonitorTyped == Spec => []TypeOK
BY AlwaysWatchful, WatchfulTypes, PTL
=============================================================================
