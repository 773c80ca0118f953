----------------------------- MODULE HidMonitor -----------------------------
(***************************************************************************)
(* One HIDMonitor of runtime/hid_monitor.py: the read loop over an evdev   *)
(* node, the sliding windows of key times and intervals, the two tests for *)
(* injected keystrokes and the response to them.  The callback it awaits   *)
(* is the daemon's _handle_hid_alert, whose first step switches the device *)
(* off.  A tick is a fraction of a second.                                 *)
(*                                                                         *)
(* A read takes all events the kernel holds; what was taken is worked off  *)
(* even when the device has gone since.  While an alert is handled nothing *)
(* is read.                                                                *)
(***************************************************************************)
EXTENDS Integers, Sequences, FiniteSets, SequencesExt

CONSTANTS WindowSize,  \* WINDOW_SIZE, 50
          MinKeys,     \* keys needed before anything is analysed, 10
          MaxRate,     \* MACHINE_MIN_RATE, 15 keys in a second
          MinIntervals,\* intervals needed for the test of regularity, 10
          CvSquared,   \* MACHINE_MAX_CV squared, in 1/10000: 225
          Second,      \* ticks of a second
          Cooldown,    \* ALERT_COOLDOWN in ticks
          MaxTime, MaxKeys  \* bound a run

ASSUME MonitorAssumption ==
    /\ {WindowSize, MinKeys, MaxRate, MinIntervals, Second, Cooldown} \subseteq Nat \ {0}
    /\ {CvSquared, MaxTime, MaxKeys} \subseteq Nat
    /\ MinKeys <= MaxRate + 1 /\ MaxRate < WindowSize

VARIABLES now,        \* the clock
          link,       \* "up" while the event node delivers keys
          evbuf,      \* key times the kernel holds
          batch,      \* key times that were read and not yet looked at
          pc,         \* where the loop is
          times,      \* _keystroke_times
          intervals,  \* _inter_key_intervals
          lastAlert,  \* _last_alert_time
          typed,      \* ghost: all key times that were looked at
          readAt,     \* ghost: when the last of them was
          alerts      \* ghost: the alerts raised: when, and after how many keys

vars == <<now, link, evbuf, batch, pc, times, intervals, lastAlert, typed, readAt, alerts>>

Times == 0 .. MaxTime

TypeOK ==
    /\ now \in Times /\ readAt \in Times
    /\ link \in {"up", "gone"}
    /\ evbuf \in Seq(Times) /\ batch \in Seq(Times) /\ typed \in Seq(Times)
    /\ pc \in {"reading", "locking", "callback", "recording", "ended"}
    /\ times \in Seq(Times) /\ Len(times) <= WindowSize
    /\ intervals \in Seq(Times) /\ Len(intervals) <= WindowSize - 1
    /\ lastAlert \in Times \cup {-Cooldown}
    /\ alerts \in Seq([time : Times, keys : Nat])

Init ==
    /\ now = 0 /\ readAt = 0
    /\ link = "up" /\ evbuf = <<>> /\ batch = <<>>
    /\ pc = "reading"
    /\ times = <<>> /\ intervals = <<>> /\ lastAlert = -Cooldown
    /\ typed = <<>> /\ alerts = <<>>

-----------------------------------------------------------------------------
TimePasses ==
    /\ now < MaxTime
    /\ now' = now + 1
    /\ UNCHANGED <<link, evbuf, batch, pc, times, intervals, lastAlert, typed, readAt, alerts>>

KeyTyped ==
    /\ link = "up"
    /\ Len(typed) + Len(batch) + Len(evbuf) < MaxKeys
    /\ evbuf' = Append(evbuf, now)
    /\ UNCHANGED <<now, link, batch, pc, times, intervals, lastAlert, typed, readAt, alerts>>

DeviceGoes ==
    /\ link = "up"
    /\ link' = "gone"
    /\ UNCHANGED <<now, evbuf, batch, pc, times, intervals, lastAlert, typed, readAt, alerts>>

ReadBatch ==
    /\ pc = "reading" /\ batch = <<>>
    /\ link = "up" /\ evbuf # <<>>
    /\ batch' = evbuf
    /\ evbuf' = <<>>
    /\ UNCHANGED <<now, link, pc, times, intervals, lastAlert, typed, readAt, alerts>>

(* The read fails; the error is logged and the task is over, while the     *)
(* monitor stays registered.                                               *)
ReadFails ==
    /\ pc = "reading" /\ batch = <<>>
    /\ link = "gone"
    /\ pc' = "ended"
    /\ UNCHANGED <<now, link, evbuf, batch, times, intervals, lastAlert, typed, readAt, alerts>>

-----------------------------------------------------------------------------
(* append() on a deque with maxlen                                         *)
Pushed(window, value, size) ==
    IF Len(window) < size THEN Append(window, value) ELSE Append(Tail(window), value)

(* _process_keystroke, up to the analysis                                  *)
TimesWithBug(t) == Append(times, t)      \* a list instead of a deque
TimesWith(t) == Pushed(times, t, WindowSize)

IntervalsWithBug(t) ==  \* as many intervals as keys
    IF times = <<>> THEN intervals
    ELSE Pushed(intervals, t - Last(times), WindowSize)

IntervalsWith(t) ==
    IF times = <<>> THEN intervals
    ELSE Pushed(intervals, t - Last(times), WindowSize - 1)

RateBug(window) ==  \* the key a whole second ago is left out
    Cardinality({k \in DOMAIN window : Last(window) - window[k] < Second})

Rate(window) == Cardinality({k \in DOMAIN window : Last(window) - window[k] <= Second})

Total(numbers) == FoldSeq(LAMBDA a, b : a + b, 0, numbers)
Squares(numbers) == [k \in DOMAIN numbers |-> numbers[k] * numbers[k]]

(* The coefficient of variation is below its limit, or was left at zero    *)
(* because the mean is.                                                    *)
Regular(gaps) ==
    LET n == Len(gaps)  s == Total(gaps)  q == Total(Squares(gaps)) IN
    s = 0 \/ n * (n * q - s * s) * 10000 < CvSquared * (n - 1) * s * s

SuspiciousBug(window, gaps) ==  \* regularity of two keys
    Rate(window) > MaxRate \/ (Len(gaps) > 0 /\ Regular(gaps))

(* _analyze_pattern                                                        *)
Suspicious(window, gaps) ==
    \/ Rate(window) > MaxRate
    \/ Len(gaps) >= MinIntervals /\ Regular(gaps)

Cooled == now - lastAlert >= Cooldown

(* One key of the batch; _trigger_alert when it makes the windows look     *)
(* machine-made and the last alert is long enough ago.                     *)
ProcessKeystroke ==
    /\ pc = "reading" /\ batch # <<>>
    /\ LET t     == Head(batch)
           alert == /\ Len(TimesWith(t)) >= MinKeys
                    /\ Suspicious(TimesWith(t), IntervalsWith(t))
                    /\ Cooled
       IN  /\ batch' = Tail(batch)
           /\ times' = TimesWith(t)
           /\ intervals' = IntervalsWith(t)
           /\ typed' = Append(typed, t)
           /\ readAt' = now
           /\ pc' = IF alert THEN "locking" ELSE "reading"
           /\ lastAlert' = IF alert THEN now ELSE lastAlert
           /\ alerts' = IF alert THEN Append(alerts, [time |-> now, keys |-> Len(typed) + 1])
                        ELSE alerts
    /\ UNCHANGED <<now, link, evbuf>>

(* _emergency_response: the screen is locked by a blocking call.           *)
LockScreen ==
    /\ pc = "locking"
    /\ pc' = "callback"
    /\ UNCHANGED <<now, link, evbuf, batch, times, intervals, lastAlert, typed, readAt, alerts>>

(* The callback's deauthorize() works, or is logged and fails.             *)
CallbackDeauthorizes ==
    /\ pc = "callback"
    /\ pc' = "recording"
    /\ link' \in {link, "gone"}
    /\ UNCHANGED <<now, evbuf, batch, times, intervals, lastAlert, typed, readAt, alerts>>

(* The incident and the notification are done or have failed.              *)
CallbackReturns ==
    /\ pc = "recording"
    /\ pc' = "reading"
    /\ UNCHANGED <<now, link, evbuf, batch, times, intervals, lastAlert, typed, readAt, alerts>>

(* stop(): the task is cancelled at whatever it awaits, the callback       *)
(* included; during the blocking call nothing else runs.                   *)
Stop ==
    /\ pc \in {"reading", "callback", "recording"}
    /\ pc' = "ended"
    /\ UNCHANGED <<now, link, evbuf, batch, times, intervals, lastAlert, typed, readAt, alerts>>

Next ==
    \/ TimePasses \/ KeyTyped \/ DeviceGoes
    \/ ReadBatch \/ ReadFails \/ ProcessKeystroke
    \/ LockScreen \/ CallbackDeauthorizes \/ CallbackReturns \/ Stop

Spec == Init /\ [][Next]_vars

-----------------------------------------------------------------------------
(* The two windows stay aligned when they are full: the intervals are      *)
(* those between the key times that are kept, so that both tests speak of  *)
(* the same keys.                                                          *)
IntervalsAlign ==
    /\ times = <<>> => intervals = <<>>
    /\ times # <<>> =>
         /\ Len(intervals) = Len(times) - 1
         /\ \A k \in DOMAIN intervals : intervals[k] = times[k + 1] - times[k]

(* The tests as they would be over everything that was ever typed.         *)
FastAmong(keys) ==
    \E k \in DOMAIN keys : k <= Len(keys) - MaxRate /\ Last(keys) - keys[k] <= Second
Gaps(keys) == [k \in 1 .. Len(keys) - 1 |-> keys[k + 1] - keys[k]]
Newest(keys) ==
    LET n == Len(keys) IN IF n <= WindowSize THEN keys ELSE SubSeq(keys, n - WindowSize + 1, n)

(* However long the loop was busy with an alert, a key that ends a burst   *)
(* has an alert raised for it or was read during the cooldown of one.      *)
BurstNoticed ==
    typed # <<>> /\ FastAmong(typed) =>
        alerts # <<>> /\ readAt - Last(alerts).time < Cooldown

(* An alert switches a keyboard off and locks the screen: each was raised  *)
(* for a burst or for regular keys among the newest that are kept, and a   *)
(* person is not locked out again within the cooldown.                     *)
AlertsJustified ==
    \A k \in DOMAIN alerts :
        LET keys == SubSeq(typed, 1, alerts[k].keys) IN
        /\ \/ FastAmong(keys)
           \/ Len(Newest(keys)) > MinIntervals /\ Regular(Gaps(Newest(keys)))
        /\ k > 1 => alerts[k].time - alerts[k - 1].time >= Cooldown
=============================================================================
