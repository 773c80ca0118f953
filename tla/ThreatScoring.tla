--------------------------- MODULE ThreatScoring ---------------------------
(***************************************************************************)
(* The threat engine of threat/*.py: the points a device's descriptors are *)
(* worth, the CVE lookup, the memory of earlier connects and the decision  *)
(* a score leads to.  Whoever analyses a device, the evaluation of a new   *)
(* one or a listing of those that are there, records a "connect" of it.    *)
(*                                                                         *)
(* Nothing in the program records an "authorize" event or descriptors, so  *)
(* _check_delayed_enumeration and the two mutation checks never fire and   *)
(* are left out, as is clear_device_history, which has no caller.  Time is *)
(* time.time() in seconds and is taken not to run backwards.               *)
(***************************************************************************)
EXTENDS Integers, Sequences, FiniteSets

CONSTANTS Devices,      \* the DeviceInfos that are analysed
          NoDevice,     \* none of them
          Overrides,    \* the weights threat-rules.yaml sets
          CveKeys,      \* vendor:product keys of cve-database.json
          Thresholds,   \* the highest scores for "allow", "quarantine", "analyze"
          PatternAnalysis, \* enable_pattern_analysis
          MaxScore,     \* the cap of a reported score, 100
          Tight,        \* MULTI_DEVICE_WINDOW
          Window,       \* the 60 seconds of the replug checks
          MaxAge,       \* how long events are kept, 300 seconds
          MaxTime, MaxAnalyses  \* bound a run

Indicators == {"hid_storage_composite", "hid_network_composite",
               "mass_storage_only", "missing_serial", "vendor_specific_interface",
               "multiple_interfaces", "high_risk_vendor", "unknown_manufacturer",
               "rapid_replug", "cve_match"}

Classes == {"hid", "storage", "network", "vendor"}
Shapes == [classes : SUBSET Classes, count : Nat]
Ids == {d.id : d \in Devices}

ASSUME ScoringAssumption ==
    /\ \A d \in Devices :
         /\ [classes |-> d.classes, count |-> d.count] \in Shapes
         /\ {d.generic, d.risky, d.anonymous} \subseteq BOOLEAN
    /\ DOMAIN Overrides \subseteq Indicators
    /\ \A i \in DOMAIN Overrides : Overrides[i] \in Nat
    /\ Thresholds \in [{"allow", "quarantine", "analyze"} -> Nat]
    /\ \A d \in DOMAIN Thresholds : Thresholds[d] < MaxScore
    /\ {MaxScore, Tight, Window, MaxAge, MaxTime, MaxAnalyses} \subseteq Nat
    /\ NoDevice \notin Devices /\ PatternAnalysis \in BOOLEAN
    /\ 5 * Tight <= MaxAge /\ Window \in 1 .. MaxAge

VARIABLES weights,  \* HeuristicScorer.weights
          cves,     \* the keys of the loaded CVE database
          now,      \* the time
          plugs,    \* _replug_tracker
          events,   \* _device_events
          globals,  \* _global_events
          last,     \* the last assessment
          past,     \* ghost: the times of every analysis of a device there was
          hist      \* ghost: those of all devices

vars == <<weights, cves, now, plugs, events, globals, last, past, hist>>

Decided == {"ALLOW", "QUARANTINE", "ANALYZE", "DENY"}
Times == 0 .. MaxTime
NoAssessment == [device |-> NoDevice, score |-> 0, decision |-> "ALLOW"]

TypeOK ==
    /\ weights \in [Indicators -> Nat]
    /\ cves \subseteq CveKeys
    /\ now \in Times
    /\ plugs \in [Ids -> Seq(Times)] /\ events \in [Ids -> Seq(Times)]
    /\ globals \in Seq(Times)
    /\ last \in [device : Devices, score : 0 .. MaxScore, decision : Decided]
                    \cup {NoAssessment}
    /\ past \in [Ids -> Seq(Times)]
    /\ hist \in Seq(Times) /\ Len(hist) <= MaxAnalyses

DefaultWeights ==
    [i \in Indicators |->
       CASE i = "hid_storage_composite" -> 50
         [] i = "hid_network_composite" -> 40
         [] i \in {"mass_storage_only", "high_risk_vendor"} -> 35
         [] i = "missing_serial" -> 30
         [] i \in {"vendor_specific_interface", "rapid_replug"} -> 25
         [] i = "multiple_interfaces" -> 20
         [] i = "unknown_manufacturer" -> 15
         [] i = "cve_match" -> 60]

(* update_weights: the file overrides only what it names.                  *)
Updated(w) == [i \in Indicators |-> IF i \in DOMAIN Overrides THEN Overrides[i] ELSE w[i]]

(* load_databases: an unreadable file means the default weights, a broken  *)
(* or missing database means no CVEs; either is only logged.  No CVEs also *)
(* stands for enable_cve_matching being off.                               *)
Init ==
    /\ weights \in {DefaultWeights, Updated(DefaultWeights)}
    /\ cves \in {{}, CveKeys}
    /\ now = 0
    /\ plugs = [i \in Ids |-> <<>>]
    /\ events = [i \in Ids |-> <<>>]
    /\ globals = <<>>
    /\ last = NoAssessment
    /\ past = [i \in Ids |-> <<>>]
    /\ hist = <<>>

-----------------------------------------------------------------------------
(* What the descriptors are worth.                                         *)
Points(w, indicator, found) == IF found THEN w[indicator] ELSE 0

InterfaceScoreBug(w, d) ==  \* a keyboard takes the stick's points away
    LET has(c) == c \in d.classes IN
    Points(w, "mass_storage_only", has("storage") /\ ~has("hid"))
    + Points(w, "hid_network_composite", has("hid") /\ has("network") /\ ~has("storage"))
    + Points(w, "vendor_specific_interface", has("vendor"))
    + Points(w, "multiple_interfaces", d.count >= 3)

InterfaceScore(w, d) ==
    LET has(c) == c \in d.classes IN
    Points(w, "hid_storage_composite", has("hid") /\ has("storage"))
    + Points(w, "hid_network_composite", has("hid") /\ has("network"))
    + Points(w, "mass_storage_only", has("storage") /\ ~has("hid"))
    + Points(w, "vendor_specific_interface", has("vendor"))
    + Points(w, "multiple_interfaces", d.count >= 3)

IdentityScore(w, d) ==
    Points(w, "missing_serial", d.generic)
    + Points(w, "high_risk_vendor", d.risky)
    + Points(w, "unknown_manufacturer", d.anonymous)

CveScore(w, d) == Points(w, "cve_match", d.key \in cves)

-----------------------------------------------------------------------------
(* What the time of earlier connects is worth.  Each check looks at the    *)
(* times with the present one appended.                                    *)

(* The elements at the positions in S, in their order: what SelectSeq      *)
(* returns, in a form that can be reasoned about.                          *)
At(times, S) ==
    [n \in 1 .. Cardinality(S) |->
       times[CHOOSE k \in S : Cardinality({j \in S : j <= k}) = n]]

Within(times, age) == At(times, {k \in DOMAIN times : now - times[k] < age})

Tracked(d) == Append(Within(plugs[d.id], Window), now)
ReplugScore(w, d) == Points(w, "rapid_replug", Len(Tracked(d)) > 3)

KeptBug(times) == Within(times, Window \div 2)  \* cleaned early

(* record_event with _cleanup_old_events                                   *)
Kept(times) == Within(times, MaxAge)
Recorded(times) == Kept(Append(times, now))

RapidCycles(times) == Len(Within(times, Window)) >= 3

(* _check_multi_device_correlation: the recent connects of all devices in  *)
(* order, cut into clusters where the gap is Tight or more; a cluster of   *)
(* two makes it coordinated, two connects of one device included.          *)
Coordinated(times) ==
    LET recent == Within(times, 5 * Tight) IN
    \E k \in 2 .. Len(recent) : recent[k] - recent[k - 1] < Tight

PatternScore(d) ==
    (IF PatternAnalysis /\ RapidCycles(Recorded(events[d.id])) THEN 25 ELSE 0)
    + (IF PatternAnalysis /\ Coordinated(Recorded(globals)) THEN 20 ELSE 0)

-----------------------------------------------------------------------------
Decide(score) ==
    IF score <= Thresholds["allow"] THEN "ALLOW"
    ELSE IF score <= Thresholds["quarantine"] THEN "QUARANTINE"
    ELSE IF score <= Thresholds["analyze"] THEN "ANALYZE"
    ELSE "DENY"

CappedBug(score) == score % MaxScore  \* two digits are enough
CappedOpenBug(score) == score           \* no cap at all
Capped(score) == IF score <= MaxScore THEN score ELSE MaxScore

(* ThreatEngine.analyze, by _evaluate_device, or by `wru list` and         *)
(* `wru analyze` in an engine of their own                                 *)
Analyze(d) ==
    LET total == InterfaceScore(weights, d) + IdentityScore(weights, d)
                     + ReplugScore(weights, d) + CveScore(weights, d) + PatternScore(d)
    IN  /\ Len(hist) < MaxAnalyses
        /\ last' = [device |-> d, score |-> Capped(total), decision |-> Decide(total)]
        /\ plugs' = [plugs EXCEPT ![d.id] = Tracked(d)]
        /\ IF PatternAnalysis
           THEN /\ events' = [i \in Ids |-> IF i = d.id THEN Recorded(events[i])
                                          ELSE Kept(events[i])]
                /\ globals' = Recorded(globals)
           ELSE UNCHANGED <<events, globals>>
        /\ past' = [past EXCEPT ![d.id] = Append(@, now)]
        /\ hist' = Append(hist, now)
        /\ UNCHANGED <<weights, cves, now>>

TimePasses ==
    /\ now < MaxTime
    /\ now' = now + 1
    /\ UNCHANGED <<weights, cves, plugs, events, globals, last, past, hist>>

Next == TimePasses \/ \E d \in Devices : Analyze(d)

Spec == Init /\ [][Next]_vars

-----------------------------------------------------------------------------
(* The score that is reported and logged supports the decision that was    *)
(* taken, although the decision is taken before the score is capped.       *)
DecisionMatchesScore == last # NoAssessment => last.decision = Decide(last.score)

(* A device that shows one more interface is never rated safer for it: the *)
(* composites count more than the "storage only" they replace, as long as  *)
(* the weights say so.                                                     *)
Grows(d, e) == d.classes \subseteq e.classes /\ d.count <= e.count

MoreIsNoSafer ==
    hist = <<>> /\ weights["mass_storage_only"] <= weights["hid_storage_composite"]
        => \A d, e \in [classes : SUBSET Classes, count : 1 .. 4] :
             Grows(d, e) => InterfaceScore(weights, d) <= InterfaceScore(weights, e)

(* What an engine that forgets nothing would add for earlier connects, the *)
(* analysis that was recorded last included.                               *)
Past(id, age) ==
    Cardinality({k \in DOMAIN past[id] : now - past[id][k] < age})
AnyPair ==
    \E j, k \in DOMAIN hist :
        /\ j < k /\ now - hist[j] < 5 * Tight
        /\ hist[k] - hist[j] < Tight

FullMemoryScore(d) ==
    InterfaceScore(weights, d) + IdentityScore(weights, d) + CveScore(weights, d)
    + Points(weights, "rapid_replug", Past(d.id, Window) > 3)
    + (IF PatternAnalysis /\ Past(d.id, Window) >= 3 THEN 25 ELSE 0)
    + (IF PatternAnalysis /\ AnyPair THEN 20 ELSE 0)

(* Three separately cleaned memories and the cutting into clusters give    *)
(* what the whole history would give: nothing is forgotten that a check    *)
(* still needs, and nothing counts twice or for too long.                  *)
NothingNeededForgotten ==
    hist # <<>> /\ hist[Len(hist)] = now
        => last.score = Capped(FullMemoryScore(last.device))
=============================================================================
