------------------------ MODULE ThreatScoringProofs ------------------------
(***************************************************************************)
(* The engine's state keeps its types, the decision and the reported score *)
(* of an assessment agree, one more interface never lowers the score, and  *)
(* the memories give the points the whole record of connects would give,   *)
(* for any devices, weights, thresholds and windows.                       *)
(***************************************************************************)
EXTENDS ThreatScoring, FiniteSetTheorems, TLAPS

WeightsTyped == weights \in [Indicators -> Nat]

Sound == WeightsTyped /\ DecisionMatchesScore

LEMMA CapBelow ==
    /\ MaxScore \in Nat
    /\ \A d \in {"allow", "quarantine", "analyze"} :
         Thresholds[d] \in Nat /\ Thresholds[d] < MaxScore
BY ScoringAssumption DEF ScoringAssumption

(* Every threshold is below the cap, so the cap changes no decision.       *)
LEMMA CapChangesNothing ==
    ASSUME NEW total \in Nat
    PROVE  Decide(Capped(total)) = Decide(total)
<1>1. CASE total <= MaxScore
  BY <1>1 DEF Capped
<1>2. CASE ~(total <= MaxScore)
  <2>1. Capped(total) = MaxScore
    BY <1>2 DEF Capped
  <2>2. \A d \in {"allow", "quarantine", "analyze"} :
          ~(MaxScore <= Thresholds[d]) /\ ~(total <= Thresholds[d])
    BY <1>2, CapBelow
  <2> QED  BY <2>1, <2>2 DEF Decide
<1> QED  BY <1>1, <1>2

LEMMA PointsAreNat ==
    ASSUME NEW w \in [Indicators -> Nat], NEW i \in Indicators, NEW found
    PROVE  Points(w, i, found) \in Nat
BY DEF Points

LEMMA ScoresAreNat ==
    ASSUME NEW w \in [Indicators -> Nat], NEW d
    PROVE  /\ InterfaceScore(w, d) \in Nat
           /\ IdentityScore(w, d) \in Nat
           /\ CveScore(w, d) \in Nat
           /\ ReplugScore(w, d) \in Nat
           /\ PatternScore(d) \in Nat
<1>1. InterfaceScore(w, d) \in Nat
  BY PointsAreNat DEF InterfaceScore, Indicators
<1>2. IdentityScore(w, d) \in Nat
  BY PointsAreNat DEF IdentityScore, Indicators
<1>3. CveScore(w, d) \in Nat /\ ReplugScore(w, d) \in Nat
  BY PointsAreNat DEF CveScore, ReplugScore, Indicators
<1>4. PatternScore(d) \in Nat
  BY DEF PatternScore
<1> QED  BY <1>1, <1>2, <1>3, <1>4

LEMMA WeightsInit == Init => WeightsTyped
<1>1. DefaultWeights \in [Indicators -> Nat]
  BY DEF DefaultWeights, Indicators
<1>2. Updated(DefaultWeights) \in [Indicators -> Nat]
  BY <1>1, ScoringAssumption DEF Updated, ScoringAssumption
<1> QED  BY <1>1, <1>2 DEF Init, WeightsTyped

LEMMA SoundStep == Sound /\ [Next]_vars => Sound'
<1> SUFFICES ASSUME Sound, [Next]_vars PROVE Sound'
  OBVIOUS
<1>1. CASE TimePasses \/ UNCHANGED vars
  BY <1>1 DEF TimePasses, vars, Sound, WeightsTyped, DecisionMatchesScore
<1>2. ASSUME NEW d \in Devices, Analyze(d) PROVE Sound'
  <2> DEFINE total == InterfaceScore(weights, d) + IdentityScore(weights, d)
                        + ReplugScore(weights, d) + CveScore(weights, d) + PatternScore(d)
  <2>1. weights \in [Indicators -> Nat] /\ weights' = weights
    BY <1>2 DEF Analyze, Sound, WeightsTyped
  <2>2. total \in Nat
    BY <2>1, ScoresAreNat
  <2>3. last' = [device |-> d, score |-> Capped(total), decision |-> Decide(total)]
    BY <1>2 DEF Analyze
  <2> HIDE DEF total
  <2>4. last'.decision = Decide(last'.score)
    BY <2>2, <2>3, CapChangesNothing
  <2> QED  BY <2>1, <2>4 DEF Sound, WeightsTyped, DecisionMatchesScore
<1> QED  BY <1>1, <1>2 DEF Next

(* The score in a log entry, a notification or an incident supports the    *)
(* decision that was taken, although analyze() decides on the score before *)
(* it caps it: no threshold reaches the cap.                               *)
THEOREM DecisionsMatchScores == Spec => []DecisionMatchesScore
<1>1. Init => Sound
  BY WeightsInit DEF Init, Sound, DecisionMatchesScore
<1>2. Sound => DecisionMatchesScore
  BY DEF Sound
<1> QED  BY <1>1, <1>2, SoundStep, PTL DEF Spec

-----------------------------------------------------------------------------
(* One more class only adds indicators, except that a keyboard takes       *)
(* "storage only" from a stick, for which it adds the composite.           *)
LEMMA MoreInterfacesScoreMore ==
    ASSUME NEW w \in [Indicators -> Nat],
           w["mass_storage_only"] <= w["hid_storage_composite"],
           NEW d \in [classes : SUBSET Classes, count : 1 .. 4],
           NEW e \in [classes : SUBSET Classes, count : 1 .. 4],
           Grows(d, e)
    PROVE  InterfaceScore(w, d) <= InterfaceScore(w, e)
<1> DEFINE storage(f) ==
             Points(w, "hid_storage_composite", "hid" \in f.classes /\ "storage" \in f.classes)
           network(f) ==
             Points(w, "hid_network_composite", "hid" \in f.classes /\ "network" \in f.classes)
           alone(f) ==
             Points(w, "mass_storage_only", "storage" \in f.classes /\ ~("hid" \in f.classes))
           vendor(f) == Points(w, "vendor_specific_interface", "vendor" \in f.classes)
           many(f) == Points(w, "multiple_interfaces", f.count >= 3)
<1>1. ASSUME NEW f
      PROVE  /\ {storage(f), network(f), alone(f), vendor(f), many(f)} \subseteq Nat
             /\ InterfaceScore(w, f) = storage(f) + network(f) + alone(f) + vendor(f) + many(f)
  BY PointsAreNat DEF InterfaceScore, Indicators
<1>2. d.classes \subseteq e.classes /\ d.count <= e.count /\ d.count \in Nat /\ e.count \in Nat
  BY DEF Grows
<1>3. \A i \in Indicators : w[i] \in Nat
  OBVIOUS
<1>4. network(d) <= network(e) /\ vendor(d) <= vendor(e)
  BY <1>2, <1>3 DEF Points, Indicators
<1>5. many(d) <= many(e)
  BY <1>2, <1>3 DEF Points, Indicators
<1>6. storage(d) + alone(d) <= storage(e) + alone(e)
  BY <1>2, <1>3 DEF Points, Indicators
<1> HIDE DEF storage, network, alone, vendor, many
<1>7. /\ {storage(d), network(d), alone(d), vendor(d), many(d)} \subseteq Nat
      /\ {storage(e), network(e), alone(e), vendor(e), many(e)} \subseteq Nat
      /\ InterfaceScore(w, d) = storage(d) + network(d) + alone(d) + vendor(d) + many(d)
      /\ InterfaceScore(w, e) = storage(e) + network(e) + alone(e) + vendor(e) + many(e)
  BY <1>1
<1> QED  BY <1>4, <1>5, <1>6, <1>7

(* A device never buys a lower score with one more interface, whatever the *)
(* rules file says, as long as it keeps the composite worth at least what  *)
(* plain storage is.                                                       *)
THEOREM InterfacesOnlyAdd == Spec => []MoreIsNoSafer
<1>1. WeightsTyped /\ [Next]_vars => WeightsTyped'
  BY DEF WeightsTyped, Next, Analyze, TimePasses, vars
<1>2. WeightsTyped => MoreIsNoSafer
  BY MoreInterfacesScoreMore DEF WeightsTyped, MoreIsNoSafer
<1> QED  BY <1>1, <1>2, WeightsInit, PTL DEF Spec

-----------------------------------------------------------------------------
(* The memories.  Times are recorded in order, so what a memory has kept   *)
(* is the end of the record, and what it has dropped was too old.          *)
Timely(all) ==
    /\ all \in Seq(Times)
    /\ \A j, k \in 1 .. Len(all) : j <= k => all[j] <= all[k]
    /\ \A k \in 1 .. Len(all) : all[k] <= now

EndsAt(times, all, m) ==
    /\ times \in Seq(Times) /\ Len(times) = Len(all) - m
    /\ \A k \in 1 .. Len(times) : times[k] = all[m + k]

TooOld(all, m, age) == \A j \in 1 .. m : now - all[j] >= age

Remembers(times, all, age) ==
    \E m \in 0 .. Len(all) : EndsAt(times, all, m) /\ TooOld(all, m, age)

Exactly(times, all, age) ==
    \E m \in 0 .. Len(all) :
        /\ EndsAt(times, all, m) /\ TooOld(all, m, age)
        /\ \A j \in m + 1 .. Len(all) : now - all[j] < age

LEMMA Clock ==
    /\ MaxTime \in Nat /\ Window \in Nat /\ MaxAge \in Nat /\ Tight \in Nat
    /\ Window >= 1 /\ Window <= MaxAge /\ 5 * Tight <= MaxAge
    /\ Times \subseteq Nat
BY ScoringAssumption DEF ScoringAssumption, Times

(* A set that holds with a position all those before it begins the record. *)
LEMMA Beginning ==
    ASSUME NEW n \in Nat, NEW S \in SUBSET (1 .. n),
           \A j, k \in 1 .. n : j <= k /\ k \in S => j \in S
    PROVE  \E m \in 0 .. n : S = 1 .. m
<1>1. IsFiniteSet(1 .. n) /\ Cardinality(1 .. n) = n
  BY FS_Interval
<1>2. IsFiniteSet(S) /\ Cardinality(S) \in Nat /\ Cardinality(S) <= n
  BY <1>1, FS_Subset, FS_CardinalityType
<1> DEFINE m == Cardinality(S)
<1>3. S \subseteq 1 .. m
  <2>1. ASSUME NEW k \in S PROVE k <= m
    <3>1. 1 .. k \in SUBSET S
      OBVIOUS
    <3>2. Cardinality(1 .. k) = k
      BY FS_Interval
    <3>3. QED
      BY <1>2, <3>1, <3>2, FS_Subset
  <2>2. QED
    BY <2>1, <1>2
<1>4. IsFiniteSet(1 .. m) /\ Cardinality(1 .. m) = m
  BY <1>2, FS_Interval
<1>5. S = 1 .. m
  BY <1>3, <1>4, FS_Subset
<1>6. QED
  BY <1>2, <1>5

LEMMA IntervalSize ==
    ASSUME NEW m \in Nat, NEW n \in Nat, m <= n
    PROVE  Cardinality(m + 1 .. n) = n - m
<1>1. m + 1 \in Int /\ n \in Int
  OBVIOUS
<1>2. Cardinality(m + 1 .. n) = IF m + 1 > n THEN 0 ELSE n - (m + 1) + 1
  BY <1>1, FS_Interval
<1>3. QED
  BY <1>2

(* The positions after the first m, taken out                              *)
LEMMA TakenFrom ==
    ASSUME NEW times \in Seq(Times), NEW m \in 0 .. Len(times),
           NEW S, S = m + 1 .. Len(times)
    PROVE  EndsAt(At(times, S), times, m)
<1> Len(times) \in Nat /\ m \in Nat /\ m <= Len(times)
  OBVIOUS
<1>1. Cardinality(S) = Len(times) - m
  <2>1. Cardinality(m + 1 .. Len(times)) = Len(times) - m
    BY IntervalSize
  <2>2. QED
    BY <2>1
<1>2. ASSUME NEW k \in S PROVE Cardinality({j \in S : j <= k}) = k - m
  <2>1. {j \in S : j <= k} = m + 1 .. k
    OBVIOUS
  <2>2. Cardinality(m + 1 .. k) = k - m
    <3>1. k \in Nat /\ m <= k
      OBVIOUS
    <3>2. QED
      BY <3>1, IntervalSize
  <2>3. QED
    BY <2>1, <2>2
<1>3. ASSUME NEW n \in 1 .. Len(times) - m
      PROVE  (CHOOSE k \in S : Cardinality({j \in S : j <= k}) = n) = m + n
  <2>1. m + n \in S /\ Cardinality({j \in S : j <= m + n}) = n
    BY <1>2
  <2>2. \A k \in S : Cardinality({j \in S : j <= k}) = n => k = m + n
    BY <1>2
  <2>3. QED
    BY <2>1, <2>2
<1>4. At(times, S) = [n \in 1 .. Len(times) - m |-> times[m + n]]
  <2>1. At(times, S) = [n \in 1 .. Len(times) - m |->
                          times[CHOOSE k \in S : Cardinality({j \in S : j <= k}) = n]]
    BY <1>1 DEF At
  <2>2. QED
    BY <1>3, <2>1
<1>5. \A n \in 1 .. Len(times) - m : times[m + n] \in Times
  OBVIOUS
<1> DEFINE q == At(times, S)
<1>6. q \in Seq(Times)
  BY <1>4, <1>5
<1>7. Len(q) = Len(times) - m
  BY <1>4
<1>8. \A k \in 1 .. Len(q) : q[k] = times[m + k]
  BY <1>4, <1>7
<1>9. QED
  BY <1>6, <1>7, <1>8 DEF EndsAt

LEMMA Shape ==
    ASSUME NEW all, Timely(all)
    PROVE  /\ all \in Seq(Times)
           /\ DOMAIN all = 1 .. Len(all) /\ Len(all) \in Nat
           /\ \A k \in 1 .. Len(all) : all[k] \in Nat
           /\ \A k \in 1 .. Len(all) : all[k] <= now
           /\ \A j, k \in 1 .. Len(all) : j <= k => all[j] <= all[k]
<1>1. all \in Seq(Times)
  BY DEF Timely
<1>2. DOMAIN all = 1 .. Len(all) /\ Len(all) \in Nat
  BY <1>1
<1>3. \A k \in 1 .. Len(all) : all[k] \in Times
  BY <1>1
<1>4. \A k \in 1 .. Len(all) : all[k] \in Nat
  BY <1>3, Clock
<1>5. QED
  BY <1>1, <1>2, <1>4 DEF Timely

LEMMA WithinIsEnd ==
    ASSUME NEW times, Timely(times), now \in Times, NEW age \in Nat
    PROVE  Exactly(Within(times, age), times, age)
<1> USE Clock
<1> DEFINE old == {k \in 1 .. Len(times) : now - times[k] >= age}
           young == {k \in DOMAIN times : now - times[k] < age}
<1>1. times \in Seq(Times) /\ DOMAIN times = 1 .. Len(times) /\ Len(times) \in Nat
      /\ \A k \in 1 .. Len(times) : times[k] \in Nat
  BY Shape
<1>2. \E m \in 0 .. Len(times) : old = 1 .. m
  <2>1. \A j, k \in 1 .. Len(times) : j <= k /\ k \in old => j \in old
    BY <1>1 DEF Timely
  <2>2. QED
    BY <1>1, <2>1, Beginning
<1>3. PICK m \in 0 .. Len(times) : old = 1 .. m
  BY <1>2
<1>4. \A k \in 1 .. Len(times) : now - times[k] >= age <=> k <= m
  BY <1>1, <1>3
<1>5. young = m + 1 .. Len(times)
  BY <1>1, <1>4
<1>6. EndsAt(Within(times, age), times, m)
  BY <1>1, <1>5, TakenFrom DEF Within
<1>7. TooOld(times, m, age) /\ \A j \in m + 1 .. Len(times) : now - times[j] < age
  BY <1>1, <1>4 DEF TooOld
<1>8. QED
  BY <1>6, <1>7 DEF Exactly

LEMMA WithinRemembers ==
    ASSUME NEW times, NEW all, Timely(all), now \in Times,
           NEW kept \in Nat, NEW age \in Nat, age <= kept, Remembers(times, all, kept)
    PROVE  Exactly(Within(times, age), all, age)
<1> USE Clock
<1>1. PICK m \in 0 .. Len(all) : EndsAt(times, all, m) /\ TooOld(all, m, kept)
  BY DEF Remembers
<1>2. /\ times \in Seq(Times) /\ Len(times) = Len(all) - m
      /\ \A k \in 1 .. Len(times) : times[k] = all[m + k]
  BY <1>1 DEF EndsAt
<1>3. all \in Seq(Times) /\ Len(all) \in Nat /\ \A k \in 1 .. Len(all) : all[k] \in Nat
  BY Shape
<1>4. Timely(times)
  <2>1. \A k \in 1 .. Len(times) : m + k \in 1 .. Len(all)
    BY <1>2, <1>3
  <2>2. \A k \in 1 .. Len(times) : times[k] <= now
    BY <1>2, <2>1, Shape
  <2>3. ASSUME NEW j \in 1 .. Len(times), NEW k \in 1 .. Len(times), j <= k
        PROVE  times[j] <= times[k]
    <3>1. m + j \in 1 .. Len(all) /\ m + k \in 1 .. Len(all) /\ m + j <= m + k
      BY <2>1, <2>3
    <3>2. all[m + j] <= all[m + k]
      BY <3>1 DEF Timely
    <3>3. QED
      BY <1>2, <3>2
  <2>4. QED
    BY <1>2, <2>2, <2>3 DEF Timely
<1>5. Exactly(Within(times, age), times, age)
  BY <1>4, WithinIsEnd
<1> DEFINE young == Within(times, age)
<1> HIDE DEF young
<1>6. PICK n \in 0 .. Len(times) :
          /\ EndsAt(young, times, n) /\ TooOld(times, n, age)
          /\ \A j \in n + 1 .. Len(times) : now - times[j] < age
  BY <1>5 DEF Exactly, young
<1>7. m + n \in 0 .. Len(all)
  BY <1>2, <1>3
<1>8. EndsAt(young, all, m + n)
  BY <1>2, <1>3, <1>6 DEF EndsAt
<1>9. TooOld(all, m + n, age)
  <2>1. ASSUME NEW j \in 1 .. m + n PROVE now - all[j] >= age
    <3>1. CASE j <= m
      BY <1>1, <1>3, <3>1 DEF TooOld
    <3>2. CASE j > m
      <4>1. j - m \in 1 .. n /\ j - m \in 1 .. Len(times) /\ m + (j - m) = j
        BY <3>2
      <4>2. times[j - m] = all[j]
        BY <1>2, <4>1
      <4>3. QED
        BY <1>6, <4>1, <4>2 DEF TooOld
    <3>3. QED
      BY <3>1, <3>2
  <2>2. QED
    BY <2>1 DEF TooOld
<1>10. \A j \in m + n + 1 .. Len(all) : now - all[j] < age
  <2>1. ASSUME NEW j \in m + n + 1 .. Len(all) PROVE now - all[j] < age
    <3>1. j - m \in n + 1 .. Len(times) /\ times[j - m] = all[j]
      BY <1>2, <1>3
    <3>2. QED
      BY <1>6, <3>1
  <2>2. QED
    BY <2>1
<1>11. QED
  BY <1>7, <1>8, <1>9, <1>10 DEF Exactly, young

LEMMA ExactlyRemembers ==
    ASSUME NEW times, NEW all, NEW age, Exactly(times, all, age)
    PROVE  Remembers(times, all, age) /\ times \in Seq(Times)
BY DEF Exactly, Remembers, EndsAt

LEMMA TimelyAppend ==
    ASSUME NEW all, Timely(all), now \in Times
    PROVE  Timely(Append(all, now))
BY Clock DEF Timely

LEMMA EndAppend ==
    ASSUME NEW times, NEW all \in Seq(Times), NEW m \in 0 .. Len(all), now \in Times,
           EndsAt(times, all, m)
    PROVE  EndsAt(Append(times, now), Append(all, now), m)
BY DEF EndsAt

LEMMA RemembersAppend ==
    ASSUME NEW times, NEW all, Timely(all), now \in Times, NEW age \in Nat,
           Remembers(times, all, age)
    PROVE  Remembers(Append(times, now), Append(all, now), age)
<1>1. PICK m \in 0 .. Len(all) : EndsAt(times, all, m) /\ TooOld(all, m, age)
  BY DEF Remembers
<1>2. all \in Seq(Times) /\ m \in 0 .. Len(Append(all, now))
  BY DEF Timely
<1>3. EndsAt(Append(times, now), Append(all, now), m)
  BY <1>1, <1>2, EndAppend
<1>4. TooOld(Append(all, now), m, age)
  BY <1>1, <1>2 DEF TooOld
<1>5. QED
  BY <1>2, <1>3, <1>4 DEF Remembers

LEMMA ExactlyAppend ==
    ASSUME NEW times, NEW all, Timely(all), now \in Times, NEW age \in Nat, age >= 1,
           Exactly(times, all, age)
    PROVE  Exactly(Append(times, now), Append(all, now), age)
<1> USE Clock
<1>1. PICK m \in 0 .. Len(all) :
          /\ EndsAt(times, all, m) /\ TooOld(all, m, age)
          /\ \A j \in m + 1 .. Len(all) : now - all[j] < age
  BY DEF Exactly
<1>2. all \in Seq(Times) /\ m \in 0 .. Len(Append(all, now))
  BY DEF Timely
<1>3. EndsAt(Append(times, now), Append(all, now), m)
  BY <1>1, <1>2, EndAppend
<1>4. TooOld(Append(all, now), m, age)
  BY <1>1, <1>2 DEF TooOld
<1>5. \A j \in m + 1 .. Len(Append(all, now)) : now - Append(all, now)[j] < age
  BY <1>1, <1>2
<1>6. QED
  BY <1>2, <1>3, <1>4, <1>5 DEF Exactly

LEMMA ExactlyCounts ==
    ASSUME NEW times, NEW all, Timely(all), now \in Times, NEW age \in Nat,
           Exactly(times, all, age)
    PROVE  Cardinality({k \in DOMAIN all : now - all[k] < age}) = Len(times)
<1> USE Clock
<1>1. PICK m \in 0 .. Len(all) :
          /\ EndsAt(times, all, m) /\ TooOld(all, m, age)
          /\ \A j \in m + 1 .. Len(all) : now - all[j] < age
  BY DEF Exactly
<1>2. DOMAIN all = 1 .. Len(all) /\ Len(all) \in Nat
      /\ \A k \in 1 .. Len(all) : all[k] \in Nat
  BY Shape
<1>3. {k \in DOMAIN all : now - all[k] < age} = m + 1 .. Len(all)
  BY <1>1, <1>2 DEF TooOld
<1>4. Cardinality(m + 1 .. Len(all)) = Len(all) - m
  <2>1. m \in Nat /\ m <= Len(all)
    BY <1>2
  <2>2. QED
    BY <1>2, <2>1, IntervalSize
<1>5. QED
  BY <1>1, <1>3, <1>4 DEF EndsAt

(* Two connects within the tight window are so next to one another, too.   *)
LEMMA PairsAreNear ==
    ASSUME NEW times, NEW all, Timely(all), now \in Times,
           Exactly(times, all, 5 * Tight)
    PROVE  (\E k \in 2 .. Len(times) : times[k] - times[k - 1] < Tight)
           <=> (\E j, k \in DOMAIN all : /\ j < k /\ now - all[j] < 5 * Tight
                                         /\ all[k] - all[j] < Tight)
<1> USE Clock
<1>1. PICK m \in 0 .. Len(all) :
          /\ EndsAt(times, all, m) /\ TooOld(all, m, 5 * Tight)
          /\ \A j \in m + 1 .. Len(all) : now - all[j] < 5 * Tight
  BY DEF Exactly
<1>2. DOMAIN all = 1 .. Len(all) /\ Len(all) \in Nat
      /\ \A k \in 1 .. Len(all) : all[k] \in Nat
  BY Shape
<1>3. Len(times) = Len(all) - m /\ \A k \in 1 .. Len(times) : times[k] = all[m + k]
  BY <1>1 DEF EndsAt
<1>4. ASSUME NEW k \in 2 .. Len(times), times[k] - times[k - 1] < Tight
      PROVE  \E i, j \in DOMAIN all : /\ i < j /\ now - all[i] < 5 * Tight
                                      /\ all[j] - all[i] < Tight
  <2>1. times[k] = all[m + k] /\ times[k - 1] = all[m + k - 1]
    <3>1. k \in 1 .. Len(times) /\ k - 1 \in 1 .. Len(times)
      BY <1>2, <1>3
    <3>2. QED
      BY <1>3, <3>1
  <2>2. m + k \in DOMAIN all /\ m + k - 1 \in m + 1 .. Len(all) /\ m + k - 1 < m + k
    BY <1>2, <1>3
  <2>3. now - all[m + k - 1] < 5 * Tight
    BY <1>1, <2>2
  <2>4. QED
    <3>1. all[m + k] - all[m + k - 1] < Tight
      BY <1>4, <2>1
    <3>2. m + k - 1 \in DOMAIN all
      BY <1>2, <2>2
    <3>3. QED
      BY <2>2, <2>3, <3>1, <3>2
<1>5. ASSUME NEW j \in DOMAIN all, NEW k \in DOMAIN all, j < k,
             now - all[j] < 5 * Tight, all[k] - all[j] < Tight
      PROVE  \E n \in 2 .. Len(times) : times[n] - times[n - 1] < Tight
  <2>1. j > m
    BY <1>1, <1>2, <1>5 DEF TooOld
  <2>2. j + 1 \in 1 .. Len(all) /\ all[j + 1] <= all[k] /\ all[j + 1] \in Nat
    <3>1. j + 1 \in 1 .. Len(all) /\ j + 1 <= k /\ k \in 1 .. Len(all)
      BY <1>2, <1>5
    <3>2. QED
      BY <1>2, <3>1 DEF Timely
  <2>3. j + 1 - m \in 2 .. Len(times)
    BY <1>2, <1>3, <2>1, <2>2
  <2>4. times[j + 1 - m] = all[j + 1] /\ times[j + 1 - m - 1] = all[j]
    <3>1. m + (j + 1 - m) = j + 1 /\ m + (j + 1 - m - 1) = j
      BY <1>2
    <3>2. j + 1 - m \in 1 .. Len(times) /\ j + 1 - m - 1 \in 1 .. Len(times)
      <4>1. Len(times) \in Nat
        BY <1>2, <1>3
      <4>2. QED
        BY <2>3, <4>1
    <3>3. QED
      BY <1>3, <3>1, <3>2
  <2>5. all[j + 1] - all[j] < Tight
    BY <1>2, <1>5, <2>2
  <2> DEFINE n == j + 1 - m
  <2>6. times[n] - times[n - 1] < Tight
    BY <2>4, <2>5
  <2>7. n \in 2 .. Len(times)
    BY <2>3
  <2> HIDE DEF n
  <2>8. QED
    BY <2>6, <2>7
<1>6. QED
  BY <1>4, <1>5

-----------------------------------------------------------------------------
(* What the engine knows at any time: the record is in order, and each     *)
(* memory has dropped from it only what its checks no longer ask for.      *)
Recording ==
    /\ now \in Times
    /\ plugs \in [Ids -> Seq(Times)]
    /\ events \in [Ids -> Seq(Times)]
    /\ past \in [Ids -> Seq(Times)]
    /\ Timely(hist)
    /\ \A i \in Ids : Timely(past[i])
    /\ \A i \in Ids : Remembers(plugs[i], past[i], Window)
    /\ globals \in Seq(Times)
    /\ PatternAnalysis => /\ \A i \in Ids : Remembers(events[i], past[i], MaxAge)
                          /\ Remembers(globals, hist, MaxAge)

LEMMA NothingYet ==
    ASSUME now = 0, NEW age \in Nat
    PROVE  now \in Times /\ Timely(<<>>) /\ Remembers(<<>>, <<>>, age)
<1>1. now \in Times
  BY Clock DEF Times
<1>2. <<>> \in Seq(Times) /\ Len(<<>>) = 0
  OBVIOUS
<1>3. Timely(<<>>)
  BY <1>2 DEF Timely
<1>4. EndsAt(<<>>, <<>>, 0)
  BY <1>2 DEF EndsAt
<1>5. TooOld(<<>>, 0, age)
  BY DEF TooOld
<1>6. QED
  BY <1>1, <1>2, <1>3, <1>4, <1>5 DEF Remembers

LEMMA RecordingInit == Init => Recording
<1> SUFFICES ASSUME Init PROVE Recording
  OBVIOUS
<1>1. now = 0 /\ Window \in Nat /\ MaxAge \in Nat
  BY Clock DEF Init
<1>2. /\ now \in Times /\ Timely(<<>>)
      /\ Remembers(<<>>, <<>>, Window) /\ Remembers(<<>>, <<>>, MaxAge)
  BY <1>1, NothingYet
<1>3. plugs = [i \in Ids |-> <<>>] /\ events = [i \in Ids |-> <<>>] /\ past = [i \in Ids |-> <<>>]
  BY DEF Init
<1>4. hist = <<>> /\ globals = <<>>
  BY DEF Init
<1>5. <<>> \in Seq(Times)
  OBVIOUS
<1>6. /\ plugs \in [Ids -> Seq(Times)] /\ events \in [Ids -> Seq(Times)]
      /\ past \in [Ids -> Seq(Times)]
  BY <1>3, <1>5
<1>7. \A i \in Ids : plugs[i] = <<>> /\ events[i] = <<>> /\ past[i] = <<>>
  BY <1>3
<1>8. /\ \A i \in Ids : Timely(past[i])
      /\ \A i \in Ids : Remembers(plugs[i], past[i], Window)
      /\ \A i \in Ids : Remembers(events[i], past[i], MaxAge)
  BY <1>2, <1>7
<1>9. Timely(hist) /\ Remembers(globals, hist, MaxAge)
  BY <1>2, <1>4
<1>10. QED
  BY <1>2, <1>4, <1>5, <1>6, <1>8, <1>9 DEF Recording

(* Time makes nothing younger.                                             *)
LEMMA TimeGoesOn ==
    ASSUME NEW all \in Seq(Times), NEW m \in 0 .. Len(all), NEW age \in Nat,
           now \in Times, TooOld(all, m, age)
    PROVE  \A j \in 1 .. m : (now + 1) - all[j] >= age
<1>1. \A j \in 1 .. m : all[j] \in Nat /\ now - all[j] >= age
  <2>1. \A j \in 1 .. m : all[j] \in Times
    OBVIOUS
  <2>2. QED
    BY <2>1, Clock DEF TooOld
<1>2. now \in Nat
  BY Clock
<1>3. QED
  BY <1>1, <1>2

LEMMA RecordingTime ==
    ASSUME Recording, TimePasses
    PROVE  Recording'
<1> USE Clock
<1>1. /\ now' = now + 1 /\ now < MaxTime
      /\ plugs' = plugs /\ events' = events /\ globals' = globals
      /\ past' = past /\ hist' = hist
  BY DEF TimePasses
<1>2. now \in Times /\ now \in Nat
  BY DEF Recording
<1>3. now' \in Times
  BY <1>1, <1>2 DEF Times
<1>4. ASSUME NEW all, Timely(all) PROVE \A k \in 1 .. Len(all) : all[k] <= now + 1
  BY <1>2, <1>4, Shape
<1>5. Timely(hist)'
  <2>1. Timely(hist)
    BY DEF Recording
  <2>2. QED
    BY <1>1, <1>4, <2>1 DEF Timely
<1>6. \A i \in Ids : Timely(past[i])'
  <2>1. ASSUME NEW i \in Ids PROVE Timely(past[i])'
    <3>1. Timely(past[i])
      BY DEF Recording
    <3>2. QED
      BY <1>1, <1>4, <3>1 DEF Timely
  <2>2. QED
    BY <2>1
<1>7. ASSUME NEW times, NEW all, NEW age \in Nat, Timely(all), Remembers(times, all, age)
      PROVE  \E m \in 0 .. Len(all) :
               EndsAt(times, all, m) /\ \A j \in 1 .. m : (now + 1) - all[j] >= age
  <2>1. PICK m \in 0 .. Len(all) : EndsAt(times, all, m) /\ TooOld(all, m, age)
    BY <1>7 DEF Remembers
  <2>2. all \in Seq(Times)
    BY <1>7 DEF Timely
  <2>3. QED
    BY <1>2, <2>1, <2>2, TimeGoesOn
<1>8. ASSUME PatternAnalysis PROVE Remembers(globals, hist, MaxAge)'
  <2>1. Timely(hist) /\ Remembers(globals, hist, MaxAge)
    BY <1>8 DEF Recording
  <2>2. PICK m \in 0 .. Len(hist) :
         EndsAt(globals, hist, m) /\ \A j \in 1 .. m : (now + 1) - hist[j] >= MaxAge
    BY <1>7, <2>1
  <2>3. EndsAt(globals, hist, m)'
    BY <1>1, <2>2 DEF EndsAt
  <2>4. TooOld(hist, m, MaxAge)'
    BY <1>1, <2>2 DEF TooOld
  <2>5. QED
    BY <1>1, <2>3, <2>4 DEF Remembers
<1>9. \A i \in Ids : Remembers(plugs[i], past[i], Window)'
  <2>1. ASSUME NEW i \in Ids PROVE Remembers(plugs[i], past[i], Window)'
    <3>1. Timely(past[i]) /\ Remembers(plugs[i], past[i], Window)
      BY DEF Recording
    <3>2. PICK m \in 0 .. Len(past[i]) :
           EndsAt(plugs[i], past[i], m) /\ \A j \in 1 .. m : (now + 1) - past[i][j] >= Window
      BY <1>7, <3>1
    <3>3. EndsAt(plugs[i], past[i], m)'
      BY <1>1, <3>2 DEF EndsAt
    <3>4. TooOld(past[i], m, Window)'
      BY <1>1, <3>2 DEF TooOld
    <3>5. QED
      BY <1>1, <3>3, <3>4 DEF Remembers
  <2>2. QED
    BY <2>1
<1>10. ASSUME PatternAnalysis PROVE \A i \in Ids : Remembers(events[i], past[i], MaxAge)'
  <2>1. ASSUME NEW i \in Ids PROVE Remembers(events[i], past[i], MaxAge)'
    <3>1. Timely(past[i]) /\ Remembers(events[i], past[i], MaxAge)
      BY <1>10 DEF Recording
    <3>2. PICK m \in 0 .. Len(past[i]) :
           EndsAt(events[i], past[i], m) /\ \A j \in 1 .. m : (now + 1) - past[i][j] >= MaxAge
      BY <1>7, <3>1
    <3>3. EndsAt(events[i], past[i], m)'
      BY <1>1, <3>2 DEF EndsAt
    <3>4. TooOld(past[i], m, MaxAge)'
      BY <1>1, <3>2 DEF TooOld
    <3>5. QED
      BY <1>1, <3>3, <3>4 DEF Remembers
  <2>2. QED
    BY <2>1
<1>11. /\ plugs' \in [Ids -> Seq(Times)]
       /\ events' \in [Ids -> Seq(Times)]
       /\ past' \in [Ids -> Seq(Times)]
       /\ globals' \in Seq(Times)
  BY <1>1 DEF Recording
<1>12. QED
  BY <1>3, <1>5, <1>6, <1>8, <1>9, <1>10, <1>11 DEF Recording

(* An analysis of d records it in each memory, and what it then looks at   *)
(* is exactly what the whole record has within the age.                    *)
LEMMA AnalysisRemembers ==
    ASSUME Recording, NEW d \in Devices
    PROVE  /\ Timely(Append(past[d.id], now)) /\ Timely(Append(hist, now))
           /\ Exactly(Tracked(d), Append(past[d.id], now), Window)
           /\ PatternAnalysis =>
                /\ Exactly(Recorded(events[d.id]), Append(past[d.id], now), MaxAge)
                /\ Exactly(Recorded(globals), Append(hist, now), MaxAge)
                /\ \A i \in Ids : Exactly(Kept(events[i]), past[i], MaxAge)
<1> USE Clock
<1>1. d.id \in Ids
  BY DEF Ids
<1>2. now \in Times /\ Timely(past[d.id]) /\ Timely(hist)
  BY <1>1 DEF Recording
<1>3. Timely(Append(past[d.id], now)) /\ Timely(Append(hist, now))
  BY <1>2, TimelyAppend
<1>4. Exactly(Tracked(d), Append(past[d.id], now), Window)
  <2>1. Remembers(plugs[d.id], past[d.id], Window)
    BY <1>1 DEF Recording
  <2>2. Exactly(Within(plugs[d.id], Window), past[d.id], Window)
    BY <1>2, <2>1, WithinRemembers
  <2>3. Exactly(Append(Within(plugs[d.id], Window), now), Append(past[d.id], now), Window)
    BY <1>2, <2>2, ExactlyAppend
  <2>4. QED
    BY <2>3 DEF Tracked
<1>5. ASSUME PatternAnalysis
      PROVE  Exactly(Recorded(events[d.id]), Append(past[d.id], now), MaxAge)
  <2>1. Remembers(events[d.id], past[d.id], MaxAge)
    BY <1>1, <1>5 DEF Recording
  <2>2. Remembers(Append(events[d.id], now), Append(past[d.id], now), MaxAge)
    BY <1>2, <2>1, RemembersAppend
  <2>3. QED
    BY <1>2, <1>3, <2>2, WithinRemembers DEF Recorded, Kept
<1>6. ASSUME PatternAnalysis PROVE Exactly(Recorded(globals), Append(hist, now), MaxAge)
  <2>1. Remembers(globals, hist, MaxAge)
    BY <1>6 DEF Recording
  <2>2. Remembers(Append(globals, now), Append(hist, now), MaxAge)
    BY <1>2, <2>1, RemembersAppend
  <2>3. QED
    BY <1>2, <1>3, <2>2, WithinRemembers DEF Recorded, Kept
<1>7. ASSUME PatternAnalysis PROVE \A i \in Ids : Exactly(Kept(events[i]), past[i], MaxAge)
  <2>1. ASSUME NEW i \in Ids PROVE Exactly(Kept(events[i]), past[i], MaxAge)
    <3>1. Timely(past[i]) /\ Remembers(events[i], past[i], MaxAge)
      BY <1>7 DEF Recording
    <3>2. QED
      BY <1>2, <3>1, WithinRemembers DEF Kept
  <2>2. QED
    BY <2>1
<1>8. QED
  BY <1>3, <1>4, <1>5, <1>6, <1>7

LEMMA RecordingAnalysis ==
    ASSUME Recording, NEW d \in Devices, Analyze(d)
    PROVE  Recording'
<1> USE Clock
<1>1. /\ now' = now
      /\ plugs' = [plugs EXCEPT ![d.id] = Tracked(d)]
      /\ past' = [past EXCEPT ![d.id] = Append(past[d.id], now)]
      /\ hist' = Append(hist, now)
  BY DEF Analyze
<1>0. /\ PatternAnalysis =>
           /\ events' = [i \in Ids |-> IF i = d.id THEN Recorded(events[i]) ELSE Kept(events[i])]
           /\ globals' = Recorded(globals)
      /\ ~PatternAnalysis => UNCHANGED <<events, globals>>
  BY DEF Analyze
<1>2. d.id \in Ids
  BY DEF Ids
<1>3. /\ now \in Times
      /\ plugs \in [Ids -> Seq(Times)] /\ events \in [Ids -> Seq(Times)]
      /\ past \in [Ids -> Seq(Times)]
  BY DEF Recording
<1>4. /\ Timely(Append(past[d.id], now)) /\ Timely(Append(hist, now))
      /\ Exactly(Tracked(d), Append(past[d.id], now), Window)
      /\ PatternAnalysis =>
           /\ Exactly(Recorded(events[d.id]), Append(past[d.id], now), MaxAge)
           /\ Exactly(Recorded(globals), Append(hist, now), MaxAge)
           /\ \A i \in Ids : Exactly(Kept(events[i]), past[i], MaxAge)
  BY AnalysisRemembers
<1>5. Remembers(Tracked(d), Append(past[d.id], now), Window) /\ Tracked(d) \in Seq(Times)
  BY <1>4, ExactlyRemembers
<1>50. ASSUME PatternAnalysis
       PROVE  /\ Remembers(Recorded(events[d.id]), Append(past[d.id], now), MaxAge)
              /\ Recorded(events[d.id]) \in Seq(Times)
              /\ Remembers(Recorded(globals), Append(hist, now), MaxAge)
              /\ Recorded(globals) \in Seq(Times)
              /\ \A i \in Ids :
                   Remembers(Kept(events[i]), past[i], MaxAge) /\ Kept(events[i]) \in Seq(Times)
  BY <1>4, <1>50, ExactlyRemembers
<1>6. Append(past[d.id], now) \in Seq(Times)
  BY <1>4 DEF Timely
<1>7. plugs' \in [Ids -> Seq(Times)]
  BY <1>1, <1>3, <1>5
<1>8. events' \in [Ids -> Seq(Times)] /\ globals' \in Seq(Times)
  <2>1. CASE PatternAnalysis
    BY <1>0, <1>50, <2>1
  <2>2. CASE ~PatternAnalysis
    BY <1>0, <2>2 DEF Recording
  <2>3. QED
    BY <2>1, <2>2
<1>9. past' \in [Ids -> Seq(Times)]
  BY <1>1, <1>3, <1>6
<1>10. Timely(hist)'
  BY <1>1, <1>4 DEF Timely
<1>11. ASSUME NEW i \in Ids
       PROVE  Timely(past[i])' /\ Remembers(plugs[i], past[i], Window)'
                  /\ (PatternAnalysis => Remembers(events[i], past[i], MaxAge)')
  <2>1. CASE i = d.id
    <3>1. /\ plugs'[i] = Tracked(d) /\ past'[i] = Append(past[d.id], now)
          /\ PatternAnalysis => events'[i] = Recorded(events[d.id])
      BY <1>0, <1>1, <1>2, <1>3, <2>1
    <3>2. /\ Timely(past'[i]) /\ Remembers(plugs'[i], past'[i], Window)
          /\ PatternAnalysis => Remembers(events'[i], past'[i], MaxAge)
      BY <1>4, <1>5, <1>50, <3>1
    <3>3. Timely(past[i])'
      BY <1>1, <3>2 DEF Timely
    <3>4. Remembers(plugs[i], past[i], Window)'
      BY <1>1, <3>2 DEF Remembers, EndsAt, TooOld
    <3>5. ASSUME PatternAnalysis PROVE Remembers(events[i], past[i], MaxAge)'
      BY <1>1, <3>2, <3>5 DEF Remembers, EndsAt, TooOld
    <3>6. QED
      BY <3>3, <3>4, <3>5
  <2>2. CASE i # d.id
    <3>1. /\ plugs'[i] = plugs[i] /\ past'[i] = past[i]
          /\ PatternAnalysis => events'[i] = Kept(events[i])
      BY <1>0, <1>1, <1>2, <1>3, <2>2
    <3>2. /\ Timely(past'[i]) /\ Remembers(plugs'[i], past'[i], Window)
          /\ PatternAnalysis => Remembers(events'[i], past'[i], MaxAge)
      BY <1>50, <3>1 DEF Recording
    <3>3. Timely(past[i])'
      BY <1>1, <3>2 DEF Timely
    <3>4. Remembers(plugs[i], past[i], Window)'
      BY <1>1, <3>2 DEF Remembers, EndsAt, TooOld
    <3>5. ASSUME PatternAnalysis PROVE Remembers(events[i], past[i], MaxAge)'
      BY <1>1, <3>2, <3>5 DEF Remembers, EndsAt, TooOld
    <3>6. QED
      BY <3>3, <3>4, <3>5
  <2>3. QED
    BY <2>1, <2>2
<1>12. ASSUME PatternAnalysis PROVE Remembers(globals, hist, MaxAge)'
  <2>1. Remembers(globals', hist', MaxAge)
    BY <1>0, <1>1, <1>12, <1>50
  <2>2. QED
    BY <1>1, <2>1 DEF Remembers, EndsAt, TooOld
<1>13. now' \in Times
  BY <1>1, <1>3
<1>14. QED
  BY <1>7, <1>8, <1>9, <1>10, <1>11, <1>12, <1>13 DEF Recording

(* The points for earlier connects are those the whole record would give.  *)
LEMMA PointsOfTheRecord ==
    ASSUME Recording, NEW d \in Devices, Analyze(d)
    PROVE  /\ Past(d.id, Window)' = Len(Tracked(d))
           /\ PatternAnalysis =>
                /\ RapidCycles(Recorded(events[d.id])) <=> Len(Tracked(d)) >= 3
                /\ Coordinated(Recorded(globals)) <=> AnyPair'
<1> USE Clock
<1>1. now' = now /\ past' = [past EXCEPT ![d.id] = Append(past[d.id], now)]
      /\ hist' = Append(hist, now)
  BY DEF Analyze
<1>2. d.id \in Ids /\ now \in Times /\ past \in [Ids -> Seq(Times)]
  BY DEF Ids, Recording
<1> DEFINE all == Append(past[d.id], now)
<1>3. past'[d.id] = all
  BY <1>1, <1>2
<1>4. /\ Timely(all) /\ Timely(Append(hist, now))
      /\ Exactly(Tracked(d), all, Window)
      /\ PatternAnalysis => /\ Exactly(Recorded(events[d.id]), all, MaxAge)
                            /\ Exactly(Recorded(globals), Append(hist, now), MaxAge)
  BY AnalysisRemembers
<1> HIDE DEF all
<1> DEFINE recent == {k \in DOMAIN all : now - all[k] < Window}
<1>5. Cardinality(recent) = Len(Tracked(d))
  BY <1>2, <1>4, ExactlyCounts
<1>6. Past(d.id, Window)' = Len(Tracked(d))
  BY <1>1, <1>3, <1>5 DEF Past
<1>7. ASSUME PatternAnalysis
      PROVE  RapidCycles(Recorded(events[d.id])) <=> Len(Tracked(d)) >= 3
  <2>1. Remembers(Recorded(events[d.id]), all, MaxAge)
    BY <1>4, <1>7, ExactlyRemembers
  <2>2. Exactly(Within(Recorded(events[d.id]), Window), all, Window)
    BY <1>2, <1>4, <2>1, WithinRemembers
  <2>3. Cardinality(recent) = Len(Within(Recorded(events[d.id]), Window))
    BY <1>2, <1>4, <2>2, ExactlyCounts
  <2>4. QED
    BY <1>5, <2>3 DEF RapidCycles
<1>8. ASSUME PatternAnalysis PROVE Coordinated(Recorded(globals)) <=> AnyPair'
  <2> DEFINE near == Within(Recorded(globals), 5 * Tight)
             whole == Append(hist, now)
  <2>1. Remembers(Recorded(globals), whole, MaxAge)
    BY <1>4, <1>8, ExactlyRemembers
  <2>2. 5 * Tight \in Nat
    OBVIOUS
  <2>3. Exactly(near, whole, 5 * Tight)
    BY <1>2, <1>4, <2>1, <2>2, WithinRemembers
  <2> HIDE DEF near, whole
  <2>4. Timely(whole)
    BY <1>4 DEF whole
  <2>5. (\E k \in 2 .. Len(near) : near[k] - near[k - 1] < Tight)
        <=> (\E j, k \in DOMAIN whole : /\ j < k /\ now - whole[j] < 5 * Tight
                                        /\ whole[k] - whole[j] < Tight)
    BY <1>2, <2>3, <2>4, PairsAreNear
  <2>6. Coordinated(Recorded(globals)) <=> \E k \in 2 .. Len(near) : near[k] - near[k - 1] < Tight
    BY DEF Coordinated, near
  <2>7. AnyPair' <=> \E j, k \in DOMAIN whole : /\ j < k /\ now - whole[j] < 5 * Tight
                                                /\ whole[k] - whole[j] < Tight
    BY <1>1 DEF AnyPair, whole
  <2>8. QED
    BY <2>5, <2>6, <2>7
<1>9. QED
  BY <1>6, <1>7, <1>8

LEMMA ForgottenAnalysis ==
    ASSUME WeightsTyped, Recording, NEW d \in Devices, Analyze(d)
    PROVE  NothingNeededForgotten'
<1> DEFINE total == InterfaceScore(weights, d) + IdentityScore(weights, d)
                      + ReplugScore(weights, d) + CveScore(weights, d) + PatternScore(d)
           full == InterfaceScore(weights, d) + IdentityScore(weights, d) + CveScore(weights, d)
                      + Points(weights, "rapid_replug", Len(Tracked(d)) > 3)
                      + (IF PatternAnalysis /\ Len(Tracked(d)) >= 3 THEN 25 ELSE 0)
                      + (IF PatternAnalysis /\ AnyPair' THEN 20 ELSE 0)
<1>1. /\ Past(d.id, Window)' = Len(Tracked(d))
      /\ PatternAnalysis => /\ RapidCycles(Recorded(events[d.id])) <=> Len(Tracked(d)) >= 3
                            /\ Coordinated(Recorded(globals)) <=> AnyPair'
  BY PointsOfTheRecord
<1>2. last'.device = d /\ last'.score = Capped(total) /\ weights' = weights /\ cves' = cves
  BY DEF Analyze
<1>3. total = full
  <2>1. /\ InterfaceScore(weights, d) \in Nat /\ IdentityScore(weights, d) \in Nat
        /\ CveScore(weights, d) \in Nat /\ ReplugScore(weights, d) \in Nat
    BY ScoresAreNat DEF WeightsTyped
  <2>2. ReplugScore(weights, d) = Points(weights, "rapid_replug", Len(Tracked(d)) > 3)
    BY DEF ReplugScore
  <2>3. PatternScore(d) = (IF PatternAnalysis /\ Len(Tracked(d)) >= 3 THEN 25 ELSE 0)
                            + (IF PatternAnalysis /\ AnyPair' THEN 20 ELSE 0)
    BY <1>1 DEF PatternScore
  <2>4. QED
    BY <2>1, <2>2, <2>3
<1>4. FullMemoryScore(d)' = full
  BY <1>1, <1>2 DEF FullMemoryScore, CveScore
<1> HIDE DEF total, full
<1>5. FullMemoryScore(last.device)' = full
  BY <1>2, <1>4 DEF FullMemoryScore
<1>6. QED
  BY <1>2, <1>3, <1>5 DEF NothingNeededForgotten

-----------------------------------------------------------------------------
(* When no analysis is the last event, the claim asks for nothing.         *)
LEMMA ForgottenTime ==
    ASSUME Recording, TimePasses
    PROVE  NothingNeededForgotten'
<1>1. hist' = hist /\ now' = now + 1 /\ now \in Nat /\ Timely(hist)
  BY Clock DEF TimePasses, Recording
<1>2. hist \in Seq(Times) /\ \A k \in 1 .. Len(hist) : hist[k] <= now /\ hist[k] \in Nat
  BY <1>1, Shape
<1>3. hist # <<>> => Len(hist) \in 1 .. Len(hist)
  BY <1>2
<1>4. hist # <<>> => hist[Len(hist)] # now + 1
  BY <1>1, <1>2, <1>3
<1>5. QED
  BY <1>1, <1>4 DEF NothingNeededForgotten

Scoring == WeightsTyped /\ Recording /\ NothingNeededForgotten

LEMMA ScoringStep == Scoring /\ [Next]_vars => Scoring'
<1> SUFFICES ASSUME Scoring, [Next]_vars PROVE Scoring'
  OBVIOUS
<1>1. WeightsTyped'
  BY DEF Scoring, WeightsTyped, Next, Analyze, TimePasses, vars
<1>2. CASE UNCHANGED vars
  <2>1. Recording'
    BY <1>2 DEF Scoring, Recording, Timely, Remembers, EndsAt, TooOld, vars
  <2>2. NothingNeededForgotten'
    BY <1>2 DEF Scoring, NothingNeededForgotten, FullMemoryScore, Past, AnyPair, CveScore, vars
  <2>3. QED
    BY <1>1, <2>1, <2>2 DEF Scoring
<1>3. CASE TimePasses
  BY <1>1, <1>3, RecordingTime, ForgottenTime DEF Scoring
<1>4. ASSUME NEW d \in Devices, Analyze(d) PROVE Scoring'
  BY <1>1, <1>4, RecordingAnalysis, ForgottenAnalysis DEF Scoring
<1>5. QED
  BY <1>2, <1>3, <1>4 DEF Next

(* The replug tracker, the events of a device and the global events are    *)
(* three memories with three ways of cleaning; the points they give are    *)
(* always those that all the connects there ever were would give.          *)
THEOREM NothingIsForgotten == Spec => []NothingNeededForgotten
<1>1. Init => Scoring
  <2>1. Init => NothingNeededForgotten
    BY DEF Init, NothingNeededForgotten
  <2>2. QED
    BY <2>1, WeightsInit, RecordingInit DEF Scoring
<1>2. Scoring => NothingNeededForgotten
  BY DEF Scoring
<1>3. QED
  BY <1>1, <1>2, ScoringStep, PTL DEF Spec

Assessed ==
    /\ cves \subseteq CveKeys
    /\ globals \in Seq(Times)
    /\ last \in [device : Devices, score : 0 .. MaxScore, decision : Decided]
                    \cup {NoAssessment}
    /\ Len(hist) <= MaxAnalyses

LEMMA AssessedStep == Scoring /\ Assessed /\ [Next]_vars => Assessed'
<1> SUFFICES ASSUME Scoring, Assessed, [Next]_vars PROVE Assessed'
  OBVIOUS
<1>1. CASE TimePasses \/ UNCHANGED vars
  BY <1>1 DEF Assessed, TimePasses, vars
<1>2. ASSUME NEW d \in Devices, Analyze(d) PROVE Assessed'
  <2> DEFINE total == InterfaceScore(weights, d) + IdentityScore(weights, d)
                        + ReplugScore(weights, d) + CveScore(weights, d) + PatternScore(d)
  <2>1. total \in Nat
    BY ScoresAreNat DEF Scoring, WeightsTyped
  <2>2. last' = [device |-> d, score |-> Capped(total), decision |-> Decide(total)]
    BY <1>2 DEF Analyze
  <2> HIDE DEF total
  <2>3. Capped(total) \in 0 .. MaxScore /\ Decide(total) \in Decided
    BY <2>1, CapBelow DEF Capped, Decide, Decided
  <2>4. last' \in [device : Devices, score : 0 .. MaxScore, decision : Decided]
    BY <2>2, <2>3
  <2>5. globals' \in Seq(Times)
    <3>1. PatternAnalysis => Exactly(Recorded(globals), Append(hist, now), MaxAge)
      BY AnalysisRemembers DEF Scoring
    <3>2. CASE PatternAnalysis
      BY <1>2, <3>1, <3>2, ExactlyRemembers DEF Analyze
    <3>3. CASE ~PatternAnalysis
      BY <1>2, <3>3 DEF Analyze, Assessed
    <3>4. QED
      BY <3>2, <3>3
  <2>6. Len(hist') <= MaxAnalyses
    <3>1. hist \in Seq(Times) /\ MaxAnalyses \in Nat
      BY ScoringAssumption DEF Scoring, Recording, Timely, ScoringAssumption
    <3>2. hist' = Append(hist, now) /\ Len(hist) < MaxAnalyses
      BY <1>2 DEF Analyze
    <3>3. QED
      BY <3>1, <3>2
  <2>7. cves' \subseteq CveKeys
    BY <1>2 DEF Analyze, Assessed
  <2>8. QED
    BY <2>4, <2>5, <2>6, <2>7 DEF Assessed
<1>3. QED
  BY <1>1, <1>2 DEF Next

(* Weights, times and scores stay numbers of their ranges, and no memory   *)
(* ever holds a time that has not been.                                    *)
THEOREM ScoringTyped == Spec => []TypeOK
<1>1. Init => Scoring /\ Assessed
  <2>1. Init => NothingNeededForgotten
    BY DEF Init, NothingNeededForgotten
  <2>2. Init => cves \subseteq CveKeys /\ globals \in Seq(Times) /\ last = NoAssessment
    BY DEF Init
  <2>3. Init => Len(hist) <= MaxAnalyses
    BY ScoringAssumption DEF Init, ScoringAssumption
  <2>4. QED
    BY <2>1, <2>2, <2>3, WeightsInit, RecordingInit DEF Scoring, Assessed
<1>2. Scoring /\ Assessed => TypeOK
  BY DEF Scoring, Assessed, Recording, Timely, WeightsTyped, TypeOK
<1>3. QED
  BY <1>1, <1>2, ScoringStep, AssessedStep, PTL DEF Spec
=============================================================================
