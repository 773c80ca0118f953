------------------------ MODULE ForensicLoggerProofs ------------------------
(***************************************************************************)
(* The audit log keeps its entries in order, bounds its files and loses    *)
(* nothing before stop() has returned, for any number of entries and any   *)
(* limits.                                                                 *)
(***************************************************************************)
EXTENDS ForensicLogger, SequenceTheorems, TLAPS

(* The writer holds an entry exactly while it writes one.                  *)
WriterHolds ==
    /\ writer.pc = "write" => writer.entry \in Entries
    /\ writer.pc # "write" => writer.entry = NoEntry

Typed == TypeOK /\ WriterHolds

(* An entry passes from the queue through the writer's hands into a file,  *)
(* and those that went before it have smaller numbers all the way.         *)
InOrder(s) == \A j, k \in DOMAIN s : j < k => s[j].no < s[k].no

QueueOrdered ==
    /\ InOrder(queue)
    /\ \A n \in NumbersIn(queue) : n <= logged

HeldBeforeQueue ==
    writer.pc = "write" =>
        /\ writer.entry.no <= logged
        /\ \A n \in NumbersIn(queue) : writer.entry.no < n

WrittenBeforeRest ==
    \A f \in Files : \A m \in NumbersIn(Written(f)) :
        /\ m <= logged
        /\ writer.pc = "write" => m < writer.entry.no
        /\ \A n \in NumbersIn(queue) : m < n

InLine == QueueOrdered /\ HeldBeforeQueue /\ WrittenBeforeRest /\ FilesInOrder

-----------------------------------------------------------------------------
LEMMA Limits == MaxEntries \in Nat \ {0} /\ BufferSize \in Nat \ {0} /\ MaxFileSize \in Nat \ {0}
BY LoggerAssumption DEF LoggerAssumption

LEMMA NoEntryIsNone == NoEntry.no = 0 /\ NoEntry \notin Entries
BY Limits DEF NoEntry, Entries, Numbers

LEMMA EntryNumber == \A e \in Entries : e.no \in 1 .. MaxEntries /\ e.file \in Files
BY DEF Entries, Numbers

(* What an appended or removed entry does to the numbers in a sequence.    *)
LEMMA NumbersAppend ==
    ASSUME NEW s \in Seq(Entries), NEW e \in Entries
    PROVE  NumbersIn(Append(s, e)) = NumbersIn(s) \cup {e.no}
<1>1. /\ Append(s, e) \in Seq(Entries) /\ Len(Append(s, e)) = Len(s) + 1
      /\ \A i \in 1 .. Len(s) : Append(s, e)[i] = s[i]
      /\ Append(s, e)[Len(s) + 1] = e
  BY AppendProperties
<1>2. Len(s) \in Nat /\ DOMAIN s = 1 .. Len(s) /\ DOMAIN Append(s, e) = 1 .. Len(s) + 1
  BY <1>1, LenProperties
<1>3. ASSUME NEW n \in NumbersIn(Append(s, e)) PROVE n \in NumbersIn(s) \cup {e.no}
  <2>1. PICK k \in 1 .. Len(s) + 1 : n = Append(s, e)[k].no
    BY <1>2, <1>3 DEF NumbersIn
  <2>2. CASE k = Len(s) + 1
    BY <1>1, <2>1, <2>2
  <2>3. CASE k # Len(s) + 1
    <3>1. k \in 1 .. Len(s)
      BY <1>2, <2>3
    <3> QED  BY <1>1, <1>2, <2>1, <3>1 DEF NumbersIn
  <2> QED  BY <2>2, <2>3
<1>4. ASSUME NEW n \in NumbersIn(s) PROVE n \in NumbersIn(Append(s, e))
  <2>1. PICK k \in 1 .. Len(s) : n = s[k].no
    BY <1>2, <1>4 DEF NumbersIn
  <2>2. k \in 1 .. Len(s) + 1 /\ n = Append(s, e)[k].no
    BY <1>1, <1>2, <2>1
  <2> QED  BY <1>2, <2>2 DEF NumbersIn
<1>5. e.no \in NumbersIn(Append(s, e))
  <2>1. Len(s) + 1 \in 1 .. Len(s) + 1
    BY <1>2
  <2> QED  BY <1>1, <1>2, <2>1 DEF NumbersIn
<1> QED  BY <1>3, <1>4, <1>5

LEMMA NumbersTail ==
    ASSUME NEW s \in Seq(Entries), s # <<>>
    PROVE  NumbersIn(s) = {Head(s).no} \cup NumbersIn(Tail(s))
<1>1. /\ Tail(s) \in Seq(Entries) /\ Len(Tail(s)) = Len(s) - 1
      /\ \A i \in 1 .. Len(Tail(s)) : Tail(s)[i] = s[i + 1]
  BY HeadTailProperties
<1>2. /\ Len(s) \in Nat \ {0} /\ DOMAIN s = 1 .. Len(s)
      /\ DOMAIN Tail(s) = 1 .. Len(s) - 1 /\ Head(s) = s[1]
  BY <1>1, LenProperties, EmptySeq
<1>3. ASSUME NEW n \in NumbersIn(s) PROVE n \in {Head(s).no} \cup NumbersIn(Tail(s))
  <2>1. PICK k \in 1 .. Len(s) : n = s[k].no
    BY <1>2, <1>3 DEF NumbersIn
  <2>2. CASE k = 1
    BY <1>2, <2>1, <2>2
  <2>3. CASE k # 1
    <3>1. k - 1 \in 1 .. Len(s) - 1 /\ s[k] = Tail(s)[k - 1]
      BY <1>1, <1>2, <2>3
    <3> QED  BY <1>2, <2>1, <3>1 DEF NumbersIn
  <2> QED  BY <2>2, <2>3
<1>4. ASSUME NEW n \in NumbersIn(Tail(s)) PROVE n \in NumbersIn(s)
  <2>1. PICK k \in 1 .. Len(s) - 1 : n = Tail(s)[k].no
    BY <1>2, <1>4 DEF NumbersIn
  <2>2. k + 1 \in 1 .. Len(s) /\ n = s[k + 1].no
    BY <1>1, <1>2, <2>1
  <2> QED  BY <1>2, <2>2 DEF NumbersIn
<1>5. Head(s).no \in NumbersIn(s)
  <2>1. 1 \in 1 .. Len(s)
    BY <1>2
  <2> QED  BY <1>2, <2>1 DEF NumbersIn
<1> QED  BY <1>3, <1>4, <1>5

LEMMA NumbersBounded ==
    ASSUME NEW s \in Seq(Entries)
    PROVE  NumbersIn(s) \subseteq Nat \ {0}
<1>1. \A k \in DOMAIN s : s[k] \in Entries
  BY LenProperties
<1> QED  BY <1>1, EntryNumber, Limits DEF NumbersIn

LEMMA NumbersEmpty == NumbersIn(<<>>) = {}
BY DEF NumbersIn

(* A later entry keeps a sequence in order, and so does taking its head.   *)
LEMMA InOrderAppend ==
    ASSUME NEW s \in Seq(Entries), NEW e \in Entries, InOrder(s),
           \A n \in NumbersIn(s) : n < e.no
    PROVE  InOrder(Append(s, e))
<1>1. /\ Append(s, e) \in Seq(Entries) /\ Len(Append(s, e)) = Len(s) + 1
      /\ \A i \in 1 .. Len(s) : Append(s, e)[i] = s[i]
      /\ Append(s, e)[Len(s) + 1] = e
  BY AppendProperties
<1>2. Len(s) \in Nat /\ DOMAIN s = 1 .. Len(s) /\ DOMAIN Append(s, e) = 1 .. Len(s) + 1
  BY <1>1, LenProperties
<1> SUFFICES ASSUME NEW j \in 1 .. Len(s) + 1, NEW k \in 1 .. Len(s) + 1, j < k
             PROVE  Append(s, e)[j].no < Append(s, e)[k].no
  BY <1>2 DEF InOrder
<1>3. j \in 1 .. Len(s) /\ Append(s, e)[j] = s[j]
  BY <1>1, <1>2
<1>4. CASE k = Len(s) + 1
  <2>1. s[j].no \in NumbersIn(s)
    BY <1>2, <1>3 DEF NumbersIn
  <2> QED  BY <1>1, <1>3, <1>4, <2>1
<1>5. CASE k # Len(s) + 1
  <2>1. k \in 1 .. Len(s) /\ Append(s, e)[k] = s[k]
    BY <1>1, <1>2, <1>5
  <2> QED  BY <1>2, <1>3, <2>1 DEF InOrder
<1> QED  BY <1>4, <1>5

LEMMA InOrderTail ==
    ASSUME NEW s \in Seq(Entries), s # <<>>, InOrder(s)
    PROVE  InOrder(Tail(s)) /\ \A n \in NumbersIn(Tail(s)) : Head(s).no < n
<1>1. /\ Tail(s) \in Seq(Entries) /\ Len(Tail(s)) = Len(s) - 1
      /\ \A i \in 1 .. Len(Tail(s)) : Tail(s)[i] = s[i + 1]
  BY HeadTailProperties
<1>2. /\ Len(s) \in Nat \ {0} /\ DOMAIN s = 1 .. Len(s)
      /\ DOMAIN Tail(s) = 1 .. Len(s) - 1 /\ Head(s) = s[1]
  BY <1>1, LenProperties, EmptySeq
<1>3. ASSUME NEW j \in 1 .. Len(s) - 1, NEW k \in 1 .. Len(s) - 1, j < k
      PROVE  Tail(s)[j].no < Tail(s)[k].no
  <2>1. /\ Tail(s)[j] = s[j + 1] /\ Tail(s)[k] = s[k + 1]
        /\ j + 1 \in 1 .. Len(s) /\ k + 1 \in 1 .. Len(s) /\ j + 1 < k + 1
    BY <1>1, <1>2, <1>3
  <2> QED  BY <1>2, <2>1 DEF InOrder
<1>4. ASSUME NEW n \in NumbersIn(Tail(s)) PROVE Head(s).no < n
  <2>1. PICK k \in 1 .. Len(s) - 1 : n = Tail(s)[k].no
    BY <1>2, <1>4 DEF NumbersIn
  <2>2. /\ k + 1 \in 1 .. Len(s) /\ 1 \in 1 .. Len(s) /\ 1 < k + 1
        /\ n = s[k + 1].no /\ Head(s) = s[1]
    BY <1>1, <1>2, <2>1
  <2> QED  BY <1>2, <2>2 DEF InOrder
<1> QED  BY <1>2, <1>3, <1>4 DEF InOrder

LEMMA ConcatThenAppend ==
    ASSUME NEW r \in Seq(Entries), NEW s \in Seq(Entries), NEW e \in Entries
    PROVE  Append(r \o s, e) = r \o Append(s, e)
<1>1. <<e>> \in Seq(Entries) /\ r \o s \in Seq(Entries)
  BY ConcatProperties
<1>2. PICK last \in Seq(Entries) : last = <<e>>
  BY <1>1
<1>3. (r \o s) \o last = r \o (s \o last)
  BY ConcatAssociative
<1>4. Append(r \o s, e) = (r \o s) \o last /\ Append(s, e) = s \o last
  BY <1>1, <1>2, AppendIsConcat
<1> QED  BY <1>3, <1>4

(* Rotating leaves the file as it was, or with what is given, appended to  *)
(* what was written to it.                                                 *)
LEMMA WrittenRotated ==
    ASSUME TypeOK, NEW g \in Files, NEW content \in Seq(Entries), RotateTo(g, content)
    PROVE  /\ files' \in [Files -> Seq(Entries)] /\ rotated' \in [Files -> Seq(Entries)]
           /\ unrotated' \in [Files -> Nat]
           /\ Written(g)' = Written(g) \o content
           /\ \A f \in Files \ {g} : Written(f)' = Written(f)
<1>1. /\ files \in [Files -> Seq(Entries)] /\ rotated \in [Files -> Seq(Entries)]
      /\ unrotated \in [Files -> Nat]
  BY DEF TypeOK
<1>2. rotated[g] \o files[g] \in Seq(Entries)
  BY <1>1, ConcatProperties
<1>3. /\ files' = [files EXCEPT ![g] = content]
      /\ rotated' = [rotated EXCEPT ![g] = rotated[g] \o files[g]]
      /\ unrotated' = [unrotated EXCEPT ![g] = 0]
  BY DEF RotateTo
<1>4. files'[g] = content /\ rotated'[g] = rotated[g] \o files[g]
  BY <1>1, <1>3
<1>5. \A f \in Files \ {g} : files'[f] = files[f] /\ rotated'[f] = rotated[f]
  BY <1>1, <1>3
<1> QED  BY <1>1, <1>2, <1>3, <1>4, <1>5 DEF Written

LEMMA WrittenRotatedOnly ==
    ASSUME TypeOK, NEW g \in Files, RotateTo(g, <<>>)
    PROVE  /\ files' \in [Files -> Seq(Entries)] /\ rotated' \in [Files -> Seq(Entries)]
           /\ unrotated' \in [Files -> Nat]
           /\ \A f \in Files : Written(f)' = Written(f)
<1>1. <<>> \in Seq(Entries)
  BY EmptySeq
<1>2. Written(g) \in Seq(Entries)
  BY ConcatProperties DEF TypeOK, Written
<1>3. Written(g) \o <<>> = Written(g)
  BY <1>2, ConcatEmptySeq
<1> QED  BY <1>1, <1>3, WrittenRotated

LEMMA WrittenKept == UNCHANGED disk => \A f \in Files : Written(f)' = Written(f)
BY DEF disk, Written

(* Rotating or not, appending an entry appends it to what was written to   *)
(* its file, and to nothing else.                                          *)
LEMMA WrittenAppend ==
    ASSUME TypeOK, NEW e \in Entries, AppendEntry(e)
    PROVE  /\ files' \in [Files -> Seq(Entries)] /\ rotated' \in [Files -> Seq(Entries)]
           /\ unrotated' \in [Files -> Nat]
           /\ \A f \in Files : /\ Written(f) \in Seq(Entries)
                               /\ Written(f)' = IF f = e.file THEN Append(Written(f), e)
                                                ELSE Written(f)
<1> DEFINE g == e.file
<1>1. g \in Files
  BY EntryNumber
<1>2. /\ files \in [Files -> Seq(Entries)] /\ rotated \in [Files -> Seq(Entries)]
      /\ unrotated \in [Files -> Nat]
  BY DEF TypeOK
<1>3. \A f \in Files : Written(f) \in Seq(Entries)
  BY <1>2, ConcatProperties DEF Written
<1>4. CASE RotateTo(g, <<e>>)
  <2>1. <<e>> \in Seq(Entries)
    OBVIOUS
  <2>2. Append(Written(g), e) = Written(g) \o <<e>>
    BY <1>1, <1>3, AppendIsConcat
  <2> HIDE DEF g
  <2> QED  BY <1>1, <1>3, <1>4, <2>1, <2>2, WrittenRotated DEF g
<1>5. CASE ~RotateTo(g, <<e>>)
  <2>1. /\ files' = [files EXCEPT ![g] = Append(files[g], e)] /\ UNCHANGED rotated
        /\ unrotated' = [unrotated EXCEPT ![g] = IF Full(g) THEN @ + 1 ELSE @]
    BY <1>5 DEF AppendEntry
  <2>2. rotated[g] \in Seq(Entries) /\ files[g] \in Seq(Entries)
    BY <1>1, <1>2
  <2>3. Append(files[g], e) \in Seq(Entries)
    BY <2>2, AppendProperties
  <2>4. files' \in [Files -> Seq(Entries)] /\ unrotated' \in [Files -> Nat]
    <3>1. unrotated[g] \in Nat /\ unrotated[g] + 1 \in Nat
      BY <1>1, <1>2
    <3>2. files' \in [Files -> Seq(Entries)]
      BY <1>2, <2>1, <2>3
    <3> HIDE DEF g
    <3>3. unrotated' \in [Files -> Nat]
      BY <1>1, <1>2, <2>1, <3>1
    <3> QED  BY <3>2, <3>3
  <2>5. files'[g] = Append(files[g], e)
    BY <1>1, <1>2, <2>1
  <2>6. Written(g)' = Append(Written(g), e)
    <3> HIDE DEF g
    <3> QED  BY <2>1, <2>2, <2>5, ConcatThenAppend DEF Written
  <2>7. ASSUME NEW f \in Files, f # g PROVE Written(f)' = Written(f)
    BY <1>2, <2>1, <2>7 DEF Written
  <2> QED  BY <1>2, <1>3, <2>1, <2>4, <2>6, <2>7
<1> QED  BY <1>4, <1>5

-----------------------------------------------------------------------------
(* What the variables hold.                                                *)
LEMMA TypedInit == Init => Typed
<1> SUFFICES ASSUME Init PROVE Typed
  OBVIOUS
<1>1. <<>> \in Seq(Entries) /\ Len(<<>>) = 0
  BY EmptySeq
<1>2. recent \in Seq(Entries) /\ Len(recent) <= BufferSize /\ queue \in Seq(Entries)
  BY <1>1, Limits DEF Init
<1>3. files \in [Files -> Seq(Entries)] /\ rotated \in [Files -> Seq(Entries)]
  BY <1>1 DEF Init
<1>4. writer \in [pc : {"off", "get", "write", "done"}, entry : Entries \cup {NoEntry}]
      /\ WriterHolds
  BY DEF Init, At, WriterHolds
<1>5. logged \in 0 .. MaxEntries
  BY Limits DEF Init
<1>6. unrotated \in [Files -> Nat]
  BY DEF Init
<1> QED  BY <1>2, <1>3, <1>4, <1>5, <1>6 DEF Init, Typed, TypeOK

LEMMA TypedStep ==
    ASSUME Typed, [Next]_vars
    PROVE  Typed'
<1> USE DEF Typed, disk
<1>1. CASE Start
  BY <1>1 DEF Start, TypeOK, WriterHolds, At
<1>2. ASSUME NEW f \in Files, Log(f) PROVE Typed'
  <2> DEFINE entry == [no |-> logged + 1, file |-> f]
  <2>1. logged + 1 \in Numbers /\ entry \in Entries
    BY <1>2, Limits DEF Log, TypeOK, Numbers, Entries
  <2> HIDE DEF entry
  <2>2. queue' = Append(queue, entry)
        /\ recent' = IF Len(recent) = BufferSize THEN Append(Tail(recent), entry)
                     ELSE Append(recent, entry)
    BY <1>2 DEF Log, entry
  <2>3. queue' \in Seq(Entries)
    BY <2>1, <2>2, AppendProperties DEF TypeOK
  <2>4. recent' \in Seq(Entries) /\ Len(recent') <= BufferSize
    <3>1. recent \in Seq(Entries) /\ Len(recent) \in Nat /\ Len(recent) <= BufferSize
      BY LenProperties DEF TypeOK
    <3>2. CASE Len(recent) = BufferSize
      <4>1. recent # <<>>
        BY <3>2, Limits, EmptySeq
      <4>2. Tail(recent) \in Seq(Entries) /\ Len(Tail(recent)) = BufferSize - 1
        BY <3>1, <3>2, <4>1, HeadTailProperties
      <4> QED  BY <2>1, <2>2, <3>2, <4>2, Limits, AppendProperties
    <3>3. CASE Len(recent) # BufferSize
      BY <2>1, <2>2, <3>1, <3>3, Limits, AppendProperties
    <3> QED  BY <3>2, <3>3
  <2>5. logged' \in 0 .. MaxEntries
    BY <1>2, Limits DEF Log, TypeOK
  <2> QED  BY <1>2, <2>3, <2>4, <2>5 DEF Log, TypeOK, WriterHolds
<1>3. LoopAgain \in [pc : {"off", "get", "write", "done"}, entry : Entries \cup {NoEntry}]
      /\ LoopAgain.pc # "write" /\ LoopAgain.entry = NoEntry
  BY DEF LoopAgain, At
<1>4. CASE WriterTakes
  <2>1. Head(queue) \in Entries /\ Tail(queue) \in Seq(Entries)
    BY <1>4, HeadTailProperties DEF WriterTakes, TypeOK
  <2> QED  BY <1>4, <2>1 DEF WriterTakes, TypeOK, WriterHolds, At
<1>5. CASE WriterTimesOut
  BY <1>3, <1>5 DEF WriterTimesOut, TypeOK, WriterHolds
<1>6. CASE WriterWrites
  <2>1. /\ files' \in [Files -> Seq(Entries)] /\ rotated' \in [Files -> Seq(Entries)]
        /\ unrotated' \in [Files -> Nat]
    BY <1>6, WrittenAppend DEF WriterWrites, WriterHolds
  <2> QED  BY <1>3, <1>6, <2>1 DEF WriterWrites, TypeOK, WriterHolds
<1>7. CASE WriterFails
  <2>1. writer.entry.no \in Numbers
    BY <1>7, EntryNumber DEF WriterFails, WriterHolds, Numbers
  <2>2. /\ files' \in [Files -> Seq(Entries)] /\ rotated' \in [Files -> Seq(Entries)]
        /\ unrotated' \in [Files -> Nat]
    <3>1. writer.entry.file \in Files
      BY <1>7, EntryNumber DEF WriterFails, WriterHolds
    <3> QED  BY <1>7, <3>1, WrittenRotatedOnly DEF WriterFails, TypeOK
  <2> QED  BY <1>3, <1>7, <2>1, <2>2 DEF WriterFails, TypeOK, WriterHolds
<1>8. CASE StopBegins
  BY <1>8 DEF StopBegins, TypeOK, WriterHolds
<1>9. CASE StopEnds
  <2>1. /\ files' \in [Files -> Seq(Entries)] /\ rotated' \in [Files -> Seq(Entries)]
        /\ unrotated' \in [Files -> Nat]
    <3>1. CASE writer.pc = "write" /\ AppendEntry(writer.entry)
      BY <3>1, WrittenAppend DEF WriterHolds
    <3>2. CASE writer.pc = "write" /\ RotateTo(writer.entry.file, <<>>)
      BY <3>2, WrittenRotatedOnly, EntryNumber DEF WriterHolds
    <3>3. CASE UNCHANGED disk
      BY <3>3 DEF TypeOK
    <3> QED  BY <1>9, <3>1, <3>2, <3>3 DEF StopEnds
  <2> QED  BY <1>9, <2>1 DEF StopEnds, TypeOK, WriterHolds, At
<1>10. CASE UNCHANGED vars
  BY <1>10 DEF vars, TypeOK, WriterHolds
<1> QED  BY <1>1, <1>2, <1>4, <1>5, <1>6, <1>7, <1>8, <1>9, <1>10 DEF Next, WriterStep

(* The type invariant: the memory buffer never holds more than             *)
(* buffer_size entries (`deque(maxlen=buffer_size)`), the ghosts and the   *)
(* writer's hands hold entries that were logged.                           *)
THEOREM LoggerTyped == Spec => [](TypeOK /\ WriterHolds)
<1>1. Init => Typed
  BY TypedInit
<1>2. Typed /\ [Next]_vars => Typed'
  BY TypedStep
<1>3. Typed <=> TypeOK /\ WriterHolds
  BY DEF Typed
<1> QED  BY <1>1, <1>2, <1>3, PTL DEF Spec

-----------------------------------------------------------------------------
(* Entries pass through the writer in the order they were logged in.       *)
LEMMA InLineInit == Init => InLine
<1> SUFFICES ASSUME Init PROVE InLine
  OBVIOUS
<1>1. \A f \in Files : Written(f) = <<>>
  <2>1. <<>> \o <<>> = <<>>
    BY EmptySeq, ConcatEmptySeq
  <2> QED  BY <2>1 DEF Init, Written
<1>2. queue = <<>> /\ writer.pc = "off"
  BY DEF Init, At
<1>3. InOrder(<<>>)
  BY DEF InOrder
<1>4. QueueOrdered /\ HeldBeforeQueue
  BY <1>2, <1>3, NumbersEmpty DEF QueueOrdered, HeldBeforeQueue
<1>5. WrittenBeforeRest /\ FilesInOrder
  BY <1>1, <1>3, NumbersEmpty DEF WrittenBeforeRest, FilesInOrder, InOrder
<1> QED  BY <1>4, <1>5 DEF InLine

(* The writer appends what it holds; whether it goes on is all the same.   *)
LEMMA InLineWrites ==
    ASSUME Typed, InLine, writer.pc = "write", AppendEntry(writer.entry),
           writer'.pc # "write", UNCHANGED <<queue, logged>>
    PROVE  InLine'
<1> DEFINE e == writer.entry
<1>1. e \in Entries /\ e.no <= logged /\ \A n \in NumbersIn(queue) : e.no < n
  BY DEF Typed, WriterHolds, InLine, HeldBeforeQueue
<1> HIDE DEF e
<1>2. \A f \in Files : /\ Written(f) \in Seq(Entries)
                       /\ Written(f)' = IF f = e.file THEN Append(Written(f), e) ELSE Written(f)
  BY <1>1, WrittenAppend DEF Typed, e
<1>3. \A f \in Files : /\ InOrder(Written(f))
                       /\ \A m \in NumbersIn(Written(f)) : m <= logged /\ m < e.no
                       /\ \A m \in NumbersIn(Written(f)), n \in NumbersIn(queue) : m < n
  BY DEF InLine, FilesInOrder, InOrder, WrittenBeforeRest, e
<1>4. \A f \in Files : InOrder(Written(f)')
  BY <1>1, <1>2, <1>3, InOrderAppend
<1>5. \A f \in Files : NumbersIn(Written(f)') \subseteq NumbersIn(Written(f)) \cup {e.no}
  BY <1>1, <1>2, NumbersAppend
<1>6. \A f \in Files : \A m \in NumbersIn(Written(f)') :
         m <= logged /\ \A n \in NumbersIn(queue) : m < n
  BY <1>1, <1>3, <1>5
<1>7. NumbersIn(queue') = NumbersIn(queue) /\ NumbersIn(queue)' = NumbersIn(queue)
      /\ \A f \in Files : NumbersIn(Written(f))' = NumbersIn(Written(f)')
  BY DEF NumbersIn
<1>8. FilesInOrder' /\ WrittenBeforeRest'
  BY <1>4, <1>6, <1>7 DEF FilesInOrder, InOrder, WrittenBeforeRest
<1>9. QueueOrdered' /\ HeldBeforeQueue'
  BY <1>7 DEF InLine, QueueOrdered, HeldBeforeQueue
<1> QED  BY <1>8, <1>9 DEF InLine

(* The writer lets go of what it holds: nothing moves.                     *)
LEMMA InLineKeeps ==
    ASSUME InLine, UNCHANGED <<queue, logged>>, \A f \in Files : Written(f)' = Written(f),
           writer'.pc # "write" \/ UNCHANGED writer
    PROVE  InLine'
<1>1. QueueOrdered' /\ HeldBeforeQueue'
  BY DEF InLine, QueueOrdered, HeldBeforeQueue, InOrder, NumbersIn
<1>2. FilesInOrder' /\ WrittenBeforeRest'
  <2>1. \A f \in Files : Written(f)' = Written(f)
    OBVIOUS
  <2>2. NumbersIn(queue)' = NumbersIn(queue)
        /\ \A f \in Files : NumbersIn(Written(f))' = NumbersIn(Written(f))
    BY <2>1 DEF NumbersIn
  <2>3. FilesInOrder'
    BY <2>1 DEF InLine, FilesInOrder
  <2>4. WrittenBeforeRest'
    BY <2>2 DEF InLine, WrittenBeforeRest
  <2> QED  BY <2>3, <2>4
<1> QED  BY <1>1, <1>2 DEF InLine

LEMMA FailKeeps ==
    ASSUME Typed, WriterFails
    PROVE  \A f \in Files : Written(f)' = Written(f)
<1>1. writer.entry.file \in Files
  BY EntryNumber DEF WriterFails, Typed, WriterHolds
<1> QED  BY <1>1, WrittenRotatedOnly, WrittenKept DEF WriterFails, Typed

LEMMA CancelKeeps ==
    ASSUME Typed, StopEnds
    PROVE  \/ writer.pc = "write" /\ AppendEntry(writer.entry)
           \/ \A f \in Files : Written(f)' = Written(f)
<1>1. writer.pc = "write" => writer.entry.file \in Files
  BY EntryNumber DEF Typed, WriterHolds
<1> QED  BY <1>1, WrittenRotatedOnly, WrittenKept DEF StopEnds, Typed

LEMMA InLineStep ==
    ASSUME Typed, InLine, [Next]_vars
    PROVE  InLine'
<1>0. queue \in Seq(Entries) /\ logged \in Nat
  BY DEF Typed, TypeOK
<1>1. CASE Start
  BY <1>1, InLineKeeps, WrittenKept DEF Start, At
<1>2. ASSUME NEW f \in Files, Log(f) PROVE InLine'
  <2> DEFINE entry == [no |-> logged + 1, file |-> f]
  <2>1. entry \in Entries /\ entry.no = logged + 1
    BY <1>0, <1>2, Limits DEF Log, Numbers, Entries
  <2>2. queue' = Append(queue, entry) /\ logged' = logged + 1
        /\ UNCHANGED <<writer, disk>>
    BY <1>2 DEF Log
  <2> HIDE DEF entry
  <2>3. NumbersIn(queue') = NumbersIn(queue) \cup {logged + 1}
    BY <1>0, <2>1, <2>2, NumbersAppend
  <2>4. NumbersIn(queue) \subseteq Nat
    BY <1>0, NumbersBounded
  <2>5. \A n \in NumbersIn(queue) : n < logged + 1
    BY <1>0, <2>4 DEF InLine, QueueOrdered
  <2>6. QueueOrdered'
    <3>1. InOrder(queue')
      BY <1>0, <2>1, <2>2, <2>5, InOrderAppend DEF InLine, QueueOrdered
    <3>2. \A n \in NumbersIn(queue') : n <= logged'
      BY <1>0, <2>2, <2>3, <2>4, <2>5
    <3> QED  BY <3>1, <3>2 DEF QueueOrdered, InOrder, NumbersIn
  <2>7. writer.pc = "write" => writer.entry.no \in Nat
    BY EntryNumber DEF Typed, WriterHolds
  <2>8. HeldBeforeQueue'
    <3>1. writer.pc = "write" => /\ writer.entry.no <= logged + 1
                                 /\ \A n \in NumbersIn(queue') : writer.entry.no < n
      BY <1>0, <2>3, <2>7 DEF InLine, HeldBeforeQueue
    <3> QED  BY <2>2, <3>1 DEF HeldBeforeQueue, NumbersIn
  <2>9. \A g \in Files : NumbersIn(Written(g)) \subseteq Nat
    <3>1. \A g \in Files : Written(g) \in Seq(Entries)
      BY ConcatProperties DEF Typed, TypeOK, Written
    <3> QED  BY <3>1, NumbersBounded
  <2>10. WrittenBeforeRest'
    <3>1. \A g \in Files : \A m \in NumbersIn(Written(g)) :
             /\ m <= logged + 1
             /\ writer.pc = "write" => m < writer.entry.no
             /\ \A n \in NumbersIn(queue') : m < n
      BY <1>0, <2>3, <2>9 DEF InLine, WrittenBeforeRest
    <3>2. \A g \in Files : Written(g)' = Written(g)
      BY <2>2, WrittenKept
    <3>3. NumbersIn(queue)' = NumbersIn(queue')
          /\ \A g \in Files : NumbersIn(Written(g))' = NumbersIn(Written(g))
      BY <3>2 DEF NumbersIn
    <3> QED  BY <2>2, <3>1, <3>3 DEF WrittenBeforeRest
  <2>11. FilesInOrder'
    BY <2>2, WrittenKept DEF InLine, FilesInOrder
  <2> QED  BY <2>6, <2>8, <2>10, <2>11 DEF InLine
<1>3. LoopAgain.pc # "write"
  BY DEF LoopAgain, At
<1>4. CASE WriterTakes
  <2>1. /\ queue # <<>> /\ writer.pc = "get" /\ queue' = Tail(queue)
        /\ writer'.pc = "write" /\ writer'.entry = Head(queue)
        /\ UNCHANGED <<logged, disk>>
    BY <1>4 DEF WriterTakes, At
  <2>2. NumbersIn(queue) = {Head(queue).no} \cup NumbersIn(queue')
    BY <1>0, <2>1, NumbersTail
  <2>3. InOrder(queue') /\ \A n \in NumbersIn(queue') : Head(queue).no < n
    BY <1>0, <2>1, InOrderTail DEF InLine, QueueOrdered
  <2>4. QueueOrdered' /\ HeldBeforeQueue'
    <3>1. \A n \in NumbersIn(queue') : n <= logged
      BY <2>2 DEF InLine, QueueOrdered
    <3>2. Head(queue).no <= logged
      BY <2>2 DEF InLine, QueueOrdered
    <3> QED  BY <2>1, <2>3, <3>1, <3>2 DEF QueueOrdered, HeldBeforeQueue, InOrder, NumbersIn
  <2>5. WrittenBeforeRest'
    <3>1. \A g \in Files : \A m \in NumbersIn(Written(g)) :
             m <= logged /\ m < Head(queue).no /\ \A n \in NumbersIn(queue') : m < n
      BY <2>2 DEF InLine, WrittenBeforeRest
    <3>2. \A g \in Files : Written(g)' = Written(g)
      BY <2>1, WrittenKept
    <3>3. NumbersIn(queue)' = NumbersIn(queue')
          /\ \A g \in Files : NumbersIn(Written(g))' = NumbersIn(Written(g))
      BY <3>2 DEF NumbersIn
    <3> QED  BY <2>1, <3>1, <3>3 DEF WrittenBeforeRest
  <2>6. FilesInOrder'
    BY <2>1, WrittenKept DEF InLine, FilesInOrder
  <2> QED  BY <2>4, <2>5, <2>6 DEF InLine
<1>5. CASE WriterTimesOut
  BY <1>3, <1>5, InLineKeeps, WrittenKept DEF WriterTimesOut
<1>6. CASE WriterWrites
  BY <1>3, <1>6, InLineWrites DEF WriterWrites
<1>7. CASE WriterFails
  <2>1. \A f \in Files : Written(f)' = Written(f)
    BY <1>7, FailKeeps
  <2> QED  BY <1>3, <1>7, <2>1, InLineKeeps DEF WriterFails
<1>8. CASE StopBegins
  BY <1>8, InLineKeeps, WrittenKept DEF StopBegins
<1>9. CASE StopEnds
  <2>1. writer'.pc # "write" /\ UNCHANGED <<queue, logged>>
    BY <1>9 DEF StopEnds, At
  <2>2. CASE writer.pc = "write" /\ AppendEntry(writer.entry)
    BY <2>1, <2>2, InLineWrites
  <2>3. CASE \A f \in Files : Written(f)' = Written(f)
    BY <2>1, <2>3, InLineKeeps
  <2> QED  BY <1>9, <2>2, <2>3, CancelKeeps
<1>10. CASE UNCHANGED vars
  BY <1>10, InLineKeeps, WrittenKept DEF vars
<1> QED  BY <1>1, <1>2, <1>4, <1>5, <1>6, <1>7, <1>8, <1>9, <1>10 DEF Next, WriterStep

(* Over any number of entries and rotations, each file, read after what    *)
(* was rotated out of it, has its entries in the order they were logged    *)
(* in: the queue, the writer's hands and the files hold them in line.      *)
THEOREM FilesKeepOrder == Spec => []FilesInOrder
<1>1. Init => Typed /\ InLine
  BY TypedInit, InLineInit
<1>2. Typed /\ InLine /\ [Next]_vars => (Typed /\ InLine)'
  BY TypedStep, InLineStep
<1>3. InLine => FilesInOrder
  BY DEF InLine
<1> QED  BY <1>1, <1>2, <1>3, PTL DEF Spec

-----------------------------------------------------------------------------
(* No entry falls between the queue, the writer's hands and the files.     *)
OnFile == UNION {NumbersIn(Written(f)) : f \in Files}
InHand == {writer.entry.no} \ {0}

LEMMA OnFileAppend ==
    ASSUME TypeOK, NEW e \in Entries, AppendEntry(e)
    PROVE  OnFile' = OnFile \cup {e.no}
<1>1. \A f \in Files : /\ Written(f) \in Seq(Entries)
                       /\ Written(f)' = IF f = e.file THEN Append(Written(f), e) ELSE Written(f)
  BY WrittenAppend
<1>2. e.file \in Files
  BY EntryNumber
<1>3. \A f \in Files : NumbersIn(Written(f))' =
         IF f = e.file THEN NumbersIn(Written(f)) \cup {e.no} ELSE NumbersIn(Written(f))
  <2>1. \A f \in Files : NumbersIn(Written(f))' = NumbersIn(Written(f)')
    BY DEF NumbersIn
  <2> QED  BY <1>1, <2>1, NumbersAppend
<1> QED  BY <1>2, <1>3 DEF OnFile

LEMMA OnFileUnchanged ==
    ASSUME \A f \in Files : Written(f)' = Written(f)
    PROVE  OnFile' = OnFile
BY DEF OnFile, NumbersIn

LEMMA NothingLostInit == Init => NothingLost
<1> SUFFICES ASSUME Init PROVE NothingLost
  OBVIOUS
<1>1. <<>> \o <<>> = <<>>
  BY EmptySeq, ConcatEmptySeq
<1>2. \A f \in Files : NumbersIn(Written(f)) = {}
  BY <1>1, NumbersEmpty DEF Init, Written
<1>3. OnFile = {}
  BY <1>2 DEF OnFile
<1>4. writer.entry.no = 0
  BY NoEntryIsNone DEF Init, At
<1>5. logged = 0 /\ failed = {} /\ NumbersIn(queue) = {}
  BY NumbersEmpty DEF Init
<1>6. 1 .. 0 = {}
  OBVIOUS
<1> QED  BY <1>3, <1>4, <1>5, <1>6 DEF NothingLost, OnFile

LEMMA NothingLostStep ==
    ASSUME Typed, NothingLost, [Next]_vars
    PROVE  NothingLost'
<1>1. queue \in Seq(Entries) /\ logged \in Nat
  BY DEF Typed, TypeOK
<1>2. stopper # "stopped" => 1 .. logged = failed \cup OnFile \cup InHand \cup NumbersIn(queue)
  BY DEF NothingLost, OnFile, InHand
<1> SUFFICES ASSUME stopper' # "stopped"
             PROVE  1 .. logged' = failed' \cup OnFile' \cup InHand' \cup NumbersIn(queue')
  <2>1. NumbersIn(queue') = NumbersIn(queue)'
    BY DEF NumbersIn
  <2> QED  BY <2>1 DEF NothingLost, OnFile, InHand
<1>3. writer.pc # "write" => InHand = {}
  BY NoEntryIsNone DEF Typed, WriterHolds, InHand
<1>4. writer.pc = "write" => InHand = {writer.entry.no} /\ writer.entry \in Entries
  BY EntryNumber DEF Typed, WriterHolds, InHand
<1>5. LoopAgain.entry.no = 0
  BY NoEntryIsNone DEF LoopAgain, At
<1>6. CASE Start
  <2>1. InHand' = {} /\ InHand = {}
    BY <1>3, <1>6, NoEntryIsNone DEF Start, At, InHand
  <2> QED  BY <1>2, <1>6, <2>1, OnFileUnchanged, WrittenKept DEF Start
<1>7. ASSUME NEW f \in Files, Log(f)
      PROVE  1 .. logged' = failed' \cup OnFile' \cup InHand' \cup NumbersIn(queue')
  <2> DEFINE entry == [no |-> logged + 1, file |-> f]
  <2>1. entry \in Entries /\ entry.no = logged + 1
    BY <1>1, <1>7, Limits DEF Log, Numbers, Entries
  <2>2. queue' = Append(queue, entry) /\ logged' = logged + 1
        /\ UNCHANGED <<writer, disk, stopper, failed>>
    BY <1>7 DEF Log
  <2> HIDE DEF entry
  <2>3. NumbersIn(queue') = NumbersIn(queue) \cup {logged + 1}
    BY <1>1, <2>1, <2>2, NumbersAppend
  <2>4. 1 .. logged' = (1 .. logged) \cup {logged + 1}
    BY <1>1, <2>2
  <2>5. OnFile' = OnFile /\ InHand' = InHand
    BY <2>2, OnFileUnchanged, WrittenKept DEF InHand
  <2> QED  BY <1>2, <2>2, <2>3, <2>4, <2>5
<1>8. CASE WriterTakes
  <2>1. NumbersIn(queue) = {Head(queue).no} \cup NumbersIn(queue') /\ Head(queue) \in Entries
    BY <1>1, <1>8, NumbersTail, HeadTailProperties DEF WriterTakes
  <2>2. InHand = {} /\ InHand' = {Head(queue).no}
    BY <1>3, <1>8, <2>1, EntryNumber DEF WriterTakes, At, InHand
  <2> QED  BY <1>2, <1>8, <2>1, <2>2, OnFileUnchanged, WrittenKept DEF WriterTakes
<1>9. CASE WriterTimesOut
  <2>1. InHand' = {} /\ InHand = {}
    BY <1>3, <1>5, <1>9 DEF WriterTimesOut, InHand
  <2> QED  BY <1>2, <1>9, <2>1, OnFileUnchanged, WrittenKept DEF WriterTimesOut
<1>10. CASE WriterWrites
  <2>1. InHand' = {}
    BY <1>5, <1>10 DEF WriterWrites, InHand
  <2>2. OnFile' = OnFile \cup {writer.entry.no}
    BY <1>4, <1>10, OnFileAppend DEF WriterWrites, Typed
  <2> QED  BY <1>2, <1>4, <1>10, <2>1, <2>2 DEF WriterWrites
<1>11. CASE WriterFails
  <2>1. InHand' = {}
    BY <1>5, <1>11 DEF WriterFails, InHand
  <2>2. OnFile' = OnFile
    BY <1>11, FailKeeps, OnFileUnchanged
  <2> QED  BY <1>2, <1>4, <1>11, <2>1, <2>2 DEF WriterFails
<1>12. CASE StopBegins
  BY <1>2, <1>12, OnFileUnchanged, WrittenKept DEF StopBegins, InHand
<1>13. CASE StopEnds
  BY <1>13 DEF StopEnds
<1>14. CASE UNCHANGED vars
  BY <1>2, <1>14, OnFileUnchanged, WrittenKept DEF vars, InHand
<1> QED  BY <1>6, <1>7, <1>8, <1>9, <1>10, <1>11, <1>12, <1>13, <1>14 DEF Next, WriterStep

(* Until stop() has returned, every entry a caller handed over is in a     *)
(* file or one rotated out of it, waits in the queue, is in the writer's   *)
(* hands, or its write raised an exception.  Only the cancelled writer of  *)
(* stop() drops one.                                                       *)
THEOREM LoggerLosesNothing == Spec => []NothingLost
<1>1. Init => Typed /\ NothingLost
  BY TypedInit, NothingLostInit
<1>2. Typed /\ NothingLost /\ [Next]_vars => (Typed /\ NothingLost)'
  BY TypedStep, NothingLostStep
<1> QED  BY <1>1, <1>2, PTL DEF Spec

-----------------------------------------------------------------------------
LEMMA RotationBounds ==
    ASSUME Typed, FilesBounded, NEW g \in Files, NEW content \in Seq(Entries),
           Len(content) <= 1, RotateTo(g, content)
    PROVE  FilesBounded'
<1>1. files \in [Files -> Seq(Entries)] /\ unrotated \in [Files -> Nat]
  BY DEF Typed, TypeOK
<1>2. files'[g] = content /\ unrotated'[g] = 0
  BY <1>1 DEF RotateTo
<1>3. \A f \in Files \ {g} : files'[f] = files[f] /\ unrotated'[f] = unrotated[f]
  BY <1>1 DEF RotateTo
<1>4. Len(content) \in Nat
  BY LenProperties
<1> QED  BY <1>2, <1>3, <1>4, Limits DEF FilesBounded

LEMMA AppendBounds ==
    ASSUME Typed, FilesBounded, NEW e \in Entries, AppendEntry(e)
    PROVE  FilesBounded'
<1> DEFINE g == e.file
<1>1. g \in Files /\ files \in [Files -> Seq(Entries)] /\ unrotated \in [Files -> Nat]
  BY EntryNumber DEF Typed, TypeOK
<1>2. CASE RotateTo(g, <<e>>)
  <2>1. <<e>> \in Seq(Entries) /\ Len(<<e>>) <= 1
    OBVIOUS
  <2> QED  BY <1>1, <1>2, <2>1, RotationBounds
<1>3. CASE ~RotateTo(g, <<e>>)
  <2>1. /\ files' = [files EXCEPT ![g] = Append(files[g], e)]
        /\ unrotated' = [unrotated EXCEPT ![g] = IF Full(g) THEN unrotated[g] + 1 ELSE unrotated[g]]
    BY <1>3 DEF AppendEntry
  <2>2. /\ files'[g] = Append(files[g], e)
        /\ unrotated'[g] = IF Full(g) THEN unrotated[g] + 1 ELSE unrotated[g]
    BY <1>1, <2>1
  <2>3. \A f \in Files \ {g} : files'[f] = files[f] /\ unrotated'[f] = unrotated[f]
    BY <1>1, <2>1
  <2>4. /\ files[g] \in Seq(Entries) /\ unrotated[g] \in Nat
        /\ Len(files[g]) <= MaxFileSize + 1 + unrotated[g]
    BY <1>1 DEF FilesBounded
  <2>5. Len(files[g]) \in Nat /\ Len(Append(files[g], e)) = Len(files[g]) + 1
    BY <2>4, LenProperties, AppendProperties
  <2>6. Len(files'[g]) <= MaxFileSize + 1 + unrotated'[g]
    <3>1. CASE Full(g)
      BY <2>2, <2>4, <2>5, <3>1, Limits
    <3>2. CASE ~Full(g)
      BY <2>2, <2>4, <2>5, <3>2, Limits DEF Full
    <3> QED  BY <3>1, <3>2
  <2> QED  BY <2>3, <2>6 DEF FilesBounded
<1> QED  BY <1>2, <1>3

LEMMA FilesBoundedStep ==
    ASSUME Typed, FilesBounded, [Next]_vars
    PROVE  FilesBounded'
<1>1. ASSUME UNCHANGED disk PROVE FilesBounded'
  BY <1>1 DEF disk, FilesBounded
<1>2. ASSUME writer.pc = "write", AppendEntry(writer.entry) PROVE FilesBounded'
  BY <1>2, AppendBounds DEF Typed, WriterHolds
<1>3. ASSUME writer.pc = "write", RotateTo(writer.entry.file, <<>>) PROVE FilesBounded'
  <2>1. writer.entry.file \in Files /\ <<>> \in Seq(Entries) /\ Len(<<>>) <= 1
    BY <1>3, EntryNumber, EmptySeq DEF Typed, WriterHolds
  <2> QED  BY <1>3, <2>1, RotationBounds
<1>4. CASE UNCHANGED vars
  BY <1>1, <1>4 DEF vars
<1> QED  BY <1>1, <1>2, <1>3, <1>4 DEF Next, WriterStep, Start, Log, WriterTakes, WriterTimesOut,
                                       WriterWrites, WriterFails, StopBegins, StopEnds

(* A file holds at most one entry more than the size at which it is        *)
(* rotated, and one for each rotation of it that failed since one worked:  *)
(* the size is looked at before each append and of the file the entry goes *)
(* to, and after a failure as before.                                      *)
THEOREM FilesStayBounded == Spec => []FilesBounded
<1>1. Init => Typed /\ FilesBounded
  BY TypedInit, EmptySeq, Limits DEF Init, FilesBounded
<1>2. Typed /\ FilesBounded /\ [Next]_vars => (Typed /\ FilesBounded)'
  BY TypedStep, FilesBoundedStep
<1> QED  BY <1>1, <1>2, PTL DEF Spec
=============================================================================
