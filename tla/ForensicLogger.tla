--------------------------- MODULE ForensicLogger ---------------------------
(***************************************************************************)
(* The audit log of forensics/logger.py: callers put entries into an       *)
(* unbounded asyncio.Queue and the memory buffer, one writer task appends  *)
(* them to events.jsonl or incidents.jsonl and rotates a file that has     *)
(* grown too big, and stop() drains the queue and cancels the writer.      *)
(* Entries are numbered in the order they are logged.  A rotated file gets *)
(* a name of its own, made from the second it was rotated in; two          *)
(* rotations of a 50 MB file in one second are left out.                   *)
(***************************************************************************)
EXTENDS Naturals, Sequences

CONSTANTS MaxEntries,  \* bounds the entries of a run
          BufferSize,  \* buffer_size
          MaxFileSize  \* max_file_size, in entries

ASSUME LoggerAssumption ==
    {MaxEntries, BufferSize, MaxFileSize} \subseteq Nat \ {0}

Files == {"events", "incidents"}
Numbers == 1 .. MaxEntries
Entries == [no : Numbers, file : Files]

VARIABLES running,  \* _running
          recent,   \* _recent_events, a deque of BufferSize
          queue,    \* _write_queue
          writer,   \* the writer task: where it is, and its entry
          files,    \* the current content of each file
          rotated,  \* what was rotated out of it, oldest first
          unrotated,\* ghost: rotations of it that failed since one worked
          stopper,  \* where stop() is
          logged,   \* ghost: how many entries were logged
          failed    \* ghost: the entries whose write raised an exception

disk == <<files, rotated, unrotated>>
vars == <<running, recent, queue, writer, disk, stopper, logged, failed>>

NoEntry == [no |-> 0, file |-> "events"]
At(pc, entry) == [pc |-> pc, entry |-> entry]

TypeOK ==
    /\ running \in BOOLEAN
    /\ recent \in Seq(Entries) /\ Len(recent) <= BufferSize
    /\ queue \in Seq(Entries)
    /\ writer \in [pc : {"off", "get", "write", "done"}, entry : Entries \cup {NoEntry}]
    /\ files \in [Files -> Seq(Entries)]
    /\ rotated \in [Files -> Seq(Entries)]
    /\ unrotated \in [Files -> Nat]
    /\ stopper \in {"idle", "draining", "stopped"}
    /\ logged \in 0 .. MaxEntries
    /\ failed \subseteq Numbers

Init ==
    /\ running = FALSE
    /\ recent = <<>>
    /\ queue = <<>>
    /\ writer = At("off", NoEntry)
    /\ files = [f \in Files |-> <<>>]
    /\ rotated = [f \in Files |-> <<>>]
    /\ unrotated = [f \in Files |-> 0]
    /\ stopper = "idle"
    /\ logged = 0
    /\ failed = {}

-----------------------------------------------------------------------------
Start ==
    /\ writer.pc = "off" /\ stopper = "idle"
    /\ running' = TRUE
    /\ writer' = At("get", NoEntry)
    /\ UNCHANGED <<recent, queue, disk, stopper, logged, failed>>

(* log_event, log_device_event, log_incident: at any time, also while      *)
(* stop() is draining, for the daemon does not cancel its analysis tasks.  *)
Log(f) ==
    LET entry == [no |-> logged + 1, file |-> f] IN
    /\ logged < MaxEntries
    /\ logged' = logged + 1
    /\ queue' = Append(queue, entry)
    /\ recent' = IF Len(recent) = BufferSize THEN Append(Tail(recent), entry)
                 ELSE Append(recent, entry)
    /\ UNCHANGED <<running, writer, disk, stopper, failed>>

(* `while self._running`, which the writer looks at between two entries    *)
LoopAgain == At(IF running THEN "get" ELSE "done", NoEntry)

WriterTakes ==
    /\ writer.pc = "get" /\ queue # <<>>
    /\ writer' = At("write", Head(queue))
    /\ queue' = Tail(queue)
    /\ UNCHANGED <<running, recent, disk, stopper, logged, failed>>

WriterTimesOut ==
    /\ writer.pc = "get" /\ queue = <<>>
    /\ writer' = LoopAgain
    /\ UNCHANGED <<running, recent, queue, disk, stopper, logged, failed>>

Full(f) == Len(files[f]) > MaxFileSize

(* _rotate_if_needed renames a file over the limit and leaves none, or, so *)
(* far, what is given.                                                     *)
RotateTo(f, content) ==
    /\ Full(f)
    /\ files' = [files EXCEPT ![f] = content]
    /\ rotated' = [rotated EXCEPT ![f] = @ \o files[f]]
    /\ unrotated' = [unrotated EXCEPT ![f] = 0]

AppendEntryBug(entry) ==  \* rotating replaces what was rotated before
    LET f == entry.file IN
    /\ files' = [files EXCEPT ![f] = IF Full(f) THEN <<entry>> ELSE Append(@, entry)]
    /\ rotated' = [rotated EXCEPT ![f] = IF Full(f) THEN files[f] ELSE @]
    /\ UNCHANGED unrotated

AppendEntryUnboundedBug(entry) ==  \* the size of the wrong file is looked at
    LET f == entry.file IN
    \/ Full("incidents") /\ RotateTo(f, <<entry>>)
    \/ /\ ~Full("incidents")
       /\ files' = [files EXCEPT ![f] = Append(@, entry)]
       /\ UNCHANGED <<rotated, unrotated>>

(* _write_entry: rotate if the file is over the limit, then append.  When  *)
(* the rename fails the entry goes to the file as it is.                   *)
AppendEntry(entry) ==
    LET f == entry.file IN
    \/ RotateTo(f, <<entry>>)
    \/ /\ files' = [files EXCEPT ![f] = Append(@, entry)]
       /\ unrotated' = [unrotated EXCEPT ![f] = IF Full(f) THEN @ + 1 ELSE @]
       /\ UNCHANGED rotated

WriterWrites ==
    /\ writer.pc = "write"
    /\ AppendEntry(writer.entry)
    /\ writer' = LoopAgain
    /\ UNCHANGED <<running, recent, queue, stopper, logged, failed>>

WriterFailsBug ==  \* tries the entry again, after the others
    /\ writer.pc = "write"
    /\ queue' = Append(queue, writer.entry)
    /\ writer' = LoopAgain
    /\ UNCHANGED <<running, recent, disk, stopper, logged, failed>>

WriterFailsFatalBug ==  \* the exception ends the writer
    /\ writer.pc = "write"
    /\ failed' = failed \cup {writer.entry.no}
    /\ writer' = At("done", NoEntry)
    /\ UNCHANGED <<running, recent, queue, disk, stopper, logged>>

(* The entry is not written, and the file may have been rotated for it.    *)
WriterFails ==
    /\ writer.pc = "write"
    /\ failed' = failed \cup {writer.entry.no}
    /\ writer' = LoopAgain
    /\ RotateTo(writer.entry.file, <<>>) \/ UNCHANGED disk
    /\ UNCHANGED <<running, recent, queue, stopper, logged>>

StopBegins ==
    /\ running /\ stopper = "idle"
    /\ running' = FALSE
    /\ stopper' = "draining"
    /\ UNCHANGED <<recent, queue, writer, disk, logged, failed>>

(* The queue is empty: cancel the writer.  One that is writing may be      *)
(* cancelled before or after its entry reached the file, or between the    *)
(* rotation and the entry.                                                 *)
StopEnds ==
    /\ stopper = "draining" /\ queue = <<>>
    /\ stopper' = "stopped"
    /\ \/ writer.pc = "write" /\ AppendEntry(writer.entry)
       \/ writer.pc = "write" /\ RotateTo(writer.entry.file, <<>>)
       \/ UNCHANGED disk
    /\ writer' = At("done", NoEntry)
    /\ UNCHANGED <<running, recent, queue, logged, failed>>

WriterStep == WriterTakes \/ WriterTimesOut \/ WriterWrites \/ WriterFails

Next ==
    \/ Start
    \/ \E f \in Files : Log(f)
    \/ WriterStep
    \/ StopBegins \/ StopEnds

(* The writer and stop() are tasks of the event loop; disk errors, entries *)
(* and the request to stop come as they like.                              *)
Spec == Init /\ [][Next]_vars
FairSpec == Spec /\ WF_vars(WriterStep) /\ WF_vars(StopEnds)

-----------------------------------------------------------------------------
Written(f) == rotated[f] \o files[f]
NumbersIn(s) == {s[k].no : k \in DOMAIN s}

(* The files keep the order of the events, over every rotation.            *)
FilesInOrder ==
    \A f \in Files : \A j, k \in DOMAIN Written(f) :
        j < k => Written(f)[j].no < Written(f)[k].no

(* Until stop() has returned, an entry that was logged and whose write did *)
(* not fail is in a file, in the writer's hands or in the queue.           *)
NothingLost ==
    stopper # "stopped" =>
        1 .. logged = failed \cup (UNION {NumbersIn(Written(f)) : f \in Files})
                          \cup ({writer.entry.no} \ {0}) \cup NumbersIn(queue)

(* The limit is looked at before an entry is appended, so a file exceeds   *)
(* it by one entry, and by one more for each rotation of it that failed    *)
(* since the last that worked: a failure is not the end of rotating.       *)
FilesBounded == \A f \in Files : Len(files[f]) <= MaxFileSize + 1 + unrotated[f]

(* As long as nobody stops the logger, what is logged gets written, or its *)
(* write has failed.                                                       *)
EntriesGetOut == running /\ queue # <<>> ~> queue = <<>> \/ ~running

(* "Drain remaining queue": stop() ends its wait for it and returns.       *)
StopReturns == stopper = "draining" ~> stopper = "stopped"
=============================================================================
