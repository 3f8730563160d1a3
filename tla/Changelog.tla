----------------------------- MODULE Changelog -----------------------------
(***************************************************************************)
(* The changelog: a file in which the reflector lists the keys it changed  *)
(* (changelog_callback.go, sized_log_writer.go), and the iterator with     *)
(* which other processes of the host follow it (pkg/event).                *)
(*                                                                         *)
(* The file is removed and created anew when it is full; the iterator      *)
(* reads the file it has open, is told of new files by fsnotify, and finds *)
(* out by the numbers of the entries whether it missed some.  A line is    *)
(* written by one call and counts 1 towards the size of the file; in bytes *)
(* the code counts it without its newline, so that a file may exceed       *)
(* RotateSize by the newline of its last line.                             *)
(***************************************************************************)
EXTENDS Naturals, Sequences, FiniteSetsExt

CONSTANTS RotateSize,    \* entries that fit into a file
          ChanSize,      \* capacity of fileChangelog.events
          MaxEntries,    \* bound: changes to announce
          MaxFailures,   \* bound: errors of the file system, written to or read
          MaxRestarts    \* bound: the reflector builds a new shovel

ASSUME ChangelogAssumption ==
    /\ RotateSize \in Nat \ {0}
    /\ ChanSize \in Nat \ {0}
    /\ MaxEntries \in Nat /\ MaxFailures \in Nat /\ MaxRestarts \in Nat

VARIABLES hist,      \* history: the number each change was given, and by which shovel
          files,     \* the files that were ever at the path, in order
          path,      \* which of them is there now, or 0
          writer,    \* ChangelogCallback and SizedLogWriter
          creates,   \* Create notifications not yet handled
          reader,    \* fileChangelog.read
          chan,      \* fileChangelog.events: changes, as indexes of hist, 0 an error
          iter,      \* the Iterator and what its client has been told
          failures, restarts

vars == <<hist, files, path, writer, creates, reader, chan, iter, failures, restarts>>

(* writer  seq     ChangelogCallback.Seq                                   *)
(*         file    SizedLogWriter._f, or 0                                 *)
(*         busy    in WriteLine with the last change of hist               *)
(* reader  pc      "off"      there is no iterator yet                     *)
(*                 "open"     before os.Open                               *)
(*                 "missing"  there was no file                            *)
(*                 "read"     in readEvents                                *)
(*                 "wait"     at the end of the file                       *)
(*                 "drain"    in readEvents after a Create                 *)
(*                 "flush"    in readEvents after an error of the watcher  *)
(* iter    prev    the previous event, as index of hist, 0 if none         *)
(*         seen    the last change the client knows of, as index of hist   *)
(*         result  of the last Next                                        *)
TypeOK ==
    /\ hist \in Seq([number : Nat \ {0}, shovel : Nat])
    /\ \A i \in DOMAIN files : Len(files[i]) <= RotateSize
    /\ path \in 0..Len(files)
    /\ writer \in [seq : Nat, file : 0..Len(files), busy : BOOLEAN]
    /\ creates \in Nat
    /\ reader \in [pc : {"off", "open", "missing", "read", "wait", "drain", "flush"},
                   file : 0..Len(files), pos : Nat]
    /\ chan \in Seq(0..Len(hist)) /\ Len(chan) <= ChanSize
    /\ iter \in [prev : 0..Len(hist), seen : 0..Len(hist),
                 result : {"none", "first", "event", "outOfSync", "error"}]

Init ==
    /\ hist = << >>
    /\ files = << >>
    /\ path = 0
    /\ writer = [seq |-> 0, file |-> 0, busy |-> FALSE]
    /\ creates = 0
    /\ reader = [pc |-> "off", file |-> 0, pos |-> 0]
    /\ chan = << >>
    /\ iter = [prev |-> 0, seen |-> 0, result |-> "none"]
    /\ failures = 0
    /\ restarts = 0

-----------------------------------------------------------------------------
(* The writer *)

\* ChangelogCallback.LDBWritten: the change gets its number, WriteLine begins.
Change ==
    /\ ~writer.busy
    /\ Len(hist) < MaxEntries
    /\ hist' = Append(hist, [number |-> writer.seq + 1, shovel |-> restarts])
    /\ writer' = [writer EXCEPT !.seq = @ + 1, !.busy = TRUE]
    /\ UNCHANGED <<files, path, creates, reader, chan, iter, failures, restarts>>

\* The watcher of the directory tells a reader that the file was created.
Notified == IF reader.pc = "off" THEN creates ELSE creates + 1

\* SizedLogWriter.File: O_CREATE.
OpenFile ==
    /\ writer.busy
    /\ writer.file = 0
    /\ IF path = 0
       THEN /\ files' = Append(files, << >>)
            /\ path' = Len(files) + 1
            /\ creates' = Notified
       ELSE UNCHANGED <<files, path, creates>>
    /\ writer' = [writer EXCEPT !.file = path']
    /\ UNCHANGED <<hist, reader, chan, iter, failures, restarts>>

\* The line at hand does not fit into the file.
Full == writer.file # 0 /\ Len(files[writer.file]) + 1 > RotateSize

\* SizedLogWriter.Rotate.
Rotate ==
    /\ writer.busy
    /\ Full
    /\ path' = 0
    /\ writer' = [writer EXCEPT !.file = 0]
    /\ UNCHANGED <<hist, files, creates, reader, chan, iter, failures, restarts>>

\* Mutant: rotation one line late.
WriteLineOffByOne ==
    /\ writer.busy
    /\ writer.file # 0
    /\ Len(files[writer.file]) <= RotateSize
    /\ files' = [files EXCEPT ![writer.file] = Append(@, Len(hist))]
    /\ writer' = [writer EXCEPT !.busy = FALSE]
    /\ UNCHANGED <<hist, path, creates, reader, chan, iter, failures, restarts>>

WriteLine ==
    /\ writer.busy
    /\ writer.file # 0
    /\ ~Full
    /\ files' = [files EXCEPT ![writer.file] = Append(@, Len(hist))]
    /\ writer' = [writer EXCEPT !.busy = FALSE]
    /\ UNCHANGED <<hist, path, creates, reader, chan, iter, failures, restarts>>

\* Any error of WriteLine: "Skipped logging change", but its number is used.
\* Rotate may have closed the file and not removed it.
WriteFails ==
    /\ writer.busy
    /\ failures < MaxFailures
    /\ failures' = failures + 1
    /\ \/ writer' = [writer EXCEPT !.busy = FALSE]
       \/ /\ Full
          /\ writer' = [writer EXCEPT !.busy = FALSE, !.file = 0]
    /\ UNCHANGED <<hist, files, path, creates, reader, chan, iter, restarts>>

\* The reflector, or a new process after it was killed in WriteLine, builds a
\* new shovel, with a new callback and log writer.
NewShovel ==
    /\ restarts < MaxRestarts
    /\ restarts' = restarts + 1
    /\ writer' = [seq |-> 0, file |-> 0, busy |-> FALSE]
    /\ UNCHANGED <<hist, files, path, creates, reader, chan, iter, failures>>

-----------------------------------------------------------------------------
(* The reader: fileChangelog *)

\* validate: there is a file; a file being rotated gets a second to appear.
Validated == path # 0

\* NewIterator: without a file it fails; else the watchers are set up.
NewIterator ==
    /\ reader.pc = "off"
    /\ Validated
    /\ reader' = [reader EXCEPT !.pc = "open"]
    /\ UNCHANGED <<hist, files, path, writer, creates, chan, iter, failures, restarts>>

Open ==
    /\ reader.pc = "open"
    /\ reader' = IF path = 0 THEN [reader EXCEPT !.pc = "missing"]
                             ELSE [pc |-> "read", file |-> path, pos |-> 0]
    /\ UNCHANGED <<hist, files, path, writer, creates, chan, iter, failures, restarts>>

\* No file: any notification, or a second, later.
Recheck ==
    /\ reader.pc = "missing"
    /\ reader' = [reader EXCEPT !.pc = "open"]
    /\ creates' \in {creates, IF creates > 0 THEN creates - 1 ELSE 0}
    /\ UNCHANGED <<hist, files, path, writer, chan, iter, failures, restarts>>

Reading == reader.pc \in {"read", "drain", "flush"}

\* The next line is sent to the iterator; send waits for room.
ReadLine ==
    /\ Reading
    /\ reader.pos < Len(files[reader.file])
    /\ Len(chan) < ChanSize
    /\ chan' = Append(chan, files[reader.file][reader.pos + 1])
    /\ reader' = [reader EXCEPT !.pos = @ + 1]
    /\ UNCHANGED <<hist, files, path, writer, creates, iter, failures, restarts>>

\* io.EOF: wait for more, or open the new file.
EndOfFile ==
    /\ reader.pc \in {"read", "drain"}
    /\ reader.pos = Len(files[reader.file])
    /\ reader' = [reader EXCEPT !.pc = IF @ = "read" THEN "wait" ELSE "open"]
    /\ UNCHANGED <<hist, files, path, writer, creates, chan, iter, failures, restarts>>

\* An error is sent to the iterator, and the file is opened anew.
SendError ==
    /\ Len(chan) < ChanSize
    /\ chan' = Append(chan, 0)
    /\ reader' = [reader EXCEPT !.pc = "open"]
    /\ UNCHANGED <<hist, files, path, writer, creates, iter, restarts>>

\* Any other error of reading; in "flush" the one of the watcher is sent.
ReadFails ==
    /\ Reading
    /\ failures < MaxFailures
    /\ failures' = failures + 1
    /\ SendError

\* An error of the watcher: first what is left of the file is read.
WatcherFails ==
    /\ reader.pc = "wait"
    /\ failures < MaxFailures
    /\ failures' = failures + 1
    /\ reader' = [reader EXCEPT !.pc = "flush"]
    /\ UNCHANGED <<hist, files, path, writer, creates, chan, iter, restarts>>

Flushed ==
    /\ reader.pc = "flush"
    /\ reader.pos = Len(files[reader.file])
    /\ SendError
    /\ UNCHANGED failures

\* A Write notification, or a second, later.
Poll ==
    /\ reader.pc = "wait"
    /\ reader' = [reader EXCEPT !.pc = "read"]
    /\ UNCHANGED <<hist, files, path, writer, creates, chan, iter, failures, restarts>>

\* Mutant: a Create is taken for a Write.
CreatedAsWrite ==
    /\ reader.pc = "wait"
    /\ creates > 0
    /\ creates' = creates - 1
    /\ reader' = [reader EXCEPT !.pc = "read"]
    /\ UNCHANGED <<hist, files, path, writer, chan, iter, failures, restarts>>

Created ==
    /\ reader.pc = "wait"
    /\ creates > 0
    /\ creates' = creates - 1
    /\ reader' = [reader EXCEPT !.pc = "drain"]
    /\ UNCHANGED <<hist, files, path, writer, chan, iter, failures, restarts>>

-----------------------------------------------------------------------------
(* Iterator.Next *)

\* Mutant: only numbers that go back are out of sync.
InSyncForward(id) == iter.prev = 0 \/ hist[iter.prev].number < hist[id].number

\* The event is next in number to the previous one, if there is one.
InSync(id) == iter.prev = 0 \/ hist[iter.prev].number = hist[id].number - 1

IteratorNext ==
    /\ chan # << >>
    /\ LET id == Head(chan)
       IN  iter' = IF id = 0 THEN [iter EXCEPT !.result = "error"]
                   ELSE [prev   |-> id,
                         seen   |-> Max({iter.seen, id}),
                         result |-> IF ~InSync(id) THEN "outOfSync"
                                    ELSE IF iter.prev = 0 THEN "first" ELSE "event"]
    /\ chan' = Tail(chan)
    /\ UNCHANGED <<hist, files, path, writer, creates, reader, failures, restarts>>

WriterStep == OpenFile \/ Rotate \/ WriteLine

ReaderStep == NewIterator \/ Open \/ Recheck \/ ReadLine \/ EndOfFile \/ Flushed
              \/ Poll

Next == \/ Change \/ WriterStep \/ WriteFails \/ NewShovel
        \/ ReaderStep \/ Created \/ ReadFails \/ WatcherFails \/ IteratorNext

Spec == Init /\ [][Next]_vars

\* Writer, reader and client go on.  A select that finds a notification again
\* and again takes it in the end.
Fairness ==
    /\ WF_vars(WriterStep)
    /\ WF_vars(ReaderStep)
    /\ SF_vars(Created)
    /\ WF_vars(IteratorNext)

FairSpec == Spec /\ Fairness

-----------------------------------------------------------------------------
(* Properties *)

\* Nothing was lost before an event that is returned without ErrOutOfSync, or
\* the client was told before.
Complete == iter'.seen <= iter.seen + 1

\* An event returned without ErrOutOfSync follows the last change the client
\* knows of: none was lost in between, neither with a file that was removed too
\* early nor with a line that could not be written.
NoSilentLoss == [][iter'.result = "event" => Complete]_iter

\* The same for two events in a row that one shovel announced.
NoSilentLossByShovel ==
    [][/\ iter'.result = "event"
       /\ hist[iter.prev].shovel = hist[iter'.prev].shovel
       => Complete]_iter

\* The iterator keeps up: whatever was rotated away under it, it gets to the
\* last entry of the file again and again, after failed writes and restarts
\* of the reflector too.
IteratorCatchesUp ==
    []<>(path # 0 => \A k \in DOMAIN files[path] : files[path][k] <= iter.seen)
=============================================================================
