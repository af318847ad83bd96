----------------------------- MODULE FileInput -----------------------------
(***************************************************************************)
(* FileInput: the loop over the files of a FileSet, the scanning methods,  *)
(* NextFile, and output which goes back to the file being read.  User code *)
(* is the body of the range loop: it writes, calls NextFile, reads on,     *)
(* breaks or continues.  A file is a sequence of bytes.                    *)
(***************************************************************************)
EXTENDS Integers, Sequences, FiniteSets
LOCAL INSTANCE SequencesExt

CONSTANTS
  Original,       \* the file system: name |-> [kind, text]
  Backup,         \* the name with the backup suffix
  Stdin,          \* the name - of standard input
  Case,           \* how a FileInput is made: see CaseType
  MaxWritten      \* bound: bytes written to a file while it is visited

Names == DOMAIN Original
Method == {"Lines", "Contents", "Scanners", "Readers"}
NoFile == ""    \* what Filename answers without a file

\* What FileSet.Input and CachedInput set up: the entries of the source (err is
\* an error of the directory walk); whether the standard output of the file
\* system is an fs.File; how often it is ranged over; and where faults may happen.
CaseType == [source : Seq([name : Names, err : BOOLEAN]), cached : BOOLEAN,
             method : Method, inplace : BOOLEAN, suffix : BOOLEAN,
             console : BOOLEAN, ranges : Nat, faults : SUBSET {"read", "copy", "create"}]

Kind == {"file", "dir", "missing"}
Byte == UNION {ToSet(Original[n].text) : n \in Names}

ASSUME FileAssumption ==
  /\ Original \in [Names -> [kind : Kind, text : Seq(Byte)]]
  /\ \A n \in Names : Original[n].kind # "file" => Original[n].text = <<>>
  /\ Backup \in [Names -> Names] /\ Stdin \in Names
\* A name with a suffix is another name.
ASSUME CaseAssumption == Case \subseteq CaseType /\ \A c \in Case :
  c.suffix => \A k \in DOMAIN c.source : Backup[c.source[k].name] # c.source[k].name
ASSUME BoundAssumption == MaxWritten \in Nat

VARIABLES
  case,           \* chosen initially
  pc,             \* idle outside of a range loop; yield while its body runs
  index,          \* the entry of this turn or the next (s.index, iter.Pull)
  current, err, advanced, out,    \* fields of FileInput
  last,           \* the body runs for the last time for this file
  reader,         \* [open, at, buf, eof]: bytes of the file read so far, those
                  \* of them a scanner still holds, whether it met the end
  disk,           \* name |-> [kind, text]
  stdout,         \* what became of the shared standard output
  ranges,         \* range loops so far
  visits          \* history: one record for each turn of drive's loop

vars == <<case, pc, index, current, err, advanced, out, last, reader,
          disk, stdout, ranges, visits>>

Ok == "ok"
Source == case.source
Writing(n, state) == [state |-> state, file |-> n]
NoOutput == Writing(NoFile, "none")
Reader(open) == [open |-> open, at |-> 0, buf |-> <<>>, eof |-> FALSE]
NoReader == Reader(FALSE)

\* Bytes written during visit v; originals are told apart by their file.
OutBytes(v, count) == [n \in 1 .. count |-> <<"out", v>>]
This == Len(visits)
Note(field, value) == [visits EXCEPT ![This] = [@ EXCEPT ![field] = value]]

Init ==
  /\ case \in Case
  /\ pc = "idle" /\ index = 1
  /\ current = NoFile /\ err = Ok /\ advanced = FALSE /\ out = NoOutput
  /\ last = FALSE /\ reader = NoReader
  /\ disk = Original /\ stdout = "open" /\ ranges = 0 /\ visits = <<>>

-----------------------------------------------------------------------------
(* The loop over the files: fileInputState.drive. *)

\* A walker pulls its source again in each range loop; a cached one goes on
\* where the former loop stopped.
RangeLoop ==
  /\ pc = "idle" /\ ranges < case.ranges
  /\ ranges' = ranges + 1
  /\ index' = IF case.cached THEN index ELSE 1
  /\ pc' = "next"
  /\ UNCHANGED <<case, current, err, advanced, out, last, reader, disk,
                 stdout, visits>>

\* closeOutput: only the in-place writer is closed.  For the file named - that
\* writer is standard output itself.
closeOutput(o) == NoOutput
Closed(o) == IF o.state = "std" THEN "closed" ELSE stdout

NewVisit(entry) ==
  [range |-> ranges, at |-> index, file |-> entry.name, pre |-> disk[entry.name].text,
   seen |-> <<>>, wrote |-> 0, lost |-> 0, skips |-> 0, failed |-> FALSE, fault |-> FALSE,
   ended |-> "no"]

NextEntry ==
  /\ pc = "next" /\ index <= Len(Source)
  /\ out' = closeOutput(out) /\ stdout' = Closed(out)
  /\ current' = Source[index].name
  /\ err' = IF Source[index].err THEN "walk" ELSE Ok
  /\ advanced' = FALSE
  /\ visits' = Append(visits, NewVisit(Source[index]))
  /\ pc' = "open"
  /\ UNCHANGED <<case, index, last, reader, disk, ranges>>

\* The deferred closeOutput, however the loop is left.
\* Defect: output is closed only when the next file is reached.
LeaveOpen == out' = out /\ stdout' = stdout
Leave == out' = closeOutput(out) /\ stdout' = Closed(out)

NoMoreFiles ==
  /\ pc = "next" /\ index > Len(Source)
  /\ Leave /\ pc' = "idle"
  /\ UNCHANGED <<case, index, current, err, advanced, last, reader,
                 disk, ranges, visits>>

\* The reader is closed when the body of drive returns, except that Readers
\* leaves it to the user and that standard input is shared.
closeReader == IF case.method = "Readers" \/ current = Stdin
               THEN reader ELSE NoReader

\* Defect: NextFile is not taken into account.
SucceedingRegardless == index + 1
Succeeding == IF advanced THEN index ELSE index + 1

Stops == err # Ok /\ ~advanced

AfterBody ==
  /\ pc = "return"
  /\ reader' = closeReader
  /\ visits' = [visits EXCEPT ![This] = [@ EXCEPT !.failed = (err # Ok),
                                                  !.ended = "done"]]
  /\ \/ Stops /\ Leave /\ pc' = "idle" /\ index' = index
     \/ ~Stops /\ index' = Succeeding /\ pc' = "next" /\ UNCHANGED <<out, stdout>>
  /\ UNCHANGED <<case, current, err, advanced, last, disk, ranges>>

-----------------------------------------------------------------------------
(* The scanning methods, which are the body of drive. *)

Openable(n) == disk[n].kind = "file"

\* Runs the body of the user's loop; final says it is the last time for the file.
Yield(final) == pc' = "yield" /\ last' = final

\* The file cannot be used: an error of the walk, a directory, a failed Open.
\* Without a reader: Scanners and Readers hand out nil.
OpenFails ==
  /\ pc = "open" /\ (err # Ok \/ ~Openable(current))
  /\ err' = IF err # Ok THEN err ELSE "open"
  /\ visits' = Note("fault", TRUE)
  /\ reader' = NoReader
  /\ Yield(TRUE)
  /\ UNCHANGED <<case, index, current, advanced, out, disk, stdout, ranges>>

\* Lines, Fields and Tokens scan the file, Contents reads it at once, Scanners
\* and Readers hand the reader out.
Open ==
  /\ pc = "open" /\ err = Ok /\ Openable(current)
  /\ reader' = Reader(TRUE)
  /\ CASE case.method = "Lines" -> pc' = "scan" /\ last' = last
       [] case.method = "Contents" -> pc' = "readall" /\ last' = last
       [] OTHER -> Yield(TRUE)
  /\ UNCHANGED <<case, index, current, err, advanced, out, disk, stdout,
                 ranges, visits>>

ReadAll ==
  /\ pc = "readall"
  /\ reader' = closeReader
  /\ Yield(TRUE)
  /\ \/ visits' = Note("seen", disk[current].text) /\ err' = err
     \/ /\ "read" \in case.faults
        /\ visits' = Note("fault", TRUE) /\ err' = "read"
  /\ UNCHANGED <<case, index, current, advanced, out, disk, stdout, ranges>>

\* How much the file has beyond the position of the reader, as it is by now: an
\* in-place edit truncates the very file which is open for reading.
Unread ==
  IF reader.open /\ Len(disk[current].text) > reader.at
  THEN Len(disk[current].text) - reader.at ELSE 0

\* What a scanner holds after it read so many bytes more.  Once it met the end it
\* does not read again.
Reads == IF reader.eof THEN {0} ELSE 0 .. Unread
Held(more) ==
  reader.buf \o SubSeq(disk[current].text, reader.at + 1, reader.at + more)

\* One token, with the delimiters around it: a beginning of what is held.  The
\* split function decides how much it takes and how much it looks ahead for.
ScanToken ==
  \E more \in Reads, eof \in BOOLEAN : \E size \in 1 .. Len(Held(more)) :
    /\ reader.eof => eof
    /\ eof => reader.eof \/ more = Unread
    /\ reader' = [reader EXCEPT !.at = @ + more, !.eof = eof,
                                !.buf = SubSeq(Held(more), size + 1, Len(Held(more)))]
    /\ visits' = Note("seen", visits[This].seen \o SubSeq(Held(more), 1, size))

\* No more tokens: the rest, if any, is delimiters.
ScanEnd ==
  \E more \in Reads :
    /\ reader.eof \/ more = Unread
    /\ reader' = [reader EXCEPT !.at = @ + more, !.eof = TRUE, !.buf = <<>>]
    /\ visits' = Note("seen", visits[This].seen \o Held(more))

\* A failing Read, or a token too long for the buffer.
ScanFault ==
  /\ ~reader.eof /\ "read" \in case.faults
  /\ visits' = Note("fault", TRUE) /\ reader' = reader

Scan ==
  /\ pc = "scan"
  /\ \/ ScanToken /\ Yield(FALSE) /\ err' = err
     \/ ScanFault /\ Yield(TRUE) /\ err' = "read"
     \/ ScanEnd /\ pc' = "return" /\ UNCHANGED <<err, last>>
  /\ UNCHANGED <<case, index, current, advanced, out, disk, stdout, ranges>>

-----------------------------------------------------------------------------
(* The body of the user's loop. *)

InBody == pc = "yield"

\* Defect: a call of NextFile ends the scan of the current file.
ResumesUnlessAdvanced == ~last /\ ~advanced
Resumes == ~last

Continue ==
  /\ InBody
  /\ pc' = IF Resumes THEN "scan" ELSE "return"
  /\ UNCHANGED <<case, index, current, err, advanced, out, last, reader,
                 disk, stdout, ranges, visits>>

Break ==
  /\ InBody
  /\ Leave /\ reader' = closeReader /\ pc' = "idle"
  /\ visits' = Note("ended", "broken")
  /\ UNCHANGED <<case, index, current, err, advanced, last, disk,
                 ranges>>

\* Reads on from the scanner or reader which was handed out.
UserScan ==
  /\ InBody /\ case.method \in {"Scanners", "Readers"} /\ reader.open
  /\ ScanToken
  /\ UNCHANGED <<case, pc, index, current, err, advanced, out, last,
                 disk, stdout, ranges>>

\* Between range loops a walker is not pulled: there is nothing to advance.
NextIndex == IF pc = "idle" /\ ~case.cached THEN index ELSE index + 1

\* At the end of the source NextFile has no effect any more (the guard on index).
NextFile ==
  /\ InBody \/ (pc = "idle" /\ ranges < case.ranges)
  /\ index <= Len(Source)
  /\ index' = NextIndex
  /\ err' = Ok /\ advanced' = TRUE
  /\ visits' = IF InBody THEN Note("skips", visits[This].skips + 1) ELSE visits
  /\ UNCHANGED <<case, pc, current, out, last, reader, disk, stdout,
                 ranges>>

-----------------------------------------------------------------------------
(* Output, newOutput and inplaceWriter: the first write opens the file.      *)

\* What is written to the shared standard output is not followed.
UserWrite ==
  /\ InBody /\ case.inplace
  /\ out' = IF out.state = "none" THEN Writing(current, "lazy") ELSE out
  /\ pc' = IF out.state # "none" THEN "write"
           ELSE IF case.suffix THEN "backup" ELSE "create"
  /\ UNCHANGED <<case, index, current, err, advanced, last, reader, disk,
                 stdout, ranges, visits>>

\* Defect: what failed is tried again.
Retry == out' = [out EXCEPT !.state = "failed"] /\ pc' = pc
\* Every write to this output fails with the error of its first.
Refuse == out' = [out EXCEPT !.state = "failed"] /\ pc' = "yield"

\* backupFile closes what it read from: for - this is standard output, too.
CloseSource == stdout' = IF out.file = Stdin THEN "closed" ELSE stdout

\* backupFile opens the file and creates the backup.
BackupFile ==
  /\ pc = "backup"
  /\ \/ disk[out.file].kind = "missing" /\ Refuse /\ UNCHANGED <<disk, stdout>>
     \/ /\ disk[out.file].kind # "missing" /\ "create" \in case.faults
        /\ Refuse /\ CloseSource /\ UNCHANGED disk
     \/ /\ disk[out.file].kind # "missing"
        /\ disk' = [disk EXCEPT ![Backup[out.file]] = [kind |-> "file", text |-> <<>>]]
        /\ pc' = "copy" /\ UNCHANGED <<out, stdout>>
  /\ UNCHANGED <<case, index, current, err, advanced, last, reader,
                 ranges, visits>>

\* backupFile copies the file; a directory cannot be read.
\* Defect: an error of the copy is dropped.
CopyUnchecked ==
  /\ pc = "copy" /\ CloseSource
  /\ disk' = [disk EXCEPT ![Backup[out.file]].text =
                 IF "copy" \in case.faults THEN <<>> ELSE disk[out.file].text]
  /\ pc' = "create"
  /\ UNCHANGED <<case, index, current, err, advanced, out, last, reader,
                 ranges, visits>>
CopyToBackup ==
  /\ pc = "copy" /\ CloseSource
  /\ \/ disk[out.file].kind = "dir" /\ Refuse /\ UNCHANGED disk
     \/ "copy" \in case.faults /\ Refuse /\ UNCHANGED disk
     \/ /\ disk[out.file].kind = "file"
        /\ disk' = [disk EXCEPT ![Backup[out.file]].text = disk[out.file].text]
        /\ pc' = "create" /\ out' = out
  /\ UNCHANGED <<case, index, current, err, advanced, last, reader,
                 ranges, visits>>

\* inplaceWriter.begin: Create truncates the file; - is standard output, which
\* OpenFile asserts to be an fs.File.
Truncate ==
  /\ pc = "create"
  /\ \/ disk[out.file].kind = "dir" /\ Refuse /\ UNCHANGED <<disk, visits>>
     \/ "create" \in case.faults /\ Refuse /\ UNCHANGED <<disk, visits>>
     \/ /\ out.file = Stdin /\ case.console
        /\ out' = [out EXCEPT !.state = "std"] /\ pc' = "write" /\ UNCHANGED <<disk, visits>>
     \/ /\ out.file = Stdin /\ ~case.console
        /\ pc' = "panicked" /\ UNCHANGED <<out, disk, visits>>
     \/ /\ out.file # Stdin /\ disk[out.file].kind # "dir"
        /\ disk' = [disk EXCEPT ![out.file] = [kind |-> "file", text |-> <<>>]]
        /\ out' = [out EXCEPT !.state = "file"] /\ pc' = "write"
        /\ visits' = Note("lost", Unread)
  /\ UNCHANGED <<case, index, current, err, advanced, last, reader,
                 stdout, ranges>>

\* A write may be empty, and one that fails puts less on the file than it should.
Write ==
  /\ pc = "write"
  /\ \/ /\ out.state = "file"
        /\ \E count \in 0 .. MaxWritten - visits[This].wrote :
             /\ disk' = [disk EXCEPT ![out.file].text = @ \o OutBytes(This, count)]
             /\ visits' = Note("wrote", visits[This].wrote + count)
     \/ out.state # "file" /\ UNCHANGED <<disk, visits>>
  /\ pc' = "yield"
  /\ UNCHANGED <<case, index, current, err, advanced, out, last, reader,
                 stdout, ranges>>

-----------------------------------------------------------------------------
Loop == RangeLoop \/ NextEntry \/ NoMoreFiles \/ AfterBody \/ OpenFails \/ Open
        \/ ReadAll \/ Scan
Output == BackupFile \/ CopyToBackup \/ Truncate \/ Write
User == Continue \/ Break \/ UserScan \/ NextFile \/ UserWrite
Next == Loop \/ Output \/ User

\* The loop and the output are plain calls; the body of the user returns.
Fairness == WF_vars(Loop) /\ WF_vars(Output) /\ WF_vars(Continue)
Spec == Init /\ [][Next]_vars /\ Fairness

-----------------------------------------------------------------------------
AnyByte == Byte \cup ({"out"} \X Nat)
VisitType ==
  [range : 1 .. case.ranges, at : Nat, file : Names, pre : Seq(AnyByte),
   seen : Seq(AnyByte), wrote : 0 .. MaxWritten, lost : Nat, skips : Nat, failed : BOOLEAN,
   fault : BOOLEAN, ended : {"no", "done", "broken"}]

\* Types of the fields of FileInput and of the state of its source and reader.
TypeOK ==
  /\ case \in CaseType
  /\ pc \in {"idle", "next", "open", "readall", "scan", "yield", "return", "backup",
             "copy", "create", "write", "panicked"}
  /\ index \in 1 .. Len(Source) + 1 /\ current \in Names \cup {NoFile}
  /\ err \in {Ok, "walk", "open", "read"} /\ advanced \in BOOLEAN /\ last \in BOOLEAN
  /\ out.state \in {"none", "lazy", "file", "std", "failed"}
  /\ out.file \in Names \cup {NoFile}
  /\ reader.open \in BOOLEAN /\ reader.at \in Nat
  /\ reader.buf \in Seq(AnyByte) /\ reader.eof \in BOOLEAN
  /\ ranges \in 0 .. case.ranges
  /\ DOMAIN disk = Names /\ stdout \in {"open", "closed"}
  /\ \A v \in 1 .. This : visits[v] \in VisitType

\* Files are visited in the order of the source, one per iteration and one more
\* for each further call of NextFile: none is visited twice or passed over.  The
\* loop goes past a file with an error only if NextFile was called for it (the
\* doc of Err).
EntriesInOrder ==
  \A v \in 1 .. This - 1 :
    visits[v + 1].range = visits[v].range =>
      /\ visits[v + 1].at = visits[v].at + (IF visits[v].skips = 0 THEN 1 ELSE visits[v].skips)
      /\ visits[v].failed => visits[v].skips > 0

Complete(v) ==
  visits[v].ended = "done" /\ ~visits[v].failed /\ ~visits[v].fault
  /\ case.method \in {"Lines", "Contents"}

\* Who gets to the end of a file has seen the file as it was when it was opened,
\* also if NextFile was called meanwhile and if it is edited in place, unless the
\* first write truncated it before the scanner had read all of it.  The scanner
\* goes on in the new text where the old one ended: nothing of that is seen
\* unless more is written than the file held, and never more than the excess.
WholeFileSeen ==
  \A v \in 1 .. This :
    Complete(v) /\ visits[v].lost = 0 =>
      \E extra \in 0 .. visits[v].wrote :
        /\ visits[v].seen = visits[v].pre \o OutBytes(v, extra)
        /\ extra > 0 => /\ case.method = "Lines"
                        /\ extra + Len(visits[v].pre) <= visits[v].wrote

\* A later visit u which may change the file of visit v or its backup.
Disturbs(u, v) ==
  {visits[u].file, Backup[visits[u].file]} \cap {visits[v].file, Backup[visits[v].file]} # {}

\* With a backup suffix, what a file held when it was visited is at every moment
\* in the file or in its backup, whatever fails and wherever the program stops.
\* And what is written during a visit is what its file holds in the end: the
\* output of one file never lands in another.
EditsAreKept ==
  \A v \in 1 .. This :
    (\A u \in v + 1 .. This : ~Disturbs(u, v)) =>
      LET file == visits[v].file
      IN /\ case.inplace /\ case.suffix =>
              visits[v].pre \in {disk[file].text, disk[Backup[file]].text}
         /\ visits[v].wrote > 0 =>
              disk[file].text = OutBytes(v, visits[v].wrote)

\* Between range loops neither an output nor a reader of the loop is left open.
NothingLeftOpen ==
  pc = "idle" => /\ out = NoOutput
                 /\ reader.open => case.method = "Readers" \/ current = Stdin

\* A range loop ends if its body returns and does not write for ever: what is
\* written in place is read again beyond the end of the original, so a body which
\* writes more than it reads would never see the end.
EveryRangeEnds ==
  <>[][~UserWrite]_vars => (pc # "idle" ~> pc \in {"idle", "panicked"})
=============================================================================
