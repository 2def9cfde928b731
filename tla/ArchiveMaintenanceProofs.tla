----------------------- MODULE ArchiveMaintenanceProofs -----------------------
(* Proofs about the recorder alone, for any streams, programs, lines and     *)
(* bounds, and about the recorder and the maintenance task together.         *)
(*                                                                           *)
(* The invariant of the recorder is a conjunction over streams: a stream     *)
(* shares nothing with another but the mutex, because every path it writes   *)
(* bears its name.  The lemma OtherStreams therefore settles each step for   *)
(* all streams but one, and, with it, whatever the collector removes         *)
(* meanwhile.  The composition reuses that invariant, shows that every step  *)
(* is one of IndexSpec, so that what SearchIndexProofs proves of any archive *)
(* holds of this one, and adds what the two parts owe each other.            *)
EXTENDS ArchiveMaintenance, SearchIndexProofs

-----------------------------------------------------------------------------
(* The inductive invariant of one stream.                                    *)

(* Where the file being opened is known.                                     *)
Opened == {"created", "first_text", "first_line"}

(* Where the line in hand is not yet in a file.                              *)
Unwritten == {"received", "text", "opening", "created", "first_text"}

(* The handler's line, its time and the paths it and the store hold.         *)
PathsKnown(s) ==
  /\ Handling(s) => rec[s].line \in Lines /\ rec[s].at <= clock
  /\ rec[s].pc \in Opened => /\ rec[s].path \in Path
                             /\ rec[s].path.stream = s
                             /\ rec[s].path.at <= clock
  /\ rec[s].pc \notin Opened => rec[s].path = Null
  /\ active[s] # Null => active[s].path.stream = s /\ active[s].path.at <= clock

OneProgram(lines) ==
  lines # <<>> => /\ IsEit(lines[1])
                  /\ \A i \in DOMAIN lines : lines[i].program = lines[1].program

(* What the upstream has sent since an EIT is of its program, and so is what *)
(* is on air until the connection ends.                                      *)
SinceOneProgram(s) ==
  /\ OneProgram(since[s])
  /\ rec[s].pc # "offline" /\ since[s] # <<>> => since[s][1].program = onair[s]

OpenFileHolds(p, lines, partial) ==
  files[p].state = "open" => files[p].lines = lines /\ files[p].partial = partial

(* The active file has received exactly these lines.                         *)
ActiveHolds(s, lines, partial) ==
  IF active[s] = Null THEN lines = <<>>
  ELSE /\ lines # <<>>
       /\ active[s].program = lines[1].program
       /\ OpenFileHolds(active[s].path, lines, partial)

(* The line in hand is the one line of `since` that the active file lacks.   *)
Appending(s, partial) ==
  /\ active[s] # Null
  /\ \E lines \in Seq(Lines) :
       since[s] = Append(lines, rec[s].line) /\ ActiveHolds(s, lines, partial)

(* The line in hand begins a recording.                                      *)
Starting(s) ==
  /\ IsEit(rec[s].line)
  /\ since[s] = <<rec[s].line>>
  /\ active[s] # Null => active[s].program # rec[s].line.program

LineAccounted(s) ==
  LET pc == rec[s].pc
      line == rec[s].line
  IN  /\ pc = "idle" => ActiveHolds(s, since[s], FALSE)
      /\ pc = "received" =>
           \/ ~IsJson(line) /\ ActiveHolds(s, since[s], FALSE)
           \/ IsJson(line) /\ ~IsEit(line) /\ active[s] = Null /\ since[s] = <<>>
           \/ IsJson(line) /\ (Starting(s) \/ Appending(s, FALSE))
      /\ pc = "text" => IsJson(line) /\ Appending(s, TRUE)
      /\ pc = "opening" \/ pc \in Opened => Starting(s)
      /\ pc = "created" => OpenFileHolds(rec[s].path, <<>>, FALSE)
      /\ pc = "first_text" => OpenFileHolds(rec[s].path, <<>>, TRUE)
      /\ pc = "first_line" => OpenFileHolds(rec[s].path, <<line>>, FALSE)

FileOwned(p) ==
  files[p].state = "open" =>
    /\ p.at <= clock
    /\ \/ active[p.stream] # Null /\ active[p.stream].path = p
       \/ rec[p.stream].path = p /\ Handling(p.stream)

(* A file has no more lines than were received.                              *)
LinesHeard(p) ==
  /\ Len(files[p].lines) <= heard
  /\ rec[p.stream].pc \in Unwritten => Len(files[p].lines) < heard

FilesSound(s) ==
  \A p \in Path : p.stream = s =>
    OneProgram(files[p].lines) /\ FileOwned(p) /\ LinesHeard(p)

StreamInv(s) == PathsKnown(s) /\ SinceOneProgram(s) /\ LineAccounted(s) /\ FilesSound(s)

StoreInv == StoreTypeOK /\ \A s \in Streams : StreamInv(s)
-----------------------------------------------------------------------------
(* Lemmas about sequences of lines and about files.                          *)

LEMMA LinesTyped ==
  ASSUME NEW f \in File
  PROVE  /\ f.lines \in Seq(Lines) /\ Len(f.lines) \in Nat
         /\ f.state \in {"unused", "open", "closed", "removed"} /\ f.partial \in BOOLEAN
BY LenProperties DEF File

LEMMA OneProgramAppend ==
  ASSUME NEW lines \in Seq(Lines), NEW line \in Lines, OneProgram(lines),
         IF lines = <<>> THEN IsEit(line) ELSE line.program = lines[1].program
  PROVE  /\ OneProgram(Append(lines, line)) /\ Append(lines, line) # <<>>
         /\ Append(lines, line)[1] = IF lines = <<>> THEN line ELSE lines[1]
<1> DEFINE longer == Append(lines, line)
<1>1. /\ longer \in Seq(Lines) /\ Len(longer) = Len(lines) + 1 /\ longer # <<>>
      /\ \A i \in 1..Len(lines) : longer[i] = lines[i]
      /\ longer[Len(lines) + 1] = line
      /\ Len(lines) \in Nat /\ DOMAIN lines = 1..Len(lines) /\ DOMAIN longer = 1..Len(longer)
  BY AppendProperties, LenProperties
<1> HIDE DEF longer
<1>2. CASE lines = <<>>
  <2>1. Len(lines) = 0
    BY <1>2
  <2> QED BY <1>1, <1>2, <2>1 DEF OneProgram, longer
<1>3. CASE lines # <<>>
  <2>1. Len(lines) > 0
    BY <1>1, <1>3, EmptySeq
  <2>2. longer[1] = lines[1]
    BY <1>1, <2>1
  <2>3. \A i \in DOMAIN longer : i \in DOMAIN lines \/ i = Len(lines) + 1
    BY <1>1
  <2>4. \A i \in DOMAIN longer : longer[i].program = longer[1].program
    BY <1>1, <1>3, <2>2, <2>3 DEF OneProgram
  <2> QED BY <1>1, <1>3, <2>2, <2>4 DEF OneProgram, longer
<1> QED BY <1>2, <1>3

LEMMA OneProgramPrefix ==
  ASSUME NEW lines \in Seq(Lines), OneProgram(lines), NEW n \in 0..Len(lines)
  PROVE  /\ OneProgram(SubSeq(lines, 1, n))
         /\ SubSeq(lines, 1, n) \in Seq(Lines) /\ Len(SubSeq(lines, 1, n)) = n
<1> DEFINE prefix == SubSeq(lines, 1, n)
<1>1. \A i \in 1..n : lines[i] \in Lines
  BY ElementOfSeq, LenProperties
<1>2. /\ prefix \in Seq(Lines) /\ Len(prefix) = n /\ DOMAIN prefix = 1..n
      /\ \A i \in 1..n : prefix[i] = lines[i]
  BY <1>1, SubSeqProperties, LenProperties, 1 \in Int
<1> HIDE DEF prefix
<1>3. prefix # <<>> => n > 0 /\ lines # <<>> /\ 1 \in 1..n
  BY <1>2, EmptySeq, LenProperties
<1>4. 1..n \subseteq DOMAIN lines
  BY LenProperties
<1> QED BY <1>2, <1>3, <1>4 DEF OneProgram, prefix

-----------------------------------------------------------------------------
(* A stream is not disturbed by what others do: other streams' handlers, the *)
(* clock, and a collector that removes files.                                *)
LEMMA OtherStreams ==
  ASSUME StoreTypeOK, NEW s \in Streams, StreamInv(s),
         rec'[s] = rec[s], active'[s] = active[s], since'[s] = since[s], onair'[s] = onair[s],
         clock' \in Nat, clock' >= clock, heard' \in Nat, heard' >= heard,
         \A p \in Path : p.stream = s => files'[p] \in {files[p], Removed}
  PROVE  StreamInv(s)'
<1> USE StoreAssumption, ArchiveAssumption
<1>1. clock \in Nat /\ heard \in Nat /\ (Handling(s) => rec[s].at \in Nat)
  BY DEF StoreTypeOK
<1>2. \A p \in Path : p.at \in Nat
  BY DEF Path
<1>3. PathsKnown(s)'
  <2>1. active[s] # Null => active[s].path \in Path
    BY DEF StoreTypeOK
  <2> QED BY <1>1, <1>2, <2>1 DEF StreamInv, PathsKnown, Handling
<1>4. SinceOneProgram(s)'
  BY DEF StreamInv, SinceOneProgram, OneProgram
<1>5. ASSUME NEW p \in Path, p.stream = s, NEW lines, NEW partial, OpenFileHolds(p, lines, partial)
      PROVE  OpenFileHolds(p, lines, partial)'
  BY <1>5 DEF OpenFileHolds, Removed
<1>6. ASSUME NEW lines, NEW partial, ActiveHolds(s, lines, partial)
      PROVE  ActiveHolds(s, lines, partial)'
  <2>1. active[s] # Null => active[s].path \in Path /\ active[s].path.stream = s
    BY DEF StoreTypeOK, StreamInv, PathsKnown
  <2> QED BY <1>5, <1>6, <2>1 DEF ActiveHolds
<1>7. LineAccounted(s)'
  <2>1. \A partial \in BOOLEAN : Appending(s, partial) => Appending(s, partial)'
    BY <1>6 DEF Appending
  <2>2. Starting(s) => Starting(s)'
    BY DEF Starting
  <2>3. ActiveHolds(s, since[s], FALSE) => ActiveHolds(s, since[s], FALSE)'
    BY <1>6
  <2>4. rec[s].pc \in Opened => rec[s].path \in Path /\ rec[s].path.stream = s
    BY DEF StreamInv, PathsKnown
  <2> QED
    BY <1>5, <2>1, <2>2, <2>3, <2>4 DEF StreamInv, LineAccounted, Opened
<1>8. FilesSound(s)'
  <2> SUFFICES ASSUME NEW p \in Path, p.stream = s
               PROVE  (OneProgram(files[p].lines) /\ FileOwned(p) /\ LinesHeard(p))'
    BY DEF FilesSound
  <2>1. OneProgram(files[p].lines) /\ FileOwned(p) /\ LinesHeard(p)
    BY DEF StreamInv, FilesSound
  <2>2. files[p] \in File
    BY DEF StoreTypeOK
  <2>3. CASE files'[p] = files[p]
    BY <1>1, <1>2, <2>1, <2>2, <2>3, LinesTyped
       DEF OneProgram, FileOwned, LinesHeard, Handling
  <2>4. CASE files'[p] = Removed
    BY <1>1, <2>1, <2>2, <2>4, LinesTyped
       DEF OneProgram, FileOwned, LinesHeard, Removed
  <2> QED BY <2>3, <2>4
<1> QED BY <1>3, <1>4, <1>7, <1>8 DEF StreamInv

-----------------------------------------------------------------------------
(* What the steps of one stream do, and that they touch no other stream.     *)

LEMMA WriteEffect ==
  ASSUME files \in [Path -> File], NEW p \in Path, NEW f \in File, Write(p, f)
  PROVE  /\ files' \in [Path -> File]
         /\ \A q \in Path : files'[q] = IF q = p /\ files[q].state = "open" THEN f ELSE files[q]
BY DEF Write

LEMMA FileOps ==
  ASSUME NEW f \in File, NEW line \in Lines
  PROVE  /\ WithText(f) \in File /\ WithNewline(f, line) \in File /\ Closed(f) \in File
         /\ WithText(f).lines = f.lines /\ WithText(f).partial
         /\ WithText(f).state = f.state
         /\ WithNewline(f, line).lines = Append(f.lines, line)
         /\ ~WithNewline(f, line).partial /\ WithNewline(f, line).state = f.state
         /\ Len(Append(f.lines, line)) = Len(f.lines) + 1
         /\ Closed(f).lines = f.lines /\ Closed(f).state # "open"
         /\ Closed(f).partial = f.partial
<1>1. f.lines \in Seq(Lines)
  BY DEF File
<1>2. Append(f.lines, line) \in Seq(Lines) /\ Len(Append(f.lines, line)) = Len(f.lines) + 1
  BY <1>1, AppendProperties
<1>3. /\ WithText(f) \in File /\ WithText(f).lines = f.lines
      /\ WithText(f).partial /\ WithText(f).state = f.state
  BY DEF File, WithText
<1>4. /\ WithNewline(f, line) \in File /\ WithNewline(f, line).lines = Append(f.lines, line)
      /\ ~WithNewline(f, line).partial /\ WithNewline(f, line).state = f.state
  BY <1>2 DEF File, WithNewline
<1>5. /\ Closed(f) \in File /\ Closed(f).lines = f.lines /\ Closed(f).state # "open"
      /\ Closed(f).partial = f.partial
  BY DEF File, Closed
<1> QED BY <1>2, <1>3, <1>4, <1>5

LEMMA TextFile ==
  ASSUME NEW f \in File PROVE WithText(f) \in File
BY DEF File, WithText

LEMMA NewlineFile ==
  ASSUME NEW f \in File, NEW line \in Lines
  PROVE  /\ WithNewline(f, line) \in File /\ WithNewline(f, line).lines = Append(f.lines, line)
         /\ WithNewline(f, line).partial = FALSE /\ WithNewline(f, line).state = f.state
         /\ Len(Append(f.lines, line)) = Len(f.lines) + 1
<1>1. WithNewline(f, line).partial = FALSE
  BY DEF File, WithNewline
<1> QED BY <1>1, FileOps

LEMMA NewlineEffect ==
  ASSUME files \in [Path -> File], NEW p \in Path, NEW line \in Lines,
         Write(p, WithNewline(files[p], line))
  PROVE  \A q \in Path :
           /\ files'[q].state = files[q].state
           /\ q = p /\ files[q].state = "open" =>
                /\ files'[q].lines = Append(files[q].lines, line)
                /\ files'[q].partial = FALSE
                /\ Len(files'[q].lines) = Len(files[q].lines) + 1
           /\ ~(q = p /\ files[q].state = "open") => files'[q] = files[q]
<1>1. PICK f \in File : f = files[p]
  OBVIOUS
<1>2. PICK g \in File : /\ g = WithNewline(f, line) /\ g.lines = Append(f.lines, line)
                        /\ g.partial = FALSE /\ g.state = f.state
                        /\ Len(g.lines) = Len(f.lines) + 1
  BY NewlineFile
<1>3. \A q \in Path : files'[q] = IF q = p /\ files[q].state = "open" THEN g ELSE files[q]
  BY <1>1, <1>2, WriteEffect
<1> QED BY <1>1, <1>2, <1>3

LEMMA CreatedFile ==
  Created \in File /\ Created.state = "open" /\ Created.lines = <<>> /\ ~Created.partial
BY DEF Created, File

LEMMA CloseEffect ==
  ASSUME files \in [Path -> File], NEW s \in Streams, files' = CloseActive(s)
  PROVE  /\ files' \in [Path -> File]
         /\ \A q \in Path :
              files'[q] = IF active[s] # Null /\ q = active[s].path THEN Closed(files[q]) ELSE files[q]
<1>1. \A q \in Path : Closed(files[q]) \in File
  BY DEF Closed, File
<1> QED BY <1>1 DEF CloseActive

Handler == [pc : HandlerSteps \cup {"idle", "failed", "offline"},
            line : Lines \cup {Null}, at : Nat, path : Path \cup {Null}]

LEMMA GoEffect ==
  ASSUME rec \in [Streams -> Handler], NEW s \in Streams, NEW pc \in HandlerSteps, Go(s, pc)
  PROVE  /\ rec' \in [Streams -> Handler]
         /\ \A t \in Streams \ {s} : rec'[t] = rec[t]
         /\ rec'[s].pc = pc /\ rec'[s].line = rec[s].line
         /\ rec'[s].at = rec[s].at /\ rec'[s].path = rec[s].path
<1>1. rec[s] \in Handler
  OBVIOUS
<1>2. /\ [rec[s] EXCEPT !.pc = pc] \in Handler
      /\ [rec[s] EXCEPT !.pc = pc].pc = pc
      /\ [rec[s] EXCEPT !.pc = pc].line = rec[s].line
      /\ [rec[s] EXCEPT !.pc = pc].at = rec[s].at
      /\ [rec[s] EXCEPT !.pc = pc].path = rec[s].path
  BY <1>1 DEF Handler
<1>3. rec' = [rec EXCEPT ![s] = [rec[s] EXCEPT !.pc = pc]]
  BY DEF Go
<1> DEFINE h == [rec[s] EXCEPT !.pc = pc]
<1> HIDE DEF h
<1>4. rec' = [rec EXCEPT ![s] = h] /\ h \in Handler
  BY <1>2, <1>3 DEF h
<1>5. rec'[s] = h /\ rec' \in [Streams -> Handler] /\ \A t \in Streams \ {s} : rec'[t] = rec[t]
  BY <1>4
<1> QED BY <1>2, <1>5 DEF h

LEMMA CreatedStep ==
  ASSUME NEW h \in Handler, NEW p \in Path
  PROVE  /\ [h EXCEPT !.pc = "created", !.path = p] \in Handler
         /\ [h EXCEPT !.pc = "created", !.path = p]
              = [pc |-> "created", line |-> h.line, at |-> h.at, path |-> p]
<1>1. [h EXCEPT !.pc = "created"]
        = [pc |-> "created", line |-> h.line, at |-> h.at, path |-> h.path]
  BY DEF Handler
<1>2. [[pc |-> "created", line |-> h.line, at |-> h.at, path |-> h.path] EXCEPT !.path = p]
        = [pc |-> "created", line |-> h.line, at |-> h.at, path |-> p]
  OBVIOUS
<1>3. [pc |-> "created", line |-> h.line, at |-> h.at, path |-> p] \in Handler
  BY DEF Handler, HandlerSteps
<1>4. [h EXCEPT !.pc = "created", !.path = p] = [[h EXCEPT !.pc = "created"] EXCEPT !.path = p]
  OBVIOUS
<1> QED BY <1>1, <1>2, <1>3, <1>4

LEMMA IdleTyped == Idle \in Handler /\ Idle.pc = "idle" /\ Idle.path = Null
BY DEF Idle, Handler

LEMMA OfflineTyped == Offline \in Handler /\ Offline.pc = "offline" /\ Offline.path = Null
<1>1. Offline = [pc |-> "offline", line |-> Null, at |-> 0, path |-> Null]
  BY DEF Offline, Idle
<1> QED BY <1>1 DEF Handler

LEMMA StoreTypeIs ==
  StoreTypeOK <=>
    /\ files \in [Path -> File] /\ clock \in Seconds
    /\ active \in [Streams -> [program : Programs, path : Path] \cup {Null}]
    /\ dirty \in [Path -> Nat] /\ rec \in [Streams -> Handler]
    /\ onair \in [Streams -> Programs] /\ since \in [Streams -> Seq(Lines)]
    /\ heard \in 0..MaxHeard /\ faults \in 0..MaxFaults
BY DEF StoreTypeOK, Handler

(* A stream's step changes no other stream's part of the store.              *)
Apart(s) ==
  /\ \A t \in Streams \ {s} :
       /\ rec'[t] = rec[t] /\ active'[t] = active[t]
       /\ since'[t] = since[t] /\ onair'[t] = onair[t]
  /\ \A p \in Path : p.stream # s => files'[p] = files[p]
  /\ clock' = clock /\ heard' >= heard

LEMMA HandleStepType ==
  ASSUME StoreInv, NEW s \in Streams, HandleStep(s)
  PROVE  StoreTypeOK' /\ Apart(s) /\ heard' = heard /\ onair' = onair
<1> USE StoreAssumption, ArchiveAssumption
<1>1. /\ StoreTypeOK /\ PathsKnown(s) /\ LineAccounted(s)
      /\ files \in [Path -> File] /\ clock \in Seconds
      /\ active \in [Streams -> [program : Programs, path : Path] \cup {Null}]
      /\ dirty \in [Path -> Nat] /\ rec \in [Streams -> Handler]
      /\ onair \in [Streams -> Programs] /\ since \in [Streams -> Seq(Lines)]
      /\ heard \in 0..MaxHeard /\ faults \in 0..MaxFaults
  BY StoreTypeIs DEF StoreInv, StreamInv
<1>2. active[s] # Null => active[s].path \in Path /\ active[s].path.stream = s
  BY <1>1 DEF PathsKnown
<1> DEFINE Rest == UNCHANGED <<clock, onair, since, heard>>
           Files == /\ files' \in [Path -> File]
                    /\ \A q \in Path : q.stream # s => files'[q] = files[q]
           Rec == rec' \in [Streams -> Handler] /\ \A t \in Streams \ {s} : rec'[t] = rec[t]
           Active == /\ active' \in [Streams -> [program : Programs, path : Path] \cup {Null}]
                     /\ \A t \in Streams \ {s} : active'[t] = active[t]
           Dirty == dirty' \in [Path -> Nat]
           Faults == faults' \in 0..MaxFaults
<1>3. ASSUME Rest, Files, Rec, Active, Dirty, Faults
      PROVE  StoreTypeOK' /\ Apart(s) /\ heard' = heard /\ onair' = onair
  BY <1>1, <1>3, SMTT(60) DEF StoreTypeOK, Handler, Apart
<1>4. \A h \in Handler : rec' = [rec EXCEPT ![s] = h] => Rec
  BY <1>1
<1>5. /\ UNCHANGED files => Files
      /\ UNCHANGED active => Active
      /\ UNCHANGED dirty => Dirty
      /\ UNCHANGED faults => Faults
  BY <1>1
<1>6. \A p \in Path : MarkDirty(p) => Dirty
  BY <1>1 DEF MarkDirty
<1>7. ASSUME NEW p \in Path, p.stream = s, NEW f \in File, Write(p, f)
      PROVE  Files
  BY <1>1, <1>7, WriteEffect
<1>8. files' = CloseActive(s) => Files
  BY <1>1, <1>2, CloseEffect
<1>9. \A pc \in HandlerSteps : Go(s, pc) => Rec
  BY <1>1, GoEffect
<1>18. \A p \in Path : files[p] \in File
  BY <1>1
<1> HIDE DEF Rest, Files, Rec, Active, Dirty, Faults
<1>10. ASSUME SkipInvalidJson(s) \/ SkipNoProgram(s)
       PROVE  Rest /\ Files /\ Rec /\ Active /\ Dirty /\ Faults
  BY <1>4, <1>5, <1>10, IdleTyped DEF SkipInvalidJson, SkipNoProgram, Rest
<1>11. CASE StartProgram(s)
  BY <1>3, <1>5, <1>9, <1>11 DEF StartProgram, Rest, HandlerSteps
<1>12. CASE AppendText(s)
  <2>1. active[s] # Null
    BY <1>12 DEF AppendText, Appends
  <2>2. WithText(files[active[s].path]) \in File
    BY <1>18, <1>2, <2>1, TextFile
  <2>3. Files
    BY <1>2, <1>7, <1>12, <2>1, <2>2 DEF AppendText
  <2> QED BY <1>3, <1>5, <1>9, <1>12, <2>3 DEF AppendText, Rest, HandlerSteps
<1>13. CASE AppendNewline(s)
  <2>1. active[s] # Null /\ rec[s].line \in Lines
    BY <1>1, <1>13 DEF AppendNewline, LineAccounted, Appending, PathsKnown, Handling, HandlerSteps
  <2>2. WithNewline(files[active[s].path], rec[s].line) \in File
    BY <1>18, <1>2, <2>1, FileOps
  <2>3. Files /\ Dirty
    BY <1>2, <1>6, <1>7, <1>13, <2>1, <2>2 DEF AppendNewline
  <2> QED BY <1>3, <1>4, <1>5, <1>13, <2>3, IdleTyped DEF AppendNewline, Rest
<1>14. CASE OpenArchiveFile(s)
  <2>1. PICK p \in Path : /\ FreeName(s, p)
                          /\ files' = [files EXCEPT ![p] = Created]
                          /\ rec' = [rec EXCEPT ![s].pc = "created", ![s].path = p]
    BY <1>14 DEF OpenArchiveFile
  <2>2. Files
    BY <1>1, <2>1, CreatedFile DEF Files, FreeName
  <2>3. [rec[s] EXCEPT !.pc = "created", !.path = p] \in Handler
    BY <1>1, CreatedStep
  <2>4. [[rec[s] EXCEPT !.pc = "created"] EXCEPT !.path = p] \in Handler
    BY <2>3
  <2>5. Rec
    BY <1>4, <2>1, <2>4
  <2> QED BY <1>3, <1>5, <1>14, <2>2, <2>5 DEF OpenArchiveFile, Rest
<1>15. ASSUME WriteFirstText(s) \/ WriteFirstNewline(s)
       PROVE  Rest /\ Files /\ Rec /\ Active /\ Dirty /\ Faults
  <2>1. rec[s].path \in Path /\ rec[s].path.stream = s /\ rec[s].line \in Lines
    BY <1>1, <1>15 DEF WriteFirstText, WriteFirstNewline, PathsKnown, Opened, Handling, HandlerSteps
  <2>2. /\ WithNewline(files[rec[s].path], rec[s].line) \in File
        /\ WithText(files[rec[s].path]) \in File
    BY <1>18, <2>1, FileOps
  <2>3. Files
    BY <1>7, <1>15, <2>1, <2>2 DEF WriteFirstText, WriteFirstNewline
  <2> QED BY <1>5, <1>9, <1>15, <2>3 DEF WriteFirstText, WriteFirstNewline, Rest, HandlerSteps
<1>16. CASE ReplaceActive(s)
  <2>1. rec[s].path \in Path /\ rec[s].line \in Lines /\ rec[s].line.program \in Programs
    BY <1>1, <1>16 DEF ReplaceActive, PathsKnown, Opened, Handling, HandlerSteps
  <2>2. Active
    BY <1>1, <1>16, <2>1 DEF ReplaceActive, Active
  <2>3. Files /\ Dirty
    BY <1>6, <1>8, <1>16, <2>1 DEF ReplaceActive
  <2> QED BY <1>3, <1>4, <1>5, <1>16, <2>2, <2>3, IdleTyped DEF ReplaceActive, Rest
<1>17. CASE HandlerFails(s)
  <2>1. \A q \in Path : Closed(files[q]) \in File
    BY <1>1 DEF Closed, File
  <2>2. \A q \in Path : q = rec[s].path => q.stream = s
    BY <1>1 DEF PathsKnown
  <2>3. Files
    BY <1>1, <1>17, <2>1, <2>2 DEF HandlerFails, Files
  <2>4. [Idle EXCEPT !.pc = "failed"] \in Handler
    BY DEF Idle, Handler
  <2>5. Faults
    BY <1>1, <1>17 DEF HandlerFails, Faults
  <2> QED BY <1>3, <1>4, <1>5, <1>17, <2>3, <2>4, <2>5 DEF HandlerFails, Rest
<1> QED
  BY <1>3, <1>10, <1>11, <1>12, <1>13, <1>14, <1>15, <1>16, <1>17 DEF HandleStep

LEMMA UpstreamStepType ==
  ASSUME StoreInv, NEW s \in Streams, UpstreamStep(s)
  PROVE  StoreTypeOK' /\ Apart(s)
<1> USE StoreAssumption, ArchiveAssumption
<1>1. /\ StoreTypeOK /\ PathsKnown(s)
      /\ files \in [Path -> File] /\ clock \in Seconds
      /\ active \in [Streams -> [program : Programs, path : Path] \cup {Null}]
      /\ dirty \in [Path -> Nat] /\ rec \in [Streams -> Handler]
      /\ onair \in [Streams -> Programs] /\ since \in [Streams -> Seq(Lines)]
      /\ heard \in 0..MaxHeard /\ faults \in 0..MaxFaults
  BY StoreTypeIs DEF StoreInv, StreamInv
<1>2. active[s] # Null => active[s].path \in Path /\ active[s].path.stream = s
  BY <1>1 DEF PathsKnown
<1>3. ASSUME NEW h \in Handler, rec' = [rec EXCEPT ![s] = h]
      PROVE  rec' \in [Streams -> Handler] /\ \A t \in Streams \ {s} : rec'[t] = rec[t]
  BY <1>1, <1>3
<1>4. ASSUME NEW line \in Lines, Receive(s, line)
      PROVE  StoreTypeOK' /\ Apart(s)
  <2>1. since' \in [Streams -> Seq(Lines)] /\ \A t \in Streams \ {s} : since'[t] = since[t]
    <3>1. Append(since[s], line) \in Seq(Lines) /\ <<line>> \in Seq(Lines)
      BY <1>1, AppendProperties
    <3>2. PICK lines \in Seq(Lines) : since' = [since EXCEPT ![s] = lines]
      BY <1>1, <1>4, <3>1 DEF Receive
    <3> QED BY <1>1, <3>2
  <2>2. clock \in Nat /\ line.program \in Programs
    BY <1>1
  <2>3. [pc |-> "received", line |-> line, at |-> clock, path |-> Null] \in Handler
    BY <2>2 DEF Handler, HandlerSteps
  <2>4. rec' \in [Streams -> Handler] /\ \A t \in Streams \ {s} : rec'[t] = rec[t]
    BY <1>3, <1>4, <2>3 DEF Receive
  <2>5. onair' \in [Streams -> Programs] /\ \A t \in Streams \ {s} : onair'[t] = onair[t]
    BY <1>1, <1>4, <2>2 DEF Receive
  <2> QED BY <1>1, <1>4, <2>1, <2>4, <2>5 DEF Receive, StoreTypeOK, Handler, Apart
<1>5. CASE Disconnect(s)
  <2>1. rec' \in [Streams -> Handler] /\ \A t \in Streams \ {s} : rec'[t] = rec[t]
    BY <1>3, <1>5, OfflineTyped DEF Disconnect
  <2> QED BY <1>1, <1>5, <2>1 DEF Disconnect, StoreTypeOK, Handler, Apart
<1>6. CASE ProgramChangesUnheard(s)
  <2>1. PICK k \in Programs : onair' = [onair EXCEPT ![s] = k]
    BY <1>6 DEF ProgramChangesUnheard
  <2> QED BY <1>1, <1>6, <2>1 DEF ProgramChangesUnheard, StoreTypeOK, Apart
<1>7. CASE Connect(s)
  <2>1. /\ files' \in [Path -> File]
        /\ \A q \in Path : q.stream # s => files'[q] = files[q]
    BY <1>1, <1>2, <1>7, CloseEffect DEF Connect
  <2>2. rec' \in [Streams -> Handler] /\ \A t \in Streams \ {s} : rec'[t] = rec[t]
    BY <1>3, <1>7, IdleTyped DEF Connect
  <2>3. /\ since' \in [Streams -> Seq(Lines)]
        /\ \A t \in Streams \ {s} : since'[t] = since[t] /\ active'[t] = active[t]
        /\ active' \in [Streams -> [program : Programs, path : Path] \cup {Null}]
    BY <1>1, <1>7 DEF Connect
  <2> QED BY <1>1, <1>7, <2>1, <2>2, <2>3 DEF Connect, StoreTypeOK, Handler, Apart
<1> QED BY <1>4, <1>5, <1>6, <1>7 DEF UpstreamStep

-----------------------------------------------------------------------------
(* What a step of a stream does to its own part.                             *)

(* The facts about one stream that every step below begins with.             *)
LEMMA StreamFacts ==
  ASSUME StoreInv, NEW s \in Streams
  PROVE  /\ PathsKnown(s) /\ SinceOneProgram(s) /\ LineAccounted(s) /\ FilesSound(s)
         /\ rec \in [Streams -> Handler] /\ rec[s] \in Handler
         /\ active \in [Streams -> [program : Programs, path : Path] \cup {Null}]
         /\ active[s] # Null => /\ active[s].path \in Path /\ active[s].path.stream = s
                                /\ active[s].path.at <= clock
                                /\ active[s].program \in Programs
         /\ since \in [Streams -> Seq(Lines)] /\ since[s] \in Seq(Lines)
         /\ files \in [Path -> File] /\ \A p \in Path : files[p] \in File
         /\ clock \in Nat /\ heard \in Nat /\ onair \in [Streams -> Programs]
         /\ \A line \in Lines : line.program \in Programs
<1> USE StoreAssumption, ArchiveAssumption
<1>1. /\ StoreTypeOK /\ PathsKnown(s) /\ SinceOneProgram(s) /\ LineAccounted(s)
      /\ FilesSound(s)
  BY DEF StoreInv, StreamInv
<1>2. active[s] # Null => /\ active[s].path \in Path /\ active[s].path.stream = s
                          /\ active[s].path.at <= clock
                          /\ active[s].program \in Programs
  BY <1>1 DEF StoreTypeOK, PathsKnown
<1>3. clock \in Seconds /\ heard \in 0..MaxHeard
  BY <1>1 DEF StoreTypeOK
<1>4. clock \in Nat /\ heard \in Nat
  BY <1>3
<1>5. \A line \in Lines : line.program \in Programs
  OBVIOUS
<1>6. rec \in [Streams -> Handler] /\ onair \in [Streams -> Programs]
  BY <1>1, StoreTypeIs
<1> QED BY <1>1, <1>2, <1>4, <1>5, <1>6 DEF StoreTypeOK

LEMMA EitIsJson == \A line \in Lines : IsEit(line) => IsJson(line)
BY DEF IsEit, IsJson

LEMMA AppendingSameProgram ==
  ASSUME NEW s \in Streams, since[s] \in Seq(Lines), OneProgram(since[s]),
         rec[s].line \in Lines, NEW partial, Appending(s, partial)
  PROVE  /\ since[s] # <<>> /\ active[s] # Null
         /\ active[s].program = rec[s].line.program
         /\ active[s].program = since[s][1].program
<1>1. PICK lines \in Seq(Lines) :
        since[s] = Append(lines, rec[s].line) /\ ActiveHolds(s, lines, partial)
  BY DEF Appending
<1>2. lines # <<>> /\ active[s] # Null /\ active[s].program = lines[1].program
  BY <1>1 DEF ActiveHolds, Appending
<1>3. /\ Len(lines) \in Nat /\ Len(lines) > 0 /\ Len(since[s]) = Len(lines) + 1
      /\ since[s][1] = lines[1] /\ since[s][Len(lines) + 1] = rec[s].line
      /\ since[s] # <<>> /\ DOMAIN since[s] = 1..Len(since[s])
  <2>1. Len(lines) \in Nat /\ Len(lines) > 0
    BY <1>2, EmptySeq, LenProperties
  <2> QED BY <1>1, <2>1, AppendProperties, LenProperties
<1>4. since[s][Len(lines) + 1].program = since[s][1].program
  BY <1>3 DEF OneProgram
<1> QED BY <1>2, <1>3, <1>4

LEMMA SkipStream ==
  ASSUME StoreInv, NEW s \in Streams, SkipInvalidJson(s) \/ SkipNoProgram(s)
  PROVE  StreamInv(s)'
<1> USE StreamFacts, StoreAssumption
<1>1. /\ rec'[s] = Idle /\ rec[s].pc = "received" /\ rec[s].line \in Lines
      /\ UNCHANGED <<files, clock, active, onair, since, heard>>
  BY DEF SkipInvalidJson, SkipNoProgram, PathsKnown, Handling, HandlerSteps
<1>2. ActiveHolds(s, since[s], FALSE)
  <2>1. CASE SkipInvalidJson(s)
    BY <1>1, <2>1 DEF SkipInvalidJson, LineAccounted
  <2>2. CASE SkipNoProgram(s)
    <3>1. since[s] = <<>> /\ active[s] = Null
      BY <1>1, <2>2 DEF SkipNoProgram, LineAccounted, Starting, Appending
    <3> QED BY <3>1 DEF ActiveHolds
  <2> QED BY <2>1, <2>2
<1>3. PathsKnown(s)'
  BY <1>1, IdleTyped DEF PathsKnown, Handling, HandlerSteps, Opened
<1>4. SinceOneProgram(s)'
  BY <1>1 DEF SinceOneProgram, OneProgram
<1>5. LineAccounted(s)'
  BY <1>1, <1>2, IdleTyped DEF LineAccounted, ActiveHolds, OpenFileHolds, Opened
<1>6. FilesSound(s)'
  <2>1. rec[s].path = Null
    BY <1>1 DEF PathsKnown, Opened
  <2> QED BY <1>1, <2>1, IdleTyped
          DEF FilesSound, FileOwned, LinesHeard, OneProgram, Handling, HandlerSteps, Unwritten
<1> QED BY <1>3, <1>4, <1>5, <1>6 DEF StreamInv

LEMMA StartStream ==
  ASSUME StoreInv, NEW s \in Streams, StartProgram(s)
  PROVE  StreamInv(s)'
<1> USE StreamFacts, StoreAssumption
<1>1. /\ rec[s].pc = "received" /\ rec[s].line \in Lines /\ IsEit(rec[s].line) /\ ~Appends(s)
      /\ UNCHANGED <<files, clock, active, onair, since, heard>> /\ Go(s, "opening")
  BY DEF StartProgram, PathsKnown, Handling, HandlerSteps
<1>2. /\ rec'[s].pc = "opening" /\ rec'[s].line = rec[s].line
      /\ rec'[s].at = rec[s].at /\ rec'[s].path = rec[s].path
  BY <1>1, GoEffect DEF HandlerSteps
<1>3. Starting(s)
  <2>1. Starting(s) \/ Appending(s, FALSE)
    BY <1>1, EitIsJson DEF LineAccounted
  <2>2. ~Appending(s, FALSE)
    BY <1>1, EitIsJson, AppendingSameProgram DEF Appends, SinceOneProgram
  <2> QED BY <2>1, <2>2
<1>4. PathsKnown(s)'
  BY <1>1, <1>2 DEF PathsKnown, Handling, HandlerSteps, Opened
<1>5. SinceOneProgram(s)'
  BY <1>1, <1>2 DEF SinceOneProgram, OneProgram
<1>6. LineAccounted(s)'
  BY <1>1, <1>2, <1>3 DEF LineAccounted, Starting, Opened
<1>7. FilesSound(s)'
  BY <1>1, <1>2 DEF FilesSound, FileOwned, LinesHeard, OneProgram, Handling, HandlerSteps, Unwritten
<1> QED BY <1>4, <1>5, <1>6, <1>7 DEF StreamInv

LEMMA AppendTextStream ==
  ASSUME StoreInv, NEW s \in Streams, AppendText(s)
  PROVE  StreamInv(s)'
<1> USE StreamFacts, StoreAssumption
<1>1. /\ rec[s].pc = "received" /\ rec[s].line \in Lines /\ Appends(s) /\ active[s] # Null
      /\ IsJson(rec[s].line)
      /\ UNCHANGED <<clock, active, onair, since, heard>> /\ Go(s, "text")
      /\ Write(active[s].path, WithText(files[active[s].path]))
  BY DEF AppendText, Appends, PathsKnown, Handling, HandlerSteps
<1>2. /\ rec'[s].pc = "text" /\ rec'[s].line = rec[s].line
      /\ rec'[s].at = rec[s].at /\ rec'[s].path = rec[s].path
  BY <1>1, GoEffect DEF HandlerSteps
<1>3. \A q \in Path :
        /\ files'[q].lines = files[q].lines /\ files'[q].state = files[q].state
        /\ q = active[s].path /\ files[q].state = "open" => files'[q].partial
  <2>1. WithText(files[active[s].path]) \in File
    BY <1>1, TextFile
  <2>2. \A q \in Path : files'[q] = IF q = active[s].path /\ files[q].state = "open"
                                     THEN WithText(files[active[s].path]) ELSE files[q]
    BY <1>1, <2>1, WriteEffect
  <2>3. \A f \in File : /\ WithText(f).lines = f.lines /\ WithText(f).partial
                        /\ WithText(f).state = f.state
    BY DEF WithText, File
  <2> QED BY <1>1, <2>2, <2>3
<1>4. Appending(s, FALSE)
  BY <1>1 DEF LineAccounted, Starting, Appends
<1>5. PathsKnown(s)'
  BY <1>1, <1>2 DEF PathsKnown, Handling, HandlerSteps, Opened
<1>6. SinceOneProgram(s)'
  BY <1>1, <1>2 DEF SinceOneProgram, OneProgram
<1>7. Appending(s, TRUE)'
  <2>1. PICK lines \in Seq(Lines) :
          since[s] = Append(lines, rec[s].line) /\ ActiveHolds(s, lines, FALSE)
    BY <1>4 DEF Appending
  <2>2. active[s].path \in Path
    BY <1>1
  <2>3. files[active[s].path].state = "open" =>
          files'[active[s].path].partial \in BOOLEAN /\ files'[active[s].path].partial
    BY <1>3, <2>2, HandleStepType DEF StoreTypeOK, File, HandleStep
  <2>4. ActiveHolds(s, lines, TRUE)'
    BY <1>1, <1>3, <2>1, <2>2, <2>3 DEF ActiveHolds, OpenFileHolds
  <2> QED BY <1>1, <1>2, <2>1, <2>4 DEF Appending
<1>8. LineAccounted(s)'
  BY <1>1, <1>2, <1>7 DEF LineAccounted, Opened
<1>9. FilesSound(s)'
  <2> SUFFICES ASSUME NEW p \in Path, p.stream = s
               PROVE  (OneProgram(files[p].lines) /\ FileOwned(p) /\ LinesHeard(p))'
    BY DEF FilesSound
  <2>1. OneProgram(files[p].lines) /\ FileOwned(p) /\ LinesHeard(p)
    BY DEF FilesSound
  <2>2. FileOwned(p)'
    BY <1>1, <1>2, <1>3, <2>1 DEF FileOwned, Handling, HandlerSteps
  <2>3. LinesHeard(p)' /\ OneProgram(files[p].lines)'
    BY <1>1, <1>2, <1>3, <2>1 DEF LinesHeard, OneProgram, Unwritten
  <2> QED BY <2>2, <2>3
<1> QED BY <1>5, <1>6, <1>8, <1>9 DEF StreamInv

LEMMA AppendNewlineStream ==
  ASSUME StoreInv, NEW s \in Streams, AppendNewline(s)
  PROVE  StreamInv(s)'
<1> USE StreamFacts, StoreAssumption
<1>1. /\ rec[s].pc = "text" /\ rec[s].line \in Lines /\ rec[s].path = Null
      /\ Appending(s, TRUE) /\ rec'[s] = Idle
      /\ UNCHANGED <<clock, active, onair, since, heard>>
      /\ Write(active[s].path, WithNewline(files[active[s].path], rec[s].line))
  BY DEF AppendNewline, LineAccounted, PathsKnown, Handling, HandlerSteps, Opened
<1>2. PICK lines \in Seq(Lines) :
        since[s] = Append(lines, rec[s].line) /\ ActiveHolds(s, lines, TRUE)
  BY <1>1 DEF Appending
<1>3. /\ since[s] # <<>> /\ active[s] # Null /\ active[s].path \in Path
      /\ active[s].program = since[s][1].program
  BY <1>1, AppendingSameProgram DEF SinceOneProgram
<1>4. \A q \in Path :
        /\ files'[q].state = files[q].state
        /\ IF q = active[s].path /\ files[q].state = "open"
             THEN /\ files'[q].lines = since[s] /\ files'[q].partial = FALSE
                  /\ Len(since[s]) = Len(files[q].lines) + 1
             ELSE files'[q] = files[q]
  <2>1. PICK p \in Path, line \in Lines :
          /\ p = active[s].path /\ line = rec[s].line /\ files \in [Path -> File]
          /\ Write(p, WithNewline(files[p], line))
    BY <1>1, <1>3
  <2> HIDE StreamFacts
  <2>2. \A q \in Path :
          /\ files'[q].state = files[q].state
          /\ q = p /\ files[q].state = "open" =>
               /\ files'[q].lines = Append(files[q].lines, line)
               /\ files'[q].partial = FALSE
               /\ Len(files'[q].lines) = Len(files[q].lines) + 1
          /\ ~(q = p /\ files[q].state = "open") => files'[q] = files[q]
    BY <2>1, NewlineEffect
  <2>3. files[active[s].path].state = "open" => files[active[s].path].lines = lines
    BY <1>2, <1>3 DEF ActiveHolds, OpenFileHolds
  <2> QED BY <1>2, <2>1, <2>2, <2>3
<1>5. PathsKnown(s)'
  BY <1>1, IdleTyped DEF PathsKnown, Handling, HandlerSteps, Opened
<1>6. SinceOneProgram(s)'
  BY <1>1, IdleTyped DEF SinceOneProgram, OneProgram
<1>7. LineAccounted(s)'
  <2>1. ActiveHolds(s, since[s], FALSE)'
    BY <1>1, <1>3, <1>4 DEF ActiveHolds, OpenFileHolds
  <2> QED BY <1>1, <2>1, IdleTyped DEF LineAccounted, Opened
<1>8. FilesSound(s)'
  <2> SUFFICES ASSUME NEW p \in Path, p.stream = s
               PROVE  (OneProgram(files[p].lines) /\ FileOwned(p) /\ LinesHeard(p))'
    BY DEF FilesSound
  <2>1. OneProgram(files[p].lines) /\ FileOwned(p) /\ LinesHeard(p) /\ files[p] \in File
    BY DEF FilesSound
  <2>2. FileOwned(p)'
    BY <1>1, <1>4, <2>1 DEF FileOwned
  <2>3. CASE p = active[s].path /\ files[p].state = "open"
    <3>1. OneProgram(files[p].lines)'
      BY <1>4, <2>3 DEF SinceOneProgram, OneProgram
    <3>2. LinesHeard(p)'
      BY <1>1, <1>4, <2>1, <2>3, LinesTyped, IdleTyped DEF LinesHeard, Unwritten
    <3> QED BY <2>2, <3>1, <3>2
  <2>4. CASE ~(p = active[s].path /\ files[p].state = "open")
    BY <1>1, <1>4, <2>1, <2>2, <2>4, IdleTyped DEF LinesHeard, OneProgram, Unwritten
  <2> QED BY <2>3, <2>4
<1> QED BY <1>5, <1>6, <1>7, <1>8 DEF StreamInv

LEMMA OpenStream ==
  ASSUME StoreInv, NEW s \in Streams, OpenArchiveFile(s)
  PROVE  StreamInv(s)'
<1> USE StreamFacts, StoreAssumption
<1>1. PICK p \in Path : /\ FreeName(s, p)
                        /\ files' = [files EXCEPT ![p] = Created]
                        /\ rec' = [rec EXCEPT ![s].pc = "created", ![s].path = p]
  BY DEF OpenArchiveFile
<1>2. /\ rec[s].pc = "opening" /\ rec[s].line \in Lines /\ rec[s].path = Null
      /\ rec[s].at <= clock /\ Starting(s)
      /\ UNCHANGED <<clock, active, onair, since, heard>>
  BY DEF OpenArchiveFile, LineAccounted, PathsKnown, Handling, HandlerSteps, Opened
<1>3. rec'[s] = [pc |-> "created", line |-> rec[s].line, at |-> rec[s].at, path |-> p]
  <2>1. rec'[s] = [rec[s] EXCEPT !.pc = "created", !.path = p]
    BY <1>1
  <2> QED BY <2>1, CreatedStep
<1>4. /\ p.stream = s /\ p.at = rec[s].at /\ p # Null
      /\ files'[p] = Created /\ \A q \in Path \ {p} : files'[q] = files[q]
  BY <1>1 DEF FreeName
<1>5. PathsKnown(s)'
  BY <1>2, <1>3, <1>4 DEF PathsKnown, Handling, HandlerSteps, Opened
<1>6. SinceOneProgram(s)'
  BY <1>2, <1>3 DEF SinceOneProgram, OneProgram
<1>7. LineAccounted(s)'
  BY <1>2, <1>3, <1>4, CreatedFile DEF LineAccounted, Starting, OpenFileHolds, Opened
<1>8. FilesSound(s)'
  <2> SUFFICES ASSUME NEW q \in Path, q.stream = s
               PROVE  (OneProgram(files[q].lines) /\ FileOwned(q) /\ LinesHeard(q))'
    BY DEF FilesSound
  <2>1. OneProgram(files[q].lines) /\ FileOwned(q) /\ LinesHeard(q) /\ files[q] \in File
    BY DEF FilesSound
  <2>2. FileOwned(q)'
    BY <1>2, <1>3, <1>4, <2>1 DEF FileOwned, Handling, HandlerSteps
  <2>3. OneProgram(files[q].lines)'
    BY <1>4, <2>1, CreatedFile DEF OneProgram
  <2>4. LinesHeard(q)'
    <3>1. Len(files[q].lines) \in Nat /\ Len(files[q].lines) < heard
      <4>1. Len(files[q].lines) < heard
        BY <1>2, <2>1 DEF LinesHeard, Unwritten
      <4> QED BY <2>1, <4>1, LinesTyped
    <3>2. Len(files'[q].lines) \in Nat /\ Len(files'[q].lines) < heard
      <4>1. CASE q = p
        <5>1. files'[q].lines = <<>>
          BY <1>4, <4>1, CreatedFile
        <5> QED BY <3>1, <5>1
      <4>2. CASE q # p
        BY <1>4, <3>1, <4>2
      <4> QED BY <4>1, <4>2
    <3>3. heard' = heard /\ heard \in Nat
      BY <1>2
    <3> QED BY <3>2, <3>3 DEF LinesHeard
  <2> QED BY <2>2, <2>3, <2>4
<1> QED BY <1>5, <1>6, <1>7, <1>8 DEF StreamInv

LEMMA FirstTextStream ==
  ASSUME StoreInv, NEW s \in Streams, WriteFirstText(s)
  PROVE  StreamInv(s)'
<1> USE StreamFacts, StoreAssumption
<1>1. /\ rec[s].pc = "created" /\ rec[s].line \in Lines
      /\ rec[s].path \in Path /\ rec[s].path.stream = s
      /\ Starting(s) /\ OpenFileHolds(rec[s].path, <<>>, FALSE)
      /\ UNCHANGED <<clock, active, onair, since, heard>> /\ Go(s, "first_text")
      /\ Write(rec[s].path, WithText(files[rec[s].path]))
  BY DEF WriteFirstText, LineAccounted, PathsKnown, Handling, HandlerSteps, Opened
<1>2. /\ rec'[s].pc = "first_text" /\ rec'[s].line = rec[s].line
      /\ rec'[s].at = rec[s].at /\ rec'[s].path = rec[s].path
  BY <1>1, GoEffect DEF HandlerSteps
<1>3. \A q \in Path :
        /\ files'[q].lines = files[q].lines /\ files'[q].state = files[q].state
        /\ q = rec[s].path /\ files[q].state = "open" => files'[q].partial = TRUE
  <2>1. WithText(files[rec[s].path]) \in File
    BY <1>1, TextFile
  <2>2. \A q \in Path : files'[q] = IF q = rec[s].path /\ files[q].state = "open"
                                     THEN WithText(files[rec[s].path]) ELSE files[q]
    BY <1>1, <2>1, WriteEffect
  <2>3. \A f \in File : /\ WithText(f).lines = f.lines /\ WithText(f).partial = TRUE
                        /\ WithText(f).state = f.state
    BY DEF WithText, File
  <2> QED BY <1>1, <2>2, <2>3
<1>4. PathsKnown(s)'
  BY <1>1, <1>2 DEF PathsKnown, Handling, HandlerSteps, Opened
<1>5. SinceOneProgram(s)'
  BY <1>1, <1>2 DEF SinceOneProgram, OneProgram
<1>6. LineAccounted(s)'
  BY <1>1, <1>2, <1>3 DEF LineAccounted, Starting, OpenFileHolds, Opened
<1>7. FilesSound(s)'
  <2> SUFFICES ASSUME NEW q \in Path, q.stream = s
               PROVE  (OneProgram(files[q].lines) /\ FileOwned(q) /\ LinesHeard(q))'
    BY DEF FilesSound
  <2>1. OneProgram(files[q].lines) /\ FileOwned(q) /\ LinesHeard(q)
    BY DEF FilesSound
  <2>2. FileOwned(q)'
    BY <1>1, <1>2, <1>3, <2>1 DEF FileOwned, Handling, HandlerSteps
  <2>3. LinesHeard(q)' /\ OneProgram(files[q].lines)'
    BY <1>1, <1>2, <1>3, <2>1 DEF LinesHeard, OneProgram, Unwritten
  <2> QED BY <2>2, <2>3
<1> QED BY <1>4, <1>5, <1>6, <1>7 DEF StreamInv

LEMMA FirstNewlineStream ==
  ASSUME StoreInv, NEW s \in Streams, WriteFirstNewline(s)
  PROVE  StreamInv(s)'
<1> USE StreamFacts, StoreAssumption
<1>1. /\ rec[s].pc = "first_text" /\ rec[s].line \in Lines
      /\ rec[s].path \in Path /\ rec[s].path.stream = s
      /\ Starting(s) /\ OpenFileHolds(rec[s].path, <<>>, TRUE)
      /\ UNCHANGED <<clock, active, onair, since, heard>> /\ Go(s, "first_line")
      /\ Write(rec[s].path, WithNewline(files[rec[s].path], rec[s].line))
  BY DEF WriteFirstNewline, LineAccounted, PathsKnown, Handling, HandlerSteps, Opened
<1>2. /\ rec'[s].pc = "first_line" /\ rec'[s].line = rec[s].line
      /\ rec'[s].at = rec[s].at /\ rec'[s].path = rec[s].path
  BY <1>1, GoEffect DEF HandlerSteps
<1>3. \A q \in Path :
        /\ files'[q].state = files[q].state
        /\ IF q = rec[s].path /\ files[q].state = "open"
             THEN files'[q].lines = <<rec[s].line>> /\ files'[q].partial = FALSE
             ELSE files'[q] = files[q]
  <2>1. PICK p \in Path, line \in Lines :
          /\ p = rec[s].path /\ line = rec[s].line /\ files \in [Path -> File]
          /\ Write(p, WithNewline(files[p], line))
    BY <1>1
  <2> HIDE StreamFacts
  <2>2. \A q \in Path :
          /\ files'[q].state = files[q].state
          /\ q = p /\ files[q].state = "open" =>
               /\ files'[q].lines = Append(files[q].lines, line)
               /\ files'[q].partial = FALSE
               /\ Len(files'[q].lines) = Len(files[q].lines) + 1
          /\ ~(q = p /\ files[q].state = "open") => files'[q] = files[q]
    BY <2>1, NewlineEffect
  <2>3. files[rec[s].path].state = "open" => files[rec[s].path].lines = <<>>
    BY <1>1 DEF OpenFileHolds
  <2>4. Append(<<>>, line) = <<line>>
    OBVIOUS
  <2> QED BY <2>1, <2>2, <2>3, <2>4
<1>4. PathsKnown(s)'
  BY <1>1, <1>2 DEF PathsKnown, Handling, HandlerSteps, Opened
<1>5. SinceOneProgram(s)'
  BY <1>1, <1>2 DEF SinceOneProgram, OneProgram
<1>6. LineAccounted(s)'
  BY <1>1, <1>2, <1>3 DEF LineAccounted, Starting, OpenFileHolds, Opened
<1>7. FilesSound(s)'
  <2> SUFFICES ASSUME NEW q \in Path, q.stream = s
               PROVE  (OneProgram(files[q].lines) /\ FileOwned(q) /\ LinesHeard(q))'
    BY DEF FilesSound
  <2>1. OneProgram(files[q].lines) /\ FileOwned(q) /\ LinesHeard(q) /\ files[q] \in File
    BY DEF FilesSound
  <2>2. FileOwned(q)'
    BY <1>1, <1>2, <1>3, <2>1 DEF FileOwned, Handling, HandlerSteps
  <2>3. CASE q = rec[s].path /\ files[q].state = "open"
    <3>1. files'[q].lines = <<rec[s].line>> /\ IsEit(rec[s].line)
      BY <1>1, <1>3, <2>3 DEF Starting
    <3>2. OneProgram(files[q].lines)'
      BY <3>1 DEF OneProgram
    <3>3. heard > 0
      BY <1>1, <2>1, LinesTyped DEF LinesHeard, Unwritten
    <3>4. LinesHeard(q)'
      BY <1>1, <1>2, <3>1, <3>3, <2>3 DEF LinesHeard, Unwritten
    <3> QED BY <2>2, <3>2, <3>4
  <2>4. CASE ~(q = rec[s].path /\ files[q].state = "open")
    BY <1>1, <1>2, <1>3, <2>1, <2>2, <2>4 DEF LinesHeard, OneProgram, Unwritten
  <2> QED BY <2>3, <2>4
<1> QED BY <1>4, <1>5, <1>6, <1>7 DEF StreamInv

LEMMA ReplaceStream ==
  ASSUME StoreInv, NEW s \in Streams, ReplaceActive(s)
  PROVE  StreamInv(s)'
<1> USE StreamFacts, StoreAssumption
<1>1. /\ rec[s].pc = "first_line" /\ rec[s].line \in Lines
      /\ rec[s].path \in Path /\ rec[s].path.stream = s /\ rec[s].path.at <= clock
      /\ Starting(s) /\ OpenFileHolds(rec[s].path, <<rec[s].line>>, FALSE)
      /\ UNCHANGED <<clock, onair, since, heard>> /\ rec'[s] = Idle
      /\ files' = CloseActive(s)
  BY DEF ReplaceActive, LineAccounted, PathsKnown, Handling, HandlerSteps, Opened
<1>2. /\ active'[s] # Null /\ active'[s].program = rec[s].line.program
      /\ active'[s].path = rec[s].path
  <2>1. active'[s] = [program |-> rec[s].line.program, path |-> rec[s].path]
    BY DEF ReplaceActive
  <2>2. rec[s].line.program \in Programs
    BY <1>1
  <2> QED BY <1>1, <2>1, <2>2
<1>3. \A q \in Path :
        /\ files'[q].lines = files[q].lines
        /\ files'[q].partial = files[q].partial
        /\ (files'[q].state = "open") => files[q].state = "open"
        /\ (files'[q].state = "open") => ~(active[s] # Null /\ active[s].path = q)
  <2>1. \A q \in Path : files'[q] = IF active[s] # Null /\ q = active[s].path
                                     THEN Closed(files[q]) ELSE files[q]
    BY <1>1, CloseEffect
  <2>2. \A f \in File : /\ Closed(f).lines = f.lines /\ Closed(f).partial = f.partial
                        /\ Closed(f).state # "open"
    BY DEF Closed, File
  <2> QED BY <2>1, <2>2
<1>4. PathsKnown(s)'
  BY <1>1, <1>2, IdleTyped DEF PathsKnown, Handling, HandlerSteps, Opened
<1>5. SinceOneProgram(s)'
  BY <1>1, IdleTyped DEF SinceOneProgram, OneProgram
<1>6. LineAccounted(s)'
  <2>1. /\ since'[s] = <<rec[s].line>> /\ since'[s] # <<>>
        /\ since'[s][1].program = rec[s].line.program
    BY <1>1 DEF Starting
  <2>2. files'[rec[s].path].state = "open" => /\ files'[rec[s].path].lines = <<rec[s].line>>
                                              /\ files'[rec[s].path].partial = FALSE
    BY <1>1, <1>3 DEF OpenFileHolds
  <2>3. ActiveHolds(s, since[s], FALSE)'
    BY <1>2, <2>1, <2>2 DEF ActiveHolds, OpenFileHolds
  <2> QED BY <1>1, <2>3, IdleTyped DEF LineAccounted, Opened
<1>7. FilesSound(s)'
  <2> SUFFICES ASSUME NEW q \in Path, q.stream = s
               PROVE  (OneProgram(files[q].lines) /\ FileOwned(q) /\ LinesHeard(q))'
    BY DEF FilesSound
  <2>1. OneProgram(files[q].lines) /\ FileOwned(q) /\ LinesHeard(q)
    BY DEF FilesSound
  <2>2. FileOwned(q)'
    BY <1>1, <1>2, <1>3, <2>1 DEF FileOwned
  <2>3. LinesHeard(q)' /\ OneProgram(files[q].lines)'
    BY <1>1, <1>3, <2>1, IdleTyped DEF LinesHeard, OneProgram, Unwritten
  <2> QED BY <2>2, <2>3
<1> QED BY <1>4, <1>5, <1>6, <1>7 DEF StreamInv

LEMMA FailStream ==
  ASSUME StoreInv, NEW s \in Streams, HandlerFails(s)
  PROVE  StreamInv(s)'
<1> USE StreamFacts, StoreAssumption
<1>1. /\ rec'[s].pc = "failed" /\ rec'[s].path = Null
      /\ UNCHANGED <<clock, active, onair, since, heard>>
      /\ rec[s].pc # "offline"
  BY DEF HandlerFails, Idle
<1>2. \A q \in Path : /\ files'[q].lines = files[q].lines
                      /\ (files'[q].state = "open") => files[q].state = "open" /\ rec[s].path # q
  <2>1. \A f \in File : Closed(f).lines = f.lines /\ Closed(f).state # "open"
    BY DEF Closed, File
  <2>2. files' = [p \in Path |-> IF p = rec[s].path THEN Closed(files[p]) ELSE files[p]]
    BY DEF HandlerFails
  <2> QED BY <2>1, <2>2
<1>3. PathsKnown(s)'
  BY <1>1 DEF PathsKnown, Handling, HandlerSteps, Opened
<1>4. SinceOneProgram(s)'
  BY <1>1 DEF SinceOneProgram, OneProgram
<1>5. LineAccounted(s)'
  BY <1>1 DEF LineAccounted, Opened
<1>6. FilesSound(s)'
  <2> SUFFICES ASSUME NEW q \in Path, q.stream = s
               PROVE  (OneProgram(files[q].lines) /\ FileOwned(q) /\ LinesHeard(q))'
    BY DEF FilesSound
  <2>1. OneProgram(files[q].lines) /\ FileOwned(q) /\ LinesHeard(q)
    BY DEF FilesSound
  <2>2. FileOwned(q)'
    BY <1>1, <1>2, <2>1 DEF FileOwned
  <2>3. LinesHeard(q)' /\ OneProgram(files[q].lines)'
    BY <1>1, <1>2, <2>1 DEF LinesHeard, OneProgram, Unwritten
  <2> QED BY <2>2, <2>3
<1> QED BY <1>3, <1>4, <1>5, <1>6 DEF StreamInv

LEMMA ReceiveStream ==
  ASSUME StoreInv, NEW s \in Streams, NEW line \in Lines, Receive(s, line)
  PROVE  StreamInv(s)'
<1> USE StreamFacts, StoreAssumption
<1>1. /\ rec[s].pc = "idle" /\ rec[s].path = Null
      /\ UNCHANGED <<files, clock, active>> /\ heard' = heard + 1
      /\ rec'[s].pc = "received" /\ rec'[s].line = line
      /\ rec'[s].at = clock /\ rec'[s].path = Null
      /\ IsEit(line) \/ line.program = onair[s]
      /\ ActiveHolds(s, since[s], FALSE)
  BY DEF Receive, LineAccounted, PathsKnown, Opened
<1>2. onair'[s] = line.program
  BY DEF Receive
<1> DEFINE begun == since[s] # <<>>
           starts == IsEit(line) /\ (~begun \/ since[s][1].program # line.program)
           kept == begun /\ IsJson(line)
<1>3. since'[s] = IF starts THEN <<line>> ELSE IF kept THEN Append(since[s], line) ELSE since[s]
  BY DEF Receive
<1>4. active[s] # Null => begun /\ active[s].program = since[s][1].program
  BY <1>1 DEF ActiveHolds
<1>5. active[s] = Null => ~begun
  BY <1>1 DEF ActiveHolds
<1>6. begun => since[s][1].program = onair[s]
  BY <1>1 DEF SinceOneProgram
<1>7. PathsKnown(s)'
  <2>1. active'[s] = active[s] /\ clock' = clock
    BY <1>1
  <2> QED BY <1>1, <2>1 DEF PathsKnown, Handling, HandlerSteps, Opened
<1>8. FilesSound(s)'
  <2> SUFFICES ASSUME NEW q \in Path, q.stream = s
               PROVE  (OneProgram(files[q].lines) /\ FileOwned(q) /\ LinesHeard(q))'
    BY DEF FilesSound
  <2>1. OneProgram(files[q].lines) /\ FileOwned(q) /\ LinesHeard(q) /\ files[q] \in File
    BY DEF FilesSound
  <2>2. FileOwned(q)'
    BY <1>1, <2>1 DEF FileOwned
  <2>3. LinesHeard(q)' /\ OneProgram(files[q].lines)'
    BY <1>1, <2>1, LinesTyped DEF LinesHeard, OneProgram, Unwritten
  <2> QED BY <2>2, <2>3
<1>9. CASE starts
  <2>1. since'[s] = <<line>> /\ IsJson(line) /\ IsEit(line)
    BY <1>3, <1>9, EitIsJson
  <2>2. SinceOneProgram(s)'
    BY <1>2, <2>1 DEF SinceOneProgram, OneProgram
  <2>3. Starting(s)'
    BY <1>1, <1>4, <1>9, <2>1 DEF Starting
  <2>4. LineAccounted(s)'
    BY <1>1, <2>1, <2>3 DEF LineAccounted, Opened
  <2> QED BY <1>7, <1>8, <2>2, <2>4 DEF StreamInv
<1>10. CASE ~starts /\ kept
  <2>1. since'[s] = Append(since[s], line)
    BY <1>3, <1>10
  <2>2. line.program = since[s][1].program
    BY <1>1, <1>6, <1>10
  <2>3. /\ OneProgram(since[s])' /\ since'[s] # <<>>
        /\ since'[s][1] = since[s][1]
    BY <1>10, <2>1, <2>2, OneProgramAppend DEF SinceOneProgram
  <2>4. SinceOneProgram(s)'
    BY <1>2, <2>2, <2>3 DEF SinceOneProgram, OneProgram
  <2>5. Appending(s, FALSE)'
    <3>1. active'[s] # Null /\ ActiveHolds(s, since[s], FALSE)
      BY <1>1, <1>5, <1>10
    <3>2. IF active'[s] = Null THEN since[s] = <<>>
          ELSE /\ since[s] # <<>> /\ active'[s].program = since[s][1].program
               /\ OpenFileHolds(active[s].path, since[s], FALSE)
      BY <1>1, <3>1 DEF ActiveHolds
    <3>3. \E lines \in Seq(Lines) :
            /\ since'[s] = Append(lines, rec'[s].line)
            /\ IF active'[s] = Null THEN lines = <<>>
               ELSE /\ lines # <<>> /\ active'[s].program = lines[1].program
                    /\ files'[active'[s].path].state = "open" =>
                         /\ files'[active'[s].path].lines = lines
                         /\ files'[active'[s].path].partial = FALSE
      BY <1>1, <2>1, <3>1, <3>2 DEF OpenFileHolds
    <3> QED BY <3>1, <3>3 DEF Appending, ActiveHolds, OpenFileHolds
  <2>6. LineAccounted(s)'
    BY <1>1, <1>10, <2>5 DEF LineAccounted, Opened
  <2> QED BY <1>7, <1>8, <2>4, <2>6 DEF StreamInv
<1>11. CASE ~starts /\ ~kept
  <2>1. since'[s] = since[s]
    BY <1>3, <1>11
  <2>2. IsJson(line) => ~IsEit(line) /\ ~begun
    BY <1>11
  <2>3. ~IsEit(line)
    BY <2>2, EitIsJson
  <2>4. SinceOneProgram(s)'
    BY <1>1, <1>2, <1>6, <2>1, <2>3 DEF SinceOneProgram, OneProgram
  <2>5. IsJson(line) => active[s] = Null
    BY <1>4, <2>2
  <2>6. ActiveHolds(s, since[s], FALSE)'
    BY <1>1, <2>1 DEF ActiveHolds, OpenFileHolds
  <2>7. LineAccounted(s)'
    BY <1>1, <2>1, <2>2, <2>5, <2>6 DEF LineAccounted, Opened
  <2> QED BY <1>7, <1>8, <2>4, <2>7 DEF StreamInv
<1> QED BY <1>9, <1>10, <1>11

LEMMA DisconnectStream ==
  ASSUME StoreInv, NEW s \in Streams, Disconnect(s) \/ ProgramChangesUnheard(s)
  PROVE  StreamInv(s)'
<1> USE StreamFacts, StoreAssumption
<1>1. /\ rec[s].pc \in {"idle", "failed", "offline"} /\ rec[s].path = Null
      /\ rec'[s].pc = "offline" /\ rec'[s].path = Null
      /\ UNCHANGED <<files, clock, active, since, heard>>
  BY OfflineTyped, ZenonT(60) DEF Disconnect, ProgramChangesUnheard, PathsKnown, Opened
<1>2. PathsKnown(s)'
  BY <1>1 DEF PathsKnown, Handling, HandlerSteps, Opened
<1>3. SinceOneProgram(s)'
  BY <1>1 DEF SinceOneProgram, OneProgram
<1>4. LineAccounted(s)'
  BY <1>1 DEF LineAccounted, Opened
<1>5. FilesSound(s)'
  <2> SUFFICES ASSUME NEW q \in Path, q.stream = s
               PROVE  (OneProgram(files[q].lines) /\ FileOwned(q) /\ LinesHeard(q))'
    BY DEF FilesSound
  <2>1. OneProgram(files[q].lines) /\ FileOwned(q) /\ LinesHeard(q)
    BY DEF FilesSound
  <2>2. FileOwned(q)'
    BY <1>1, <2>1 DEF FileOwned
  <2>3. LinesHeard(q)' /\ OneProgram(files[q].lines)'
    BY <1>1, <2>1 DEF LinesHeard, OneProgram, Unwritten
  <2> QED BY <2>2, <2>3
<1> QED BY <1>2, <1>3, <1>4, <1>5 DEF StreamInv

LEMMA ConnectStream ==
  ASSUME StoreInv, NEW s \in Streams, Connect(s)
  PROVE  StreamInv(s)'
<1> USE StreamFacts, StoreAssumption
<1>1. /\ rec[s].pc = "offline" /\ rec[s].path = Null
      /\ rec'[s].pc = "idle" /\ rec'[s].path = Null
      /\ active'[s] = Null /\ since'[s] = <<>>
      /\ UNCHANGED <<clock, heard>>
  <2>1. /\ rec[s].pc = "offline" /\ rec' = [rec EXCEPT ![s] = Idle]
        /\ active' = [active EXCEPT ![s] = Null] /\ since' = [since EXCEPT ![s] = <<>>]
        /\ UNCHANGED <<clock, heard>>
    BY DEF Connect
  <2>2. rec[s].path = Null
    BY <2>1 DEF PathsKnown, Opened
  <2>3. rec'[s] = Idle
    BY <2>1
  <2> QED BY <2>1, <2>2, <2>3, IdleTyped
<1>2. \A q \in Path :
        /\ files'[q].lines = files[q].lines
        /\ (files'[q].state = "open") => files[q].state = "open"
        /\ (files'[q].state = "open") => ~(active[s] # Null /\ active[s].path = q)
  <2>1. \A q \in Path : files'[q] = IF active[s] # Null /\ q = active[s].path
                                     THEN Closed(files[q]) ELSE files[q]
    BY CloseEffect DEF Connect
  <2>2. \A f \in File : Closed(f).lines = f.lines /\ Closed(f).state # "open"
    BY DEF Closed, File
  <2> QED BY <2>1, <2>2
<1>3. PathsKnown(s)'
  BY <1>1 DEF PathsKnown, Handling, HandlerSteps, Opened
<1>4. SinceOneProgram(s)'
  BY <1>1 DEF SinceOneProgram, OneProgram
<1>5. LineAccounted(s)'
  BY <1>1 DEF LineAccounted, ActiveHolds, Opened
<1>6. FilesSound(s)'
  <2> SUFFICES ASSUME NEW q \in Path, q.stream = s
               PROVE  (OneProgram(files[q].lines) /\ FileOwned(q) /\ LinesHeard(q))'
    BY DEF FilesSound
  <2>1. OneProgram(files[q].lines) /\ FileOwned(q) /\ LinesHeard(q)
    BY DEF FilesSound
  <2>2. FileOwned(q)'
    BY <1>1, <1>2, <2>1 DEF FileOwned
  <2>3. LinesHeard(q)' /\ OneProgram(files[q].lines)'
    BY <1>1, <1>2, <2>1 DEF LinesHeard, OneProgram, Unwritten
  <2> QED BY <2>2, <2>3
<1> QED BY <1>3, <1>4, <1>5, <1>6 DEF StreamInv

-----------------------------------------------------------------------------
(* What the end of the process leaves, where a file may lose its last lines. *)
LEMMA LostStream ==
  ASSUME StoreTypeOK, NEW s \in Streams, FilesSound(s),
         rec'[s] = Offline, active'[s] = Null, since'[s] = <<>>,
         clock' = clock, heard' = heard,
         \A p \in Path : p.stream = s =>
           /\ files'[p].state # "open"
           /\ \E n \in 0..Len(files[p].lines) : files'[p].lines = SubSeq(files[p].lines, 1, n)
  PROVE  StreamInv(s)'
<1> USE StoreAssumption
<1>1. rec'[s].pc = "offline" /\ rec'[s].path = Null
  BY OfflineTyped
<1>2. PathsKnown(s)'
  BY <1>1 DEF PathsKnown, Handling, HandlerSteps, Opened
<1>3. SinceOneProgram(s)'
  BY <1>1 DEF SinceOneProgram, OneProgram
<1>4. LineAccounted(s)'
  BY <1>1 DEF LineAccounted, Opened
<1>5. FilesSound(s)'
  <2> SUFFICES ASSUME NEW q \in Path, q.stream = s
               PROVE  (OneProgram(files[q].lines) /\ FileOwned(q) /\ LinesHeard(q))'
    BY DEF FilesSound
  <2>1. OneProgram(files[q].lines) /\ LinesHeard(q) /\ files[q] \in File
    BY DEF FilesSound, StoreTypeOK
  <2>2. PICK n \in 0..Len(files[q].lines) : files'[q].lines = SubSeq(files[q].lines, 1, n)
    OBVIOUS
  <2>3. files[q].lines \in Seq(Lines) /\ Len(files[q].lines) \in Nat
    BY <2>1, LinesTyped
  <2>4. OneProgram(files'[q].lines) /\ Len(files'[q].lines) = n
    BY <2>1, <2>2, <2>3, OneProgramPrefix
  <2>5. heard \in Nat
    BY DEF StoreTypeOK
  <2>6. FileOwned(q)'
    BY DEF FileOwned
  <2>7. LinesHeard(q)'
    BY <1>1, <2>1, <2>3, <2>4, <2>5 DEF LinesHeard, Unwritten
  <2> QED BY <2>4, <2>6, <2>7 DEF OneProgram
<1> QED BY <1>2, <1>3, <1>4, <1>5 DEF StreamInv

LEMMA LostStore ==
  ASSUME StoreInv, LoseStore, UNCHANGED <<clock, onair, heard>>,
         faults' \in 0..MaxFaults, files' \in [Path -> File],
         \A p \in Path :
           /\ files'[p].state # "open"
           /\ \E n \in 0..Len(files[p].lines) : files'[p].lines = SubSeq(files[p].lines, 1, n)
  PROVE  StoreInv'
<1>1. /\ active' = [s \in Streams |-> Null] /\ dirty' = [p \in Path |-> 0]
      /\ rec' = [s \in Streams |-> Offline] /\ since' = [s \in Streams |-> <<>>]
  BY DEF LoseStore
<1>2. StoreTypeOK'
  <2>1. rec' \in [Streams -> Handler]
    BY <1>1, OfflineTyped
  <2>2. since' \in [Streams -> Seq(Lines)]
    BY <1>1
  <2>3. active' \in [Streams -> [program : Programs, path : Path] \cup {Null}]
    BY <1>1
  <2>4. dirty' \in [Path -> Nat]
    BY <1>1
  <2> QED BY <2>1, <2>2, <2>3, <2>4, StoreTypeIs DEF StoreInv, StoreTypeOK, Handler
<1>3. ASSUME NEW s \in Streams PROVE StreamInv(s)'
  BY <1>1, LostStream DEF StoreInv, StreamInv
<1> QED BY <1>2, <1>3 DEF StoreInv

(* A closed file keeps its lines.                                            *)
LEMMA ClosedPrefix ==
  ASSUME NEW f \in File
  PROVE  /\ Closed(f) \in File /\ Closed(f).state # "open"
         /\ \E n \in 0..Len(f.lines) : Closed(f).lines = SubSeq(f.lines, 1, n)
<1>1. Closed(f) \in File /\ Closed(f).lines = f.lines /\ Closed(f).state # "open"
  BY DEF File, Closed
<1>2. f.lines \in Seq(Lines) /\ Len(f.lines) \in Nat
  BY LinesTyped
<1>3. SubSeq(f.lines, 1, Len(f.lines)) = f.lines
  BY <1>2
<1> QED BY <1>1, <1>2, <1>3

-----------------------------------------------------------------------------
(* The invariant holds.                                                      *)

LEMMA StoreInvInit == StoreInit => StoreInv
<1> SUFFICES ASSUME StoreInit PROVE StoreInv
  OBVIOUS
<1> USE StoreAssumption, ArchiveAssumption
<1>1. StoreTypeOK
  <2>1. rec \in [Streams -> Handler] /\ since \in [Streams -> Seq(Lines)]
    BY OfflineTyped DEF StoreInit
  <2>2. NewFile \in File
    BY DEF NewFile, File
  <2>3. /\ files \in [Path -> File] /\ dirty \in [Path -> Nat]
        /\ active \in [Streams -> [program : Programs, path : Path] \cup {Null}]
    BY <2>2 DEF StoreInit, FilesInit
  <2>4. /\ clock \in Seconds /\ onair \in [Streams -> Programs]
        /\ heard \in 0..MaxHeard /\ faults \in 0..MaxFaults
    BY DEF StoreInit
  <2> QED BY <2>1, <2>3, <2>4, StoreTypeIs
<1>2. ASSUME NEW s \in Streams PROVE StreamInv(s)
  <2>1. /\ rec[s].pc = "offline" /\ rec[s].path = Null
        /\ active[s] = Null /\ since[s] = <<>> /\ heard = 0
    BY OfflineTyped DEF StoreInit
  <2>2. \A p \in Path : files[p].lines = <<>> /\ files[p].state # "open"
    BY DEF StoreInit, FilesInit, NewFile
  <2>3. PathsKnown(s) /\ SinceOneProgram(s) /\ LineAccounted(s)
    BY <2>1 DEF PathsKnown, SinceOneProgram, OneProgram, LineAccounted, Handling,
                HandlerSteps, Opened
  <2>4. FilesSound(s)
    BY <2>1, <2>2 DEF FilesSound, OneProgram, FileOwned, LinesHeard, Unwritten
  <2> QED BY <2>3, <2>4 DEF StreamInv
<1> QED BY <1>1, <1>2 DEF StoreInv

(* A step of one stream.                                                     *)
LEMMA StreamStep ==
  ASSUME StoreInv, NEW s \in Streams, HandleStep(s) \/ UpstreamStep(s)
  PROVE  StoreInv'
<1>1. StoreTypeOK' /\ Apart(s)
  BY HandleStepType, UpstreamStepType
<1>2. StreamInv(s)'
  BY SkipStream, AppendTextStream, AppendNewlineStream, StartStream, OpenStream,
     FirstTextStream, FirstNewlineStream, ReplaceStream, FailStream,
     ReceiveStream, DisconnectStream, ConnectStream DEF HandleStep, UpstreamStep
<1>3. ASSUME NEW t \in Streams, t # s PROVE StreamInv(t)'
  <2>1. /\ rec'[t] = rec[t] /\ active'[t] = active[t]
        /\ since'[t] = since[t] /\ onair'[t] = onair[t] /\ heard' >= heard
        /\ clock' = clock /\ \A p \in Path : p.stream = t => files'[p] = files[p]
    BY <1>1, <1>3 DEF Apart
  <2>2. clock \in Nat /\ heard' \in Nat
    BY <1>1, StreamFacts DEF StoreTypeOK
  <2> QED BY <1>3, <2>1, <2>2, OtherStreams DEF StoreInv
<1> QED BY <1>1, <1>2, <1>3 DEF StoreInv

LEMMA TickStep ==
  ASSUME StoreInv, Tick
  PROVE  StoreInv'
<1>1. clock \in Nat /\ clock' \in Seconds /\ clock' \in Nat /\ clock' >= clock /\ heard \in Nat
  <2>1. clock \in Seconds /\ heard \in 0..MaxHeard
    BY DEF StoreInv, StoreTypeOK
  <2> QED BY <2>1, ArchiveAssumption, StoreAssumption DEF Tick
<1>2. UNCHANGED <<files, active, dirty, rec, onair, since, heard, faults>>
  BY DEF Tick
<1>3. StoreTypeOK'
  BY <1>1, <1>2 DEF StoreInv, StoreTypeOK
<1>4. ASSUME NEW s \in Streams PROVE StreamInv(s)'
  BY <1>1, <1>2, OtherStreams DEF StoreInv
<1> QED BY <1>3, <1>4 DEF StoreInv

LEMMA CrashStep ==
  ASSUME StoreInv, Crash
  PROVE  StoreInv'
<1>1. \A p \in Path : files[p] \in File
  BY DEF StoreInv, StoreTypeOK
<1>2. /\ files' \in [Path -> File]
      /\ \A p \in Path :
           /\ files'[p].state # "open"
           /\ \E n \in 0..Len(files[p].lines) : files'[p].lines = SubSeq(files[p].lines, 1, n)
  BY <1>1, ClosedPrefix DEF Crash
<1>3. faults' \in 0..MaxFaults
  BY StoreAssumption DEF Crash, StoreInv, StoreTypeOK
<1> QED BY <1>2, <1>3, LostStore DEF Crash

LEMMA StoreInvStep == StoreInv /\ [StoreNext]_storeVars => StoreInv'
<1> SUFFICES ASSUME StoreInv, [StoreNext]_storeVars PROVE StoreInv'
  OBVIOUS
<1>1. CASE UNCHANGED storeVars
  <2>1. StoreTypeOK'
    BY <1>1 DEF storeVars, StoreInv, StoreTypeOK
  <2>2. ASSUME NEW s \in Streams PROVE StreamInv(s)'
    <3>1. clock \in Nat /\ heard \in Nat
      BY StreamFacts
    <3>2. UNCHANGED <<files, clock, active, rec, onair, since, heard>>
      BY <1>1 DEF storeVars
    <3> QED BY <3>1, <3>2, OtherStreams DEF StoreInv
  <2> QED BY <2>1, <2>2 DEF StoreInv
<1> QED
  BY <1>1, StreamStep, TickStep, CrashStep DEF StoreNext, RecorderStep

LEMMA StoreInvCorrect == StoreSpec => []StoreInv
BY StoreInvInit, StoreInvStep, PTL DEF StoreSpec

(* The recorder's variables keep their types.                                *)
THEOREM StoreTypeCorrect == StoreSpec => []StoreTypeOK
<1>1. StoreInv => StoreTypeOK
  BY DEF StoreInv
<1> QED BY <1>1, StoreInvCorrect, PTL

LEMMA StoreInvPrograms == StoreInv => OneProgramPerFile
<1> SUFFICES ASSUME StoreInv, NEW p \in Path PROVE OneProgram(files[p].lines)
  BY DEF OneProgramPerFile, OneProgram
<1>1. p.stream \in Streams
  BY DEF Path
<1> QED BY <1>1 DEF StoreInv, StreamInv, FilesSound

(* A file never mixes two programs: whatever the recorder, the clock and the *)
(* upstream do, its first line is an EIT and all its lines are of that       *)
(* program (archive.rs:166-171, 173-208).                                    *)
THEOREM OneProgramCorrect == StoreSpec => []OneProgramPerFile
BY StoreInvPrograms, StoreInvCorrect, PTL

LEMMA StoreInvComplete == StoreInv => ActiveFileComplete
BY DEF StoreInv, StreamInv, LineAccounted, ActiveHolds, OpenFileHolds, ActiveFileComplete

(* Between lines an active file holds exactly what was received since its    *)
(* EIT, each line once, in order and terminated (archive.rs:150-208).        *)
THEOREM ActiveFileCorrect == StoreSpec => []ActiveFileComplete
BY StoreInvComplete, StoreInvCorrect, PTL

LEMMA StoreInvHandles == StoreInv => HandlesOwned
<1> SUFFICES ASSUME StoreInv, NEW p \in Path PROVE FileOwned(p)
  BY DEF HandlesOwned, FileOwned
<1>1. p.stream \in Streams
  BY DEF Path
<1> QED BY <1>1 DEF StoreInv, StreamInv, FilesSound

(* An open file is the active file of its stream or the one its handler is   *)
(* opening: there is one write handle per recording (archive.rs:286-301).    *)
THEOREM HandlesOwnedCorrect == StoreSpec => []HandlesOwned
BY StoreInvHandles, StoreInvCorrect, PTL

-----------------------------------------------------------------------------
(* The composition: its inductive invariant, by what it speaks of.           *)

(* The task's program counter and what it implies.                           *)
TaskShape ==
  /\ tx # Null => mpc \in {"scan", "dirty"}
  /\ mpc = "dirty" /\ tx # Null => snapshot[tx.path] # 0
  /\ mpc = "clear" => cur \in Path /\ snapshot[cur] # 0
  /\ mpc \in {"snapshot", "dirty", "clear", "cleanup", "gc_cleanup"} => conn
  /\ conn \/ mpc = "scan" => ready
  /\ mpc \notin {"dirty", "clear"} => snapshot = NoSnapshot
  /\ mpc = "stopped" => phase = "shutdown"
  /\ phase = "shutdown" =>
       /\ stopping = "maintenance"
       /\ mpc \in {"apply", "scan", "snapshot", "dirty", "clear", "cleanup", "stopped"}
  /\ late # Null => phase = "shutdown"

(* Generations: a snapshot is not ahead of the store, and a path that has    *)
(* not been registered has none.                                             *)
MarksKnown ==
  /\ \A p \in Path : snapshot[p] <= dirty[p]
  /\ \A p \in Path : files[p].state = "unused" => dirty[p] = 0
  /\ \A s \in Streams : rec[s].pc \in Opened =>
       dirty[rec[s].path] = 0 /\ files[rec[s].path].state # "unused"
  /\ \A s \in Streams : active[s] # Null => files[active[s].path].state # "unused"

TextSize(p) == 2 * Len(files[p].lines)

(* A line written since the stat of a transaction has been marked.           *)
StatFresh ==
  tx # Null =>
    LET p == tx.path
    IN  /\ mpc = "dirty" /\ dirty[p] = snapshot[p] => tx.size >= TextSize(p)
        /\ mpc = "scan" => tx.size >= TextSize(p) \/ dirty[p] # 0 \/ Registering(p)

(* A mark is cleared only when nothing was written since the snapshot.  The  *)
(* file may go meanwhile, but only when nobody records any more.             *)
ClearFresh ==
  mpc = "clear" =>
    /\ Present(cur) \/ stopping = "maintenance"
    /\ dirty[cur] = snapshot[cur] => Covered(cur)

(* The last pass works on a store that no handler changes any more.          *)
LastPass ==
  /\ stopping = "maintenance" => \A s \in Streams : ~Handling(s)
  /\ phase = "shutdown" /\ mpc \in {"dirty", "clear"} =>
       \A p \in Path : snapshot[p] # 0 => snapshot[p] = dirty[p]
  /\ phase = "shutdown" /\ mpc \in {"dirty", "clear", "cleanup", "stopped"} =>
       \A p \in Path : Present(p) /\ files[p].lines # <<>> /\ ~Covered(p) /\ p \notin failed =>
         snapshot[p] # 0

(* A recording is younger than the cut-off or was seen to be active.         *)
CollectorBehind ==
  /\ \A s \in Streams : Handling(s) => clock <= rec[s].at + MaxStall
  /\ \A s \in Streams : rec[s].pc \in Opened => rec[s].path.at = rec[s].at
  /\ mpc \in {"gc_snapshot", "gc_walk"} => cutoff + Retention <= clock
  /\ mpc = "gc_walk" => \A s \in Streams : active[s] # Null =>
       active[s].path \in protected \/ active[s].path.at > cutoff

-----------------------------------------------------------------------------
(* The task leaves the recorder alone, except for marks it clears and files  *)
(* it removes.                                                               *)

QuietStore ==
  /\ UNCHANGED <<files, clock, active, rec, onair, since, heard>>
  /\ dirty' \in [Path -> Nat] /\ faults' \in 0..MaxFaults

LEMMA QuietStoreStep ==
  ASSUME StoreInv, QuietStore
  PROVE  StoreInv'
<1>1. StoreTypeOK'
  BY DEF QuietStore, StoreInv, StoreTypeOK
<1>2. ASSUME NEW s \in Streams PROVE StreamInv(s)'
  <2>1. clock \in Nat /\ heard \in Nat
    BY StreamFacts
  <2> QED BY <2>1, OtherStreams DEF QuietStore, StoreInv
<1> QED BY <1>1, <1>2 DEF StoreInv

LEMMA FaultCount ==
  ASSUME faults \in 0..MaxFaults, Fault
  PROVE  faults' \in 0..MaxFaults
BY StoreAssumption DEF Fault

LEMMA MaintenanceQuiet ==
  ASSUME StoreTypeOK, MaintenanceStep, \A p \in Path : ~GcRemove(p)
  PROVE  QuietStore
<1>1. dirty \in [Path -> Nat] /\ faults \in 0..MaxFaults
  BY DEF StoreTypeOK
<1>2. UNCHANGED <<files, recorderVars>> => QuietStore
  BY <1>1 DEF recorderVars, QuietStore
<1>3. CASE OpenDatabase \/ ReuseConnection \/ (\E p \in Path : ScanStat(p)) \/ ScanCommit \/ ScanEnd
  BY <1>2, <1>3 DEF OpenDatabase, ReuseConnection, ScanStat, ScanCommit, ScanEnd,
                    IngestStat, IngestCommit
<1>4. CASE SnapshotDirtyPaths \/ (\E p \in Path : DirtyStat(p) \/ DirtyMissing(p)) \/ DirtyCommit \/ DirtyEnd
  BY <1>2, <1>4 DEF SnapshotDirtyPaths, DirtyStat, DirtyMissing, DirtyCommit, DirtyEnd,
                    IngestStat, IngestCommit
<1>5. CASE ClearDirtyPathIfUnchanged
  <2>1. dirty' \in [Path -> Nat]
    BY <1>1, <1>5 DEF ClearDirtyPathIfUnchanged, ClearedIfUnchanged
  <2> QED BY <1>1, <1>5, <2>1 DEF ClearDirtyPathIfUnchanged, mostRecorderVars, QuietStore
<1>6. CASE SearchCleanup
  <2>1. UNCHANGED files
    BY <1>6 DEF SearchCleanup, CleanupDeleted
  <2> QED BY <1>2, <1>6, <2>1 DEF SearchCleanup
<1>7. CASE Wake \/ ShutdownObserved \/ GcNotDue \/ GcStart \/ GcSnapshot \/ GcCancelled
  BY <1>2, <1>7 DEF Wake, ShutdownObserved, GcNotDue, GcStart, GcSnapshot, GcCancelled, BeginPass
<1>8. CASE GcEnd
  BY <1>1, <1>8 DEF GcEnd, GcFinished, mostRecorderVars, QuietStore
<1> QED
  BY <1>3, <1>4, <1>5, <1>6, <1>7, <1>8 DEF MaintenanceStep

LEMMA FaultQuiet ==
  ASSUME StoreTypeOK, MaintenanceFault, ~ProcessDies
  PROVE  QuietStore
<1>1. dirty \in [Path -> Nat] /\ faults \in 0..MaxFaults
  BY DEF StoreTypeOK
<1>2. UNCHANGED <<files, mostRecorderVars, dirty>> /\ Fault => QuietStore
  BY <1>1, FaultCount DEF mostRecorderVars, QuietStore
<1>3. CASE DatabaseUnavailable \/ ScanIngestFails \/ DirtyIngestFails \/ CleanupFails
  BY <1>2, <1>3 DEF DatabaseUnavailable, ScanIngestFails, DirtyIngestFails, CleanupFails,
                    IngestRollback
<1>4. CASE (\E p \in Path : ScanWalkFails(p)) \/ GcFails \/ MaintenancePanics
  BY <1>2, <1>4 DEF ScanWalkFails, GcFails, GcFinished, MaintenancePanics
<1>5. CASE CommitsLost
  BY <1>1, <1>5 DEF CommitsLost, DeleteDatabase, recorderVars, QuietStore
<1> QED BY <1>3, <1>4, <1>5 DEF MaintenanceFault

LEMMA CollectedStore ==
  ASSUME StoreInv, NEW p \in Path, RemoveFile(p), UNCHANGED recorderVars
  PROVE  StoreInv'
<1>1. /\ UNCHANGED <<clock, active, dirty, rec, onair, since, heard, faults>>
      /\ files' = [files EXCEPT ![p] = Removed]
  BY DEF RemoveFile, recorderVars
<1>2. StoreTypeOK'
  BY <1>1, ConstantFiles DEF StoreInv, StoreTypeOK
<1>3. \A q \in Path : files'[q] \in {files[q], Removed}
  BY <1>1 DEF StoreInv, StoreTypeOK
<1>4. ASSUME NEW s \in Streams PROVE StreamInv(s)'
  <2>1. clock \in Nat /\ heard \in Nat
    BY StreamFacts
  <2> QED BY <1>1, <1>3, <2>1, OtherStreams DEF StoreInv
<1> QED BY <1>2, <1>4 DEF StoreInv

LEMMA DeadStore ==
  ASSUME StoreInv, ProcessDies \/ Restart
  PROVE  StoreInv'
<1>1. LoseStore /\ UNCHANGED <<clock, onair, heard>>
  BY DEF ProcessDies, Restart, NewProcess
<1>2. faults' \in 0..MaxFaults
  BY FaultCount DEF ProcessDies, Restart, StoreInv, StoreTypeOK
<1>3. \A p \in Path : files[p] \in File /\ files[p].lines \in Seq(Lines) /\ Len(files[p].lines) \in Nat
  BY LinesTyped DEF StoreInv, StoreTypeOK
<1> DEFINE Kept(p) == \E n \in 0..Len(files[p].lines) : files'[p].lines = SubSeq(files[p].lines, 1, n)
<1>4. /\ files' \in [Path -> File]
      /\ \A p \in Path : files'[p].state # "open" /\ Kept(p)
  <2>1. CASE Restart
    BY <1>3, <2>1, ClosedPrefix DEF Restart
  <2>2. ASSUME NEW p \in Path, NEW n \in 0..MaxLines, NEW cut \in BOOLEAN, PowerLoss(p, n, cut)
        PROVE  /\ files' \in [Path -> File]
               /\ \A q \in Path : files'[q].state # "open" /\ Kept(q)
    <3>1. n \in Nat /\ n <= Len(files[p].lines) /\ n \in 0..Len(files[p].lines)
      BY <1>3, <2>2, ArchiveAssumption DEF PowerLoss
    <3>2. files' = [q \in Path |-> IF q = p THEN Truncated(files[p], n, cut) ELSE Closed(files[q])]
      BY <2>2 DEF PowerLoss
    <3>3. /\ Truncated(files[p], n, cut) \in File /\ Truncated(files[p], n, cut).state # "open"
          /\ Truncated(files[p], n, cut).lines = SubSeq(files[p].lines, 1, n)
      <4>1. files[p] \in File
        BY <1>3
      <4> QED BY <3>1, <4>1, TruncatedFile DEF Truncated
    <3>4. \A q \in Path : files'[q] = IF q = p THEN Truncated(files[p], n, cut) ELSE Closed(files[q])
      BY <3>2
    <3>5. \A q \in Path \ {p} : files'[q] \in File /\ files'[q].state # "open" /\ Kept(q)
      BY <1>3, <3>4, ClosedPrefix
    <3>6. files'[p] \in File /\ files'[p].state # "open" /\ Kept(p)
      BY <3>1, <3>3, <3>4
    <3> QED BY <3>2, <3>5, <3>6
  <2>3. CASE PresentPaths = {} /\ UNCHANGED files
    <3>1. \A p \in Path : files[p].state # "open"
      BY <2>3 DEF PresentPaths, Present
    <3>2. \A p \in Path : SubSeq(files[p].lines, 1, Len(files[p].lines)) = files[p].lines
      BY <1>3
    <3>3. \A p \in Path : Len(files[p].lines) \in 0..Len(files[p].lines)
      BY <1>3
    <3>4. \A p \in Path : Kept(p)
      BY <2>3, <3>2, <3>3
    <3>5. files' \in [Path -> File] /\ \A p \in Path : files'[p].state # "open"
      BY <2>3, <3>1 DEF StoreInv, StoreTypeOK
    <3> QED BY <3>4, <3>5
  <2> QED BY <2>1, <2>2, <2>3 DEF ProcessDies
<1> QED BY <1>1, <1>2, <1>4, LostStore

LEMMA StoreKept == StoreInv /\ (late = Null \/ late \in Path) /\ [Next]_vars => StoreInv'
<1> SUFFICES ASSUME StoreInv, late = Null \/ late \in Path, [Next]_vars PROVE StoreInv'
  OBVIOUS
<1>1. StoreTypeOK
  BY DEF StoreInv
<1>2. CASE Recorder
  <2>1. RecorderStep
    BY <1>2 DEF Recorder, RecorderStep, UpstreamStep
  <2> QED BY <2>1, StreamStep, TickStep DEF RecorderStep
<1>3. CASE MaintenanceStep
  <2>1. ASSUME NEW p \in Path, GcRemove(p) PROVE StoreInv'
    BY <2>1, CollectedStore DEF GcRemove
  <2> QED BY <1>1, <1>3, <2>1, MaintenanceQuiet, QuietStoreStep
<1>4. CASE MaintenanceFault
  BY <1>1, <1>4, FaultQuiet, QuietStoreStep, DeadStore
<1>5. CASE SignalShutdown \/ IngestJoined \/ UNCHANGED vars
  BY <1>1, <1>5, QuietStoreStep
     DEF SignalShutdown, IngestJoined, vars, recorderVars, QuietStore, StoreTypeOK
<1>6. CASE LateRemove
  BY <1>6, CollectedStore DEF LateRemove
<1> QED
  BY <1>2, <1>3, <1>4, <1>5, <1>6, DeadStore DEF Next

-----------------------------------------------------------------------------
(* Every step of the whole is a step of IndexSpec or leaves what it speaks   *)
(* of unchanged.                                                             *)

(* A write through a handle, where the file has room and is at the right     *)
(* half of a line.                                                           *)
LEMMA WriteRefines ==
  ASSUME files \in [Path -> File], NEW p \in Path, UNCHANGED <<dbVars, tx>>,
         \/ /\ Write(p, WithText(files[p]))
            /\ files[p].state = "open" => ~files[p].partial /\ Len(files[p].lines) < MaxLines
         \/ /\ \E line \in Lines : Write(p, WithNewline(files[p], line))
            /\ files[p].state = "open" => files[p].partial
  PROVE  IndexNext \/ UNCHANGED indexVars
<1>1. CASE files[p].state # "open"
  <2>1. ASSUME NEW f, Write(p, f) PROVE UNCHANGED files
    BY <1>1, <2>1 DEF Write
  <2> QED BY <2>1 DEF indexVars, dbVars
<1>2. CASE files[p].state = "open"
  <2>1. ASSUME NEW f, Write(p, f) PROVE files' = [files EXCEPT ![p] = f]
    BY <1>2, <2>1 DEF Write
  <2>2. ASSUME Write(p, WithText(files[p])), ~files[p].partial, Len(files[p].lines) < MaxLines
        PROVE  WriteText(p)
    BY <1>2, <2>1, <2>2 DEF WriteText
  <2>3. ASSUME NEW line \in Lines, Write(p, WithNewline(files[p], line)), files[p].partial
        PROVE  WriteNewline(p, line)
    BY <1>2, <2>1, <2>3 DEF WriteNewline
  <2> QED BY <1>2, <2>2, <2>3 DEF IndexNext, ArchiveStep
<1> QED BY <1>1, <1>2

LEMMA CloseRefines ==
  ASSUME files \in [Path -> File], NEW path, UNCHANGED <<dbVars, tx>>,
         files' = [p \in Path |-> IF p = path THEN Closed(files[p]) ELSE files[p]]
  PROVE  IndexNext \/ UNCHANGED indexVars
<1>1. CASE path \in Path /\ files[path].state = "open"
  <2>1. files' = [files EXCEPT ![path] = Closed(@)]
    BY <1>1
  <2>2. CloseFile(path)
    BY <1>1, <2>1 DEF CloseFile
  <2> QED BY <1>1, <2>2 DEF IndexNext, ArchiveStep
<1>2. CASE ~(path \in Path /\ files[path].state = "open")
  <2>1. \A p \in Path : p = path => Closed(files[p]) = files[p]
    BY <1>2 DEF Closed
  <2>2. UNCHANGED files
    BY <2>1
  <2> QED BY <2>2 DEF indexVars, dbVars
<1> QED BY <1>1, <1>2

LEMMA RoomForText ==
  ASSUME StoreInv, NEW p \in Path, rec[p.stream].pc \in Unwritten
  PROVE  Len(files[p].lines) < MaxLines
<1>1. p.stream \in Streams
  BY DEF Path
<1>2. Len(files[p].lines) < heard
  BY <1>1 DEF StoreInv, StreamInv, FilesSound, LinesHeard
<1>3. heard \in 0..MaxHeard /\ files[p] \in File
  BY DEF StoreInv, StoreTypeOK
<1> QED BY <1>2, <1>3, LinesTyped, StoreAssumption, ArchiveAssumption

LEMMA HandleRefines ==
  ASSUME StoreInv, NEW s \in Streams, HandleStep(s), UNCHANGED <<dbVars, tx>>
  PROVE  IndexNext \/ UNCHANGED indexVars
<1>0. UNCHANGED files => UNCHANGED indexVars
  BY DEF indexVars, dbVars
<1>1. files \in [Path -> File] /\ PathsKnown(s) /\ LineAccounted(s)
  BY StreamFacts
<1>2. active[s] # Null => active[s].path \in Path /\ active[s].path.stream = s
  BY StreamFacts
<1>3. CASE SkipInvalidJson(s) \/ SkipNoProgram(s) \/ StartProgram(s)
  BY <1>0, <1>3 DEF SkipInvalidJson, SkipNoProgram, StartProgram
<1>4. CASE AppendText(s)
  <2>1. /\ rec[s].pc = "received" /\ Appends(s) /\ active[s] # Null /\ IsJson(rec[s].line)
        /\ Write(active[s].path, WithText(files[active[s].path]))
    BY <1>4 DEF AppendText, Appends
  <2>2. Appending(s, FALSE)
    BY <1>1, <2>1 DEF LineAccounted, Starting, Appends
  <2>3. files[active[s].path].state = "open" => ~files[active[s].path].partial
    BY <2>1, <2>2 DEF Appending, ActiveHolds, OpenFileHolds
  <2>4. Len(files[active[s].path].lines) < MaxLines
    BY <1>2, <2>1, RoomForText DEF Unwritten
  <2> QED BY <1>1, <1>2, <2>1, <2>3, <2>4, WriteRefines
<1>5. CASE AppendNewline(s)
  <2>1. /\ Appending(s, TRUE) /\ active[s] # Null /\ rec[s].line \in Lines
        /\ Write(active[s].path, WithNewline(files[active[s].path], rec[s].line))
    BY <1>1, <1>5 DEF AppendNewline, LineAccounted, Appending, PathsKnown, Handling, HandlerSteps
  <2>2. files[active[s].path].state = "open" => files[active[s].path].partial
    BY <2>1 DEF Appending, ActiveHolds, OpenFileHolds
  <2> QED BY <1>1, <1>2, <2>1, <2>2, WriteRefines
<1>6. CASE OpenArchiveFile(s)
  <2>1. PICK p \in Path : FreeName(s, p) /\ files' = [files EXCEPT ![p] = Created]
    BY <1>6 DEF OpenArchiveFile
  <2>2. CreateFile(p)
    BY <2>1 DEF FreeName, CreateFile
  <2> QED BY <2>2 DEF IndexNext, ArchiveStep
<1>7. CASE WriteFirstText(s)
  <2>1. /\ rec[s].pc = "created" /\ rec[s].path \in Path /\ rec[s].path.stream = s
        /\ OpenFileHolds(rec[s].path, <<>>, FALSE)
        /\ Write(rec[s].path, WithText(files[rec[s].path]))
    BY <1>1, <1>7 DEF WriteFirstText, PathsKnown, LineAccounted, Opened
  <2>2. Len(files[rec[s].path].lines) < MaxLines
    BY <2>1, RoomForText DEF Unwritten
  <2> QED BY <1>1, <2>1, <2>2, WriteRefines DEF OpenFileHolds
<1>8. CASE WriteFirstNewline(s)
  <2>1. /\ rec[s].path \in Path /\ rec[s].line \in Lines
        /\ OpenFileHolds(rec[s].path, <<>>, TRUE)
        /\ Write(rec[s].path, WithNewline(files[rec[s].path], rec[s].line))
    BY <1>1, <1>8 DEF WriteFirstNewline, PathsKnown, LineAccounted, Opened, Handling, HandlerSteps
  <2> QED BY <1>1, <2>1, WriteRefines DEF OpenFileHolds
<1>9. CASE ReplaceActive(s)
  <2>1. files' = CloseActive(s)
    BY <1>9 DEF ReplaceActive
  <2>2. CASE active[s] = Null
    <3>1. UNCHANGED files
      BY <1>1, <2>1, <2>2 DEF CloseActive
    <3> QED BY <1>0, <3>1
  <2>3. CASE active[s] # Null
    BY <1>1, <2>1, <2>3, CloseRefines DEF CloseActive
  <2> QED BY <2>2, <2>3
<1>10. CASE HandlerFails(s)
  BY <1>1, <1>10, CloseRefines DEF HandlerFails
<1> QED
  BY <1>3, <1>4, <1>5, <1>6, <1>7, <1>8, <1>9, <1>10 DEF HandleStep

LEMMA RecorderRefines ==
  ASSUME StoreInv, Recorder
  PROVE  IndexNext \/ UNCHANGED indexVars
<1>1. UNCHANGED <<dbVars, tx>>
  BY DEF Recorder
<1>2. UNCHANGED files => UNCHANGED indexVars
  BY <1>1 DEF indexVars, dbVars
<1>3. CASE Tick
  BY <1>2, <1>3 DEF Tick
<1>4. ASSUME NEW s \in Streams, HandleStep(s) PROVE IndexNext \/ UNCHANGED indexVars
  BY <1>1, <1>4, HandleRefines
<1>5. ASSUME NEW s \in Streams,
             Disconnect(s) \/ ProgramChangesUnheard(s) \/ \E line \in Lines : Receive(s, line)
      PROVE  IndexNext \/ UNCHANGED indexVars
  BY <1>2, <1>5 DEF Disconnect, ProgramChangesUnheard, Receive
<1>6. ASSUME NEW s \in Streams, Connect(s) PROVE IndexNext \/ UNCHANGED indexVars
  <2>1. files' = CloseActive(s) /\ files \in [Path -> File]
    BY <1>6, StreamFacts DEF Connect
  <2>2. CASE active[s] = Null
    <3>1. UNCHANGED files
      BY <2>1, <2>2 DEF CloseActive
    <3> QED BY <1>2, <3>1
  <2>3. CASE active[s] # Null
    BY <1>1, <2>1, <2>3, CloseRefines DEF CloseActive
  <2> QED BY <2>2, <2>3
<1> QED BY <1>3, <1>4, <1>5, <1>6 DEF Recorder

LEMMA TaskRefines ==
  ASSUME late = Null \/ late \in Path,
         \/ MaintenanceStep \/ (MaintenanceFault /\ ~ProcessDies)
         \/ SignalShutdown \/ IngestJoined \/ LateRemove
  PROVE  IndexNext \/ UNCHANGED indexVars
<1>1. UNCHANGED <<files, dbVars, tx>> => UNCHANGED indexVars
  BY DEF indexVars, dbVars
<1>2. ASSUME \/ \E p \in Path : IngestStat(p)
             \/ IngestCommit \/ IngestRollback \/ CleanupDeleted \/ DeleteDatabase
             \/ \E p \in Path : RemoveFile(p)
      PROVE  IndexNext
  BY <1>2 DEF IndexNext, IndexStep, ArchiveStep
<1>3. CASE \/ OpenDatabase \/ ReuseConnection \/ ScanEnd \/ SnapshotDirtyPaths
           \/ (\E p \in Path : DirtyMissing(p)) \/ ClearDirtyPathIfUnchanged \/ DirtyEnd
  BY <1>1, <1>3 DEF OpenDatabase, ReuseConnection, ScanEnd, SnapshotDirtyPaths, DirtyMissing,
                    ClearDirtyPathIfUnchanged, DirtyEnd
<1>4. CASE \/ (\E p \in Path : ScanStat(p) \/ DirtyStat(p) \/ GcRemove(p))
           \/ ScanCommit \/ DirtyCommit \/ LateRemove
  BY <1>2, <1>4 DEF ScanStat, DirtyStat, GcRemove, ScanCommit, DirtyCommit, LateRemove
<1>5. CASE SearchCleanup
  BY <1>1, <1>2, <1>5 DEF SearchCleanup
<1>6. CASE Wake \/ ShutdownObserved \/ GcNotDue \/ GcStart \/ GcSnapshot \/ GcEnd \/ GcCancelled
  BY <1>1, <1>6 DEF Wake, ShutdownObserved, GcNotDue, GcStart, GcSnapshot, GcEnd, GcFinished,
                    GcCancelled, BeginPass
<1>7. CASE \/ DatabaseUnavailable \/ (\E p \in Path : ScanWalkFails(p)) \/ CleanupFails \/ GcFails
           \/ SignalShutdown \/ IngestJoined
  BY <1>1, <1>7 DEF DatabaseUnavailable, ScanWalkFails, CleanupFails, GcFails, GcFinished,
                    SignalShutdown, IngestJoined
<1>8. CASE ScanIngestFails \/ DirtyIngestFails \/ CommitsLost
  BY <1>2, <1>8 DEF ScanIngestFails, DirtyIngestFails, CommitsLost
<1>9. CASE MaintenancePanics
  <2>1. tx' = Null /\ UNCHANGED <<files, dbVars>>
    BY <1>9 DEF MaintenancePanics
  <2> QED BY <1>1, <1>2, <2>1 DEF IngestRollback
<1> QED
  BY <1>3, <1>4, <1>5, <1>6, <1>7, <1>8, <1>9 DEF MaintenanceStep, MaintenanceFault

LEMMA EndRefines ==
  ASSUME StoreInv, ProcessDies \/ (Restart /\ tx = Null)
  PROVE  IndexNext \/ UNCHANGED indexVars
<1>1. files \in [Path -> File] /\ \A p \in Path : files[p] \in File
  BY DEF StoreInv, StoreTypeOK
<1>2. CASE Restart /\ tx = Null
  <2>1. files' = [p \in Path |-> Closed(files[p])] /\ UNCHANGED <<dbVars, tx>>
    BY <1>2 DEF Restart
  <2>2. CASE \E p \in Path : files[p].state = "open"
    <3>1. PICK p \in Path : files[p].state = "open"
      BY <2>2
    <3> DEFINE n == Len(files[p].lines)
               cut == files[p].partial
    <3>2. n \in Nat /\ cut \in BOOLEAN /\ files[p].lines \in Seq(Lines)
      BY <1>1, LinesTyped
    <3>3. n \in 0..MaxLines
      <4>1. p.stream \in Streams
        BY DEF Path
      <4>2. n <= heard
        BY <4>1 DEF StoreInv, StreamInv, FilesSound, LinesHeard
      <4>3. heard \in 0..MaxHeard
        BY DEF StoreInv, StoreTypeOK
      <4> QED BY <3>2, <4>2, <4>3, StoreAssumption, ArchiveAssumption
    <3>4. Truncated(files[p], n, cut) = Closed(files[p])
      <4>1. SubSeq(files[p].lines, 1, n) = files[p].lines
        BY <3>2
      <4>2. files[p] = [state |-> "open", lines |-> files[p].lines, partial |-> files[p].partial]
        BY <1>1, <3>1 DEF File
      <4>3. Closed(files[p])
              = [state |-> "closed", lines |-> files[p].lines, partial |-> files[p].partial]
        BY <4>2 DEF Closed
      <4> QED BY <4>1, <4>3 DEF Truncated
    <3>5. files' = [q \in Path |-> IF q = p THEN Truncated(files[p], n, cut) ELSE Closed(files[q])]
      BY <2>1, <3>4
    <3>6. PowerLoss(p, n, cut)
      BY <1>2, <2>1, <3>1, <3>2, <3>5 DEF PowerLoss, Present
    <3>7. ArchiveStep
      BY <3>2, <3>3, <3>6 DEF ArchiveStep
    <3> QED BY <3>7 DEF IndexNext
  <2>3. CASE \A p \in Path : files[p].state # "open"
    <3>1. UNCHANGED files
      BY <1>1, <2>1, <2>3 DEF Closed
    <3> QED BY <2>1, <3>1 DEF indexVars, dbVars
  <2> QED BY <2>2, <2>3
<1>3. CASE ProcessDies
  <2>1. CASE \E p \in Path, n \in 0..MaxLines, cut \in BOOLEAN : PowerLoss(p, n, cut)
    BY <2>1 DEF IndexNext, ArchiveStep
  <2>2. CASE tx' = Null /\ UNCHANGED <<files, dbVars>>
    BY <2>2 DEF IndexNext, IndexStep, IngestRollback, indexVars, dbVars
  <2> QED BY <1>3, <2>1, <2>2 DEF ProcessDies
<1> QED BY <1>2, <1>3

-----------------------------------------------------------------------------
(* Types, and the shape of the task's control.                               *)

TaskTypeOK ==
  /\ mpc \in {"apply", "scan", "snapshot", "dirty", "clear", "cleanup", "sleep", "gc_due",
              "gc_snapshot", "gc_walk", "gc_cleanup", "stopped"}
  /\ phase \in {"startup", "steady", "shutdown"}
  /\ conn \in BOOLEAN /\ ready \in BOOLEAN /\ cleanup_pending \in BOOLEAN
  /\ todo \subseteq Path /\ known \subseteq Path /\ protected \subseteq Path
  /\ failed \subseteq Path
  /\ snapshot \in [Path -> Nat]
  /\ cur \in Path \cup {Null}
  /\ cutoff \in Int
  /\ stopping \in {"no", "ingest", "maintenance"}
  /\ late \in Path \cup {Null}

LEMMA TypeIs == TypeOK <=> StoreTypeOK /\ IndexTypeOK /\ TaskTypeOK
BY DEF TypeOK, TaskTypeOK

LEMMA PathSets == PresentPaths \subseteq Path /\ NoSnapshot \in [Path -> Nat]
BY DEF PresentPaths, NoSnapshot

LEMMA ActivePathSet == StoreTypeOK => ActivePaths \subseteq Path
BY DEF StoreTypeOK, ActivePaths

LEMMA TxPath == IndexTypeOK /\ tx # Null => tx.path \in Path /\ tx.size \in Nat
BY DEF IndexTypeOK

LEMMA NewTaskShape ==
  ASSUME NewTask, tx' = Null, failed' \subseteq Path, ready' \in BOOLEAN,
         stopping' \in {"no", "ingest", "maintenance"}, late' = Null
  PROVE  TaskTypeOK' /\ TaskShape'
<1>1. /\ mpc' = "apply" /\ phase' = "startup" /\ conn' = FALSE /\ cleanup_pending' = TRUE
      /\ todo' = {} /\ known' = {} /\ snapshot' = NoSnapshot /\ cur' = Null
      /\ protected' = {} /\ cutoff' = 0
  BY DEF NewTask
<1>2. TaskTypeOK'
  <2>1. snapshot' \in [Path -> Nat] /\ cutoff' \in Int /\ cur' \in Path \cup {Null}
    BY <1>1, PathSets
  <2>2. conn' \in BOOLEAN /\ cleanup_pending' \in BOOLEAN
    BY <1>1
  <2>3. todo' \subseteq Path /\ known' \subseteq Path /\ protected' \subseteq Path
    BY <1>1
  <2> QED BY <1>1, <2>1, <2>2, <2>3 DEF TaskTypeOK
<1>3. snapshot' = NoSnapshot'
  BY <1>1 DEF NoSnapshot
<1>4. TaskShape'
  BY <1>1, <1>3 DEF TaskShape
<1> QED BY <1>2, <1>4

LEMMA TaskStep ==
  ASSUME StoreTypeOK, IndexTypeOK, TaskTypeOK, TaskShape, [Next]_vars
  PROVE  TaskTypeOK' /\ TaskShape'
<1> USE DEF TaskTypeOK, TaskShape, taskVars, passVars
<1>1. CASE Recorder \/ UNCHANGED vars
  BY <1>1 DEF Recorder, vars
<1>2. CASE OpenDatabase
  BY <1>2, PathSets DEF OpenDatabase
<1>3. CASE ReuseConnection
  BY <1>3 DEF ReuseConnection
<1>4. ASSUME NEW p \in Path, ScanStat(p) PROVE TaskTypeOK' /\ TaskShape'
  BY <1>4 DEF ScanStat, IngestStat
<1>5. CASE ScanCommit
  BY <1>5, TxPath DEF ScanCommit, IngestCommit
<1>6. CASE ScanEnd
  BY <1>6 DEF ScanEnd
<1>7. CASE SnapshotDirtyPaths
  BY <1>7 DEF SnapshotDirtyPaths, StoreTypeOK
<1>8. ASSUME NEW p \in Path, DirtyStat(p) PROVE TaskTypeOK' /\ TaskShape'
  BY <1>8 DEF DirtyStat, IngestStat
<1>9. ASSUME NEW p \in Path, DirtyMissing(p) PROVE TaskTypeOK' /\ TaskShape'
  BY <1>9 DEF DirtyMissing, Handled
<1>10. CASE DirtyCommit
  BY <1>10, TxPath DEF DirtyCommit, IngestCommit
<1>11. CASE ClearDirtyPathIfUnchanged
  BY <1>11 DEF ClearDirtyPathIfUnchanged, Handled
<1>12. CASE DirtyEnd
  BY <1>12 DEF DirtyEnd
<1>13. CASE SearchCleanup
  BY <1>13 DEF SearchCleanup, CleanupDeleted, AfterCleanup, AfterPass
<1>14. CASE Wake
  BY <1>14 DEF Wake, BeginPass
<1>15. CASE ShutdownObserved
  BY <1>15 DEF ShutdownObserved, BeginPass
<1>16. CASE GcNotDue
  BY <1>16 DEF GcNotDue
<1>17. CASE GcStart
  <2>1. clock - Retention \in Int
    BY ArchiveAssumption, RetentionAssumption DEF StoreTypeOK
  <2> QED BY <1>17, <2>1 DEF GcStart
<1>18. CASE GcSnapshot
  BY <1>18, PathSets, ActivePathSet DEF GcSnapshot
<1>19. ASSUME NEW p \in Path, GcRemove(p) PROVE TaskTypeOK' /\ TaskShape'
  BY <1>19 DEF GcRemove, RemoveFile
<1>20. CASE GcEnd
  BY <1>20 DEF GcEnd, GcFinished
<1>21. CASE GcCancelled
  <2>1. late' \in Path \cup {Null}
    BY <1>21 DEF GcCancelled
  <2> QED BY <1>21, <2>1 DEF GcCancelled, BeginPass
<1>22. CASE DatabaseUnavailable
  BY <1>22, PathSets DEF DatabaseUnavailable, AfterPass
<1>23. CASE ScanIngestFails
  BY <1>23, TxPath DEF ScanIngestFails, IngestRollback
<1>24. ASSUME NEW p \in Path, ScanWalkFails(p) PROVE TaskTypeOK' /\ TaskShape'
  BY <1>24 DEF ScanWalkFails
<1>25. CASE DirtyIngestFails
  BY <1>25, TxPath DEF DirtyIngestFails, IngestRollback, Handled
<1>26. CASE CleanupFails
  BY <1>26 DEF CleanupFails, AfterCleanup, AfterPass
<1>27. CASE GcFails
  BY <1>27 DEF GcFails, GcFinished
<1>28. CASE MaintenancePanics
  BY <1>28, NewTaskShape DEF MaintenancePanics
<1>29. CASE ProcessDies
  BY <1>29, NewTaskShape DEF ProcessDies, NewProcess, PowerLoss
<1>30. CASE CommitsLost
  BY <1>30 DEF CommitsLost, DeleteDatabase
<1>31. CASE SignalShutdown
  BY <1>31 DEF SignalShutdown
<1>32. CASE IngestJoined
  BY <1>32 DEF IngestJoined
<1>33. CASE Restart
  BY <1>33, NewTaskShape DEF Restart, NewProcess
<1>34. CASE LateRemove
  BY <1>34 DEF LateRemove, RemoveFile
<1> QED
  BY <1>1, <1>2, <1>3, <1>4, <1>5, <1>6, <1>7, <1>8, <1>9, <1>10, <1>11, <1>12, <1>13, <1>14, <1>15, <1>16, <1>17, <1>18, <1>19, <1>20, <1>21, <1>22, <1>23, <1>24, <1>25, <1>26, <1>27, <1>28, <1>29, <1>30, <1>31, <1>32, <1>33, <1>34
     DEF Next, MaintenanceStep, MaintenanceFault

CoreInv == StoreInv /\ IndexTypeOK /\ TaskTypeOK /\ TaskShape

LEMMA CoreInit == Init => CoreInv
<1> SUFFICES ASSUME Init PROVE CoreInv
  OBVIOUS
<1>1. StoreInv /\ IndexTypeOK
  BY StoreInvInit, IndexTypeInit DEF Init
<1>2. TaskTypeOK /\ TaskShape
  <2>1. /\ mpc = "apply" /\ phase = "startup" /\ tx = Null /\ conn = FALSE /\ ready = FALSE
        /\ cleanup_pending = TRUE /\ todo = {} /\ known = {} /\ snapshot = NoSnapshot
        /\ cur = Null /\ protected = {} /\ cutoff = 0 /\ failed = {} /\ stopping = "no"
        /\ late = Null
    BY DEF Init, TaskInit, IndexInit
  <2>2. snapshot \in [Path -> Nat] /\ cutoff \in Int /\ cur \in Path \cup {Null}
    BY <2>1, PathSets
  <2>3. /\ conn \in BOOLEAN /\ ready \in BOOLEAN /\ cleanup_pending \in BOOLEAN
        /\ todo \subseteq Path /\ known \subseteq Path /\ protected \subseteq Path
        /\ failed \subseteq Path
    BY <2>1
  <2>4. TaskTypeOK
    BY <2>1, <2>2, <2>3 DEF TaskTypeOK
  <2>5. TaskShape
    BY <2>1 DEF TaskShape
  <2> QED BY <2>4, <2>5
<1> QED BY <1>1, <1>2 DEF CoreInv

(* A step of the archive is a step of the index specification.               *)
LEMMA StepRefines == CoreInv /\ [Next]_vars => [IndexNext]_indexVars
<1> SUFFICES ASSUME CoreInv, [Next]_vars PROVE IndexNext \/ UNCHANGED indexVars
  OBVIOUS
<1>1. StoreInv /\ (mpc = "stopped" => tx = Null) /\ (late = Null \/ late \in Path)
  BY DEF CoreInv, TaskShape, TaskTypeOK
<1>2. CASE UNCHANGED vars
  BY <1>2 DEF vars, indexVars, dbVars
<1>3. Restart => tx = Null
  BY <1>1 DEF Restart
<1> QED
  BY <1>1, <1>2, <1>3, RecorderRefines, TaskRefines, EndRefines DEF Next

LEMMA CoreStep == CoreInv /\ [Next]_vars => CoreInv'
<1> SUFFICES ASSUME CoreInv, [Next]_vars PROVE CoreInv'
  OBVIOUS
<1>1. StoreInv /\ StoreTypeOK /\ IndexTypeOK /\ TaskTypeOK /\ TaskShape
  BY DEF CoreInv, StoreInv
<1>2. StoreInv'
  <2>1. late = Null \/ late \in Path
    BY <1>1 DEF TaskTypeOK
  <2> QED BY <1>1, <2>1, StoreKept
<1>3. IndexTypeOK'
  BY <1>1, StepRefines, IndexTypeStep
<1>4. TaskTypeOK' /\ TaskShape'
  BY <1>1, TaskStep
<1> QED BY <1>2, <1>3, <1>4 DEF CoreInv

LEMMA CoreCorrect == Spec => []CoreInv
BY CoreInit, CoreStep, PTL DEF Spec

(* The variables of the recorder, the index and the task keep their types.   *)
THEOREM TypeCorrect == Spec => []TypeOK
<1>1. CoreInv => TypeOK
  BY TypeIs DEF CoreInv, StoreInv
<1> QED BY <1>1, CoreCorrect, PTL

(* The recorder, the collector, the maintenance task, its failures and the   *)
(* end of the process do to the files and the database only what IndexSpec   *)
(* allows: the index sees an archive that is created, extended a text and a  *)
(* newline at a time, closed, removed between transactions, or cut short     *)
(* when the process dies (indexer.rs:60-168, archive.rs:173-208, 601-630).   *)
THEOREM ArchiveImplementsIndex == Spec => IndexSpec
<1>1. Init => IndexInit
  BY DEF Init
<1> QED BY <1>1, StepRefines, CoreCorrect, PTL DEF Spec, IndexSpec

(* What holds of the index over any archive holds over this one: the tables  *)
(* agree, no file is taken for a shrunk one, and a program shows exactly the *)
(* captions of the indexed lines of its file (ingest.rs:241-262, 401-513).   *)
THEOREM IndexOfArchive == Spec => [](OwnerConsistent /\ NoFalseShrink /\ CaptionsExact)
BY ArchiveImplementsIndex, OwnerCorrect, NoFalseShrinkCorrect, CaptionsExactCorrect, PTL

(* And no step of the system takes a program or a caption out of the index   *)
(* but for a removed file, a new database or another file that takes over    *)
(* (ingest.rs:241-262, 343-388, 611-619).                                    *)
THEOREM IndexOfArchivePersists == Spec => ProgramsPersist /\ CaptionsPersist
BY ArchiveImplementsIndex, ProgramsPersistCorrect, CaptionsPersistCorrect

(* Nor does maintenance beside the recorder disturb what the recorder        *)
(* promises of its files (archive.rs:150-208, 286-301).                      *)
THEOREM RecorderUndisturbed ==
  Spec => [](OneProgramPerFile /\ ActiveFileComplete /\ HandlesOwned)
<1>1. CoreInv => OneProgramPerFile /\ ActiveFileComplete /\ HandlesOwned
  BY StoreInvPrograms, StoreInvComplete, StoreInvHandles DEF CoreInv
<1> QED BY <1>1, CoreCorrect, PTL

-----------------------------------------------------------------------------
(* What the steps of each part do to the files and the rows of the other.    *)

(* Recording never takes a file away, and adds lines only to the active file *)
(* and to the one being opened.                                              *)
FilesGrow(s) ==
  \A p \in Path :
    /\ Present(p) => Present(p)'
    /\ files'[p].state = "unused" => files[p].state = "unused"
    /\ ~Present(p) /\ Present(p)' => files'[p].lines = <<>>
    /\ Present(p) => \/ files'[p].lines = files[p].lines
                     \/ AppendNewline(s) /\ active[s] # Null /\ p = active[s].path
                     \/ WriteFirstNewline(s) /\ p = rec[s].path

LEMMA SameStates ==
  ASSUME NEW s \in Streams,
         \A p \in Path : /\ files'[p].state = files[p].state
                         /\ \/ files'[p].lines = files[p].lines
                            \/ AppendNewline(s) /\ active[s] # Null /\ p = active[s].path
                            \/ WriteFirstNewline(s) /\ p = rec[s].path
  PROVE  FilesGrow(s)
BY DEF FilesGrow, Present

LEMMA ClosedFiles ==
  ASSUME NEW s \in Streams, files \in [Path -> File],
         \A p \in Path : files'[p] \in {files[p], Closed(files[p])}
  PROVE  FilesGrow(s)
<1>1. \A f \in File : /\ Closed(f).lines = f.lines
                      /\ f.state \in {"open", "closed"} <=> Closed(f).state \in {"open", "closed"}
                      /\ f.state = "unused" <=> Closed(f).state = "unused"
  BY DEF File, Closed
<1>2. \A p \in Path : files[p] \in File
  OBVIOUS
<1>3. ASSUME NEW p \in Path
      PROVE  /\ files'[p].lines = files[p].lines
             /\ Present(p) <=> Present(p)'
             /\ files[p].state = "unused" <=> files'[p].state = "unused"
  <2>1. CASE files'[p] = files[p]
    BY <2>1 DEF Present
  <2>2. CASE files'[p] = Closed(files[p])
    BY <1>1, <1>2, <2>2 DEF Present
  <2> QED BY <2>1, <2>2
<1> QED BY <1>3 DEF FilesGrow

LEMMA HandleFiles ==
  ASSUME StoreInv, NEW s \in Streams, HandleStep(s)
  PROVE  FilesGrow(s)
<1>1. files \in [Path -> File] /\ (\A p \in Path : files[p] \in File) /\ PathsKnown(s) /\ LineAccounted(s)
  BY StreamFacts
<1>2. active[s] # Null => active[s].path \in Path
  BY StreamFacts
<1>3. CASE SkipInvalidJson(s) \/ SkipNoProgram(s) \/ StartProgram(s)
  BY <1>3, SameStates DEF SkipInvalidJson, SkipNoProgram, StartProgram
<1>4. ASSUME NEW p \in Path, NEW f \in File, Write(p, f), f.state = files[p].state,
             \/ f.lines = files[p].lines
             \/ AppendNewline(s) /\ active[s] # Null /\ p = active[s].path
             \/ WriteFirstNewline(s) /\ p = rec[s].path
      PROVE  FilesGrow(s)
  <2>1. \A q \in Path : files'[q] = IF q = p /\ files[q].state = "open" THEN f ELSE files[q]
    BY <1>1, <1>4, WriteEffect
  <2> QED BY <1>4, <2>1, SameStates
<1>5. CASE AppendText(s)
  <2>1. active[s] # Null /\ Write(active[s].path, WithText(files[active[s].path]))
    BY <1>5 DEF AppendText, Appends
  <2>2. \A f \in File : /\ WithText(f) \in File /\ WithText(f).lines = f.lines
                        /\ WithText(f).state = f.state
    BY DEF WithText, File
  <2> QED BY <1>1, <1>2, <1>4, <2>1, <2>2
<1>6. CASE AppendNewline(s)
  <2>1. /\ active[s] # Null /\ rec[s].line \in Lines
        /\ Write(active[s].path, WithNewline(files[active[s].path], rec[s].line))
    BY <1>1, <1>6 DEF AppendNewline, LineAccounted, Appending, PathsKnown, Handling, HandlerSteps
  <2>2. /\ WithNewline(files[active[s].path], rec[s].line) \in File
        /\ WithNewline(files[active[s].path], rec[s].line).state = files[active[s].path].state
    BY <1>1, <1>2, <2>1, NewlineFile
  <2> QED BY <1>2, <1>4, <1>6, <2>1, <2>2
<1>7. CASE OpenArchiveFile(s)
  <2>1. PICK p \in Path : FreeName(s, p) /\ files' = [files EXCEPT ![p] = Created]
    BY <1>7 DEF OpenArchiveFile
  <2>2. files[p].state = "unused" /\ \A q \in Path : files'[q] = IF q = p THEN Created ELSE files[q]
    BY <1>1, <2>1 DEF FreeName
  <2> QED BY <2>2, CreatedFile DEF FilesGrow, Present
<1>8. CASE WriteFirstText(s)
  <2>1. rec[s].path \in Path /\ Write(rec[s].path, WithText(files[rec[s].path]))
    BY <1>1, <1>8 DEF WriteFirstText, PathsKnown, Opened
  <2>2. \A f \in File : /\ WithText(f) \in File /\ WithText(f).lines = f.lines
                        /\ WithText(f).state = f.state
    BY DEF WithText, File
  <2> QED BY <1>1, <1>4, <2>1, <2>2
<1>9. CASE WriteFirstNewline(s)
  <2>1. /\ rec[s].path \in Path /\ rec[s].line \in Lines
        /\ Write(rec[s].path, WithNewline(files[rec[s].path], rec[s].line))
    BY <1>1, <1>9 DEF WriteFirstNewline, PathsKnown, Opened, Handling, HandlerSteps
  <2>2. /\ WithNewline(files[rec[s].path], rec[s].line) \in File
        /\ WithNewline(files[rec[s].path], rec[s].line).state = files[rec[s].path].state
    BY <1>1, <2>1, NewlineFile
  <2> QED BY <1>4, <1>9, <2>1, <2>2
<1>10. CASE ReplaceActive(s)
  <2>1. files' = CloseActive(s)
    BY <1>10 DEF ReplaceActive
  <2>2. \A p \in Path : files'[p] \in {files[p], Closed(files[p])}
    BY <2>1 DEF CloseActive
  <2> QED BY <1>1, <2>2, ClosedFiles
<1>11. CASE HandlerFails(s)
  <2>1. \A p \in Path : files'[p] \in {files[p], Closed(files[p])}
    BY <1>11 DEF HandlerFails
  <2> QED BY <1>1, <2>1, ClosedFiles
<1> QED
  BY <1>3, <1>5, <1>6, <1>7, <1>8, <1>9, <1>10, <1>11 DEF HandleStep

LEMMA OtherRecorderFiles ==
  ASSUME StoreInv, NEW s \in Streams,
         \/ Tick \/ Disconnect(s) \/ ProgramChangesUnheard(s) \/ Connect(s)
         \/ \E line \in Lines : Receive(s, line)
  PROVE  FilesGrow(s)
<1>1. files \in [Path -> File]
  BY StreamFacts
<1>2. CASE UNCHANGED files
  BY <1>1, <1>2, ClosedFiles
<1>3. CASE Connect(s)
  <2>1. files' = CloseActive(s)
    BY <1>3 DEF Connect
  <2>2. \A p \in Path : files'[p] \in {files[p], Closed(files[p])}
    BY <2>1 DEF CloseActive
  <2> QED BY <1>1, <2>2, ClosedFiles
<1> QED BY <1>2, <1>3 DEF Tick, Disconnect, ProgramChangesUnheard, Receive

(* A transaction adds no row but that of its file, and demotes another only  *)
(* to "duplicate".  Its own file is covered afterwards unless the stat said  *)
(* that nothing was new.                                                     *)
LEMMA CommitRows ==
  ASSUME IndexTypeOK, IngestCommit
  PROVE  /\ tx.path \in Path
         /\ \A q \in Path \ {tx.path} :
              \/ indexed'[q] = indexed[q]
              \/ indexed[q] # Null /\ indexed'[q] # Null /\ indexed'[q].status = "duplicate"
         /\ \/ indexed'[tx.path] # Null /\ indexed'[tx.path].status # "ok"
            \/ indexed'[tx.path] # Null /\ indexed'[tx.path].lines = Len(files[tx.path].lines)
            \/ /\ indexed'[tx.path] = indexed[tx.path] /\ indexed[tx.path] # Null
               /\ tx.size = Offset(indexed[tx.path])
<1> DEFINE p == tx.path
<1>0. tx # Null
  BY DEF IngestCommit
<1>1. p \in Path
  BY <1>0, TxPath
<1>2. indexed \in [Path -> IndexedRow \cup {Null}] /\ \A row \in IndexedRow : row # Null
  BY NullAssumption DEF IndexTypeOK
<1>3. CASE SkipSettled(p)
  BY <1>1, <1>2, <1>3 DEF SkipSettled, Settled, dbVars
<1>4. CASE MarkCollisionLoser(p)
  <2> DEFINE row == [status |-> "duplicate", program_id |-> Null, lines |-> 0]
  <2>1. row \in IndexedRow /\ row.status # "ok"
    BY DEF IndexedRow
  <2>2. indexed' = [indexed EXCEPT ![p] = row]
    BY <1>4 DEF MarkCollisionLoser
  <2> HIDE DEF row
  <2> QED BY <1>1, <1>2, <2>1, <2>2
<1>5. CASE MarkShrunk(p, tx.size)
  <2>1. indexed[p] \in IndexedRow
    BY <1>1, <1>2, <1>5 DEF MarkShrunk
  <2>2. /\ [indexed[p] EXCEPT !.status = "error"] \in IndexedRow
        /\ [indexed[p] EXCEPT !.status = "error"].status = "error"
    BY <2>1 DEF IndexedRow
  <2>3. indexed' = [indexed EXCEPT ![p] = [indexed[p] EXCEPT !.status = "error"]]
    BY <1>5 DEF MarkShrunk
  <2> QED BY <1>1, <1>2, <2>2, <2>3
<1>6. CASE SkipUnchanged(p, tx.size)
  BY <1>1, <1>6 DEF SkipUnchanged, dbVars
<1>7. CASE IndexNewLines(p, tx.size)
  <2> DEFINE r == Recording(p)
             eits == EitsAfter(files[p].lines, StartLine(p))
             row == [status |-> "ok", lines |-> EndLine(p),
                     program_id |-> IF Linked(p) \/ eits # {} THEN r ELSE Null]
             Demoted(q) == TakesOver(p) /\ q = programs[r].path /\ indexed[q] # Null
             loser(q) == [status |-> "duplicate", program_id |-> Null, lines |-> indexed[q].lines]
  <2>1. indexed' = [q \in Path |-> IF q = p THEN row
                                   ELSE IF Demoted(q) THEN loser(q) ELSE indexed[q]]
    BY <1>7 DEF IndexNewLines, IndexTail
  <2>2. row.lines = Len(files[p].lines)
    BY DEF EndLine
  <2>3. \A q \in Path : indexed'[q] = IF q = p THEN row
                                      ELSE IF Demoted(q) THEN loser(q) ELSE indexed[q]
    BY <2>1
  <2>4. indexed' \in [Path -> IndexedRow \cup {Null}]
    BY <1>1, <1>7, IndexTailType DEF IndexNewLines
  <2>5. row.status = "ok" /\ row # Null
    <3>1. r \in Recordings
      BY <1>1, RecordingType
    <3>2. files[p] \in File
      BY <1>1 DEF IndexTypeOK
    <3>3. row \in IndexedRow
      BY <2>2, <3>1, <3>2, LinesTyped DEF IndexedRow
    <3> QED BY <1>2, <3>3
  <2>6. \A q \in Path : Demoted(q) => loser(q) \in IndexedRow /\ loser(q).status = "duplicate"
    BY <1>2 DEF IndexedRow
  <2>7. \A q \in Path : Demoted(q) => indexed[q] # Null
    OBVIOUS
  <2> HIDE DEF row, loser, Demoted
  <2> QED BY <1>1, <1>2, <2>2, <2>3, <2>5, <2>6, <2>7
<1> QED BY <1>0, <1>1, <1>3, <1>4, <1>5, <1>6, <1>7 DEF IngestCommit

(* Cleanup leaves the coverage of a file that is there.                      *)
LEMMA CleanupRows ==
  ASSUME IndexTypeOK, CleanupDeleted
  PROVE  \A p \in Path :
           /\ ~Present(p) => indexed'[p] = Null
           /\ Present(p) /\ indexed[p] # Null =>
                /\ indexed'[p] # Null /\ indexed'[p].status = indexed[p].status
                /\ indexed'[p].lines = indexed[p].lines
           /\ Present(p) /\ indexed[p] = Null => indexed'[p] = Null
<1> DEFINE gone == GonePaths
           Dropped(r) == programs[r] # Null /\ programs[r].path \in gone
           Unlinked(p) == indexed[p].program_id # Null /\ Dropped(indexed[p].program_id)
<1> SUFFICES ASSUME NEW p \in Path
             PROVE  /\ ~Present(p) => indexed'[p] = Null
                    /\ Present(p) /\ indexed[p] # Null =>
                         /\ indexed'[p] # Null /\ indexed'[p].status = indexed[p].status
                         /\ indexed'[p].lines = indexed[p].lines
                    /\ Present(p) /\ indexed[p] = Null => indexed'[p] = Null
  OBVIOUS
<1>1. p \in gone <=> ~Present(p)
  BY DEF GonePaths, PresentPaths
<1>2. indexed'[p] = IF p \in gone \/ indexed[p] = Null THEN Null
                    ELSE IF Unlinked(p) THEN [indexed[p] EXCEPT !.program_id = Null]
                    ELSE indexed[p]
  BY DEF CleanupDeleted
<1>3. ASSUME indexed[p] # Null
      PROVE  LET row == [indexed[p] EXCEPT !.program_id = Null]
             IN  row # Null /\ row.status = indexed[p].status /\ row.lines = indexed[p].lines
  <2>1. indexed[p] \in IndexedRow
    BY <1>3 DEF IndexTypeOK
  <2>2. [indexed[p] EXCEPT !.program_id = Null] \in IndexedRow
    BY <2>1 DEF IndexedRow
  <2> QED BY <2>1, <2>2, NullAssumption DEF IndexedRow
<1> HIDE DEF gone, Unlinked
<1> QED BY <1>1, <1>2, <1>3

-----------------------------------------------------------------------------
(* Rows without a file are owed a cleanup.                                   *)

LEMMA StaleRowsStep ==
  ASSUME CoreInv, NoFalseShrink, StaleRowsOwed, [Next]_vars
  PROVE  StaleRowsOwed'
<1> USE DEF taskVars, passVars
<1>1. IndexTypeOK /\ StoreInv /\ TaskShape
  BY DEF CoreInv
<1> DEFINE Owed == cleanup_pending \/ mpc = "gc_walk" \/ phase = "shutdown"
<1>2. ASSUME Owed => Owed',
             \A p \in Path : indexed'[p] # Null /\ ~Present(p)' => indexed[p] # Null /\ ~Present(p)
      PROVE  StaleRowsOwed'
  BY <1>2 DEF StaleRowsOwed
<1>3. ASSUME UNCHANGED <<files, indexed>>, Owed => Owed'
      PROVE  StaleRowsOwed'
  BY <1>3 DEF StaleRowsOwed, Present
<1>4. CASE Recorder
  <2>1. UNCHANGED <<mpc, phase, cleanup_pending, indexed>>
    BY <1>4 DEF Recorder, dbVars
  <2>2. ASSUME NEW p \in Path, Present(p) PROVE Present(p)'
    <3>1. CASE Tick
      BY <2>2, <3>1 DEF Tick, Present
    <3>2. ASSUME NEW s \in Streams, FilesGrow(s) PROVE Present(p)'
      BY <2>2, <3>2 DEF FilesGrow
    <3> QED BY <1>1, <1>4, <3>1, <3>2, HandleFiles, OtherRecorderFiles DEF Recorder
  <2> QED BY <1>2, <2>1, <2>2
<1>5. CASE \/ OpenDatabase \/ ReuseConnection \/ (\E p \in Path : ScanStat(p)) \/ ScanEnd
           \/ SnapshotDirtyPaths \/ (\E p \in Path : DirtyStat(p)) \/ (\E p \in Path : DirtyMissing(p))
           \/ ClearDirtyPathIfUnchanged \/ DirtyEnd \/ GcNotDue \/ GcStart \/ GcSnapshot
  BY <1>3, <1>5 DEF OpenDatabase, ReuseConnection, ScanStat, IngestStat, ScanEnd,
     SnapshotDirtyPaths, DirtyStat, DirtyMissing, ClearDirtyPathIfUnchanged, DirtyEnd, GcNotDue,
     GcStart, GcSnapshot, dbVars
<1>6. CASE Wake \/ ShutdownObserved \/ GcEnd \/ GcFails \/ GcCancelled
  BY <1>1, <1>3, <1>6 DEF Wake, ShutdownObserved, GcEnd, GcFails, GcFinished, GcCancelled,
     BeginPass, TaskShape, dbVars
<1>7. CASE \/ DatabaseUnavailable \/ ScanIngestFails \/ (\E p \in Path : ScanWalkFails(p))
           \/ DirtyIngestFails \/ CleanupFails \/ SignalShutdown \/ IngestJoined
  BY <1>3, <1>7 DEF DatabaseUnavailable, ScanIngestFails, ScanWalkFails, DirtyIngestFails,
     IngestRollback, CleanupFails, SignalShutdown, IngestJoined, dbVars
<1>8. CASE ScanCommit \/ DirtyCommit
  <2>1. IngestCommit /\ UNCHANGED <<files, phase, cleanup_pending>> /\ mpc # "gc_walk"
    BY <1>8 DEF ScanCommit, DirtyCommit, IngestCommit
  <2>2. Present(tx.path) /\ tx.path \in Path
    BY <2>1, <1>1, CommitRows DEF IngestCommit, NoFalseShrink
  <2>3. \A p \in Path : indexed'[p] # Null => indexed[p] # Null \/ p = tx.path
    BY <1>1, <2>1, CommitRows
  <2> QED BY <1>2, <2>1, <2>2, <2>3 DEF Present
<1>9. CASE SearchCleanup
  <2>1. CASE cleanup_pending
    <3>1. CleanupDeleted /\ UNCHANGED files
      BY <1>9, <2>1 DEF SearchCleanup, CleanupDeleted
    <3>2. \A p \in Path : ~Present(p)' => indexed'[p] = Null
      BY <1>1, <3>1, CleanupRows DEF Present
    <3> QED BY <3>2 DEF StaleRowsOwed
  <2>2. CASE ~cleanup_pending
    BY <1>3, <1>9, <2>2 DEF SearchCleanup, dbVars
  <2> QED BY <2>1, <2>2
<1>10. ASSUME NEW p \in Path, GcRemove(p) PROVE StaleRowsOwed'
  BY <1>10 DEF GcRemove, StaleRowsOwed
<1>14. CASE LateRemove
  BY <1>1, <1>14 DEF LateRemove, StaleRowsOwed, TaskShape
<1>11. CASE MaintenancePanics \/ ProcessDies \/ Restart
  BY <1>11 DEF MaintenancePanics, ProcessDies, Restart, NewProcess, NewTask, StaleRowsOwed
<1>12. CASE CommitsLost
  BY <1>12 DEF CommitsLost, DeleteDatabase, StaleRowsOwed
<1>13. CASE UNCHANGED vars
  BY <1>3, <1>13 DEF vars, dbVars
<1> QED
  BY <1>4, <1>5, <1>6, <1>7, <1>8, <1>9, <1>10, <1>11, <1>12, <1>13, <1>14
     DEF Next, MaintenanceStep, MaintenanceFault

(* A row whose file was removed is cleaned up by the next pass, unless a     *)
(* shutdown cancelled the collection: then the next process does it          *)
(* (indexer.rs:122, 149-167).                                                *)
THEOREM StaleRowsCorrect == Spec => []StaleRowsOwed
<1>1. Init => StaleRowsOwed
  BY DEF Init, TaskInit, StaleRowsOwed
<1> QED BY <1>1, CoreCorrect, IndexOfArchive, StaleRowsStep, PTL DEF Spec

-----------------------------------------------------------------------------
(* What a step of the handler does to the handler and to the active file.    *)
LEMMA HandleEffect ==
  ASSUME StoreInv, NEW s \in Streams, HandleStep(s)
  PROVE  /\ Handling(s) /\ UNCHANGED clock
         /\ Handling(s)' => rec'[s].at = rec[s].at
         /\ Handling(s)' /\ rec'[s].path # Null =>
              \/ rec'[s].path = rec[s].path /\ rec[s].pc \in Opened
              \/ /\ rec'[s].pc = "created" /\ rec'[s].path \in Path
                 /\ rec'[s].path.at = rec[s].at
                 /\ files[rec'[s].path].state = "unused" /\ Present(rec[s].path)'
         /\ \/ active'[s] = active[s]
            \/ /\ rec[s].pc = "first_line" /\ active'[s] # Null
               /\ active'[s].path = rec[s].path
<1> USE StoreAssumption
<1>1. PathsKnown(s) /\ rec \in [Streams -> Handler]
  BY StreamFacts
<1>2. Idle.pc \notin HandlerSteps
  BY IdleTyped DEF HandlerSteps
<1>3. CASE SkipInvalidJson(s) \/ SkipNoProgram(s) \/ AppendNewline(s)
  <2>1. /\ rec[s].pc \in {"received", "text"} /\ UNCHANGED <<clock, active>> /\ rec'[s] = Idle
    BY <1>1, <1>3 DEF SkipInvalidJson, SkipNoProgram, AppendNewline
  <2> QED BY <1>2, <2>1 DEF Handling, HandlerSteps
<1>4. ASSUME NEW pc \in HandlerSteps, Go(s, pc), UNCHANGED <<clock, active>>,
             rec[s].pc \in {"received", "created", "first_text"}
      PROVE  /\ Handling(s) /\ rec'[s].at = rec[s].at
             /\ rec'[s].path = rec[s].path /\ rec'[s].path # Null => rec[s].pc \in Opened
  BY <1>1, <1>4, GoEffect DEF Handling, HandlerSteps, PathsKnown, Opened
<1>5. CASE AppendText(s) \/ StartProgram(s) \/ WriteFirstText(s) \/ WriteFirstNewline(s)
  <2>1. /\ UNCHANGED <<clock, active>> /\ rec[s].pc \in {"received", "created", "first_text"}
        /\ \E pc \in HandlerSteps : Go(s, pc)
    BY <1>5 DEF AppendText, StartProgram, WriteFirstText, WriteFirstNewline, HandlerSteps
  <2>2. Handling(s) /\ rec'[s].at = rec[s].at /\ rec'[s].path = rec[s].path
    BY <1>1, <2>1, GoEffect DEF Handling, HandlerSteps
  <2>3. rec[s].path # Null => rec[s].pc \in Opened
    BY <1>1 DEF PathsKnown
  <2> QED BY <2>1, <2>2, <2>3
<1>6. CASE OpenArchiveFile(s)
  <2>1. PICK p \in Path : /\ FreeName(s, p)
                          /\ files' = [files EXCEPT ![p] = Created]
                          /\ rec' = [rec EXCEPT ![s].pc = "created", ![s].path = p]
    BY <1>6 DEF OpenArchiveFile
  <2>2. rec'[s] = [pc |-> "created", line |-> rec[s].line, at |-> rec[s].at, path |-> p]
    <3>1. rec'[s] = [rec[s] EXCEPT !.pc = "created", !.path = p]
      BY <1>1, <2>1
    <3> QED BY <1>1, <3>1, CreatedStep
  <2>3. p.at = rec[s].at /\ files[p].state = "unused" /\ files'[p].state = "open"
    BY <2>1, StreamFacts, CreatedFile DEF FreeName
  <2>4. rec[s].pc = "opening" /\ UNCHANGED <<clock, active>>
    BY <1>6 DEF OpenArchiveFile
  <2>5. rec'[s].pc = "created" /\ rec'[s].at = rec[s].at /\ rec'[s].path = p
    BY <2>2
  <2>6. Present(p)'
    BY <2>3 DEF Present
  <2>7. /\ rec'[s].path \in Path /\ rec'[s].path.at = rec[s].at
        /\ files[rec'[s].path].state = "unused" /\ Present(rec[s].path)'
    BY <2>3, <2>5, <2>6 DEF Present
  <2> QED BY <2>4, <2>5, <2>7 DEF Handling, HandlerSteps
<1>7. CASE ReplaceActive(s)
  <2>1. /\ rec[s].pc = "first_line" /\ rec'[s] = Idle /\ UNCHANGED clock
        /\ rec[s].path \in Path /\ rec[s].line \in Lines
    BY <1>1, <1>7 DEF ReplaceActive, PathsKnown, Opened, Handling, HandlerSteps
  <2>2. active'[s] = [program |-> rec[s].line.program, path |-> rec[s].path]
    BY <1>7, StreamFacts DEF ReplaceActive
  <2>3. rec[s].line.program \in Programs
    BY <2>1, StreamFacts
  <2>4. active'[s] # Null /\ active'[s].path = rec[s].path
    BY <2>1, <2>2, <2>3
  <2> QED BY <1>2, <2>1, <2>4 DEF Handling, HandlerSteps
<1>8. CASE HandlerFails(s)
  <2>1. /\ rec[s].pc \in {"received", "text", "opening", "created", "first_text"}
        /\ UNCHANGED <<clock, active>> /\ rec'[s] = [Idle EXCEPT !.pc = "failed"]
    BY <1>1, <1>8 DEF HandlerFails
  <2>2. rec'[s].pc = "failed"
    BY <2>1 DEF Idle
  <2> QED BY <2>1, <2>2 DEF Handling, HandlerSteps
<1> QED
  BY <1>3, <1>5, <1>6, <1>7, <1>8 DEF HandleStep

LEMMA UpstreamEffect ==
  ASSUME StoreInv, NEW s \in Streams,
         \/ Disconnect(s) \/ ProgramChangesUnheard(s) \/ Connect(s)
         \/ \E line \in Lines : Receive(s, line)
  PROVE  /\ ~Handling(s) /\ UNCHANGED clock
         /\ Handling(s)' => rec'[s].at = clock /\ rec'[s].pc = "received"
         /\ rec'[s].path = Null
         /\ active'[s] \in {active[s], Null}
<1>1. PathsKnown(s) /\ rec \in [Streams -> Handler] /\ active[s] \in {active[s], Null}
  BY StreamFacts
<1>2. CASE \E line \in Lines : Receive(s, line)
  BY <1>1, <1>2 DEF Receive, Handling, HandlerSteps
<1>3. CASE Disconnect(s)
  BY <1>1, <1>3, OfflineTyped DEF Disconnect, Handling, HandlerSteps
<1>4. CASE ProgramChangesUnheard(s)
  BY <1>1, <1>4 DEF ProgramChangesUnheard, Handling, HandlerSteps, PathsKnown, Opened
<1>5. CASE Connect(s)
  BY <1>1, <1>5, IdleTyped DEF Connect, Handling, HandlerSteps
<1> QED BY <1>2, <1>3, <1>4, <1>5

Joined == stopping = "maintenance" => \A s \in Streams : ~Handling(s)

(* After the handlers are joined, the recorder does nothing to the store.    *)
LEMMA JoinedRecorder ==
  ASSUME CoreInv, Joined, stopping = "maintenance", Recorder
  PROVE  UNCHANGED <<files, dirty, active>> /\ Joined'
<1>1. \A s \in Streams : ~Handling(s)
  BY DEF Joined
<1>2. /\ UNCHANGED <<files, dirty, active>>
      /\ \/ UNCHANGED rec
         \/ \E s \in Streams : rec' = [rec EXCEPT ![s] = Offline]
  <2>1. \A s \in Streams : ~HandleStep(s)
    BY <1>1 DEF HandleStep, SkipInvalidJson, SkipNoProgram, AppendText, AppendNewline,
       StartProgram, OpenArchiveFile, WriteFirstText, WriteFirstNewline, ReplaceActive,
       HandlerFails, Handling, HandlerSteps
  <2>2. Tick \/ \E s \in Streams : Disconnect(s) \/ ProgramChangesUnheard(s)
    BY <2>1 DEF Recorder, RecorderStops
  <2> QED BY <2>2 DEF Tick, Disconnect, ProgramChangesUnheard
<1>3. \A s \in Streams : ~Handling(s)'
  <2>1. \A s \in Streams : rec'[s] = rec[s] \/ rec'[s] = Offline
    BY <1>2, StreamFacts DEF CoreInv
  <2>2. Offline.pc \notin HandlerSteps
    BY OfflineTyped DEF HandlerSteps
  <2> QED BY <1>1, <2>1, <2>2 DEF Handling
<1> QED BY <1>2, <1>3 DEF Joined

-----------------------------------------------------------------------------
(* A file being recorded is never collected.                                 *)

(* What CollectorBehind and ActiveNeverCollected say of one stream.          *)
SafeFromCollector(s) ==
  /\ Handling(s) => clock <= rec[s].at + MaxStall
  /\ rec[s].pc \in Opened => rec[s].path.at = rec[s].at
  /\ mpc = "gc_walk" /\ active[s] # Null =>
       active[s].path \in protected \/ active[s].path.at > cutoff
  /\ active[s] # Null => Present(active[s].path)
  /\ rec[s].path # Null /\ Handling(s) => Present(rec[s].path)

GcClock == mpc \in {"gc_snapshot", "gc_walk"} => cutoff + Retention <= clock

LEMMA CollectorIs ==
  CollectorBehind /\ ActiveNeverCollected <=> GcClock /\ \A s \in Streams : SafeFromCollector(s)
BY DEF CollectorBehind, ActiveNeverCollected, GcClock, SafeFromCollector

(* Numbers and paths that the steps below compare.                           *)
LEMMA ClockFacts ==
  ASSUME CoreInv, NEW s \in Streams
  PROVE  /\ clock \in Nat /\ cutoff \in Int /\ Retention \in Nat /\ MaxStall \in Nat
         /\ rec[s].at \in Nat /\ \A p \in Path : p.at \in Nat
         /\ active[s] # Null => active[s].path \in Path
         /\ rec[s].pc \in Opened => rec[s].path \in Path
         /\ rec[s].pc \notin Opened => rec[s].path = Null
<1>1. StoreInv /\ TaskTypeOK
  BY DEF CoreInv
<1>2. clock \in Nat /\ rec[s] \in Handler /\ PathsKnown(s)
      /\ (active[s] # Null => active[s].path \in Path)
  BY <1>1, StreamFacts
<1>3. \A p \in Path : p.at \in Nat
  BY ArchiveAssumption DEF Path
<1>4. rec[s].at \in Nat
  BY <1>2 DEF Handler
<1>5. cutoff \in Int /\ Retention \in Nat /\ MaxStall \in Nat
  BY <1>1, RetentionAssumption, StoreAssumption DEF TaskTypeOK
<1> QED BY <1>2, <1>3, <1>4, <1>5 DEF PathsKnown

LEMMA HandleUncollected ==
  ASSUME MaxStall < Retention, CoreInv, GcClock, NEW s \in Streams, SafeFromCollector(s),
         HandleStep(s), UNCHANGED <<mpc, cutoff, protected>>
  PROVE  SafeFromCollector(s)'
<1>1. StoreInv
  BY DEF CoreInv
<1>2. \A p \in Path : Present(p) => Present(p)'
  BY <1>1, HandleFiles DEF FilesGrow
<1>3. /\ Handling(s) /\ UNCHANGED clock
      /\ Handling(s)' => rec'[s].at = rec[s].at
      /\ Handling(s)' /\ rec'[s].path # Null =>
           \/ rec'[s].path = rec[s].path /\ rec[s].pc \in Opened
           \/ /\ rec'[s].pc = "created" /\ rec'[s].path \in Path
              /\ rec'[s].path.at = rec[s].at /\ Present(rec[s].path)'
      /\ \/ active'[s] = active[s]
         \/ /\ rec[s].pc = "first_line" /\ active'[s] # Null
            /\ active'[s].path = rec[s].path
  BY <1>1, HandleEffect
<1>4. (rec[s].pc \in Opened)' => Handling(s)' /\ rec'[s].path # Null
  <2>1. StoreInv'
    BY <1>1, StreamStep
  <2>2. PathsKnown(s)'
    BY <2>1 DEF StoreInv, StreamInv
  <2> QED BY <2>2, StoreAssumption DEF PathsKnown, Handling, HandlerSteps, Opened
<1>5. clock <= rec[s].at + MaxStall
  BY <1>3 DEF SafeFromCollector
<1>6. CASE active'[s] = active[s]
  BY <1>2, <1>3, <1>4, <1>5, <1>6, ClockFacts DEF SafeFromCollector
<1>7. CASE /\ rec[s].pc = "first_line" /\ active'[s] # Null
           /\ active'[s].path = rec[s].path
  <2>1. rec[s].path \in Path /\ rec[s].path.at = rec[s].at /\ Present(rec[s].path)
    BY <1>3, <1>7, ClockFacts, StoreAssumption DEF SafeFromCollector, Opened
  <2>2. mpc = "gc_walk" => rec[s].path.at > cutoff
    BY <1>5, <2>1, ClockFacts DEF GcClock
  <2>3. Present(active[s].path)'
    BY <1>2, <1>7, <2>1 DEF Present
  <2> QED BY <1>2, <1>3, <1>4, <1>5, <1>7, <2>1, <2>2, <2>3, ClockFacts DEF SafeFromCollector
<1> QED BY <1>3, <1>6, <1>7

LEMMA UpstreamUncollected ==
  ASSUME CoreInv, NEW s \in Streams, SafeFromCollector(s), UNCHANGED <<mpc, cutoff, protected>>,
         \/ Disconnect(s) \/ ProgramChangesUnheard(s) \/ Connect(s)
         \/ \E line \in Lines : Receive(s, line)
  PROVE  SafeFromCollector(s)'
<1>1. StoreInv
  BY DEF CoreInv
<1>2. \A p \in Path : Present(p) => Present(p)'
  BY <1>1, OtherRecorderFiles DEF FilesGrow
<1>3. /\ UNCHANGED clock /\ rec'[s].path = Null /\ active'[s] \in {active[s], Null}
      /\ Handling(s)' => rec'[s].at = clock /\ rec'[s].pc = "received"
  BY <1>1, UpstreamEffect
<1>4. rec'[s].pc \notin Opened
  <2>1. rec'[s].pc \in Opened => Handling(s)'
    BY DEF Handling, HandlerSteps, Opened
  <2> QED BY <1>3, <2>1 DEF Opened
<1>5. active'[s] # Null => active'[s] = active[s] /\ active[s].path \in Path
  BY <1>3, ClockFacts
<1>6. active'[s] # Null => Present(active[s].path)'
  <2>1. active'[s] # Null => Present(active[s].path)
    BY <1>3 DEF SafeFromCollector
  <2> QED BY <1>2, <1>5, <2>1 DEF Present
<1> QED BY <1>3, <1>4, <1>5, <1>6, ClockFacts DEF SafeFromCollector

LEMMA RecorderUncollected ==
  ASSUME MaxStall < Retention, CoreInv, GcClock, \A s \in Streams : SafeFromCollector(s), Recorder
  PROVE  GcClock' /\ \A s \in Streams : SafeFromCollector(s)'
<1>1. UNCHANGED <<mpc, cutoff, protected>> /\ StoreInv
  BY DEF Recorder, taskVars, passVars, CoreInv
<1>2. CASE Tick
  <2>1. /\ UNCHANGED <<files, rec, active>> /\ clock' = clock + 1
        /\ \A s \in Streams : Handling(s) => clock < rec[s].at + MaxStall
    BY <1>2 DEF Tick
  <2>2. clock \in Nat
    BY ArchiveAssumption DEF CoreInv, StoreInv, StoreTypeOK
  <2>3. ASSUME NEW s \in Streams PROVE SafeFromCollector(s)'
    <3>1. Handling(s) => clock + 1 <= rec[s].at + MaxStall
      BY <2>1, ClockFacts
    <3>2. SafeFromCollector(s)
      OBVIOUS
    <3> QED BY <1>1, <2>1, <3>1, <3>2 DEF SafeFromCollector, Handling, Present
  <2>4. GcClock'
    BY <1>1, <2>1, <2>2, RetentionAssumption DEF GcClock, CoreInv, TaskTypeOK
  <2> QED BY <2>3, <2>4
<1>3. ASSUME NEW s \in Streams,
             \/ HandleStep(s) \/ Disconnect(s) \/ ProgramChangesUnheard(s) \/ Connect(s)
             \/ \E line \in Lines : Receive(s, line)
      PROVE  GcClock' /\ \A t \in Streams : SafeFromCollector(t)'
  <2>1. Apart(s) /\ UNCHANGED clock
    BY <1>1, <1>3, HandleStepType, UpstreamStepType, HandleEffect, UpstreamEffect DEF UpstreamStep
  <2>2. \A p \in Path : Present(p) => Present(p)'
    BY <1>1, <1>3, HandleFiles, OtherRecorderFiles DEF FilesGrow
  <2>3. GcClock'
    BY <1>1, <2>1 DEF GcClock
  <2>4. ASSUME NEW t \in Streams, t # s PROVE SafeFromCollector(t)'
    <3>1. rec'[t] = rec[t] /\ active'[t] = active[t]
      BY <2>1, <2>4 DEF Apart
    <3>2. /\ active[t] # Null => active[t].path \in Path
          /\ rec[t].path # Null => rec[t].path \in Path
      BY ClockFacts
    <3>3. active[t] # Null /\ Present(active[t].path) => Present(active[t].path)'
      BY <2>2, <3>1, <3>2 DEF Present
    <3>4. rec[t].path # Null /\ Present(rec[t].path) => Present(rec[t].path)'
      BY <2>2, <3>1, <3>2 DEF Present
    <3> QED BY <1>1, <2>1, <3>1, <3>3, <3>4 DEF SafeFromCollector, Handling
  <2>5. SafeFromCollector(s)'
    BY <1>1, <1>3, HandleUncollected, UpstreamUncollected
  <2> QED BY <2>3, <2>4, <2>5
<1> QED BY <1>2, <1>3 DEF Recorder

LEMMA QuietUncollected ==
  ASSUME \A s \in Streams : SafeFromCollector(s), GcClock, QuietStore,
         mpc' \notin {"gc_snapshot", "gc_walk"} \/ UNCHANGED <<mpc, cutoff, protected>>
  PROVE  GcClock' /\ \A s \in Streams : SafeFromCollector(s)'
<1>1. UNCHANGED <<files, clock, active, rec>>
  BY DEF QuietStore
<1>2. GcClock'
  BY <1>1 DEF GcClock
<1>3. ASSUME NEW s \in Streams PROVE SafeFromCollector(s)'
  <2>1. SafeFromCollector(s)
    OBVIOUS
  <2> QED BY <1>1, <2>1 DEF SafeFromCollector, Handling, Present
<1> QED BY <1>2, <1>3

LEMMA TaskUncollected ==
  ASSUME MaxStall < Retention, CoreInv, GcClock, \A s \in Streams : SafeFromCollector(s),
         \/ MaintenanceStep \/ MaintenanceFault \/ SignalShutdown \/ IngestJoined \/ Restart
         \/ UNCHANGED vars
  PROVE  GcClock' /\ \A s \in Streams : SafeFromCollector(s)'
<1> USE DEF taskVars, passVars
<1>1. StoreTypeOK /\ StoreInv /\ TaskShape
  BY DEF CoreInv, StoreInv
<1> DEFINE Aside == mpc' \notin {"gc_snapshot", "gc_walk"} \/ UNCHANGED <<mpc, cutoff, protected>>
<1>2. CASE GcStart
  <2>1. QuietStore
    BY <1>1, <1>2 DEF GcStart, recorderVars, QuietStore, StoreTypeOK
  <2>2. UNCHANGED <<files, clock, active, rec>> /\ mpc' = "gc_snapshot" /\ cutoff' = clock - Retention
    BY <1>2, <2>1 DEF GcStart, QuietStore
  <2>3. clock \in Nat /\ Retention \in Nat
    BY ArchiveAssumption, RetentionAssumption, <1>1 DEF StoreTypeOK
  <2>4. GcClock'
    BY <2>2, <2>3 DEF GcClock
  <2>5. ASSUME NEW s \in Streams PROVE SafeFromCollector(s)'
    <3>1. SafeFromCollector(s)
      OBVIOUS
    <3> QED BY <2>2, <3>1 DEF SafeFromCollector, Handling, Present
  <2> QED BY <2>4, <2>5
<1>3. CASE GcSnapshot
  <2>1. /\ UNCHANGED <<files, clock, active, rec, cutoff>> /\ mpc = "gc_snapshot"
        /\ protected' = ActivePaths
    BY <1>3 DEF GcSnapshot, recorderVars
  <2>2. GcClock'
    BY <2>1 DEF GcClock
  <2>3. ASSUME NEW s \in Streams PROVE SafeFromCollector(s)'
    <3>1. SafeFromCollector(s)
      OBVIOUS
    <3>2. active'[s] # Null => active'[s].path \in protected'
      BY <2>1 DEF ActivePaths
    <3> QED BY <2>1, <3>1, <3>2 DEF SafeFromCollector, Handling, Present
  <2> QED BY <2>2, <2>3
<1>4. ASSUME NEW p \in Path, GcRemove(p)
      PROVE  GcClock' /\ \A s \in Streams : SafeFromCollector(s)'
  <2>1. /\ mpc = "gc_walk" /\ p.at <= cutoff /\ p \notin protected
        /\ UNCHANGED <<clock, active, rec, mpc, cutoff, protected>>
        /\ files' = [files EXCEPT ![p] = Removed]
    BY <1>4 DEF GcRemove, Collectable, RemoveFile, recorderVars
  <2>2. \A q \in Path \ {p} : Present(q) => Present(q)'
    BY <1>1, <2>1 DEF Present, StoreTypeOK
  <2>3. GcClock'
    BY <2>1 DEF GcClock
  <2>4. ASSUME NEW s \in Streams PROVE SafeFromCollector(s)'
    <3>1. SafeFromCollector(s)
      OBVIOUS
    <3>2. active[s] # Null => active[s].path # p /\ active[s].path \in Path
      BY <2>1, <3>1, ClockFacts DEF SafeFromCollector
    <3>3. rec[s].path # Null /\ Handling(s) => rec[s].path # p /\ rec[s].path \in Path
      <4>1. SUFFICES ASSUME rec[s].path # Null, Handling(s) PROVE rec[s].path # p /\ rec[s].path \in Path
        OBVIOUS
      <4>2. rec[s].path \in Path /\ rec[s].path.at = rec[s].at
        BY <3>1, <4>1, ClockFacts DEF SafeFromCollector
      <4>3. clock <= rec[s].path.at + MaxStall /\ cutoff + Retention <= clock
        BY <2>1, <3>1, <4>1, <4>2 DEF SafeFromCollector, GcClock
      <4>4. rec[s].path.at > cutoff
        BY <4>2, <4>3, ClockFacts
      <4> QED BY <2>1, <4>2, <4>4, ClockFacts
    <3>4. active[s] # Null => Present(active[s].path)'
      BY <2>1, <2>2, <3>1, <3>2 DEF SafeFromCollector, Present
    <3>5. rec[s].path # Null /\ Handling(s) => Present(rec[s].path)'
      BY <2>1, <2>2, <3>1, <3>3 DEF SafeFromCollector, Present
    <3> QED BY <2>1, <3>1, <3>4, <3>5 DEF SafeFromCollector, Handling
  <2> QED BY <2>3, <2>4
<1>5. CASE ProcessDies \/ Restart
  <2>1. mpc' = "apply" /\ \A s \in Streams : active'[s] = Null /\ rec'[s] = Offline
    BY <1>5 DEF ProcessDies, Restart, NewProcess, NewTask, LoseStore
  <2> QED BY <2>1, OfflineTyped, StoreAssumption DEF GcClock, SafeFromCollector, Handling, HandlerSteps, Opened
<1>6. CASE MaintenanceStep /\ ~GcStart /\ ~GcSnapshot /\ \A p \in Path : ~GcRemove(p)
  <2>1. QuietStore
    BY <1>1, <1>6, MaintenanceQuiet
  <2>2. mpc' \notin {"gc_snapshot", "gc_walk"}
    <3>1. CASE \/ OpenDatabase \/ ReuseConnection \/ (\E p \in Path : ScanStat(p)) \/ ScanCommit
               \/ ScanEnd \/ SnapshotDirtyPaths \/ (\E p \in Path : DirtyStat(p))
      BY <3>1 DEF OpenDatabase, ReuseConnection, ScanStat, ScanCommit, ScanEnd,
                  SnapshotDirtyPaths, DirtyStat
    <3>2. CASE \/ (\E p \in Path : DirtyMissing(p)) \/ DirtyCommit \/ ClearDirtyPathIfUnchanged
               \/ DirtyEnd \/ SearchCleanup \/ Wake \/ ShutdownObserved
      BY <3>2 DEF DirtyMissing, DirtyCommit, ClearDirtyPathIfUnchanged, DirtyEnd, SearchCleanup,
                  AfterCleanup, AfterPass, Wake, ShutdownObserved, BeginPass, CoreInv, TaskTypeOK
    <3>3. CASE GcNotDue \/ GcEnd \/ GcCancelled
      BY <3>3 DEF GcNotDue, GcEnd, GcFinished, GcCancelled, BeginPass
    <3> QED BY <1>6, <3>1, <3>2, <3>3 DEF MaintenanceStep
  <2> QED BY <2>1, <2>2, QuietUncollected
<1>7. CASE MaintenanceFault /\ ~ProcessDies
  <2>1. QuietStore
    BY <1>1, <1>7, FaultQuiet
  <2>2. mpc' \notin {"gc_snapshot", "gc_walk"}
    BY <1>7 DEF MaintenanceFault, DatabaseUnavailable, ScanIngestFails, ScanWalkFails,
       DirtyIngestFails, CleanupFails, GcFails, GcFinished, MaintenancePanics, NewTask,
       CommitsLost, AfterCleanup, AfterPass, CoreInv, TaskTypeOK
  <2> QED BY <2>1, <2>2, QuietUncollected
<1>8. CASE SignalShutdown \/ IngestJoined \/ UNCHANGED vars
  <2>1. QuietStore /\ UNCHANGED <<mpc, cutoff, protected>>
    BY <1>1, <1>8 DEF SignalShutdown, IngestJoined, vars, recorderVars, QuietStore, StoreTypeOK
  <2> QED BY <2>1, QuietUncollected
<1> QED BY <1>2, <1>3, <1>4, <1>5, <1>6, <1>7, <1>8

(* The file whose removal shutdown left pending is not being recorded, and   *)
(* nobody records any more.                                                  *)
LateAside ==
  /\ Joined
  /\ late # Null => \A s \in Streams : active[s] # Null => active[s].path # late

LEMMA LateKept ==
  ASSUME CoreInv, \A s \in Streams : SafeFromCollector(s), LateAside, [Next]_vars
  PROVE  LateAside'
<1>1. /\ StoreTypeOK /\ TaskShape
      /\ late # Null => stopping = "maintenance"
  BY DEF CoreInv, StoreInv, TaskShape
<1>2. ASSUME UNCHANGED <<active, rec>>, late' \in {late, Null},
             stopping' = "maintenance" => stopping = "maintenance"
      PROVE  LateAside'
  BY <1>2 DEF LateAside, Joined, Handling
<1>3. CASE Recorder
  <2>1. UNCHANGED <<late, stopping>>
    BY <1>3 DEF Recorder
  <2>2. CASE stopping = "maintenance"
    BY <1>3, <2>1, <2>2, JoinedRecorder DEF LateAside
  <2>3. CASE stopping # "maintenance"
    BY <1>1, <2>1, <2>3 DEF LateAside, Joined
  <2> QED BY <2>2, <2>3
<1>4. CASE GcCancelled
  <2>1. UNCHANGED <<active, rec, stopping>>
    BY <1>4 DEF GcCancelled, BeginPass, recorderVars
  <2>2. ASSUME late' # Null, NEW s \in Streams, active[s] # Null PROVE active[s].path # late'
    <3>1. /\ late' \in Path /\ mpc = "gc_walk"
          /\ late'.at <= cutoff /\ late' \notin protected
      BY <1>4, <2>2 DEF GcCancelled, Collectable
    <3>2. active[s].path \in protected \/ active[s].path.at > cutoff
      BY <2>2, <3>1 DEF SafeFromCollector
    <3> QED BY <3>1, <3>2, ClockFacts
  <2> QED BY <2>1, <2>2 DEF LateAside, Joined, Handling
<1>5. ASSUME NEW p \in Path, GcRemove(p) PROVE LateAside'
  BY <1>2, <1>5 DEF GcRemove, recorderVars
<1>6. CASE MaintenanceStep /\ ~GcCancelled /\ \A p \in Path : ~GcRemove(p)
  <2>1. UNCHANGED <<active, rec>>
    BY <1>1, <1>6, MaintenanceQuiet DEF QuietStore
  <2>2. UNCHANGED <<late, stopping>>
    <3>1. CASE \/ OpenDatabase \/ ReuseConnection \/ (\E p \in Path : ScanStat(p)) \/ ScanCommit
               \/ ScanEnd \/ SnapshotDirtyPaths \/ (\E p \in Path : DirtyStat(p))
      BY <3>1 DEF OpenDatabase, ReuseConnection, ScanStat, ScanCommit, ScanEnd,
                  SnapshotDirtyPaths, DirtyStat
    <3>2. CASE \/ (\E p \in Path : DirtyMissing(p)) \/ DirtyCommit \/ ClearDirtyPathIfUnchanged
               \/ DirtyEnd \/ SearchCleanup \/ Wake \/ ShutdownObserved
      BY <3>2 DEF DirtyMissing, DirtyCommit, ClearDirtyPathIfUnchanged, DirtyEnd, SearchCleanup,
                  Wake, ShutdownObserved, BeginPass
    <3>3. CASE GcNotDue \/ GcStart \/ GcSnapshot \/ GcEnd
      BY <3>3 DEF GcNotDue, GcStart, GcSnapshot, GcEnd, GcFinished
    <3> QED BY <1>6, <3>1, <3>2, <3>3 DEF MaintenanceStep
  <2> QED BY <1>2, <2>1, <2>2
<1>7. CASE MaintenanceFault /\ ~ProcessDies
  <2>1. UNCHANGED <<active, rec>>
    BY <1>1, <1>7, FaultQuiet DEF QuietStore
  <2>2. UNCHANGED <<late, stopping>>
    BY <1>7 DEF MaintenanceFault, DatabaseUnavailable, ScanIngestFails, ScanWalkFails,
       DirtyIngestFails, CleanupFails, GcFails, GcFinished, MaintenancePanics, CommitsLost
  <2> QED BY <1>2, <2>1, <2>2
<1>8. CASE ProcessDies \/ Restart
  <2>1. late' = Null /\ stopping' = "no"
    BY <1>8 DEF ProcessDies, Restart, NewProcess
  <2> QED BY <2>1 DEF LateAside, Joined
<1>9. CASE LateRemove \/ UNCHANGED vars \/ SignalShutdown
  BY <1>2, <1>9 DEF LateRemove, SignalShutdown, vars, recorderVars
<1>10. CASE IngestJoined
  BY <1>10 DEF IngestJoined, LateAside, Joined, Handling, recorderVars
<1> QED
  BY <1>3, <1>4, <1>5, <1>6, <1>7, <1>8, <1>9, <1>10 DEF Next

LEMMA LateUncollected ==
  ASSUME CoreInv, GcClock, \A s \in Streams : SafeFromCollector(s), LateAside, LateRemove
  PROVE  GcClock' /\ \A s \in Streams : SafeFromCollector(s)'
<1>1. /\ StoreTypeOK /\ late \in Path /\ \A s \in Streams : ~Handling(s)
      /\ UNCHANGED <<clock, active, rec, mpc, cutoff, protected>>
      /\ files' = [files EXCEPT ![late] = Removed]
  BY DEF CoreInv, StoreInv, TaskTypeOK, TaskShape, LateAside, Joined, LateRemove, RemoveFile,
         recorderVars, taskVars, passVars
<1>2. \A q \in Path \ {late} : Present(q) => Present(q)'
  BY <1>1 DEF Present, StoreTypeOK
<1>3. GcClock'
  BY <1>1 DEF GcClock
<1>4. ASSUME NEW s \in Streams PROVE SafeFromCollector(s)'
  <2>1. SafeFromCollector(s) /\ ~Handling(s) /\ ~Handling(s)'
    BY <1>1 DEF Handling
  <2>2. active[s] # Null => active[s].path # late /\ active[s].path \in Path
    BY ClockFacts DEF LateAside, LateRemove
  <2>3. active[s] # Null => Present(active[s].path)'
    BY <1>1, <1>2, <2>1, <2>2 DEF SafeFromCollector, Present
  <2> QED BY <1>1, <2>1, <2>3 DEF SafeFromCollector
<1> QED BY <1>3, <1>4

(* No collection removes the file a stream is recording or opening, provided *)
(* a handle_line call takes less time than the retention: the names compared *)
(* with the cut-off and the set of active files may both be old when a file  *)
(* is removed (archive.rs:573, 601-630).                                     *)
THEOREM ActiveNeverCollectedCorrect ==
  ASSUME MaxStall < Retention
  PROVE  Spec => []ActiveNeverCollected
<1> DEFINE I == CollectorBehind /\ ActiveNeverCollected /\ LateAside
<1>1. Init => I
  <2> SUFFICES ASSUME Init
               PROVE  GcClock /\ (\A s \in Streams : SafeFromCollector(s)) /\ LateAside
    BY CollectorIs
  <2>1. /\ mpc = "apply" /\ late = Null /\ stopping = "no"
        /\ \A s \in Streams : active[s] = Null /\ rec[s] = Offline
    BY DEF Init, TaskInit, StoreInit
  <2>2. LateAside
    BY <2>1 DEF LateAside, Joined
  <2> QED
    BY <2>1, <2>2, OfflineTyped, StoreAssumption
       DEF GcClock, SafeFromCollector, Handling, HandlerSteps, Opened
<1>2. CoreInv /\ I /\ [Next]_vars => I'
  <2> SUFFICES ASSUME CoreInv, I, [Next]_vars PROVE I'
    OBVIOUS
  <2>1. GcClock /\ (\A s \in Streams : SafeFromCollector(s)) /\ LateAside
    BY CollectorIs
  <2>2. GcClock' /\ \A s \in Streams : SafeFromCollector(s)'
    BY <2>1, RecorderUncollected, TaskUncollected, LateUncollected DEF Next
  <2>3. LateAside'
    BY <2>1, LateKept
  <2> QED BY <2>2, <2>3 DEF CollectorBehind, ActiveNeverCollected, GcClock, SafeFromCollector
<1>3. I => ActiveNeverCollected
  OBVIOUS
<1> HIDE DEF I
<1> QED BY <1>1, <1>2, <1>3, CoreCorrect, PTL DEF Spec

-----------------------------------------------------------------------------
(* No line is forgotten, and a shutdown leaves nothing for the next process. *)

OwedInv == MarksKnown /\ StatFresh /\ ClearFresh /\ LastPass /\ NoLineForgotten

LEMMA OwedTypes ==
  ASSUME CoreInv
  PROVE  /\ StoreInv /\ IndexTypeOK /\ TaskShape
         /\ dirty \in [Path -> Nat] /\ snapshot \in [Path -> Nat]
         /\ \A p \in Path : dirty[p] \in Nat /\ snapshot[p] \in Nat
         /\ \A p \in Path : TextSize(p) \in Nat /\ Len(files[p].lines) \in Nat
<1>1. StoreInv /\ IndexTypeOK /\ TaskShape /\ dirty \in [Path -> Nat] /\ snapshot \in [Path -> Nat]
  BY DEF CoreInv, StoreInv, StoreTypeOK, TaskTypeOK
<1>2. \A p \in Path : Len(files[p].lines) \in Nat
  BY <1>1, LinesTyped DEF IndexTypeOK
<1> QED BY <1>1, <1>2 DEF TextSize

(* Marks of the recorder: a line is marked in the step that completes it, or *)
(* belongs to a file that is about to be registered.                         *)
Marked(p) ==
  /\ Present(p) => Present(p)'
  /\ ~Present(p) /\ Present(p)' => files'[p].lines = <<>>
  /\ dirty'[p] \in {dirty[p], dirty[p] + 1}
  /\ Present(p) /\ files'[p].lines # files[p].lines =>
       dirty'[p] = dirty[p] + 1 \/ (dirty[p] = 0 /\ dirty'[p] = 0 /\ Registering(p)')
  /\ Registering(p) => Registering(p)' \/ dirty'[p] = dirty[p] + 1

LEMMA SameMarks ==
  ASSUME CoreInv, NEW p \in Path, UNCHANGED <<files, dirty>>, Registering(p) => Registering(p)'
  PROVE  Marked(p)
BY OwedTypes DEF Marked, Present

(* Which mark a step of the handler makes.                                   *)
LEMMA HandleDirty ==
  ASSUME StoreInv, NEW s \in Streams, HandleStep(s)
  PROVE  \/ UNCHANGED dirty /\ ~AppendNewline(s) /\ rec[s].pc # "first_line"
         \/ /\ AppendNewline(s) /\ MarkDirty(active[s].path) /\ rec[s].pc = "text"
            /\ active[s] # Null
         \/ MarkDirty(rec[s].path) /\ rec[s].pc = "first_line" /\ ~AppendNewline(s)
<1>1. LineAccounted(s)
  BY StreamFacts
<1>2. CASE \/ SkipInvalidJson(s) \/ SkipNoProgram(s) \/ AppendText(s) \/ StartProgram(s)
           \/ OpenArchiveFile(s) \/ WriteFirstText(s) \/ WriteFirstNewline(s)
  BY <1>2 DEF SkipInvalidJson, SkipNoProgram, AppendText, StartProgram, OpenArchiveFile,
              WriteFirstText, WriteFirstNewline, AppendNewline
<1>3. CASE AppendNewline(s)
  BY <1>1, <1>3 DEF AppendNewline, LineAccounted, Appending
<1>4. CASE ReplaceActive(s)
  BY <1>4 DEF ReplaceActive, AppendNewline
<1>5. CASE HandlerFails(s)
  <2>1. UNCHANGED dirty /\ rec[s].pc # "first_line" /\ rec'[s].pc = "failed"
    BY <1>5, StreamFacts DEF HandlerFails, Idle
  <2>2. ~AppendNewline(s)
    <3>1. AppendNewline(s) => rec'[s].pc = "idle"
      BY StreamFacts, IdleTyped DEF AppendNewline
    <3> QED BY <2>1, <3>1
  <2> QED BY <2>1, <2>2
<1> QED BY <1>2, <1>3, <1>4, <1>5 DEF HandleStep

(* What MarksKnown says of one stream.                                       *)
MarksOf(s) ==
  /\ rec[s].pc \in Opened => dirty[rec[s].path] = 0 /\ files[rec[s].path].state # "unused"
  /\ active[s] # Null => files[active[s].path].state # "unused"

LEMMA HandleMarks ==
  ASSUME CoreInv, MarksKnown, NEW s \in Streams, HandleStep(s), UNCHANGED snapshot
  PROVE  MarksKnown' /\ \A p \in Path : Marked(p)
<1>1. /\ StoreInv /\ \A p \in Path : dirty[p] \in Nat /\ snapshot[p] \in Nat
      /\ dirty \in [Path -> Nat]
  BY OwedTypes
<1>2. FilesGrow(s) /\ Apart(s)
  BY <1>1, HandleFiles, HandleStepType
<1>3. \A p \in Path : MarkDirty(p) => \A q \in Path : dirty'[q] = IF q = p THEN dirty[q] + 1 ELSE dirty[q]
  BY <1>1 DEF MarkDirty
<1>4. \A t \in Streams : /\ PathsKnown(t) /\ MarksOf(t)
                         /\ active[t] # Null => active[t].path \in Path /\ active[t].path.stream = t
  BY <1>1, StreamFacts DEF MarksKnown, MarksOf
<1>5. rec[s].pc \in Opened => rec[s].path \in Path /\ rec[s].path.stream = s
  BY <1>4 DEF PathsKnown
<1>6. PICK W \in SUBSET Path :
        /\ \A q \in Path : dirty'[q] = IF q \in W THEN dirty[q] + 1 ELSE dirty[q]
        /\ \A q \in W : q.stream = s /\ files[q].state # "unused"
        /\ rec[s].pc = "first_line" => W = {rec[s].path}
        /\ AppendNewline(s) => W = {active[s].path}
        /\ W # {} => rec'[s].pc = "idle"
  <2>1. CASE UNCHANGED dirty /\ ~AppendNewline(s) /\ rec[s].pc # "first_line"
    BY <1>1, <2>1
  <2>2. CASE AppendNewline(s) /\ MarkDirty(active[s].path) /\ rec[s].pc = "text" /\ active[s] # Null
    <3>1. rec'[s].pc = "idle"
      BY <1>1, <2>2, StreamFacts, IdleTyped DEF AppendNewline
    <3>2. active[s].path \in Path /\ active[s].path.stream = s /\ files[active[s].path].state # "unused"
      BY <1>4, <2>2 DEF MarksOf
    <3>3. \A q \in Path : dirty'[q] = IF q \in {active[s].path} THEN dirty[q] + 1 ELSE dirty[q]
      BY <1>3, <2>2, <3>2
    <3> QED BY <2>2, <3>1, <3>2, <3>3
  <2>3. CASE MarkDirty(rec[s].path) /\ rec[s].pc = "first_line" /\ ~AppendNewline(s)
    <3>1. rec'[s].pc = "idle"
      <4>1. ReplaceActive(s)
        BY <2>3, StreamFacts DEF HandleStep, SkipInvalidJson, SkipNoProgram, AppendText,
           StartProgram, OpenArchiveFile, WriteFirstText, WriteFirstNewline, HandlerFails
      <4> QED BY <1>1, <4>1, StreamFacts, IdleTyped DEF ReplaceActive
    <3>2. rec[s].path \in Path /\ rec[s].path.stream = s /\ files[rec[s].path].state # "unused"
      BY <1>4, <1>5, <2>3 DEF MarksOf, Opened
    <3>3. \A q \in Path : dirty'[q] = IF q \in {rec[s].path} THEN dirty[q] + 1 ELSE dirty[q]
      BY <1>3, <2>3, <3>2
    <3> QED BY <2>3, <3>1, <3>2, <3>3
  <2> QED BY <1>1, <2>1, <2>2, <2>3, HandleDirty
<1>7. \A q \in Path : files'[q].state = "unused" => files[q].state = "unused"
  BY <1>2 DEF FilesGrow
<1>8. ASSUME NEW t \in Streams, t # s PROVE MarksOf(t)'
  <2>1. rec'[t] = rec[t] /\ active'[t] = active[t]
    BY <1>2, <1>8 DEF Apart
  <2>2. rec[t].pc \in Opened => /\ rec[t].path \in Path /\ dirty'[rec[t].path] = dirty[rec[t].path]
                                /\ files'[rec[t].path].state # "unused"
    BY <1>4, <1>6, <1>7, <1>8 DEF PathsKnown, MarksOf
  <2>3. active[t] # Null => files'[active[t].path].state # "unused"
    BY <1>4, <1>7 DEF MarksOf
  <2> QED BY <1>4, <2>1, <2>2, <2>3 DEF MarksOf
<1>9. MarksOf(s)'
  <2>1. /\ Handling(s)' /\ rec'[s].path # Null =>
             \/ rec'[s].path = rec[s].path /\ rec[s].pc \in Opened
             \/ /\ rec'[s].pc = "created" /\ rec'[s].path \in Path
                /\ files[rec'[s].path].state = "unused" /\ Present(rec[s].path)'
        /\ \/ active'[s] = active[s]
           \/ /\ rec[s].pc = "first_line" /\ active'[s] # Null
              /\ active'[s].path = rec[s].path
    BY <1>1, HandleEffect
  <2>2. PathsKnown(s)'
    BY <1>1, StreamStep DEF StoreInv, StreamInv
  <2>3. rec'[s].pc \in Opened => Handling(s)' /\ rec'[s].path \in Path /\ rec'[s].path # Null /\ W = {}
    BY <1>6, <2>2, StoreAssumption DEF PathsKnown, Opened, Handling, HandlerSteps
  <2>4. ASSUME rec'[s].pc \in Opened
        PROVE  dirty'[rec'[s].path] = 0 /\ files'[rec'[s].path].state # "unused"
    <3>1. dirty'[rec'[s].path] = dirty[rec'[s].path]
      BY <1>6, <2>3, <2>4
    <3>2. CASE rec'[s].path = rec[s].path /\ rec[s].pc \in Opened
      BY <1>4, <1>7, <2>3, <2>4, <3>1, <3>2 DEF MarksOf
    <3>3. CASE files[rec'[s].path].state = "unused" /\ Present(rec[s].path)'
      <4>1. dirty[rec'[s].path] = 0
        BY <2>3, <2>4, <3>3 DEF MarksKnown
      <4> QED BY <3>1, <3>3, <4>1 DEF Present
    <3> QED BY <2>1, <2>3, <2>4, <3>2, <3>3
  <2>5. active'[s] # Null => files'[active'[s].path].state # "unused"
    <3>1. CASE active'[s] = active[s]
      BY <1>4, <1>7, <3>1 DEF MarksOf
    <3>2. CASE rec[s].pc = "first_line" /\ active'[s].path = rec[s].path
      BY <1>4, <1>5, <1>7, <3>2 DEF MarksOf, Opened
    <3> QED BY <2>1, <3>1, <3>2
  <2> QED BY <2>4, <2>5 DEF MarksOf
<1>10. MarksKnown'
  <2>1. \A p \in Path : snapshot[p] <= dirty[p] /\ (files[p].state = "unused" => dirty[p] = 0)
    BY DEF MarksKnown
  <2>2. \A p \in Path : dirty'[p] \in {dirty[p], dirty[p] + 1}
    BY <1>6
  <2>3. \A p \in Path : snapshot'[p] <= dirty'[p]
    BY <1>1, <2>1, <2>2
  <2>4. \A p \in Path : files'[p].state = "unused" => dirty'[p] = 0
    BY <1>6, <1>7, <2>1
  <2> QED BY <1>8, <1>9, <2>3, <2>4 DEF MarksKnown, MarksOf
<1>11. ASSUME NEW p \in Path PROVE Marked(p)
  <2>1. dirty'[p] \in {dirty[p], dirty[p] + 1}
    BY <1>6
  <2>2. ASSUME Present(p), files'[p].lines # files[p].lines
        PROVE  dirty'[p] = dirty[p] + 1 \/ (dirty[p] = 0 /\ dirty'[p] = 0 /\ Registering(p)')
    <3>1. CASE AppendNewline(s) /\ active[s] # Null /\ p = active[s].path
      BY <1>6, <3>1
    <3>2. CASE WriteFirstNewline(s) /\ p = rec[s].path
      <4>1. rec[s].pc = "first_text" /\ Go(s, "first_line")
        BY <3>2 DEF WriteFirstNewline
      <4>2. rec'[s].pc = "first_line" /\ rec'[s].path = p
        BY <1>1, <3>2, <4>1, StreamFacts, GoEffect DEF HandlerSteps
      <4>3. Registering(p)' /\ dirty[p] = 0
        BY <1>4, <3>2, <4>1, <4>2 DEF Registering, MarksOf, Opened
      <4> QED BY <1>6, <4>2, <4>3
    <3> QED BY <1>2, <2>2, <3>1, <3>2 DEF FilesGrow
  <2>3. Registering(p) => Registering(p)' \/ dirty'[p] = dirty[p] + 1
    BY <1>2, <1>6 DEF Registering, Apart
  <2> QED BY <1>2, <2>1, <2>2, <2>3 DEF Marked, FilesGrow
<1> QED BY <1>10, <1>11

LEMMA UpstreamMarks ==
  ASSUME CoreInv, MarksKnown, NEW s \in Streams, UNCHANGED snapshot,
         \/ Disconnect(s) \/ ProgramChangesUnheard(s) \/ Connect(s)
         \/ \E line \in Lines : Receive(s, line)
  PROVE  MarksKnown' /\ \A p \in Path : Marked(p)
<1>1. StoreInv /\ \A p \in Path : dirty[p] \in Nat
  BY OwedTypes
<1>2. /\ FilesGrow(s) /\ Apart(s) /\ UNCHANGED dirty
      /\ ~Handling(s) /\ (Handling(s)' => rec'[s].pc = "received")
      /\ active'[s] \in {active[s], Null}
  BY <1>1, OtherRecorderFiles, UpstreamStepType, UpstreamEffect
     DEF UpstreamStep, Disconnect, ProgramChangesUnheard, Connect, Receive
<1>3. rec[s].pc \notin Opened /\ rec'[s].pc \notin Opened
  BY <1>2 DEF Handling, HandlerSteps, Opened
<1>4. \A p \in Path : /\ files'[p].state = "unused" => files[p].state = "unused"
                      /\ Present(p) => files'[p].lines = files[p].lines
  <2>1. ~AppendNewline(s) /\ ~WriteFirstNewline(s)
    BY <1>2 DEF AppendNewline, WriteFirstNewline, Handling, HandlerSteps
  <2> QED BY <1>2, <2>1 DEF FilesGrow
<1>5. ASSUME NEW t \in Streams PROVE MarksOf(t)'
  <2>1. /\ MarksOf(t) /\ PathsKnown(t)
        /\ active[t] # Null => active[t].path \in Path
    BY <1>1, StreamFacts DEF MarksKnown, MarksOf
  <2>2. CASE t = s
    BY <1>2, <1>3, <1>4, <2>1, <2>2 DEF MarksOf
  <2>3. CASE t # s
    <3>1. rec'[t] = rec[t] /\ active'[t] = active[t]
      BY <1>2, <2>3 DEF Apart
    <3> QED BY <1>2, <1>4, <2>1, <3>1 DEF MarksOf, PathsKnown
  <2> QED BY <2>2, <2>3
<1>6. MarksKnown'
  BY <1>2, <1>4, <1>5 DEF MarksKnown, MarksOf
<1>7. ASSUME NEW p \in Path PROVE Marked(p)
  <2>1. Registering(p) => Registering(p)'
    <3>1. rec[s].pc # "first_line"
      BY <1>3 DEF Opened
    <3> QED BY <1>2, <3>1 DEF Registering, Apart
  <2> QED BY <1>2, <1>4, <2>1 DEF Marked, FilesGrow
<1> QED BY <1>6, <1>7

LEMMA RecorderMarks ==
  ASSUME CoreInv, MarksKnown, Recorder
  PROVE  MarksKnown' /\ \A p \in Path : Marked(p)
<1>1. UNCHANGED snapshot
  BY DEF Recorder, taskVars, passVars
<1>2. CASE Tick
  <2>1. UNCHANGED <<files, rec, active, dirty>>
    BY <1>2 DEF Tick
  <2>2. \A p \in Path : Marked(p)
    BY <2>1, SameMarks DEF Registering
  <2> QED BY <1>1, <2>1, <2>2 DEF MarksKnown
<1> QED BY <1>1, <1>2, HandleMarks, UpstreamMarks DEF Recorder

(* What the parts of OwedInv say of one path.                                *)
Owed(p) ==
  Present(p) /\ files[p].lines # <<>> /\ ~Covered(p) =>
    dirty[p] # 0 \/ Registering(p) \/ ScanToCome(p) \/ p \in failed

LEMMA NoLineForgottenIs == NoLineForgotten <=> \A p \in Path : Owed(p)
BY DEF NoLineForgotten, Owed

LEMMA RecorderOwes ==
  ASSUME CoreInv, NoFalseShrink, OwedInv, Recorder
  PROVE  StatFresh' /\ ClearFresh' /\ NoLineForgotten'
<1> USE DEF OwedInv
<1>1. /\ UNCHANGED <<indexed, tx, mpc, conn, todo, snapshot, cur, failed, stopping>>
      /\ \A p \in Path : Marked(p)
  BY RecorderMarks DEF Recorder, dbVars, taskVars, passVars
<1>2. /\ IndexTypeOK /\ TaskShape
      /\ \A p \in Path : dirty[p] \in Nat /\ snapshot[p] \in Nat /\ snapshot[p] <= dirty[p]
  BY OwedTypes DEF MarksKnown
(* Lines are added to a present file only with a mark.                       *)
<1>3. ASSUME NEW p \in Path, Present(p)
      PROVE  \/ files'[p].lines = files[p].lines /\ dirty'[p] \in {dirty[p], dirty[p] + 1}
             \/ dirty'[p] = dirty[p] + 1
             \/ dirty[p] = 0 /\ dirty'[p] = 0 /\ Registering(p)'
  BY <1>1, <1>3 DEF Marked
<1>4. StatFresh'
  <2> SUFFICES ASSUME tx # Null, NEW p, p = tx.path
               PROVE  /\ mpc = "dirty" /\ dirty'[p] = snapshot[p] => tx.size >= TextSize(p)'
                      /\ mpc = "scan" => tx.size >= TextSize(p)' \/ dirty'[p] # 0 \/ Registering(p)'
    BY <1>1 DEF StatFresh
  <2>1. p \in Path /\ Present(p)
    BY <1>2, TxPath DEF NoFalseShrink
  <2>2. /\ mpc = "dirty" /\ dirty[p] = snapshot[p] => tx.size >= TextSize(p)
        /\ mpc = "scan" => tx.size >= TextSize(p) \/ dirty[p] # 0 \/ Registering(p)
        /\ mpc = "dirty" => snapshot[p] # 0
    BY <1>2 DEF StatFresh, TaskShape
  <2>3. Registering(p) => Registering(p)' \/ dirty'[p] = dirty[p] + 1
    BY <1>1, <2>1 DEF Marked
  <2>4. CASE files'[p].lines = files[p].lines /\ dirty'[p] \in {dirty[p], dirty[p] + 1}
    <3>1. TextSize(p)' = TextSize(p)
      BY <2>4 DEF TextSize
    <3> QED BY <1>2, <2>1, <2>2, <2>3, <2>4, <3>1
  <2>5. CASE dirty'[p] = dirty[p] + 1
    BY <1>2, <2>1, <2>5
  <2>6. CASE dirty[p] = 0 /\ dirty'[p] = 0 /\ Registering(p)'
    BY <1>2, <2>1, <2>2, <2>6
  <2> QED BY <1>3, <2>1, <2>4, <2>5, <2>6
<1>5. ClearFresh'
  <2> SUFFICES ASSUME mpc = "clear"
               PROVE  /\ Present(cur)' \/ stopping = "maintenance"
                      /\ dirty'[cur] = snapshot[cur] => Covered(cur)'
    BY <1>1 DEF ClearFresh, Present, Covered
  <2>1. /\ cur \in Path /\ snapshot[cur] # 0 /\ (Present(cur) \/ stopping = "maintenance")
        /\ dirty[cur] = snapshot[cur] => Covered(cur)
    BY <1>2 DEF TaskShape, ClearFresh
  <2>2. CASE stopping = "maintenance"
    <3>1. UNCHANGED <<files, dirty>>
      BY <2>2, JoinedRecorder DEF LastPass, Joined
    <3> QED BY <1>1, <2>1, <2>2, <3>1 DEF Covered
  <2>3. CASE Present(cur)
    <3>1. Present(cur)'
      BY <1>1, <2>1, <2>3 DEF Marked, Present
    <3>2. ASSUME dirty'[cur] = snapshot[cur] PROVE Covered(cur)'
      <4>1. dirty[cur] = snapshot[cur] /\ files'[cur].lines = files[cur].lines
        BY <1>2, <1>3, <2>1, <2>3, <3>2
      <4> QED BY <1>1, <2>1, <4>1 DEF Covered
    <3> QED BY <3>1, <3>2
  <2> QED BY <2>1, <2>2, <2>3
<1>6. ASSUME NEW p \in Path PROVE Owed(p)'
  <2>1. Owed(p) /\ ScanToCome(p)' = ScanToCome(p) /\ (Registering(p) => Registering(p)' \/ dirty'[p] = dirty[p] + 1)
    BY <1>1, NoLineForgottenIs DEF ScanToCome, Marked
  <2>2. CASE ~Present(p)
    <3>1. Present(p)' => files'[p].lines = <<>>
      BY <1>1, <2>2 DEF Marked
    <3> QED BY <3>1 DEF Owed
  <2>3. CASE Present(p) /\ files'[p].lines = files[p].lines /\ dirty'[p] \in {dirty[p], dirty[p] + 1}
    <3>1. Covered(p)' = Covered(p)
      BY <1>1, <2>3 DEF Covered
    <3> QED BY <1>1, <1>2, <2>1, <2>3, <3>1 DEF Owed
  <2>4. CASE dirty'[p] = dirty[p] + 1 \/ Registering(p)'
    <3>1. dirty'[p] # 0 \/ Registering(p)'
      BY <1>2, <2>4
    <3> QED BY <3>1 DEF Owed
  <2> QED BY <1>3, <2>2, <2>3, <2>4
<1> QED BY <1>4, <1>5, <1>6 DEF NoLineForgotten, Owed

LEMMA RecorderFlushed ==
  ASSUME CoreInv, LastPass, Recorder
  PROVE  LastPass'
<1>1. /\ UNCHANGED <<indexed, mpc, phase, snapshot, failed, stopping>>
      /\ phase = "shutdown" => stopping = "maintenance"
  BY DEF Recorder, dbVars, taskVars, passVars, CoreInv, TaskShape
<1>2. CASE stopping # "maintenance"
  BY <1>1, <1>2 DEF LastPass
<1>3. CASE stopping = "maintenance"
  <2>1. UNCHANGED <<files, dirty>> /\ Joined'
    BY <1>3, JoinedRecorder DEF LastPass, Joined
  <2> QED BY <1>1, <2>1 DEF LastPass, Joined, Present, Covered
<1> QED BY <1>2, <1>3

(* The other parts of LastPass.                                              *)
FlushMarks == \A p \in Path : snapshot[p] # 0 => snapshot[p] = dirty[p]

FlushOwes ==
  \A p \in Path : Present(p) /\ files[p].lines # <<>> /\ ~Covered(p) /\ p \notin failed =>
    snapshot[p] # 0

LEMMA LastPassIs ==
  LastPass <=> /\ Joined
               /\ phase = "shutdown" /\ mpc \in {"dirty", "clear"} => FlushMarks
               /\ phase = "shutdown" /\ mpc \in {"dirty", "clear", "cleanup", "stopped"} => FlushOwes
BY DEF LastPass, Joined, FlushMarks, FlushOwes

(* A step of the task that leaves the store alone.                           *)
LEMMA Aside ==
  ASSUME CoreInv, MarksKnown, UNCHANGED <<files, rec, active, dirty>>,
         \A p \in Path : snapshot'[p] \in {0, snapshot[p], dirty[p]}
  PROVE  /\ MarksKnown'
         /\ Joined /\ UNCHANGED stopping => Joined'
         /\ \A p : /\ Present(p)' <=> Present(p)
                   /\ Registering(p)' <=> Registering(p)
                   /\ TextSize(p)' = TextSize(p)
                   /\ UNCHANGED indexed => (Covered(p)' <=> Covered(p))
<1>1. \A p \in Path : snapshot'[p] <= dirty[p]
  BY OwedTypes, SMTT(30) DEF MarksKnown
<1>2. MarksKnown'
  BY <1>1 DEF MarksKnown
<1> QED BY <1>2 DEF Joined, Handling, Present, Registering, TextSize, Covered

(* Between passes nothing is claimed of the pass.                            *)
LEMMA BetweenPasses ==
  ASSUME CoreInv, OwedInv, UNCHANGED <<files, rec, active, dirty, indexed, tx, conn, snapshot, failed, stopping>>,
         tx = Null, mpc # "scan", mpc' \notin {"scan", "dirty", "clear", "cleanup", "stopped"}
  PROVE  OwedInv'
<1>1. /\ MarksKnown' /\ Joined'
      /\ \A p : /\ Present(p)' <=> Present(p)
                /\ Registering(p)' <=> Registering(p)
                /\ Covered(p)' <=> Covered(p)
  BY Aside, LastPassIs DEF OwedInv
<1>2. \A p \in Path : Owed(p)'
  BY <1>1, NoLineForgottenIs DEF OwedInv, Owed, ScanToCome
<1>3. StatFresh' /\ ClearFresh'
  BY DEF StatFresh, ClearFresh
<1>4. LastPass'
  BY <1>1 DEF LastPass, Joined
<1> QED BY <1>1, <1>2, <1>3, <1>4 DEF OwedInv, NoLineForgotten, Owed

LEMMA OpenOwes ==
  ASSUME CoreInv, OwedInv, OpenDatabase
  PROVE  OwedInv'
<1>1. /\ UNCHANGED <<files, rec, active, dirty, indexed, tx, conn, snapshot, failed, stopping>>
      /\ tx = Null /\ mpc' = "scan" /\ todo' = PresentPaths /\ ~conn
  BY DEF OpenDatabase, recorderVars, dbVars, CoreInv, TaskShape
<1>2. /\ MarksKnown' /\ Joined'
      /\ \A p : Present(p)' <=> Present(p)
  BY <1>1, Aside, LastPassIs DEF OwedInv
<1>3. \A p \in Path : Present(p) => ScanToCome(p)'
  BY <1>1 DEF ScanToCome, PresentPaths
<1>4. \A p \in Path : Owed(p)'
  BY <1>2, <1>3 DEF Owed
<1>5. StatFresh' /\ ClearFresh' /\ LastPass'
  BY <1>1, <1>2 DEF StatFresh, ClearFresh, LastPass, Joined
<1> QED BY <1>2, <1>4, <1>5 DEF OwedInv, NoLineForgotten, Owed

(* The stat of a file sees all its lines.                                    *)
LEMMA StatSees ==
  ASSUME CoreInv, NEW p \in Path, IngestStat(p)
  PROVE  /\ tx = Null /\ tx' # Null /\ tx'.path = p /\ tx'.size >= TextSize(p)
         /\ UNCHANGED <<files, indexed>>
<1>1. files[p] \in File
  BY DEF CoreInv, IndexTypeOK
<1>2. Size(files[p]) \in Nat /\ Size(files[p]) >= TextSize(p)
  BY <1>1, SizeBounds DEF TextSize
<1>3. tx' = [path |-> p, size |-> Size(files[p])] /\ tx = Null /\ UNCHANGED <<files, indexed>>
  BY DEF IngestStat, dbVars
<1>4. tx' # Null
  BY <1>2, <1>3, NullAssumption
<1> QED BY <1>2, <1>3, <1>4

LEMMA ScanStatOwes ==
  ASSUME CoreInv, OwedInv, NEW p \in Path, ScanStat(p)
  PROVE  OwedInv'
<1>1. /\ tx = Null /\ tx' # Null /\ tx'.path = p /\ tx'.size >= TextSize(p)
      /\ UNCHANGED <<files, rec, active, dirty, indexed, conn, snapshot, failed, stopping, mpc, phase>>
      /\ mpc = "scan" /\ todo' = todo \ {p}
  BY StatSees DEF ScanStat, recorderVars
<1>2. /\ MarksKnown' /\ Joined'
      /\ \A q : /\ Present(q)' <=> Present(q)
                /\ Registering(q)' <=> Registering(q)
                /\ Covered(q)' <=> Covered(q)
                /\ TextSize(q)' = TextSize(q)
  BY <1>1, Aside, LastPassIs DEF OwedInv
<1>3. \A q \in Path : ScanToCome(q) => ScanToCome(q)'
  BY <1>1 DEF ScanToCome
<1>4. \A q \in Path : Owed(q)'
  BY <1>1, <1>2, <1>3, NoLineForgottenIs DEF OwedInv, Owed
<1>5. StatFresh' /\ ClearFresh' /\ LastPass'
  BY <1>1, <1>2 DEF StatFresh, ClearFresh, LastPass, Joined
<1> QED BY <1>2, <1>4, <1>5 DEF OwedInv, NoLineForgotten, Owed

(* What a transaction achieves: its file is covered if nothing was written   *)
(* since its stat, and no other file loses its coverage.                     *)
LEMMA CommitCovers ==
  ASSUME CoreInv, IngestCommit, NEW p, p = tx.path
  PROVE  /\ tx # Null /\ p \in Path /\ tx' = Null /\ UNCHANGED files
         /\ tx.size >= TextSize(p) => Covered(p)'
         /\ \A q \in Path \ {p} : Covered(q) => Covered(q)'
<1>1. IndexTypeOK /\ tx # Null /\ tx' = Null /\ UNCHANGED files
  BY DEF CoreInv, IngestCommit
<1>2. /\ p \in Path
      /\ \A q \in Path \ {p} :
           \/ indexed'[q] = indexed[q]
           \/ indexed[q] # Null /\ indexed'[q] # Null /\ indexed'[q].status = "duplicate"
      /\ \/ indexed'[p] # Null /\ indexed'[p].status # "ok"
         \/ indexed'[p] # Null /\ indexed'[p].lines = Len(files[p].lines)
         \/ /\ indexed'[p] = indexed[p] /\ indexed[p] # Null
            /\ tx.size = Offset(indexed[p])
  BY <1>1, CommitRows
<1>3. \A q \in Path \ {p} : Covered(q) => Covered(q)'
  BY <1>1, <1>2 DEF Covered
<1>4. Len(files[p].lines) \in Nat
  BY <1>2, OwedTypes
<1>5. ASSUME tx.size >= TextSize(p) PROVE Covered(p)'
  <2>1. CASE indexed'[p] # Null /\ indexed'[p].status # "ok"
    BY <1>1, <2>1 DEF Covered
  <2>2. CASE indexed'[p] # Null /\ indexed'[p].lines = Len(files[p].lines)
    BY <1>1, <1>4, <2>2 DEF Covered
  <2>3. CASE /\ indexed'[p] = indexed[p] /\ indexed[p] # Null
             /\ tx.size = Offset(indexed[p])
    <3>1. indexed[p] \in IndexedRow
      BY <1>1, <1>2, <2>3 DEF IndexTypeOK
    <3>2. indexed[p].lines \in Nat
      BY <3>1 DEF IndexedRow
    <3>3. indexed[p].lines >= Len(files[p].lines)
      BY <1>4, <1>5, <2>3, <3>2 DEF TextSize, Offset, LineSize
    <3> QED BY <1>1, <2>3, <3>3 DEF Covered
  <2> QED BY <1>2, <2>1, <2>2, <2>3
<1> QED BY <1>1, <1>2, <1>3, <1>5

LEMMA ScanCommitOwes ==
  ASSUME CoreInv, OwedInv, ScanCommit
  PROVE  OwedInv'
<1>0. PICK p : p = tx.path
  OBVIOUS
<1>1. /\ UNCHANGED <<files, rec, active, dirty, conn, snapshot, stopping, mpc, phase, todo>>
      /\ mpc = "scan" /\ failed' = failed \ {p} /\ IngestCommit
  BY <1>0 DEF ScanCommit, IngestCommit, recorderVars, passVars
<1>2. /\ MarksKnown' /\ Joined'
      /\ \A q : /\ Present(q)' <=> Present(q)
                /\ Registering(q)' <=> Registering(q)
  BY <1>1, Aside, LastPassIs DEF OwedInv
<1>3. /\ tx # Null /\ p \in Path /\ tx' = Null
      /\ tx.size >= TextSize(p) => Covered(p)'
      /\ \A q \in Path \ {p} : Covered(q) => Covered(q)'
  BY <1>0, <1>1, CommitCovers
<1>4. ASSUME NEW q \in Path \ {p} PROVE Owed(q)'
  <2>1. ScanToCome(q) => ScanToCome(q)'
    BY <1>0, <1>1 DEF ScanToCome
  <2> QED BY <1>1, <1>2, <1>3, <2>1, NoLineForgottenIs DEF OwedInv, Owed
<1>5. Owed(p)'
  <2>1. tx.size >= TextSize(p) \/ dirty[p] # 0 \/ Registering(p)
    BY <1>0, <1>1, <1>3 DEF OwedInv, StatFresh
  <2> QED BY <1>1, <1>2, <1>3, <2>1 DEF Owed
<1>6. StatFresh' /\ ClearFresh' /\ LastPass'
  BY <1>1, <1>2, <1>3 DEF StatFresh, ClearFresh, LastPass, Joined
<1> QED BY <1>2, <1>3, <1>4, <1>5, <1>6 DEF OwedInv, NoLineForgotten, Owed

LEMMA ScanEndOwes ==
  ASSUME CoreInv, OwedInv, ScanEnd
  PROVE  OwedInv'
<1>1. /\ UNCHANGED <<files, rec, active, dirty, indexed, tx, snapshot, failed, stopping, phase>>
      /\ tx = Null /\ mpc = "scan" /\ todo = {} /\ mpc' = "snapshot"
  BY DEF ScanEnd, recorderVars, dbVars
<1>2. /\ MarksKnown' /\ Joined'
      /\ \A q : /\ Present(q)' <=> Present(q)
                /\ Registering(q)' <=> Registering(q)
                /\ Covered(q)' <=> Covered(q)
  BY <1>1, Aside, LastPassIs DEF OwedInv
<1>3. \A q \in Path : ~ScanToCome(q)
  BY <1>1 DEF ScanToCome
<1>4. \A q \in Path : Owed(q)'
  BY <1>1, <1>2, <1>3, NoLineForgottenIs DEF OwedInv, Owed
<1>5. StatFresh' /\ ClearFresh' /\ LastPass'
  BY <1>1, <1>2 DEF StatFresh, ClearFresh, LastPass, Joined
<1> QED BY <1>2, <1>4, <1>5 DEF OwedInv, NoLineForgotten, Owed

(* On the last pass every line that is not indexed is marked when the marks  *)
(* are copied: no handler is about to register one any more.                 *)
LEMMA SnapshotOwes ==
  ASSUME CoreInv, OwedInv, SnapshotDirtyPaths
  PROVE  OwedInv'
<1>1. /\ UNCHANGED <<files, rec, active, dirty, indexed, tx, conn, todo, failed, stopping, phase>>
      /\ mpc = "snapshot" /\ mpc' = "dirty" /\ snapshot' = dirty
  BY DEF SnapshotDirtyPaths, recorderVars, dbVars
<1>2. tx = Null /\ conn /\ (phase = "shutdown" => stopping = "maintenance")
  BY <1>1 DEF CoreInv, TaskShape
<1>3. /\ MarksKnown' /\ Joined'
      /\ \A q : /\ Present(q)' <=> Present(q)
                /\ Registering(q)' <=> Registering(q)
                /\ Covered(q)' <=> Covered(q)
  BY <1>1, Aside, LastPassIs DEF OwedInv
<1>4. \A q \in Path : Owed(q)' /\ ~ScanToCome(q)
  BY <1>1, <1>2, <1>3, NoLineForgottenIs DEF OwedInv, Owed, ScanToCome
<1>5. phase = "shutdown" => \A q \in Path : ~Registering(q)
  BY <1>2 DEF OwedInv, LastPass, Registering, Handling, HandlerSteps
<1>6. phase' = "shutdown" => FlushMarks' /\ FlushOwes'
  BY <1>1, <1>3, <1>4, <1>5 DEF FlushMarks, FlushOwes, Owed, ScanToCome
<1>7. StatFresh' /\ ClearFresh' /\ LastPass'
  BY <1>1, <1>2, <1>3, <1>6 DEF StatFresh, ClearFresh, LastPass, Joined, FlushMarks, FlushOwes
<1> QED BY <1>3, <1>4, <1>7 DEF OwedInv, NoLineForgotten, Owed

LEMMA DirtyStatOwes ==
  ASSUME CoreInv, OwedInv, NEW p \in Path, DirtyStat(p)
  PROVE  OwedInv'
<1>1. /\ tx' # Null /\ tx'.path = p /\ tx'.size >= TextSize(p)
      /\ UNCHANGED <<files, rec, active, dirty, indexed, conn, snapshot, failed, stopping, mpc, phase>>
      /\ mpc = "dirty"
  BY StatSees DEF DirtyStat, recorderVars, taskVars, passVars
<1>2. conn
  BY <1>1 DEF CoreInv, TaskShape
<1>3. /\ MarksKnown' /\ Joined'
      /\ \A q : /\ Present(q)' <=> Present(q)
                /\ Registering(q)' <=> Registering(q)
                /\ Covered(q)' <=> Covered(q)
                /\ TextSize(q)' = TextSize(q)
  BY <1>1, Aside, LastPassIs DEF OwedInv
<1>4. \A q \in Path : Owed(q)'
  BY <1>1, <1>2, <1>3, NoLineForgottenIs DEF OwedInv, Owed, ScanToCome
<1>5. FlushMarks /\ FlushOwes => FlushMarks' /\ FlushOwes'
  BY <1>1, <1>3 DEF FlushMarks, FlushOwes
<1>6. LastPass'
  BY <1>1, <1>3, <1>5, LastPassIs DEF OwedInv, LastPass, Joined, FlushMarks, FlushOwes
<1>7. StatFresh' /\ ClearFresh'
  BY <1>1, <1>3 DEF StatFresh, ClearFresh
<1> QED BY <1>3, <1>4, <1>6, <1>7 DEF OwedInv, NoLineForgotten, Owed

(* A path that the pass has done with is removed, covered or failed.         *)
LEMMA HandledOwes ==
  ASSUME CoreInv, OwedInv, NEW p \in Path, snapshot' = [snapshot EXCEPT ![p] = 0],
         mpc = "dirty" /\ UNCHANGED <<mpc, phase, conn, stopping>>,
         UNCHANGED <<files, rec, active, dirty, indexed>>, tx' = Null,
         failed' = failed \/ failed' = failed \cup {p},
         ~Present(p) \/ p \in failed'
  PROVE  OwedInv'
<1>1. /\ \A q \in Path : snapshot'[q] = IF q = p THEN 0 ELSE snapshot[q]
      /\ conn
  BY OwedTypes DEF TaskShape
<1>2. /\ MarksKnown' /\ Joined'
      /\ \A q : /\ Present(q)' <=> Present(q)
                /\ Registering(q)' <=> Registering(q)
                /\ Covered(q)' <=> Covered(q)
  BY <1>1, Aside, LastPassIs DEF OwedInv
<1>3. \A q \in Path : Owed(q)'
  BY <1>1, <1>2, NoLineForgottenIs DEF OwedInv, Owed, ScanToCome
<1>4. FlushMarks /\ FlushOwes => FlushMarks' /\ FlushOwes'
  BY <1>1, <1>2 DEF FlushMarks, FlushOwes
<1>5. LastPass'
  BY <1>2, <1>4, LastPassIs DEF OwedInv, LastPass, Joined, FlushMarks, FlushOwes
<1>6. StatFresh' /\ ClearFresh'
  BY DEF StatFresh, ClearFresh
<1> QED BY <1>2, <1>3, <1>5, <1>6 DEF OwedInv, NoLineForgotten, Owed

LEMMA DirtyMissingOwes ==
  ASSUME CoreInv, OwedInv, NEW p \in Path, DirtyMissing(p)
  PROVE  OwedInv'
<1>1. /\ snapshot' = [snapshot EXCEPT ![p] = 0] /\ ~Present(p)
      /\ mpc = "dirty" /\ UNCHANGED <<mpc, phase, conn, stopping, failed>>
      /\ UNCHANGED <<files, rec, active, dirty, indexed>> /\ tx' = Null
  BY DEF DirtyMissing, Handled, recorderVars, dbVars
<1> QED BY <1>1, HandledOwes

LEMMA DirtyIngestFailsOwes ==
  ASSUME CoreInv, OwedInv, DirtyIngestFails
  PROVE  OwedInv'
<1>1. PICK p : p = tx.path
  OBVIOUS
<1>2. p \in Path
  BY <1>1, OwedTypes, TxPath DEF DirtyIngestFails, IngestRollback
<1>3. /\ snapshot' = [snapshot EXCEPT ![p] = 0] /\ failed' = failed \cup {p}
      /\ mpc = "dirty" /\ UNCHANGED <<mpc, phase, conn, stopping>>
      /\ UNCHANGED <<files, rec, active, dirty, indexed>> /\ tx' = Null
  BY <1>1 DEF DirtyIngestFails, IngestRollback, Handled, mostRecorderVars, dbVars
<1> QED BY <1>2, <1>3, HandledOwes

LEMMA DirtyCommitOwes ==
  ASSUME CoreInv, NoFalseShrink, OwedInv, DirtyCommit
  PROVE  OwedInv'
<1>0. PICK p : p = tx.path
  OBVIOUS
<1>1. /\ UNCHANGED <<files, rec, active, dirty, conn, snapshot, stopping, phase, todo>>
      /\ mpc = "dirty" /\ mpc' = "clear" /\ cur' = p
      /\ failed' = failed \ {p} /\ IngestCommit
  BY <1>0 DEF DirtyCommit, IngestCommit, recorderVars
<1>2. /\ MarksKnown' /\ Joined'
      /\ \A q : /\ Present(q)' <=> Present(q)
                /\ Registering(q)' <=> Registering(q)
  BY <1>1, Aside, LastPassIs DEF OwedInv
<1>3. /\ tx # Null /\ p \in Path /\ tx' = Null
      /\ tx.size >= TextSize(p) => Covered(p)'
      /\ \A q \in Path \ {p} : Covered(q) => Covered(q)'
  BY <1>0, <1>1, CommitCovers
<1>4. /\ Present(p) /\ snapshot[p] # 0 /\ conn
      /\ dirty[p] = snapshot[p] => Covered(p)'
  BY <1>0, <1>1, <1>3 DEF NoFalseShrink, CoreInv, TaskShape, OwedInv, StatFresh
<1>5. dirty[p] # 0
  BY <1>3, <1>4, OwedTypes DEF OwedInv, MarksKnown
<1>6. ASSUME NEW q \in Path PROVE Owed(q)'
  <2>1. CASE q = p
    BY <1>1, <1>5, <2>1 DEF Owed
  <2>2. CASE q # p
    BY <1>1, <1>2, <1>3, <1>4, <2>2, NoLineForgottenIs DEF OwedInv, Owed, ScanToCome
  <2> QED BY <2>1, <2>2
<1>7. /\ FlushMarks => FlushMarks'
      /\ FlushOwes => FlushOwes'
  BY <1>1, <1>2, <1>3, <1>4 DEF FlushMarks, FlushOwes
<1>8. LastPass'
  BY <1>1, <1>2, <1>7, LastPassIs DEF OwedInv, LastPass, Joined, FlushMarks, FlushOwes
<1>9. StatFresh'
  BY <1>3 DEF StatFresh
<1>10. ClearFresh'
  <2>1. Present(cur)' /\ (dirty'[cur'] = snapshot'[cur'] => Covered(cur)')
    BY <1>1, <1>2, <1>4 DEF Covered, Present
  <2> QED BY <2>1 DEF ClearFresh
<1> QED BY <1>2, <1>6, <1>8, <1>9, <1>10 DEF OwedInv, NoLineForgotten, Owed

(* The mark of the file just ingested goes only if it is still the one that  *)
(* was copied, that is, if the transaction saw every line.                   *)
LEMMA ClearOwes ==
  ASSUME CoreInv, OwedInv, ClearDirtyPathIfUnchanged
  PROVE  OwedInv'
<1>0. PICK p : p = cur
  OBVIOUS
<1>1. /\ UNCHANGED <<files, rec, active, indexed, tx, conn, stopping, phase, todo, failed>>
      /\ mpc = "clear" /\ mpc' = "dirty"
      /\ dirty' = [dirty EXCEPT ![p] = IF dirty[p] = snapshot[p] THEN 0 ELSE dirty[p]]
      /\ snapshot' = [snapshot EXCEPT ![p] = 0]
  BY <1>0 DEF ClearDirtyPathIfUnchanged, ClearedIfUnchanged, Handled, mostRecorderVars, dbVars
<1>2. /\ p \in Path /\ snapshot[p] # 0 /\ tx = Null /\ conn
      /\ dirty[p] = snapshot[p] => Covered(p)
  BY <1>0, <1>1 DEF CoreInv, TaskShape, OwedInv, ClearFresh
<1>3. /\ \A q \in Path \ {p} : dirty'[q] = dirty[q] /\ snapshot'[q] = snapshot[q]
      /\ dirty'[p] = (IF dirty[p] = snapshot[p] THEN 0 ELSE dirty[p]) /\ snapshot'[p] = 0
  BY <1>1, <1>2, OwedTypes
<1>4. /\ \A q \in Path : dirty[q] \in Nat /\ snapshot[q] \in Nat /\ snapshot[q] <= dirty[q]
      /\ dirty[p] # 0
  BY <1>2, OwedTypes DEF OwedInv, MarksKnown
<1>5. \A q : /\ Present(q)' <=> Present(q)
             /\ Registering(q)' <=> Registering(q)
             /\ Covered(q)' <=> Covered(q)
  BY <1>1 DEF Present, Registering, Covered
<1>6. MarksKnown'
  <2>1. \A q \in Path : /\ snapshot'[q] <= dirty'[q] /\ (dirty[q] = 0 => dirty'[q] = 0)
    BY <1>3, <1>4
  <2>2. ASSUME NEW s \in Streams, rec[s].pc \in Opened PROVE rec[s].path \in Path
    BY <2>2, OwedTypes, StreamFacts DEF PathsKnown
  <2> QED BY <1>1, <2>1, <2>2 DEF OwedInv, MarksKnown
<1>7. \A q \in Path : Owed(q)'
  <2>1. Covered(p)' \/ dirty'[p] # 0
    BY <1>2, <1>3, <1>4, <1>5
  <2> QED BY <1>1, <1>2, <1>3, <1>5, <2>1, NoLineForgottenIs DEF OwedInv, Owed, ScanToCome
<1>8. FlushMarks /\ FlushOwes => FlushMarks' /\ FlushOwes'
  BY <1>1, <1>2, <1>3, <1>5 DEF FlushMarks, FlushOwes
<1>9. LastPass'
  <2>1. Joined'
    BY <1>1, LastPassIs DEF OwedInv, Joined, Handling
  <2> QED BY <1>1, <1>8, <2>1, LastPassIs DEF OwedInv, LastPass, Joined, FlushMarks, FlushOwes
<1>10. StatFresh' /\ ClearFresh'
  BY <1>1, <1>2 DEF StatFresh, ClearFresh
<1> QED BY <1>6, <1>7, <1>9, <1>10 DEF OwedInv, NoLineForgotten, Owed

(* Every dirty path is handled, or the cleanup that follows is over or has   *)
(* failed: what is covered stays so.                                         *)
LEMMA PassEndOwes ==
  ASSUME CoreInv, OwedInv, UNCHANGED <<files, rec, active, dirty, conn, stopping, phase, snapshot, failed>>,
         tx' = Null, conn, mpc \notin {"scan", "gc_cleanup"} \/ phase # "shutdown",
         mpc = "dirty" \/ mpc = "cleanup" \/ mpc = "gc_cleanup",
         mpc' \in {"cleanup", "sleep", "gc_due", "stopped"},
         \A p \in Path : Present(p) /\ Covered(p) => Covered(p)'
  PROVE  OwedInv'
<1>1. /\ MarksKnown' /\ Joined'
      /\ \A q : /\ Present(q)' <=> Present(q)
                /\ Registering(q)' <=> Registering(q)
  BY Aside, LastPassIs DEF OwedInv
<1>2. \A q \in Path : Owed(q)'
  BY <1>1, NoLineForgottenIs DEF OwedInv, Owed, ScanToCome
<1>3. FlushOwes => FlushOwes'
  BY <1>1 DEF FlushOwes
<1>4. LastPass'
  BY <1>1, <1>3, LastPassIs DEF OwedInv, LastPass, Joined, FlushOwes
<1>5. StatFresh' /\ ClearFresh'
  BY DEF StatFresh, ClearFresh
<1> QED BY <1>1, <1>2, <1>4, <1>5 DEF OwedInv, NoLineForgotten, Owed

LEMMA CleanupOwes ==
  ASSUME CoreInv, OwedInv, DirtyEnd \/ SearchCleanup \/ CleanupFails
  PROVE  OwedInv'
<1>1. IndexTypeOK /\ TaskShape /\ TaskTypeOK
  BY DEF CoreInv
<1>2. CASE DirtyEnd
  <2>1. /\ UNCHANGED <<files, rec, active, dirty, conn, stopping, phase, snapshot, failed, indexed>>
        /\ tx' = Null /\ mpc = "dirty" /\ mpc' = "cleanup"
    BY <1>2 DEF DirtyEnd, recorderVars, dbVars, passVars
  <2>2. conn /\ \A p \in Path : Covered(p) => Covered(p)'
    BY <1>1, <2>1 DEF TaskShape, Covered
  <2> QED BY <2>1, <2>2, PassEndOwes
<1>3. CASE SearchCleanup \/ CleanupFails
  <2>1. /\ UNCHANGED <<files, rec, active, dirty, conn, stopping, phase, snapshot, failed>>
        /\ mpc \in {"cleanup", "gc_cleanup"} /\ tx' = tx
        /\ mpc' = AfterCleanup
    BY <1>3 DEF SearchCleanup, CleanupFails, CleanupDeleted, recorderVars, mostRecorderVars, passVars
  <2>2. tx = Null /\ conn /\ (phase = "shutdown" => mpc # "gc_cleanup")
    BY <1>1, <2>1 DEF TaskShape
  <2>3. mpc' \in {"cleanup", "sleep", "gc_due", "stopped"}
    BY <1>1, <2>1 DEF AfterCleanup, AfterPass, TaskTypeOK
  <2>4. ASSUME NEW p \in Path, Present(p), Covered(p) PROVE Covered(p)'
    <3>1. CASE CleanupDeleted
      BY <1>1, <2>1, <2>4, <3>1, CleanupRows DEF Covered
    <3>2. CASE UNCHANGED indexed
      BY <2>1, <2>4, <3>2 DEF Covered
    <3> QED BY <1>3, <3>1, <3>2 DEF SearchCleanup, CleanupFails, dbVars
  <2> QED BY <2>1, <2>2, <2>3, <2>4, PassEndOwes
<1> QED BY <1>2, <1>3

(* A collected file is owed nothing.                                         *)
LEMMA RemoveOwes ==
  ASSUME CoreInv, OwedInv, NEW p \in Path, GcRemove(p) \/ (LateRemove /\ p = late)
  PROVE  OwedInv'
<1>1. /\ UNCHANGED <<clock, active, dirty, rec, mpc, phase, conn, todo, snapshot, cur, failed,
                      tx, indexed, stopping>>
      /\ files' = [files EXCEPT ![p] = Removed] /\ tx = Null
      /\ mpc = "clear" => stopping = "maintenance"
  <2>1. LateRemove => stopping = "maintenance"
    BY DEF LateRemove, CoreInv, TaskShape
  <2> QED BY <2>1 DEF GcRemove, LateRemove, RemoveFile, recorderVars, taskVars, passVars, dbVars
<1>2. \A q \in Path : files'[q] = IF q = p THEN Removed ELSE files[q]
  BY <1>1, OwedTypes DEF CoreInv, IndexTypeOK
<1>3. MarksKnown'
  <2>1. \A q \in Path : files'[q].state = "unused" => files[q].state = "unused"
    BY <1>2 DEF Removed
  <2>2. ASSUME NEW s \in Streams
        PROVE  /\ rec[s].pc \in Opened => rec[s].path \in Path
               /\ active[s] # Null => active[s].path \in Path
    BY OwedTypes, StreamFacts DEF PathsKnown
  <2> QED BY <1>1, <2>1, <2>2 DEF OwedInv, MarksKnown
<1>4. ASSUME NEW q \in Path PROVE Owed(q)'
  <2>1. CASE q = p
    BY <1>2, <2>1 DEF Owed, Present, Removed
  <2>2. CASE q # p
    <3>1. Owed(q) /\ files'[q] = files[q]
      BY <1>2, <2>2, NoLineForgottenIs DEF OwedInv
    <3> QED BY <1>1, <3>1 DEF Owed, Present, Covered, Registering, ScanToCome
  <2> QED BY <2>1, <2>2
<1>5. ASSUME NEW q \in Path, Covered(q) PROVE Covered(q)'
  <2>1. indexed[q] \in IndexedRow /\ indexed[q].lines >= 0
    BY <1>5, OwedTypes DEF IndexTypeOK, IndexedRow, Covered
  <2>2. Len(Removed.lines) = 0
    BY DEF Removed
  <2> QED BY <1>1, <1>2, <1>5, <2>1, <2>2 DEF Covered
<1>6. StatFresh' /\ ClearFresh'
  <2>1. mpc = "clear" => cur \in Path
    BY OwedTypes DEF TaskShape
  <2>2. ClearFresh'
    BY <1>1, <1>5, <2>1 DEF OwedInv, ClearFresh, Covered
  <2> QED BY <1>1, <2>2 DEF StatFresh
<1>7. Joined' /\ (FlushMarks => FlushMarks')
  BY <1>1, LastPassIs DEF OwedInv, Joined, Handling, FlushMarks
<1>8. ASSUME FlushOwes PROVE FlushOwes'
  <2>1. \A q \in Path : Present(q)' => q # p /\ files'[q] = files[q] /\ Present(q)
    BY <1>2 DEF Present, Removed
  <2> QED BY <1>1, <1>8, <2>1 DEF FlushOwes, Covered
<1>9. LastPass'
  BY <1>1, <1>7, <1>8, LastPassIs DEF OwedInv, LastPass, Joined, FlushMarks, FlushOwes
<1> QED BY <1>3, <1>4, <1>6, <1>9 DEF OwedInv, NoLineForgotten, Owed

(* The scan or the whole pass fails for some paths.                          *)
LEMMA FailureOwes ==
  ASSUME CoreInv, OwedInv, DatabaseUnavailable \/ ScanIngestFails \/ \E p \in Path : ScanWalkFails(p)
  PROVE  OwedInv'
<1>1. TaskShape /\ TaskTypeOK
  BY DEF CoreInv
<1>2. CASE DatabaseUnavailable
  <2>1. /\ UNCHANGED <<files, rec, active, dirty, indexed, tx, conn, snapshot, stopping, phase>>
        /\ mpc = "apply" /\ mpc' = AfterPass /\ failed' = PresentPaths
    BY <1>2 DEF DatabaseUnavailable, mostRecorderVars, dbVars, passVars
  <2>2. /\ MarksKnown' /\ Joined'
        /\ \A q : Present(q)' <=> Present(q)
    BY <2>1, Aside, LastPassIs DEF OwedInv
  <2>3. \A q \in Path : Present(q)' => q \in failed'
    BY <2>1, <2>2 DEF PresentPaths
  <2>4. tx = Null /\ mpc' \in {"sleep", "gc_due", "stopped"}
    BY <1>1, <2>1 DEF TaskShape, AfterPass, TaskTypeOK
  <2>5. LastPass'
    BY <2>2, <2>3, <2>4 DEF LastPass, Joined
  <2>6. \A q \in Path : Owed(q)'
    BY <2>3 DEF Owed
  <2>7. StatFresh' /\ ClearFresh'
    BY <2>1, <2>4 DEF StatFresh, ClearFresh
  <2> QED BY <2>2, <2>5, <2>6, <2>7 DEF OwedInv, NoLineForgotten, Owed
<1>3. ASSUME NEW p \in Path, failed' = failed \cup {p}, mpc = "scan", tx' = Null,
             UNCHANGED <<files, rec, active, dirty, indexed, conn, snapshot, stopping, phase, mpc>>,
             \A q \in Path \ {p} : ScanToCome(q) => ScanToCome(q)'
      PROVE  OwedInv'
  <2>1. /\ MarksKnown' /\ Joined'
        /\ \A q : /\ Present(q)' <=> Present(q)
                  /\ Registering(q)' <=> Registering(q)
                  /\ Covered(q)' <=> Covered(q)
    BY <1>3, Aside, LastPassIs DEF OwedInv
  <2>2. \A q \in Path : Owed(q)'
    BY <1>3, <2>1, NoLineForgottenIs DEF OwedInv, Owed
  <2>3. StatFresh' /\ ClearFresh' /\ LastPass'
    BY <1>3, <2>1 DEF StatFresh, ClearFresh, LastPass, Joined
  <2> QED BY <2>1, <2>2, <2>3 DEF OwedInv, NoLineForgotten, Owed
<1>4. CASE ScanIngestFails
  <2>1. PICK p : p = tx.path
    OBVIOUS
  <2>2. p \in Path
    BY <1>4, <2>1, OwedTypes, TxPath DEF ScanIngestFails, IngestRollback
  <2>3. /\ UNCHANGED <<files, rec, active, dirty, indexed, conn, snapshot, stopping, phase, mpc, todo>>
        /\ failed' = failed \cup {p} /\ mpc = "scan" /\ tx' = Null
    BY <1>4, <2>1 DEF ScanIngestFails, IngestRollback, mostRecorderVars, dbVars, passVars
  <2>4. \A q \in Path \ {p} : ScanToCome(q) => ScanToCome(q)'
    BY <2>1, <2>3 DEF ScanToCome
  <2> QED BY <1>3, <2>2, <2>3, <2>4
<1>5. ASSUME NEW p \in Path, ScanWalkFails(p) PROVE OwedInv'
  <2>1. /\ UNCHANGED <<files, rec, active, dirty, indexed, conn, snapshot, stopping, phase, mpc>>
        /\ failed' = failed \cup {p} /\ mpc = "scan" /\ tx' = Null /\ tx = Null /\ todo' = todo \ {p}
    BY <1>5 DEF ScanWalkFails, mostRecorderVars, dbVars
  <2>2. \A q \in Path \ {p} : ScanToCome(q) => ScanToCome(q)'
    BY <2>1 DEF ScanToCome
  <2> QED BY <1>3, <2>1, <2>2
<1> QED BY <1>2, <1>4, <1>5

(* A new task scans everything, and so does one that has not opened the      *)
(* database yet.                                                             *)
LEMMA AfreshOwes ==
  ASSUME CoreInv, OwedInv, MaintenancePanics \/ ProcessDies \/ Restart \/ CommitsLost
  PROVE  OwedInv'
<1>1. ASSUME mpc' = "apply", ~conn', phase' = "startup", tx' = Null, MarksKnown', stopping' = "no"
      PROVE  OwedInv'
  <2>1. \A q \in Path : Owed(q)'
    BY <1>1 DEF Owed, ScanToCome
  <2>2. StatFresh' /\ ClearFresh' /\ LastPass'
    BY <1>1 DEF StatFresh, ClearFresh, LastPass
  <2> QED BY <1>1, <2>1, <2>2 DEF OwedInv, NoLineForgotten, Owed
<1>2. CASE MaintenancePanics
  <2>1. /\ UNCHANGED <<files, rec, active, dirty>> /\ snapshot' = NoSnapshot /\ ~conn'
        /\ mpc' = "apply" /\ phase' = "startup" /\ tx' = Null /\ stopping' = "no"
    BY <1>2 DEF MaintenancePanics, NewTask, mostRecorderVars
  <2>2. MarksKnown'
    BY <2>1, Aside DEF OwedInv, NoSnapshot
  <2> QED BY <1>1, <2>1, <2>2
<1>3. CASE ProcessDies \/ Restart
  <2>1. /\ snapshot' = NoSnapshot /\ ~conn' /\ mpc' = "apply" /\ phase' = "startup" /\ stopping' = "no"
        /\ active' = [s \in Streams |-> Null] /\ dirty' = [p \in Path |-> 0]
        /\ rec' = [s \in Streams |-> Offline]
    BY <1>3 DEF ProcessDies, Restart, NewProcess, NewTask, LoseStore
  <2>2. tx' = Null
    BY <1>3 DEF ProcessDies, PowerLoss, Restart, CoreInv, TaskShape
  <2>3. MarksKnown'
    BY <2>1, OfflineTyped DEF MarksKnown, NoSnapshot, Opened
  <2> QED BY <1>1, <2>1, <2>2, <2>3
<1>4. CASE CommitsLost
  <2>1. /\ UNCHANGED <<files, rec, active, dirty, snapshot, stopping, mpc, phase, conn>>
        /\ tx' = Null /\ mpc = "apply" /\ phase = "startup" /\ ~conn
    BY <1>4 DEF CommitsLost, DeleteDatabase, recorderVars, taskVars, passVars, CoreInv, TaskShape
  <2>2. MarksKnown' /\ Joined'
    BY <2>1, Aside, LastPassIs DEF OwedInv
  <2>3. \A q \in Path : Owed(q)'
    BY <2>1 DEF Owed, ScanToCome
  <2>4. StatFresh' /\ ClearFresh' /\ LastPass'
    BY <2>1, <2>2 DEF StatFresh, ClearFresh, LastPass, Joined
  <2> QED BY <2>2, <2>3, <2>4 DEF OwedInv, NoLineForgotten, Owed
<1> QED BY <1>2, <1>3, <1>4

LEMMA ShutdownOwes ==
  ASSUME CoreInv, OwedInv, SignalShutdown \/ IngestJoined \/ UNCHANGED vars
  PROVE  OwedInv'
<1>1. /\ UNCHANGED <<files, rec, active, dirty, indexed, tx, conn, snapshot, failed, todo, mpc, phase, cur>>
      /\ Joined'
      /\ stopping = "maintenance" => stopping' = "maintenance"
  <2>1. CASE UNCHANGED vars
    BY <2>1 DEF OwedInv, LastPass, Joined, Handling, vars, recorderVars, dbVars, taskVars, passVars
  <2>2. CASE SignalShutdown \/ IngestJoined
    BY <2>2 DEF SignalShutdown, IngestJoined, Joined, Handling, recorderVars, dbVars, taskVars, passVars
  <2> QED BY <2>1, <2>2
<1>2. /\ MarksKnown'
      /\ \A q : /\ Present(q)' <=> Present(q)
                /\ Registering(q)' <=> Registering(q)
                /\ Covered(q)' <=> Covered(q)
                /\ TextSize(q)' = TextSize(q)
  BY <1>1, Aside DEF OwedInv
<1>3. \A q \in Path : Owed(q)'
  BY <1>1, <1>2, NoLineForgottenIs DEF OwedInv, Owed, ScanToCome
<1>4. FlushMarks' = FlushMarks /\ FlushOwes' = FlushOwes
  BY <1>1, <1>2 DEF FlushMarks, FlushOwes
<1>5. LastPass'
  BY <1>1, <1>4, LastPassIs DEF OwedInv, LastPass, Joined, FlushMarks, FlushOwes
<1>6. StatFresh'
  BY <1>1, <1>2 DEF OwedInv, StatFresh
<1>7. ClearFresh'
  BY <1>1, <1>2 DEF OwedInv, ClearFresh, Present, Covered
<1> QED BY <1>2, <1>3, <1>5, <1>6, <1>7 DEF OwedInv, NoLineForgotten, Owed

LEMMA BetweenOwes ==
  ASSUME CoreInv, OwedInv,
         \/ ReuseConnection \/ Wake \/ ShutdownObserved \/ GcNotDue \/ GcStart \/ GcSnapshot
         \/ GcEnd \/ GcFails \/ GcCancelled
  PROVE  OwedInv'
<1>1. /\ UNCHANGED <<files, rec, active, dirty, indexed, tx, conn, snapshot, failed, stopping>>
      /\ mpc \in {"apply", "sleep", "gc_due", "gc_snapshot", "gc_walk"}
      /\ mpc' \notin {"scan", "dirty", "clear", "cleanup", "stopped"}
  BY DEF ReuseConnection, Wake, ShutdownObserved, GcNotDue, GcStart, GcSnapshot, GcEnd, GcFails,
     GcFinished, GcCancelled, BeginPass, recorderVars, mostRecorderVars, dbVars, passVars
<1>2. tx = Null
  BY <1>1 DEF CoreInv, TaskShape
<1> QED BY <1>1, <1>2, BetweenPasses

LEMMA OwedStep ==
  ASSUME CoreInv, NoFalseShrink, OwedInv, [Next]_vars
  PROVE  OwedInv'
<1>1. CASE Recorder
  BY <1>1, RecorderMarks, RecorderOwes, RecorderFlushed DEF OwedInv
<1>2. CASE MaintenanceStep
  BY <1>2, OpenOwes, ScanStatOwes, ScanCommitOwes, ScanEndOwes, SnapshotOwes, DirtyStatOwes,
     DirtyMissingOwes, DirtyCommitOwes, ClearOwes, CleanupOwes, BetweenOwes, RemoveOwes
     DEF MaintenanceStep
<1>3. CASE MaintenanceFault
  BY <1>3, FailureOwes, DirtyIngestFailsOwes, CleanupOwes, BetweenOwes, AfreshOwes DEF MaintenanceFault
<1>4. CASE LateRemove
  <2>1. late \in Path
    BY <1>4 DEF LateRemove, CoreInv, TaskTypeOK
  <2> QED BY <1>4, <2>1, RemoveOwes
<1> QED BY <1>1, <1>2, <1>3, <1>4, ShutdownOwes, AfreshOwes DEF Next

LEMMA OwedInit == Init => OwedInv
<1> SUFFICES ASSUME Init PROVE OwedInv
  OBVIOUS
<1>1. /\ mpc = "apply" /\ phase = "startup" /\ tx = Null /\ conn = FALSE /\ snapshot = NoSnapshot
      /\ stopping = "no" /\ active = [s \in Streams |-> Null] /\ dirty = [p \in Path |-> 0]
      /\ rec = [s \in Streams |-> Offline]
  BY DEF Init, TaskInit, IndexInit, StoreInit
<1>2. MarksKnown
  BY <1>1, OfflineTyped DEF MarksKnown, NoSnapshot, Opened
<1>3. StatFresh /\ ClearFresh /\ LastPass /\ NoLineForgotten
  BY <1>1 DEF StatFresh, ClearFresh, LastPass, NoLineForgotten, ScanToCome
<1> QED BY <1>2, <1>3 DEF OwedInv

LEMMA OwedCorrect == Spec => []OwedInv
BY OwedInit, OwedStep, CoreCorrect, IndexOfArchive, PTL DEF Spec

(* A complete line that is not in the index is still owed to someone,        *)
(* whatever the recorder writes between the stat, the reading and the        *)
(* clearing of a mark, and whichever pass, task or process ends              *)
(* (archive.rs:91-106, indexer.rs:38-48).                                    *)
THEOREM NoLineForgottenCorrect == Spec => []NoLineForgotten
<1>1. OwedInv => NoLineForgotten
  BY DEF OwedInv
<1> QED BY <1>1, OwedCorrect, PTL

(* When the task has stopped, every line on disk is in the index or its last *)
(* attempt failed: the last pass works from marks that no handler changes    *)
(* any more (indexer.rs:108, serve.rs:140-160).                              *)
THEOREM ShutdownFlushesCorrect == Spec => []ShutdownFlushes
<1>1. CoreInv /\ OwedInv => ShutdownFlushes
  BY DEF CoreInv, TaskShape, OwedInv, LastPass, NoSnapshot, ShutdownFlushes
<1> QED BY <1>1, CoreCorrect, OwedCorrect, PTL
=============================================================================
