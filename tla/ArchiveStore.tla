---------------------------- MODULE ArchiveStore ----------------------------
(* The recorder of archive.rs: one consumer per stream hands upstream lines  *)
(* to handle_line, which appends to the stream's active file or opens a new  *)
(* one, and marks the path dirty for the indexer.                            *)
(*                                                                           *)
(* rec[s] is the consumer of stream s inside handle_line; `at` is its `now`. *)
(* The store mutex is held across visible steps only between the two writes  *)
(* of an append (pc = "text"); opening a file happens outside it.            *)
EXTENDS ArchiveFiles

CONSTANTS
  Title,      \* the title in a program's EIT
  MaxStall,   \* seconds one handle_line call may take
  MaxHeard,   \* bound: lines received
  MaxFaults   \* bound: failed writes, failed opens, crashes

ASSUME StoreAssumption ==
  /\ Title \in [Programs -> Titles]
  /\ MaxStall \in Nat /\ MaxHeard \in Nat /\ MaxFaults \in Nat
  /\ MaxHeard <= MaxLines
  /\ Null \notin Path /\ Null \notin [program : Programs, path : Path]

VARIABLES
  clock,
  active,     \* ArchiveStore.active_archive_files
  dirty,      \* ArchiveStore.dirty_paths: generation, 0 when absent
  rec,
  onair,      \* the program the upstream sends
  since,      \* history: lines received since the EIT that began a recording
  heard,      \* number of lines received
  faults      \* number of faults

volatileVars == <<active, dirty, rec, since>>
storeVars == <<files, clock, active, dirty, rec, onair, since, heard, faults>>

Idle == [pc |-> "idle", line |-> Null, at |-> 0, path |-> Null]
Offline == [Idle EXCEPT !.pc = "offline"]

HandlerSteps == {"received", "text", "opening", "created", "first_text", "first_line"}
Handling(s) == rec[s].pc \in HandlerSteps

LockFree == \A s \in Streams : rec[s].pc # "text"

Go(s, pc) == rec' = [rec EXCEPT ![s].pc = pc]

StoreInit ==
  /\ FilesInit
  /\ clock \in {t \in Seconds : \A u \in Seconds : t <= u}
  /\ active = [s \in Streams |-> Null]
  /\ dirty = [p \in Path |-> 0]
  /\ rec = [s \in Streams |-> Offline]
  /\ onair \in [Streams -> Programs]
  /\ since = [s \in Streams |-> <<>>]
  /\ heard = 0
  /\ faults = 0

-----------------------------------------------------------------------------
(* handle_line takes the time before the lock.  Within a connection a        *)
(* program change reaches the client as an EIT.                              *)
Receive(s, line) ==
  LET begun == since[s] # <<>>
      starts == IsEit(line) /\ (~begun \/ since[s][1].program # line.program)
      kept == begun /\ IsJson(line)
  IN  /\ rec[s].pc = "idle" /\ heard < MaxHeard
      /\ IsEit(line) \/ line.program = onair[s]
      /\ rec' = [rec EXCEPT ![s] =
            [pc |-> "received", line |-> line, at |-> clock, path |-> Null]]
      /\ onair' = [onair EXCEPT ![s] = line.program]
      /\ since' = [since EXCEPT ![s] =
            IF starts THEN <<line>> ELSE IF kept THEN Append(@, line) ELSE @]
      /\ heard' = heard + 1
      /\ UNCHANGED <<files, clock, active, dirty, faults>>

(* Slips: the program is not compared; a flag, a count down for a generation.*)
AppendsAnyProgram(s) == active[s] # Null /\ IsJson(rec[s].line)
DirtyAsFlag(p) == dirty' = [dirty EXCEPT ![p] = 1]
DirtyCountsDown(p) == dirty' = [dirty EXCEPT ![p] = @ - 1]

(* append_active, append_if_same_program *)
Appends(s) ==
  /\ active[s] # Null /\ IsJson(rec[s].line)
  /\ IsEit(rec[s].line) => active[s].program = rec[s].line.program

MarkDirty(p) == dirty' = [dirty EXCEPT ![p] = @ + 1]

(* A write through the handle of an unlinked file leaves no trace.           *)
Write(p, f) == files' = [files EXCEPT ![p] = IF @.state = "open" THEN f ELSE @]

SkipInvalidJson(s) ==
  /\ rec[s].pc = "received" /\ ~IsJson(rec[s].line)
  /\ rec' = [rec EXCEPT ![s] = Idle]
  /\ UNCHANGED <<files, clock, active, dirty, onair, since, heard, faults>>

SkipNoProgram(s) ==
  /\ rec[s].pc = "received" /\ LockFree
  /\ active[s] = Null /\ IsJson(rec[s].line) /\ ~IsEit(rec[s].line)
  /\ rec' = [rec EXCEPT ![s] = Idle]
  /\ UNCHANGED <<files, clock, active, dirty, onair, since, heard, faults>>

AppendText(s) ==
  /\ rec[s].pc = "received" /\ LockFree
  /\ Appends(s)
  /\ Write(active[s].path, WithText(files[active[s].path]))
  /\ Go(s, "text")
  /\ UNCHANGED <<clock, active, dirty, onair, since, heard, faults>>

AppendNewline(s) ==
  LET p == active[s].path
  IN  /\ rec[s].pc = "text"
      /\ Write(p, WithNewline(files[p], rec[s].line))
      /\ MarkDirty(p)
      /\ rec' = [rec EXCEPT ![s] = Idle]
      /\ UNCHANGED <<clock, active, onair, since, heard, faults>>

(* The EIT of another program, or of the first: the lock is released.        *)
StartProgram(s) ==
  /\ rec[s].pc = "received" /\ LockFree
  /\ IsEit(rec[s].line) /\ ~Appends(s)
  /\ Go(s, "opening")
  /\ UNCHANGED <<files, clock, active, dirty, onair, since, heard, faults>>

(* Slip: an existing file of that name is opened and truncated.              *)
FirstName(s, p) ==
  /\ p.stream = s /\ p.at = rec[s].at /\ p.title = Title[rec[s].line.program]
  /\ \A n \in Suffixes : p.suffix <= n

(* create_new with increasing suffixes until the name is free.               *)
FreeName(s, p) ==
  /\ p.stream = s /\ p.at = rec[s].at /\ p.title = Title[rec[s].line.program]
  /\ files[p].state = "unused"
  /\ \A n \in Suffixes : n < p.suffix => Present([p EXCEPT !.suffix = n])

OpenArchiveFile(s) ==
  /\ rec[s].pc = "opening"
  /\ \E p \in Path :
        /\ FreeName(s, p)
        /\ files' = [files EXCEPT ![p] = Created]
        /\ rec' = [rec EXCEPT ![s].pc = "created", ![s].path = p]
  /\ UNCHANGED <<clock, active, dirty, onair, since, heard, faults>>

WriteFirstText(s) ==
  /\ rec[s].pc = "created"
  /\ Write(rec[s].path, WithText(files[rec[s].path]))
  /\ Go(s, "first_text")
  /\ UNCHANGED <<clock, active, dirty, onair, since, heard, faults>>

WriteFirstNewline(s) ==
  /\ rec[s].pc = "first_text"
  /\ Write(rec[s].path, WithNewline(files[rec[s].path], rec[s].line))
  /\ Go(s, "first_line")
  /\ UNCHANGED <<clock, active, dirty, onair, since, heard, faults>>

(* Slip: the previous handle is kept.                                        *)
KeepActiveOpen(s) == files

CloseActive(s) ==
  [p \in Path |-> IF active[s] # Null /\ p = active[s].path
                    THEN Closed(files[p]) ELSE files[p]]

(* The file becomes active and dirty; the previous one is dropped.           *)
ReplaceActive(s) ==
  /\ rec[s].pc = "first_line" /\ LockFree
  /\ MarkDirty(rec[s].path)
  /\ active' = [active EXCEPT ![s] =
        [program |-> rec[s].line.program, path |-> rec[s].path]]
  /\ files' = CloseActive(s)
  /\ rec' = [rec EXCEPT ![s] = Idle]
  /\ UNCHANGED <<clock, onair, since, heard, faults>>

(* Slip: the error is logged and the consumer takes the next line.           *)
HandlerErrorSwallowed(s) ==
  /\ faults < MaxFaults
  /\ rec[s].pc \in {"text", "opening", "created", "first_text"}
  /\ files' = [p \in Path |-> IF p = rec[s].path THEN Closed(files[p]) ELSE files[p]]
  /\ rec' = [rec EXCEPT ![s] = Idle]
  /\ faults' = faults + 1
  /\ UNCHANGED <<clock, active, dirty, onair, since, heard>>

(* An open or a write fails.  A new file is closed; an active one stays.     *)
HandlerFails(s) ==
  /\ faults < MaxFaults
  /\ \/ rec[s].pc = "received" /\ LockFree /\ Appends(s)
     \/ rec[s].pc \in {"text", "opening", "created", "first_text"}
  /\ files' = [p \in Path |-> IF p = rec[s].path THEN Closed(files[p]) ELSE files[p]]
  /\ rec' = [rec EXCEPT ![s] = [Idle EXCEPT !.pc = "failed"]]
  /\ faults' = faults + 1
  /\ UNCHANGED <<clock, active, dirty, onair, since, heard>>

(* The stream ends, or a failed handle_line ends its task; then a new        *)
(* connection deactivates the stream before its first line.  The lines of    *)
(* the old connection are handled by then: the producer first sleeps         *)
(* RECONNECT_DELAY, and the consumer drains their queue meanwhile.           *)
Disconnect(s) ==
  /\ rec[s].pc \in {"idle", "failed"}
  /\ rec' = [rec EXCEPT ![s] = Offline]
  /\ UNCHANGED <<files, clock, active, dirty, onair, since, heard, faults>>

ProgramChangesUnheard(s) ==
  /\ rec[s].pc = "offline"
  /\ \E k \in Programs \ {onair[s]} : onair' = [onair EXCEPT ![s] = k]
  /\ UNCHANGED <<files, clock, active, dirty, rec, since, heard, faults>>

Connect(s) ==
  /\ rec[s].pc = "offline" /\ LockFree
  /\ active' = [active EXCEPT ![s] = Null]
  /\ files' = CloseActive(s)
  /\ rec' = [rec EXCEPT ![s] = Idle]
  /\ since' = [since EXCEPT ![s] = <<>>]
  /\ UNCHANGED <<clock, dirty, onair, heard, faults>>

Tick ==
  /\ clock + 1 \in Seconds
  /\ \A s \in Streams : Handling(s) => clock < rec[s].at + MaxStall
  /\ clock' = clock + 1
  /\ UNCHANGED <<files, active, dirty, rec, onair, since, heard, faults>>

(* What the end of the process leaves of the store.                          *)
LoseStore ==
  /\ active' = [s \in Streams |-> Null]
  /\ dirty' = [p \in Path |-> 0]
  /\ rec' = [s \in Streams |-> Offline]
  /\ since' = [s \in Streams |-> <<>>]

Crash ==
  /\ faults < MaxFaults
  /\ LoseStore
  /\ files' = [p \in Path |-> Closed(files[p])]
  /\ faults' = faults + 1
  /\ UNCHANGED <<clock, onair, heard>>

(* handle_line has no await: once entered it runs to its end.                *)
HandleStep(s) ==
  \/ SkipInvalidJson(s)
  \/ SkipNoProgram(s)
  \/ AppendText(s)
  \/ AppendNewline(s)
  \/ StartProgram(s)
  \/ OpenArchiveFile(s)
  \/ WriteFirstText(s)
  \/ WriteFirstNewline(s)
  \/ ReplaceActive(s)
  \/ HandlerFails(s)

UpstreamStep(s) ==
  \/ \E line \in Lines : Receive(s, line)
  \/ Disconnect(s)
  \/ ProgramChangesUnheard(s)
  \/ Connect(s)

RecorderStep == Tick \/ \E s \in Streams : HandleStep(s) \/ UpstreamStep(s)

StoreNext == RecorderStep \/ Crash

StoreSpec == StoreInit /\ [][StoreNext]_storeVars

-----------------------------------------------------------------------------
StoreTypeOK ==
  /\ files \in [Path -> File]
  /\ clock \in Seconds
  /\ active \in [Streams -> [program : Programs, path : Path] \cup {Null}]
  /\ dirty \in [Path -> Nat]
  /\ rec \in [Streams ->
       [pc : HandlerSteps \cup {"idle", "failed", "offline"},
        line : Lines \cup {Null}, at : Nat, path : Path \cup {Null}]]
  /\ onair \in [Streams -> Programs]
  /\ since \in [Streams -> Seq(Lines)]
  /\ heard \in 0..MaxHeard
  /\ faults \in 0..MaxFaults

(* A file holds the lines of one program, and begins with its EIT.  While a  *)
(* connection is down the program may change unheard: deactivate_stream is   *)
(* what keeps its captions out of the old file (archive.rs:166-171).         *)
OneProgramPerFile ==
  \A p \in Path : LET s == files[p].lines IN
    s # <<>> => /\ IsEit(s[1])
                /\ \A i \in DOMAIN s : s[i].program = s[1].program

(* Between lines, the active file of a stream holds exactly the lines        *)
(* received since the EIT that began it, in order, each once, and no partial *)
(* line; a failed write ends the connection before a line could be appended  *)
(* to an unterminated one (archive.rs:150-153, 173-208).                     *)
ActiveFileComplete ==
  \A s \in Streams : rec[s].pc = "idle" =>
    IF active[s] = Null THEN since[s] = <<>>
    ELSE LET f == files[active[s].path]
         IN  f.state = "open" => f.lines = since[s] /\ ~f.partial

(* The recorder writes through one handle per stream: at most the active     *)
(* file and the one being opened are open, and both bear the stream's name   *)
(* and a second in which the stream was being handled.  A second handle      *)
(* would interleave with the first (archive.rs:136-139, 286-301).            *)
HandlesOwned ==
  \A p \in Path : files[p].state = "open" =>
    LET s == p.stream
    IN  /\ p.at <= clock
        /\ \/ active[s] # Null /\ active[s].path = p
           \/ rec[s].path = p /\ Handling(s)
=============================================================================
