---------------------------- MODULE ArchiveFiles ----------------------------
(* The JSONL archive on disk: what the recorder (ArchiveStore), the indexer  *)
(* (SearchIndex) and garbage collection (ArchiveMaintenance) share.          *)
(*                                                                           *)
(* A path is <stream>/<month>/<second>.<title>[.<n>].jsonl.  The month is a  *)
(* function of the second and is left out.  Titles are numbered in their     *)
(* lexicographic order, so that PathLess is the order of the path strings.   *)
EXTENDS Integers, Sequences, FiniteSets

CONSTANTS
  Streams,    \* configured stream names
  Programs,   \* program keys of EIT present records (ProgramKey)
  Titles,     \* sanitised titles, numbered in lexicographic order
  Suffixes,   \* collision suffixes, 0 for none
  Seconds,    \* seconds of the clock, the resolution of a file name
  Lines,      \* upstream lines
  MaxLines,   \* bound: complete lines per file
  Null        \* absent row, NULL column, no value

ASSUME ArchiveAssumption ==
  /\ Titles \subseteq Nat
  /\ Suffixes \subseteq 0..9
  /\ Seconds \subseteq Nat
  /\ Lines \subseteq [kind : {"eit", "caption", "other", "invalid"}, program : Programs]
  /\ MaxLines \in Nat

VARIABLE files

Path == [stream : Streams, at : Seconds, title : Titles, suffix : Suffixes]

(* The pair (stream, recording_started_at) parsed from a path.               *)
Recording(p) == [stream |-> p.stream, at |-> p.at]

Recordings == [stream : Streams, at : Seconds]

(* "x.1.jsonl" sorts before "x.jsonl": a digit is less than the 'j'.         *)
SuffixLess(m, n) == m # n /\ m # 0 /\ (n = 0 \/ m < n)

(* String order of two paths of one recording.                               *)
PathLess(p, q) ==
  \/ p.title < q.title
  \/ p.title = q.title /\ SuffixLess(p.suffix, q.suffix)

(* An EIT present record, a caption, another JSON record, or no JSON.        *)
IsEit(line) == line.kind = "eit"
IsCaption(line) == line.kind = "caption"
IsJson(line) == line.kind # "invalid"

(* "open": a process holds the write handle.  "removed" is final: a name     *)
(* holds the second of its creation and is not created again.  partial: the  *)
(* text of a line is on disk and its newline is not.                         *)
File == [state : {"unused", "open", "closed", "removed"},
         lines : Seq(Lines), partial : BOOLEAN]

NewFile == [state |-> "unused", lines |-> <<>>, partial |-> FALSE]

FilesInit == files = [p \in Path |-> NewFile]

Present(p) == files[p].state \in {"open", "closed"}

PresentPaths == {p \in Path : Present(p)}

(* Bytes, abstracted: a line is two units, its text and its newline.         *)
LineSize == 2
Size(f) == LineSize * Len(f.lines) + (IF f.partial THEN 1 ELSE 0)

Closed(f) == IF f.state = "open" THEN [f EXCEPT !.state = "closed"] ELSE f

(* The file after create_new, after the text of a line, after its newline.   *)
Created == [state |-> "open", lines |-> <<>>, partial |-> FALSE]
WithText(f) == [f EXCEPT !.partial = TRUE]
WithNewline(f, line) == [f EXCEPT !.lines = Append(@, line), !.partial = FALSE]
Removed == [state |-> "removed", lines |-> <<>>, partial |-> FALSE]

(* Power loss keeps a prefix of what was never synced.                       *)
Truncated(f, n, cut) ==
  [state |-> "closed", lines |-> SubSeq(f.lines, 1, n), partial |-> cut]
=============================================================================
