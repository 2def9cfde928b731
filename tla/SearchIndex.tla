---------------------------- MODULE SearchIndex -----------------------------
(* The search database and the transactions of search_db/ingest.rs that      *)
(* write it, over an archive that a recorder extends meanwhile.              *)
(*                                                                           *)
(* programs   one row per (stream, recording_started_at): UNIQUE in the      *)
(*            schema.  A row keeps its id while it exists, so the recording  *)
(*            stands for programs.id.                                        *)
(* captions   the caption_lines of that program, at most one per line_no.    *)
(* indexed    the indexed_files row of a path; indexed_offset is always the  *)
(*            end of line number indexed_lines and is computed from it.      *)
(* tx         the open transaction of ingest_file after its stat.            *)
EXTENDS ArchiveFiles

VARIABLES programs, captions, indexed, tx

dbVars == <<programs, captions, indexed>>
indexVars == <<files, programs, captions, indexed, tx>>

(* eit: the line of the file whose EIT the other columns were copied from.   *)
ProgramRow == [path : Path, eit : Nat \ {0}]
CaptionRow == [line_no : Nat \ {0}, text : Lines]
IndexedRow == [status : {"ok", "error", "duplicate"},
               program_id : Recordings \cup {Null}, lines : Nat]

ASSUME NullAssumption ==
  /\ Null \notin ProgramRow
  /\ Null \notin IndexedRow
  /\ Null \notin Recordings
  /\ Null \notin [path : Path, size : Nat]

Offset(row) == LineSize * row.lines

IndexInit ==
  /\ FilesInit
  /\ programs = [r \in Recordings |-> Null]
  /\ captions = [r \in Recordings |-> {}]
  /\ indexed = [p \in Path |-> Null]
  /\ tx = Null

-----------------------------------------------------------------------------
(* One ingest_file transaction: stat, then one of the outcomes below.        *)

IngestStat(p) ==
  /\ tx = Null
  /\ Present(p)
  /\ tx' = [path |-> p, size |-> Size(files[p])]
  /\ UNCHANGED <<files, dbVars>>

(* A file already marked duplicate or error is skipped until a rebuild.      *)
Settled(p) == indexed[p] # Null /\ indexed[p].status \in {"duplicate", "error"}

SkipSettled(p) ==
  /\ Settled(p)
  /\ UNCHANGED dbVars

(* Only a path without a row is tested against the recording's owner.        *)
LosesCollision(p) ==
  LET row == programs[Recording(p)]
  IN  indexed[p] = Null /\ row # Null /\ PathLess(p, row.path)

MarkCollisionLoser(p) ==
  /\ ~Settled(p)
  /\ LosesCollision(p)
  /\ indexed' = [indexed EXCEPT ![p] =
        [status |-> "duplicate", program_id |-> Null, lines |-> 0]]
  /\ UNCHANGED <<programs, captions>>

Continues(p) == ~Settled(p) /\ ~LosesCollision(p)

MarkShrunk(p, size) ==
  /\ Continues(p)
  /\ indexed[p] # Null /\ size < Offset(indexed[p])
  /\ indexed' = [indexed EXCEPT ![p].status = "error"]
  /\ UNCHANGED <<programs, captions>>

SkipUnchanged(p, size) ==
  /\ Continues(p)
  /\ indexed[p] # Null /\ size = Offset(indexed[p])
  /\ UNCHANGED dbVars

(* The tail after line `from` is read to the end of the file as it is now.   *)
EitsAfter(s, from) == {i \in DOMAIN s : i > from /\ IsEit(s[i])}

CaptionsAt(s, N) ==
  {[line_no |-> i, text |-> s[i]] : i \in {j \in N : IsCaption(s[j])}}

(* Slip: lines counted from 0.                                               *)
LastOfFromZero(N) == (CHOOSE i \in N : \A j \in N : j <= i) - 1

LastOf(N) == CHOOSE i \in N : \A j \in N : j <= i

StartLine(p) == IF indexed[p] = Null THEN 0 ELSE indexed[p].lines

Linked(p) == indexed[p] # Null /\ indexed[p].program_id # Null

(* Slips: only a smaller owner is demoted; the owner demotes itself.         *)
TakesOverSmaller(p) ==
  LET row == programs[Recording(p)]
  IN  /\ EitsAfter(files[p].lines, StartLine(p)) # {}
      /\ row # Null /\ row.path # p /\ PathLess(row.path, p)

TakesOverItself(p) ==
  /\ EitsAfter(files[p].lines, StartLine(p)) # {}
  /\ programs[Recording(p)] # Null

(* The first EIT of the tail moves the recording from another path to this   *)
(* one: the other path's captions go and its row becomes a duplicate.        *)
TakesOver(p) ==
  LET row == programs[Recording(p)]
  IN  /\ EitsAfter(files[p].lines, StartLine(p)) # {}
      /\ row # Null /\ row.path # p

(* Slip: an EIT of the same pass does not count.                             *)
CaptionLinesOfLinked(p) == {i \in DOMAIN files[p].lines : i > StartLine(p) /\ Linked(p)}

(* Captions count once a program is known: from the row, or from an EIT      *)
(* earlier in the tail.  A takeover deletes those before its EIT.            *)
CaptionLines(p) ==
  LET s == files[p].lines
      tail == {i \in DOMAIN s : i > StartLine(p)}
      known == Linked(p) /\ ~TakesOver(p)
  IN  {i \in tail : known \/ \E e \in EitsAfter(s, StartLine(p)) : e < i}

(* Slip: text without its newline counts as a line.                          *)
EndLineOfText(p) ==
  Len(files[p].lines) + (IF files[p].partial THEN 1 ELSE 0)

(* Reading stops before an unterminated line.                                *)
EndLine(p) == Len(files[p].lines)

IndexTail(p) ==
  LET r == Recording(p)
      s == files[p].lines
      eits == EitsAfter(s, StartLine(p))
      new == CaptionsAt(s, CaptionLines(p))
      kept == IF TakesOver(p) THEN {}
              ELSE {c \in captions[r] : \A d \in new : d.line_no # c.line_no}
      row == [status |-> "ok", lines |-> EndLine(p),
              program_id |-> IF Linked(p) \/ eits # {} THEN r ELSE Null]
      Demoted(q) == TakesOver(p) /\ q = programs[r].path /\ indexed[q] # Null
  IN  /\ programs' = [programs EXCEPT ![r] =
            IF eits = {} THEN @ ELSE [path |-> p, eit |-> LastOf(eits)]]
      /\ captions' = [captions EXCEPT ![r] = kept \cup new]
      /\ indexed' = [q \in Path |->
            IF q = p THEN row
            ELSE IF Demoted(q)
              THEN [status |-> "duplicate", program_id |-> Null,
                    lines |-> indexed[q].lines]
              ELSE indexed[q]]

IndexNewLines(p, size) ==
  /\ Continues(p)
  /\ indexed[p] # Null => size > Offset(indexed[p])
  /\ IndexTail(p)

IngestCommit ==
  /\ tx # Null
  /\ \/ SkipSettled(tx.path)
     \/ MarkCollisionLoser(tx.path)
     \/ MarkShrunk(tx.path, tx.size)
     \/ SkipUnchanged(tx.path, tx.size)
     \/ IndexNewLines(tx.path, tx.size)
  /\ tx' = Null
  /\ UNCHANGED files

(* A failed read, statement or commit; the task or the process ends.         *)
IngestRollback ==
  /\ tx # Null
  /\ tx' = Null
  /\ UNCHANGED <<files, dbVars>>

(* Slip: files no longer recorded are taken for removed ones.                *)
NotOpenPaths == {p \in Path : files[p].state # "open"}

GonePaths == Path \ PresentPaths

(* Deleting a program cascades to its captions and clears the links to it.   *)
CleanupDeleted ==
  LET gone == GonePaths
      Dropped(r) == programs[r] # Null /\ programs[r].path \in gone
      Unlinked(p) == indexed[p].program_id # Null /\ Dropped(indexed[p].program_id)
  IN  /\ tx = Null
      /\ programs' = [r \in Recordings |-> IF Dropped(r) THEN Null ELSE programs[r]]
      /\ captions' = [r \in Recordings |-> IF Dropped(r) THEN {} ELSE captions[r]]
      /\ indexed' = [p \in Path |->
            IF p \in gone \/ indexed[p] = Null THEN Null
            ELSE IF Unlinked(p) THEN [indexed[p] EXCEPT !.program_id = Null]
            ELSE indexed[p]]
      /\ UNCHANGED <<files, tx>>

(* search-rebuild starts from a new database; its scan is IngestStat and     *)
(* IngestCommit.                                                             *)
DeleteDatabase ==
  /\ programs' = [r \in Recordings |-> Null]
  /\ captions' = [r \in Recordings |-> {}]
  /\ indexed' = [p \in Path |-> Null]
  /\ tx' = Null
  /\ UNCHANGED files

-----------------------------------------------------------------------------
(* The archive meanwhile: what any recorder and collector may do to it.      *)

CreateFile(p) ==
  /\ files[p].state = "unused"
  /\ files' = [files EXCEPT ![p] = Created]
  /\ UNCHANGED <<dbVars, tx>>

WriteText(p) ==
  /\ files[p].state = "open" /\ ~files[p].partial
  /\ Len(files[p].lines) < MaxLines
  /\ files' = [files EXCEPT ![p] = WithText(@)]
  /\ UNCHANGED <<dbVars, tx>>

WriteNewline(p, line) ==
  /\ files[p].state = "open" /\ files[p].partial
  /\ files' = [files EXCEPT ![p] = WithNewline(@, line)]
  /\ UNCHANGED <<dbVars, tx>>

CloseFile(p) ==
  /\ files[p].state = "open"
  /\ files' = [files EXCEPT ![p] = Closed(@)]
  /\ UNCHANGED <<dbVars, tx>>

(* The collector runs in the indexer's task, between transactions.           *)
RemoveFile(p) ==
  /\ tx = Null
  /\ Present(p)
  /\ files' = [files EXCEPT ![p] = Removed]
  /\ UNCHANGED <<dbVars, tx>>

(* The process dies.  Archive files are not synced: one loses its end.       *)
PowerLoss(p, n, cut) ==
  /\ Present(p)
  /\ n <= Len(files[p].lines)
  /\ n = Len(files[p].lines) => (cut => files[p].partial)
  /\ files' = [q \in Path |->
        IF q = p THEN Truncated(files[p], n, cut) ELSE Closed(files[q])]
  /\ tx' = Null
  /\ UNCHANGED dbVars

ArchiveStep ==
  \E p \in Path :
    \/ CreateFile(p)
    \/ WriteText(p)
    \/ \E line \in Lines : WriteNewline(p, line)
    \/ CloseFile(p)
    \/ RemoveFile(p)
    \/ \E n \in 0..MaxLines, cut \in BOOLEAN : PowerLoss(p, n, cut)

IndexStep ==
  \/ \E p \in Path : IngestStat(p)
  \/ IngestCommit
  \/ IngestRollback
  \/ CleanupDeleted
  \/ DeleteDatabase

IndexNext == ArchiveStep \/ IndexStep

IndexSpec == IndexInit /\ [][IndexNext]_indexVars

-----------------------------------------------------------------------------
IndexTypeOK ==
  /\ files \in [Path -> File]
  /\ programs \in [Recordings -> ProgramRow \cup {Null}]
  /\ captions \in [Recordings -> SUBSET CaptionRow]
  /\ indexed \in [Path -> IndexedRow \cup {Null}]
  /\ tx \in [path : Path, size : Nat] \cup {Null}

(* The two tables agree on which path holds a recording.  The program row's  *)
(* path has an indexed_files row linked to it, and the rows linked to a      *)
(* program are those of the path it names: after a collision, the loser's    *)
(* row is demoted and unlinked in the same transaction (ingest.rs:241-262).  *)
OwnerConsistent ==
  /\ \A r \in Recordings : programs[r] # Null =>
        LET p == programs[r].path
        IN  Recording(p) = r /\ indexed[p] # Null /\ indexed[p].program_id = r
  /\ \A p \in Path : indexed[p] # Null /\ indexed[p].program_id # Null =>
        LET r == indexed[p].program_id
        IN  programs[r] # Null /\ programs[r].path = p
  /\ \A r \in Recordings : captions[r] # {} => programs[r] # Null

(* A file being recorded is never mistaken for one that shrank: the offset   *)
(* stays within its complete lines although it may exceed the size the       *)
(* transaction recorded, and the size compared with the offset is one the    *)
(* file still has (ingest.rs:401, 431-447, 455-458).                         *)
NoFalseShrink ==
  /\ \A p \in Path : indexed[p] # Null =>
        /\ files[p].state # "unused"
        /\ files[p].state = "open" => indexed[p].lines <= Len(files[p].lines)
  /\ tx # Null => Present(tx.path) /\ tx.size <= Size(files[tx.path])

(* What the index must hold of the first n lines of a file.                  *)
CaptionsOf(s, n) ==
  CaptionsAt(s, {i \in 1..n : \E e \in EitsAfter(s, 0) : e < i})

EitsUpTo(s, n) == {i \in EitsAfter(s, 0) : i <= n}

ShowsLines(p, n) ==
  LET s == files[p].lines
      r == Recording(p)
  IN  /\ (indexed[p].program_id # Null) <=> (EitsUpTo(s, n) # {})
      /\ EitsUpTo(s, n) # {} => /\ captions[r] = CaptionsOf(s, n)
                                /\ programs[r].eit = LastOf(EitsUpTo(s, n))

Intact(p) == Present(p) /\ Offset(indexed[p]) <= Size(files[p])

(* However indexing was split into passes, interrupted, or moved between     *)
(* colliding files, a program shows exactly the captions that follow the     *)
(* first EIT in the indexed part of its file, each once and under its own    *)
(* line number, and the fields of the last EIT there (ingest.rs:453-513).    *)
CaptionsExact ==
  \A p \in Path :
    (indexed[p] # Null /\ indexed[p].status = "ok" /\ Intact(p)) =>
      ShowsLines(p, indexed[p].lines)

(* A collision never leaves a recording without a program: one that has a    *)
(* program keeps one, of the same or of the other file, until the file that  *)
(* holds it is removed or the database is deleted (ingest.rs:241-262,        *)
(* 611-619).  Which lines it shows then is CaptionsExact's.                  *)
ProgramsPersist ==
  [][\A r \in Recordings :
       (programs[r] # Null /\ programs'[r] = Null) =>
         \/ ~Present(programs[r].path)
         \/ \A q \in Path : indexed'[q] = Null]_indexVars

(* A caption leaves the index only with its program: when another file takes *)
(* the recording over, its own file is removed, or the database is deleted.  *)
(* An incremental pass never drops or renumbers an indexed caption           *)
(* (ingest.rs:343-388, 448-450).                                             *)
CaptionsPersist ==
  [][\A r \in Recordings :
       (programs[r] # Null /\ programs'[r] # Null
          /\ programs'[r].path = programs[r].path) =>
         captions[r] \subseteq captions'[r]]_indexVars
=============================================================================
