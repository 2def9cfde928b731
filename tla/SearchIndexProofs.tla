------------------------- MODULE SearchIndexProofs --------------------------
(* Proofs about SearchIndex, for every archive, every bound and every way    *)
(* the recorder, the collector and power losses interleave with indexing.    *)
EXTENDS SearchIndex, SequenceTheorems, WellFoundedInduction, TLAPS

-----------------------------------------------------------------------------
(* Lemmas about files.                                                       *)

LEMMA RecordingType ==
  ASSUME NEW p \in Path
  PROVE  Recording(p) \in Recordings
BY DEF Path, Recording, Recordings

(* A complete line is numbered like its position, and taking a line away     *)
(* from the end leaves the others where they are.                            *)
LEMMA FileOperations ==
  ASSUME NEW f \in File, NEW line \in Lines
  PROVE  /\ WithText(f) \in File /\ WithText(f).lines = f.lines
         /\ WithNewline(f, line) \in File
         /\ Len(WithNewline(f, line).lines) = Len(f.lines) + 1
         /\ \A i \in 1..Len(f.lines) : WithNewline(f, line).lines[i] = f.lines[i]
         /\ Closed(f) \in File /\ Closed(f).lines = f.lines
         /\ Closed(f).partial = f.partial /\ Closed(f).state # "open"
         /\ Closed(f).state \in {"open", "closed"} <=> f.state \in {"open", "closed"}
         /\ Closed(f).state = "unused" <=> f.state = "unused"
<1> USE DEF File
<1>1. f.lines \in Seq(Lines) /\ f.partial \in BOOLEAN
      /\ f.state \in {"unused", "open", "closed", "removed"}
  OBVIOUS
<1>2. WithText(f) \in File /\ WithText(f).lines = f.lines
  BY DEF WithText
<1>3. /\ Append(f.lines, line) \in Seq(Lines)
      /\ Len(Append(f.lines, line)) = Len(f.lines) + 1
      /\ \A i \in 1..Len(f.lines) : Append(f.lines, line)[i] = f.lines[i]
  BY <1>1, AppendProperties
<1>4. /\ WithNewline(f, line) \in File
      /\ WithNewline(f, line).lines = Append(f.lines, line)
  BY <1>1, <1>3 DEF WithNewline
<1>5. /\ Closed(f) \in File /\ Closed(f).lines = f.lines
      /\ Closed(f).partial = f.partial
  BY DEF Closed
<1>6. /\ Closed(f).state # "open"
      /\ Closed(f).state \in {"open", "closed"} <=> f.state \in {"open", "closed"}
      /\ Closed(f).state = "unused" <=> f.state = "unused"
  BY DEF Closed
<1> QED
  BY <1>2, <1>3, <1>4, <1>5, <1>6

(* A file is as long as its complete lines, or one text longer.              *)
LEMMA SizeBounds ==
  ASSUME NEW f \in File
  PROVE  /\ Len(f.lines) \in Nat /\ Size(f) \in Nat
         /\ f.partial => Size(f) = 2 * Len(f.lines) + 1
         /\ ~f.partial => Size(f) = 2 * Len(f.lines)
<1>1. Len(f.lines) \in Nat /\ f.partial \in BOOLEAN
  BY LenProperties DEF File
<1>2. CASE f.partial
  <2>1. Size(f) = 2 * Len(f.lines) + 1
    BY <1>1, <1>2 DEF Size, LineSize
  <2> QED BY <1>1, <1>2, <2>1
<1>3. CASE ~f.partial
  <2>1. Size(f) = 2 * Len(f.lines)
    BY <1>1, <1>3 DEF Size, LineSize
  <2> QED BY <1>1, <1>3, <2>1
<1> QED
  BY <1>1, <1>2, <1>3

LEMMA ConstantFiles ==
  NewFile \in File /\ Created \in File /\ Removed \in File
BY DEF File, NewFile, Created, Removed

LEMMA TruncatedFile ==
  ASSUME NEW f \in File, NEW n \in Nat, n <= Len(f.lines), NEW cut \in BOOLEAN
  PROVE  /\ Truncated(f, n, cut) \in File
         /\ Len(Truncated(f, n, cut).lines) = n
         /\ \A i \in 1..n : Truncated(f, n, cut).lines[i] = f.lines[i]
<1>1. f.lines \in Seq(Lines)
  BY DEF File
<1>2. \A i \in 1..n : f.lines[i] \in Lines
  BY <1>1, ElementOfSeq
<1>3. /\ SubSeq(f.lines, 1, n) \in Seq(Lines)
      /\ Len(SubSeq(f.lines, 1, n)) = n
      /\ \A i \in 1..n : SubSeq(f.lines, 1, n)[i] = f.lines[i]
  BY <1>2, SubSeqProperties, 1 \in Int
<1> QED
  BY <1>3 DEF File, Truncated

(* A nonempty set of line numbers of a file has a last one.                  *)
LEMMA LastOfType ==
  ASSUME NEW n \in Nat, NEW N \in SUBSET (1..n), N # {}
  PROVE  LastOf(N) \in N /\ \A j \in N : j <= LastOf(N)
<1> DEFINE T == {n - i : i \in N}
<1>1. \A i \in N : i \in Nat /\ i <= n /\ n - i \in Nat
  OBVIOUS
<1>2. T \subseteq Nat /\ T # {}
  BY <1>1
<1>3. PICK x \in T : \A y \in T : ~ (<<y, x>> \in OpToRel(<, Nat))
  <2> HIDE DEF T
  <2> QED BY <1>2, WFMin, NatLessThanWellFounded
<1>4. \A y \in T : ~ (y < x)
  <2> HIDE DEF T
  <2> QED BY <1>2, <1>3 DEF OpToRel
<1>5. PICK i \in N : x = n - i
  OBVIOUS
<1>6. \A j \in N : j <= i
  <2> SUFFICES ASSUME NEW j \in N PROVE j <= i
    OBVIOUS
  <2>1. n - j \in T
    OBVIOUS
  <2>2. ~ (n - j < n - i)
    BY <1>4, <1>5, <2>1
  <2> QED BY <1>1, <2>2
<1> QED
  BY <1>6 DEF LastOf

LEMMA LastOfPositive ==
  ASSUME NEW n \in Nat, NEW N \in SUBSET (1..n), N # {}
  PROVE  LastOf(N) \in Nat \ {0}
<1>1. LastOf(N) \in N
  BY LastOfType
<1>2. \A i \in N : i \in 1..n
  OBVIOUS
<1>3. LastOf(N) \in 1..n
  BY <1>1, <1>2
<1> QED BY <1>3

-----------------------------------------------------------------------------
(* Type correctness.                                                         *)

LEMMA ArchiveStepType ==
  ASSUME files \in [Path -> File], ArchiveStep
  PROVE  files' \in [Path -> File] /\ UNCHANGED dbVars /\ tx' \in {tx, Null}
<1> USE ArchiveAssumption
<1>1. PICK p \in Path :
        \/ CreateFile(p)
        \/ WriteText(p)
        \/ \E line \in Lines : WriteNewline(p, line)
        \/ CloseFile(p)
        \/ RemoveFile(p)
        \/ \E n \in 0..MaxLines, cut \in BOOLEAN : PowerLoss(p, n, cut)
  BY DEF ArchiveStep
<1>2. CASE CreateFile(p)
  BY <1>2, ConstantFiles DEF CreateFile
<1>3. CASE WriteText(p)
  <2>1. WithText(files[p]) \in File
    BY DEF WithText, File
  <2> QED BY <1>3, <2>1 DEF WriteText
<1>4. ASSUME NEW line \in Lines, WriteNewline(p, line)
      PROVE  files' \in [Path -> File] /\ UNCHANGED dbVars /\ tx' = tx
  <2>1. WithNewline(files[p], line) \in File
    BY FileOperations
  <2> QED BY <1>4, <2>1 DEF WriteNewline
<1>5. CASE CloseFile(p)
  BY <1>5 DEF CloseFile, Closed, File
<1>6. CASE RemoveFile(p)
  BY <1>6, ConstantFiles DEF RemoveFile
<1>7. ASSUME NEW n \in 0..MaxLines, NEW cut \in BOOLEAN, PowerLoss(p, n, cut)
      PROVE  files' \in [Path -> File] /\ UNCHANGED dbVars /\ tx' = Null
  <2>1. Truncated(files[p], n, cut) \in File
    BY <1>7, TruncatedFile DEF PowerLoss
  <2>2. \A q \in Path : Closed(files[q]) \in File
    BY DEF Closed, File
  <2> QED BY <1>7, <2>1, <2>2 DEF PowerLoss
<1> QED
  BY <1>1, <1>2, <1>3, <1>4, <1>5, <1>6, <1>7

(* What IndexTail writes is well formed.                                     *)
LEMMA IndexTailType ==
  ASSUME IndexTypeOK, NEW p \in Path, IndexTail(p)
  PROVE  /\ programs' \in [Recordings -> ProgramRow \cup {Null}]
         /\ captions' \in [Recordings -> SUBSET CaptionRow]
         /\ indexed' \in [Path -> IndexedRow \cup {Null}]
<1> DEFINE r == Recording(p)
           s == files[p].lines
           eits == EitsAfter(s, StartLine(p))
           new == CaptionsAt(s, CaptionLines(p))
<1>1. r \in Recordings
  BY RecordingType
<1>2. s \in Seq(Lines) /\ Len(s) \in Nat /\ DOMAIN s = 1..Len(s)
  BY DEF IndexTypeOK, File
<1>3. eits \in SUBSET (1..Len(s))
  BY <1>2 DEF EitsAfter
<1>4. eits # {} => LastOf(eits) \in Nat \ {0}
  <2> HIDE DEF eits
  <2> QED BY <1>2, <1>3, LastOfPositive
<1>5. new \in SUBSET CaptionRow
  <2>1. CaptionLines(p) \subseteq 1..Len(s)
    BY <1>2 DEF CaptionLines
  <2>2. \A i \in CaptionLines(p) : i \in Nat \ {0} /\ s[i] \in Lines
    BY <1>2, <2>1, ElementOfSeq
  <2> QED BY <2>2 DEF CaptionsAt, CaptionRow
<1>6. programs' \in [Recordings -> ProgramRow \cup {Null}]
  <2>1. eits # {} => [path |-> p, eit |-> LastOf(eits)] \in ProgramRow
    BY <1>4 DEF ProgramRow
  <2>2. programs' = [programs EXCEPT ![r] =
           IF eits = {} THEN programs[r] ELSE [path |-> p, eit |-> LastOf(eits)]]
    BY DEF IndexTail
  <2> HIDE DEF eits, r
  <2> QED BY <1>1, <2>1, <2>2 DEF IndexTypeOK
<1>7. captions' \in [Recordings -> SUBSET CaptionRow]
  <2>1. PICK kept \in SUBSET CaptionRow : captions' = [captions EXCEPT ![r] = kept \cup new]
    BY <1>1 DEF IndexTail, IndexTypeOK
  <2> HIDE DEF new, r
  <2> QED BY <1>1, <1>5, <2>1 DEF IndexTypeOK
<1>8. indexed' \in [Path -> IndexedRow \cup {Null}]
  <2> DEFINE row == [status |-> "ok", lines |-> EndLine(p),
                     program_id |-> IF Linked(p) \/ eits # {} THEN r ELSE Null]
             Demoted(q) == TakesOver(p) /\ q = programs[r].path /\ indexed[q] # Null
             dup(q) == [status |-> "duplicate", program_id |-> Null, lines |-> indexed[q].lines]
  <2>1. row \in IndexedRow
    BY <1>1, <1>2 DEF EndLine, IndexedRow
  <2>2. \A q \in Path : indexed[q] # Null => dup(q) \in IndexedRow
    BY DEF IndexTypeOK, IndexedRow
  <2>3. indexed' = [q \in Path |-> IF q = p THEN row ELSE IF Demoted(q) THEN dup(q) ELSE indexed[q]]
    BY DEF IndexTail
  <2> HIDE DEF row, dup
  <2> QED BY <2>1, <2>2, <2>3 DEF IndexTypeOK
<1> QED
  BY <1>6, <1>7, <1>8

LEMMA IndexTypeInit == IndexInit => IndexTypeOK
BY ConstantFiles DEF IndexInit, IndexTypeOK, FilesInit

LEMMA IndexTypeStep == IndexTypeOK /\ [IndexNext]_indexVars => IndexTypeOK'
<1> SUFFICES ASSUME IndexTypeOK, [IndexNext]_indexVars PROVE IndexTypeOK'
  OBVIOUS
<1>1. CASE ArchiveStep
  BY <1>1, ArchiveStepType DEF IndexTypeOK, dbVars
<1>2. ASSUME NEW p \in Path, IngestStat(p) PROVE IndexTypeOK'
  <2>2. Size(files[p]) \in Nat
    BY SizeBounds DEF IndexTypeOK
  <2> QED BY <1>2, <2>2 DEF IngestStat, IndexTypeOK, dbVars
<1>3. CASE IngestCommit
  <2>1. tx.path \in Path /\ tx.size \in Nat
    BY <1>3 DEF IngestCommit, IndexTypeOK
  <2>2. tx' = Null /\ files' = files
    BY <1>3 DEF IngestCommit
  <2>3. CASE SkipSettled(tx.path)
    BY <2>2, <2>3 DEF SkipSettled, IndexTypeOK, dbVars
  <2>4. CASE MarkCollisionLoser(tx.path)
    BY <2>1, <2>2, <2>4 DEF MarkCollisionLoser, IndexTypeOK, IndexedRow
  <2>5. CASE MarkShrunk(tx.path, tx.size)
    BY <2>1, <2>2, <2>5 DEF MarkShrunk, IndexTypeOK, IndexedRow
  <2>6. CASE SkipUnchanged(tx.path, tx.size)
    BY <2>2, <2>6 DEF SkipUnchanged, IndexTypeOK, dbVars
  <2>7. CASE IndexNewLines(tx.path, tx.size)
    BY <2>1, <2>2, <2>7, IndexTailType DEF IndexNewLines, IndexTypeOK
  <2> QED BY <1>3, <2>3, <2>4, <2>5, <2>6, <2>7 DEF IngestCommit
<1>4. CASE IngestRollback
  BY <1>4 DEF IngestRollback, IndexTypeOK, dbVars
<1>5. CASE CleanupDeleted
  BY <1>5 DEF CleanupDeleted, IndexTypeOK, IndexedRow
<1>6. CASE DeleteDatabase
  BY <1>6 DEF DeleteDatabase, IndexTypeOK
<1>7. CASE UNCHANGED indexVars
  BY <1>7 DEF indexVars, IndexTypeOK
<1> QED
  BY <1>1, <1>2, <1>3, <1>4, <1>5, <1>6, <1>7 DEF IndexNext, IndexStep

(* Every state of the index is well formed: rows name paths and recordings   *)
(* that exist, and an unset value is Null.                                   *)
THEOREM IndexTypeCorrect == IndexSpec => []IndexTypeOK
BY IndexTypeInit, IndexTypeStep, PTL DEF IndexSpec

-----------------------------------------------------------------------------
(* The two tables agree.                                                     *)

LEMMA OwnerIndexTail ==
  ASSUME IndexTypeOK, OwnerConsistent, NEW p \in Path, IndexTail(p)
  PROVE  OwnerConsistent'
<1> DEFINE r == Recording(p)
           eits == EitsAfter(files[p].lines, StartLine(p))
           new == CaptionsAt(files[p].lines, CaptionLines(p))
           id == IF Linked(p) \/ eits # {} THEN r ELSE Null
           Demoted(q) == TakesOver(p) /\ q = programs[r].path /\ indexed[q] # Null
<1>1. r \in Recordings /\ r # Null
  BY RecordingType, NullAssumption
<1>2. Linked(p) => programs[r] # Null /\ programs[r].path = p /\ indexed[p].program_id = r
  BY DEF Linked, OwnerConsistent, IndexTypeOK, IndexedRow
<1>3. programs' = [programs EXCEPT ![r] =
         IF eits = {} THEN programs[r] ELSE [path |-> p, eit |-> LastOf(eits)]]
  BY DEF IndexTail
<1>4. \A x \in Recordings :
        programs'[x] = IF x = r /\ eits # {} THEN [path |-> p, eit |-> LastOf(eits)]
                       ELSE programs[x]
  BY <1>3 DEF IndexTypeOK
<1>5. /\ indexed'[p] = [status |-> "ok", lines |-> EndLine(p), program_id |-> id]
      /\ \A q \in Path \ {p} :
           /\ Demoted(q) => indexed'[q] = [status |-> "duplicate", program_id |-> Null,
                                          lines |-> indexed[q].lines]
           /\ ~Demoted(q) => indexed'[q] = indexed[q]
  BY DEF IndexTail
<1>6. indexed'[p] # Null /\ indexed'[p].program_id = id
  <2>1. [status |-> "ok", lines |-> EndLine(p), program_id |-> id] \in IndexedRow
    BY <1>1, LenProperties DEF IndexTypeOK, File, EndLine, IndexedRow
  <2> QED BY <1>5, <2>1, NullAssumption
<1>14. \A q \in Path \ {p} :
         /\ Demoted(q) => indexed'[q].program_id = Null
         /\ ~Demoted(q) => indexed'[q] = indexed[q]
  <2> TAKE q \in Path \ {p}
  <2>1. CASE Demoted(q)
    <3>1. indexed'[q] = [status |-> "duplicate", program_id |-> Null,
                         lines |-> indexed[q].lines]
      BY <1>5, <2>1
    <3>2. indexed'[q].program_id = Null
      BY <3>1
    <3> QED BY <2>1, <3>2
  <2>2. CASE ~Demoted(q)
    <3> HIDE DEF Demoted
    <3> QED BY <1>5, <2>2
  <2> QED BY <2>1, <2>2
<1>7. eits # {} => [path |-> p, eit |-> LastOf(eits)] # Null
  <2>1. eits \in SUBSET (1..Len(files[p].lines)) /\ Len(files[p].lines) \in Nat
    BY LenProperties DEF EitsAfter, IndexTypeOK, File
  <2>2. eits # {} => LastOf(eits) \in Nat \ {0}
    <3> HIDE DEF eits
    <3> QED BY <2>1, LastOfPositive
  <2> HIDE DEF eits
  <2> QED BY <2>2, NullAssumption DEF ProgramRow
<1>8. TakesOver(p) <=> eits # {} /\ programs[r] # Null /\ programs[r].path # p
  BY DEF TakesOver
<1>9. eits = {} /\ ~Linked(p) => new = {}
  <2>1. eits = {} /\ ~Linked(p) => CaptionLines(p) = {}
    BY DEF CaptionLines
  <2> QED BY <2>1 DEF CaptionsAt
<1>10. \A x \in Recordings : captions'[x] # {} =>
         captions[x] # {} \/ (x = r /\ (eits # {} \/ Linked(p)))
  <2>1. PICK kept \in SUBSET captions[r] :
          captions' = [captions EXCEPT ![r] = kept \cup new]
    BY DEF IndexTail
  <2> HIDE DEF new, eits, r
  <2> QED BY <1>1, <1>9, <2>1 DEF IndexTypeOK
<1> HIDE DEF eits, new
<1>11. ASSUME NEW x \in Recordings, programs'[x] # Null
       PROVE  /\ Recording(programs'[x].path) = x
              /\ indexed'[programs'[x].path] # Null
              /\ indexed'[programs'[x].path].program_id = x
  <2>1. CASE x = r /\ eits # {}
    <3>1. programs'[x].path = p
      BY <1>4, <2>1
    <3>2. indexed'[p].program_id = r /\ indexed'[p] # Null
      BY <1>6, <2>1
    <3> QED BY <2>1, <3>1, <3>2
  <2>2. CASE ~(x = r /\ eits # {})
    <3> DEFINE q == programs[x].path
    <3>1. programs[x] # Null /\ programs'[x] = programs[x] /\ q \in Path
      BY <1>4, <1>11, <2>2 DEF IndexTypeOK, ProgramRow
    <3>2. Recording(q) = x /\ indexed[q] # Null /\ indexed[q].program_id = x
      BY <3>1 DEF OwnerConsistent
    <3>3. CASE q = p
      <4>1. Linked(p)
        BY <3>2, <3>3, NullAssumption DEF Linked
      <4> QED BY <1>6, <3>1, <3>2, <3>3, <4>1
    <3>4. CASE q # p
      <4>1. ~Demoted(q)
        BY <1>8, <2>2, <3>1, <3>2, <1>1 DEF OwnerConsistent
      <4> QED BY <1>14, <3>1, <3>2, <3>4, <4>1
    <3> QED BY <3>3, <3>4
  <2> QED BY <2>1, <2>2
<1>12. ASSUME NEW q \in Path, indexed'[q] # Null, indexed'[q].program_id # Null
       PROVE  /\ programs'[indexed'[q].program_id] # Null
              /\ programs'[indexed'[q].program_id].path = q
  <2>1. CASE q = p
    BY <1>1, <1>2, <1>4, <1>6, <1>7, <1>12, <2>1
  <2>2. CASE q # p
    <3>1. ~Demoted(q) /\ indexed'[q] = indexed[q]
      BY <1>12, <1>14, <2>2
    <3> DEFINE x == indexed[q].program_id
    <3>2. x \in Recordings /\ programs[x] # Null /\ programs[x].path = q
      BY <1>12, <3>1 DEF OwnerConsistent, IndexTypeOK, IndexedRow
    <3>3. ~(x = r /\ eits # {})
      BY <1>8, <1>12, <2>2, <3>1, <3>2
    <3> QED BY <1>4, <3>1, <3>2, <3>3
  <2> QED BY <2>1, <2>2
<1>13. ASSUME NEW x \in Recordings, captions'[x] # {}
       PROVE  programs'[x] # Null
  <2>1. CASE captions[x] # {}
    BY <1>4, <1>7, <2>1 DEF OwnerConsistent
  <2>2. CASE x = r /\ (eits # {} \/ Linked(p))
    BY <1>1, <1>2, <1>4, <1>7, <2>2
  <2> QED BY <1>10, <1>13, <2>1, <2>2
<1> QED
  BY <1>11, <1>12, <1>13 DEF OwnerConsistent

LEMMA OwnerStep ==
  IndexTypeOK /\ OwnerConsistent /\ [IndexNext]_indexVars => OwnerConsistent'
<1> SUFFICES ASSUME IndexTypeOK, OwnerConsistent, [IndexNext]_indexVars
             PROVE  OwnerConsistent'
  OBVIOUS
<1>1. CASE UNCHANGED dbVars
  BY <1>1 DEF dbVars, OwnerConsistent
<1>2. CASE ArchiveStep
  BY <1>1, <1>2, ArchiveStepType DEF IndexTypeOK
<1>3. CASE IngestCommit
  <2> DEFINE p == tx.path
  <2>1. p \in Path
    BY <1>3 DEF IngestCommit, IndexTypeOK
  <2>2. CASE MarkCollisionLoser(p)
    BY <2>1, <2>2, NullAssumption
       DEF MarkCollisionLoser, LosesCollision, OwnerConsistent, IndexTypeOK, IndexedRow, ProgramRow
  <2>3. CASE MarkShrunk(p, tx.size)
    BY <2>1, <2>3, NullAssumption
       DEF MarkShrunk, OwnerConsistent, IndexTypeOK, IndexedRow, ProgramRow
  <2>4. CASE IndexNewLines(p, tx.size)
    BY <2>1, <2>4, OwnerIndexTail DEF IndexNewLines
  <2>5. CASE SkipSettled(p) \/ SkipUnchanged(p, tx.size)
    BY <1>1, <2>5 DEF SkipSettled, SkipUnchanged
  <2> QED BY <1>3, <2>2, <2>3, <2>4, <2>5 DEF IngestCommit
<1>4. CASE CleanupDeleted
  <2>1. /\ \A r \in Recordings : programs'[r] # Null =>
             programs'[r] = programs[r] /\ programs[r].path \notin GonePaths
        /\ \A r \in Recordings : captions'[r] # {} =>
             captions'[r] = captions[r] /\ programs'[r] = programs[r]
        /\ \A p \in Path : indexed'[p] # Null => p \notin GonePaths /\ indexed[p] # Null
    BY <1>4 DEF CleanupDeleted, OwnerConsistent
  <2>2. ASSUME NEW r \in Recordings, programs'[r] # Null
        PROVE  LET p == programs'[r].path
               IN  Recording(p) = r /\ indexed'[p] # Null /\ indexed'[p].program_id = r
    <3> DEFINE p == programs[r].path
    <3>1. /\ programs'[r] = programs[r] /\ p \notin GonePaths
          /\ p \in Path /\ programs[r] # Null
      BY <2>1, <2>2 DEF IndexTypeOK, ProgramRow
    <3>2. Recording(p) = r /\ indexed[p] # Null /\ indexed[p].program_id = r
      BY <3>1 DEF OwnerConsistent
    <3>3. indexed'[p] = indexed[p]
      BY <1>4, <3>1, <3>2 DEF CleanupDeleted
    <3> QED BY <3>1, <3>2, <3>3
  <2>3. ASSUME NEW p \in Path, indexed'[p] # Null, indexed'[p].program_id # Null
        PROVE  LET r == indexed'[p].program_id
               IN  programs'[r] # Null /\ programs'[r].path = p
    <3>1. /\ p \notin GonePaths /\ indexed[p] # Null
          /\ indexed[p] \in IndexedRow
      BY <2>1, <2>3 DEF IndexTypeOK
    <3>2. indexed'[p] = indexed[p]
      BY <1>4, <2>3, <3>1 DEF CleanupDeleted, IndexedRow
    <3>3. /\ indexed[p].program_id \in Recordings
          /\ programs[indexed[p].program_id] # Null
          /\ programs[indexed[p].program_id].path = p
      BY <2>3, <3>1, <3>2 DEF OwnerConsistent, IndexedRow
    <3>4. programs'[indexed[p].program_id] = programs[indexed[p].program_id]
      BY <1>4, <3>1, <3>3 DEF CleanupDeleted
    <3> QED BY <3>2, <3>3, <3>4
  <2>4. \A r \in Recordings : captions'[r] # {} => programs'[r] # Null
    BY <2>1 DEF OwnerConsistent
  <2> QED BY <2>2, <2>3, <2>4 DEF OwnerConsistent
<1>5. CASE DeleteDatabase
  BY <1>5 DEF DeleteDatabase, OwnerConsistent
<1>6. CASE (\E p \in Path : IngestStat(p)) \/ IngestRollback \/ UNCHANGED indexVars
  BY <1>1, <1>6 DEF IngestStat, IngestRollback, indexVars, dbVars
<1> QED
  BY <1>2, <1>3, <1>4, <1>5, <1>6 DEF IndexNext, IndexStep

(* However two files collide over a recording, program rows and file rows    *)
(* name each other, and no captions are left without a program.              *)
THEOREM OwnerCorrect == IndexSpec => []OwnerConsistent
<1>1. IndexInit => OwnerConsistent
  BY DEF IndexInit, OwnerConsistent
<1> QED
  BY <1>1, IndexTypeCorrect, OwnerStep, PTL DEF IndexSpec
-----------------------------------------------------------------------------
(* A file that grows is never taken for one that shrank.                     *)

LEMMA NoFalseShrinkArchive ==
  ASSUME IndexTypeOK, NoFalseShrink, ArchiveStep
  PROVE  NoFalseShrink'
<1> USE ArchiveAssumption
<1>1. UNCHANGED indexed
  BY ArchiveStepType DEF IndexTypeOK, dbVars
<1>2. PICK p \in Path :
        \/ CreateFile(p)
        \/ WriteText(p)
        \/ \E line \in Lines : WriteNewline(p, line)
        \/ CloseFile(p)
        \/ RemoveFile(p)
        \/ \E n \in 0..MaxLines, cut \in BOOLEAN : PowerLoss(p, n, cut)
  BY DEF ArchiveStep
<1>3. files[p] \in File /\ Len(files[p].lines) \in Nat
  BY SizeBounds DEF IndexTypeOK
<1>4. CASE CreateFile(p)
  <2>1. files[p].state = "unused" /\ tx' = tx /\ Created \in File /\ Created.state = "open"
    BY <1>4, ConstantFiles DEF CreateFile, Created
  <2>2. indexed[p] = Null /\ (tx # Null => tx.path # p)
    BY <2>1 DEF NoFalseShrink, Present
  <2> QED BY <1>1, <1>4, <2>1, <2>2 DEF NoFalseShrink, CreateFile, IndexTypeOK, Present
<1>5. ASSUME NEW f \in File, files' = [files EXCEPT ![p] = f], tx' = tx,
             f.state \in {"open", "closed"}, Present(p),
             f.state = "open" => files[p].state = "open",
             Len(f.lines) >= Len(files[p].lines), Size(f) >= Size(files[p])
      PROVE  NoFalseShrink'
  <2>1. ASSUME NEW q \in Path, indexed'[q] # Null
        PROVE  /\ files'[q].state # "unused"
               /\ files'[q].state = "open" => indexed'[q].lines <= Len(files'[q].lines)
    <3>1. CASE q = p
      <4>1. files'[q] = f /\ indexed[p] # Null /\ indexed[p].lines \in Nat
        BY <1>1, <1>5, <2>1, <3>1, NullAssumption DEF IndexTypeOK, IndexedRow
      <4>2. f.state = "open" => indexed[p].lines <= Len(files[p].lines)
        BY <1>5, <4>1 DEF NoFalseShrink
      <4>3. Len(f.lines) \in Nat
        BY SizeBounds
      <4> QED BY <1>1, <1>3, <1>5, <3>1, <4>1, <4>2, <4>3
    <3>2. CASE q # p
      BY <1>1, <1>5, <2>1, <3>2 DEF NoFalseShrink, IndexTypeOK
    <3> QED BY <3>1, <3>2
  <2>2. ASSUME tx' # Null
        PROVE  files'[tx'.path].state \in {"open", "closed"}
               /\ tx'.size <= Size(files'[tx'.path])
    <3>1. tx.path \in Path /\ tx.size \in Nat /\ Present(tx.path)
          /\ tx.size <= Size(files[tx.path])
      BY <1>5, <2>2 DEF NoFalseShrink, IndexTypeOK
    <3>2. CASE tx.path = p
      <4>1. Size(f) \in Nat /\ Size(files[p]) \in Nat /\ files'[p] = f
        BY <1>3, <1>5, SizeBounds DEF IndexTypeOK
      <4> QED BY <1>5, <3>1, <3>2, <4>1
    <3>3. CASE tx.path # p
      <4>1. files'[tx.path] = files[tx.path]
        BY <1>5, <3>1, <3>3 DEF IndexTypeOK
      <4> QED BY <1>5, <3>1, <4>1 DEF Present
    <3> QED BY <3>2, <3>3
  <2> QED BY <2>1, <2>2 DEF NoFalseShrink, Present
<1>6. CASE WriteText(p)
  <2> DEFINE f == WithText(files[p])
  <2>1. /\ f \in File /\ f.lines = files[p].lines /\ f.partial /\ ~files[p].partial
        /\ f.state = "open" /\ files[p].state = "open"
    BY <1>3, <1>6 DEF WriteText, WithText, File
  <2>2. Size(f) = Size(files[p]) + 1 /\ Size(files[p]) \in Nat
    <3> HIDE DEF f
    <3> QED BY <1>3, <2>1, SizeBounds
  <2>3. files' = [files EXCEPT ![p] = f] /\ tx' = tx
    BY <1>6 DEF WriteText
  <2> HIDE DEF f
  <2>5. /\ f.state \in {"open", "closed"} /\ Present(p)
        /\ f.state = "open" => files[p].state = "open"
        /\ Len(f.lines) >= Len(files[p].lines) /\ Size(f) >= Size(files[p])
    BY <1>3, <2>1, <2>2 DEF Present
  <2> QED BY <1>5, <2>1, <2>3, <2>5
<1>7. ASSUME NEW line \in Lines, WriteNewline(p, line)
      PROVE  NoFalseShrink'
  <2> DEFINE f == WithNewline(files[p], line)
  <2>1. /\ f \in File /\ Len(f.lines) = Len(files[p].lines) + 1
        /\ files[p].state = "open" /\ files[p].partial
    BY <1>3, <1>7, FileOperations DEF WriteNewline
  <2>2. f.state = "open" /\ ~f.partial
    BY <1>3, <2>1 DEF WithNewline, File
  <2>3. Size(f) = Size(files[p]) + 1 /\ Size(files[p]) \in Nat
    <3> HIDE DEF f
    <3>1. /\ Len(files[p].lines) \in Nat /\ Size(files[p]) \in Nat
          /\ Size(files[p]) = 2 * Len(files[p].lines) + 1
      BY <1>3, <2>1, SizeBounds
    <3>2. Size(f) = 2 * Len(f.lines)
      BY <2>1, <2>2, SizeBounds
    <3> QED BY <2>1, <3>1, <3>2
  <2>4. files' = [files EXCEPT ![p] = f] /\ tx' = tx
    BY <1>7 DEF WriteNewline
  <2> HIDE DEF f
  <2>5. /\ f.state \in {"open", "closed"} /\ Present(p)
        /\ f.state = "open" => files[p].state = "open"
        /\ Len(f.lines) >= Len(files[p].lines) /\ Size(f) >= Size(files[p])
    BY <1>3, <2>1, <2>2, <2>3 DEF Present
  <2> QED BY <1>5, <2>1, <2>4, <2>5
<1>8. CASE CloseFile(p)
  <2> DEFINE f == Closed(files[p])
  <2>1. /\ f \in File /\ f.lines = files[p].lines /\ f.partial = files[p].partial
        /\ f.state = "closed" /\ files[p].state = "open"
    BY <1>3, <1>8 DEF CloseFile, Closed, File
  <2>2. Size(f) = Size(files[p]) /\ Size(files[p]) \in Nat
    BY <1>3, <2>1, SizeBounds DEF Size
  <2>3. files' = [files EXCEPT ![p] = f] /\ tx' = tx
    BY <1>8 DEF CloseFile
  <2> HIDE DEF f
  <2>5. /\ f.state \in {"open", "closed"} /\ Present(p)
        /\ f.state = "open" => files[p].state = "open"
        /\ Len(f.lines) >= Len(files[p].lines) /\ Size(f) >= Size(files[p])
    BY <1>3, <2>1, <2>2 DEF Present
  <2> QED BY <1>5, <2>1, <2>3, <2>5
<1>9. CASE RemoveFile(p)
  <2>1. /\ tx' = Null /\ files[p].state # "unused"
        /\ \A q \in Path : files'[q] = IF q = p THEN Removed ELSE files[q]
    BY <1>9 DEF RemoveFile, Present, IndexTypeOK
  <2>2. Removed.state = "removed"
    BY DEF Removed
  <2> QED BY <1>1, <2>1, <2>2 DEF NoFalseShrink
<1>10. ASSUME NEW n \in 0..MaxLines, NEW cut \in BOOLEAN, PowerLoss(p, n, cut)
       PROVE  NoFalseShrink'
  <2>1. /\ tx' = Null /\ files[p].state # "unused"
        /\ \A q \in Path : files'[q] = IF q = p THEN Truncated(files[p], n, cut)
                                       ELSE Closed(files[q])
    BY <1>10 DEF PowerLoss, Present
  <2>2. Truncated(files[p], n, cut).state = "closed"
    BY DEF Truncated
  <2>3. \A q \in Path : /\ Closed(files[q]).state # "open"
                        /\ Closed(files[q]).state = "unused" => files[q].state = "unused"
    BY DEF Closed, IndexTypeOK, File
  <2> QED BY <1>1, <2>1, <2>2, <2>3 DEF NoFalseShrink
<1> QED
  BY <1>2, <1>4, <1>6, <1>7, <1>8, <1>9, <1>10

LEMMA NoFalseShrinkStep ==
  IndexTypeOK /\ NoFalseShrink /\ [IndexNext]_indexVars => NoFalseShrink'
<1> SUFFICES ASSUME IndexTypeOK, NoFalseShrink, [IndexNext]_indexVars
             PROVE  NoFalseShrink'
  OBVIOUS
<1>1. CASE ArchiveStep
  BY <1>1, NoFalseShrinkArchive
<1>2. ASSUME UNCHANGED files, tx' = Null,
             \A q \in Path : indexed'[q] # Null =>
               \/ indexed[q] # Null /\ indexed'[q].lines = indexed[q].lines
               \/ Present(q) /\ indexed'[q].lines \in {0, Len(files[q].lines)}
      PROVE  NoFalseShrink'
  <2>1. ASSUME NEW q \in Path, indexed'[q] # Null
        PROVE  /\ files[q].state # "unused"
               /\ files[q].state = "open" => indexed'[q].lines <= Len(files[q].lines)
    <3>1. Len(files[q].lines) \in Nat
      BY SizeBounds DEF IndexTypeOK
    <3>2. CASE indexed[q] # Null /\ indexed'[q].lines = indexed[q].lines
      BY <3>2 DEF NoFalseShrink
    <3>3. CASE Present(q) /\ indexed'[q].lines \in {0, Len(files[q].lines)}
      BY <3>1, <3>3 DEF Present
    <3> QED BY <1>2, <2>1, <3>2, <3>3
  <2> QED BY <1>2, <2>1 DEF NoFalseShrink
<1>3. CASE UNCHANGED <<files, indexed>> /\ tx' = Null
  BY <1>3 DEF NoFalseShrink
<1>4. ASSUME NEW p \in Path, IngestStat(p) PROVE NoFalseShrink'
  <2>1. Size(files[p]) \in Nat
    BY SizeBounds DEF IndexTypeOK
  <2>2. tx' = [path |-> p, size |-> Size(files[p])] /\ UNCHANGED <<files, indexed>>
        /\ Present(p)
    BY <1>4 DEF IngestStat, dbVars
  <2>3. tx'.path = p /\ tx'.size = Size(files[p])
    BY <2>2
  <2> QED BY <2>1, <2>2, <2>3 DEF NoFalseShrink, Present, Size
<1>5. CASE IngestCommit
  <2> DEFINE p == tx.path
  <2>1. p \in Path /\ Present(p) /\ tx' = Null /\ UNCHANGED files
    BY <1>5 DEF IngestCommit, IndexTypeOK, NoFalseShrink
  <2>2. CASE MarkCollisionLoser(p)
    <3>1. \A q \in Path : indexed'[q] = IF q = p
             THEN [status |-> "duplicate", program_id |-> Null, lines |-> 0] ELSE indexed[q]
      BY <2>1, <2>2 DEF MarkCollisionLoser, IndexTypeOK
    <3> QED BY <1>2, <2>1, <3>1
  <2>3. CASE MarkShrunk(p, tx.size)
    <3>1. \A q \in Path : indexed'[q] # Null =>
             indexed[q] # Null /\ indexed'[q].lines = indexed[q].lines
      BY <2>1, <2>3 DEF MarkShrunk, IndexTypeOK, IndexedRow
    <3> QED BY <1>2, <2>1, <3>1
  <2>4. CASE IndexNewLines(p, tx.size)
    <3>1. \A q \in Path \ {p} : \/ indexed'[q] = indexed[q]
                                \/ indexed[q] # Null /\ indexed'[q].lines = indexed[q].lines
      BY <2>4 DEF IndexNewLines, IndexTail
    <3>2. indexed'[p].lines = Len(files[p].lines)
      BY <2>1, <2>4 DEF IndexNewLines, IndexTail, EndLine
    <3> QED BY <1>2, <2>1, <3>1, <3>2
  <2>5. CASE SkipSettled(p) \/ SkipUnchanged(p, tx.size)
    BY <1>3, <2>1, <2>5 DEF SkipSettled, SkipUnchanged, dbVars
  <2> QED BY <1>5, <2>2, <2>3, <2>4, <2>5 DEF IngestCommit
<1>6. CASE CleanupDeleted
  <2>1. \A q \in Path : indexed'[q] # Null =>
           indexed[q] # Null /\ indexed'[q].lines = indexed[q].lines
    BY <1>6 DEF CleanupDeleted, IndexTypeOK, IndexedRow
  <2>2. tx' = Null /\ UNCHANGED files
    BY <1>6 DEF CleanupDeleted
  <2> QED BY <1>2, <2>1, <2>2
<1>7. CASE DeleteDatabase
  BY <1>2, <1>7 DEF DeleteDatabase
<1>8. CASE IngestRollback
  BY <1>3, <1>8 DEF IngestRollback, dbVars
<1>9. CASE UNCHANGED indexVars
  BY <1>9 DEF indexVars, NoFalseShrink, Present, Size
<1> QED
  BY <1>1, <1>4, <1>5, <1>6, <1>7, <1>8, <1>9 DEF IndexNext, IndexStep

(* No interleaving of writes with a pass makes the indexer stop indexing a   *)
(* file that is being recorded: the stored offset stays within it.           *)
THEOREM NoFalseShrinkCorrect == IndexSpec => []NoFalseShrink
<1>1. IndexInit => NoFalseShrink
  BY DEF IndexInit, NoFalseShrink
<1> QED
  BY <1>1, IndexTypeCorrect, NoFalseShrinkStep, PTL DEF IndexSpec
-----------------------------------------------------------------------------
(* What the index shows of a file depends on the lines it indexed, and the   *)
(* lines of a later pass add to it.                                          *)

LEMMA EitsOfPrefix ==
  ASSUME NEW s \in Seq(Lines), NEW n \in Nat, n <= Len(s)
  PROVE  /\ EitsUpTo(s, n) = {i \in 1..n : IsEit(s[i])}
         /\ CaptionsOf(s, n) = CaptionsAt(s, {i \in 1..n : \E e \in EitsUpTo(s, n) : e < i})
<1>1. DOMAIN s = 1..Len(s) /\ Len(s) \in Nat
  BY LenProperties
<1>2. EitsUpTo(s, n) = {i \in 1..n : IsEit(s[i])}
  BY <1>1 DEF EitsUpTo, EitsAfter
<1>3. \A i \in 1..n : (\E e \in EitsAfter(s, 0) : e < i) <=> \E e \in EitsUpTo(s, n) : e < i
  BY <1>1 DEF EitsUpTo, EitsAfter
<1>4. {i \in 1..n : \E e \in EitsAfter(s, 0) : e < i}
        = {i \in 1..n : \E e \in EitsUpTo(s, n) : e < i}
  BY <1>3
<1> QED
  BY <1>2, <1>4 DEF CaptionsOf

LEMMA SamePrefix ==
  ASSUME NEW s \in Seq(Lines), NEW t \in Seq(Lines), NEW n \in Nat,
         n <= Len(s), n <= Len(t), \A i \in 1..n : s[i] = t[i]
  PROVE  EitsUpTo(s, n) = EitsUpTo(t, n) /\ CaptionsOf(s, n) = CaptionsOf(t, n)
<1>1. EitsUpTo(s, n) = EitsUpTo(t, n)
  BY EitsOfPrefix
<1> DEFINE N == {i \in 1..n : \E e \in EitsUpTo(s, n) : e < i}
<1>2. \A i \in N : s[i] = t[i]
  OBVIOUS
<1>3. CaptionsOf(s, n) = CaptionsAt(s, N) /\ CaptionsOf(t, n) = CaptionsAt(t, N)
  BY <1>1, EitsOfPrefix
<1>4. CaptionsAt(s, N) = CaptionsAt(t, N)
  <2> HIDE DEF N
  <2>1. {j \in N : IsCaption(s[j])} = {j \in N : IsCaption(t[j])}
    BY <1>2
  <2> QED BY <1>2, <2>1 DEF CaptionsAt
<1> QED
  BY <1>1, <1>3, <1>4

LEMMA LaterEits ==
  ASSUME NEW s \in Seq(Lines), NEW n \in Nat, n <= Len(s)
  PROVE  /\ EitsUpTo(s, Len(s)) = EitsUpTo(s, n) \cup EitsAfter(s, n)
         /\ EitsAfter(s, n) # {} =>
              LastOf(EitsUpTo(s, Len(s))) = LastOf(EitsAfter(s, n))
<1> DEFINE E == EitsUpTo(s, Len(s))
           A == EitsAfter(s, n)
<1>1. DOMAIN s = 1..Len(s) /\ Len(s) \in Nat
  BY LenProperties
<1>2. E = EitsUpTo(s, n) \cup A
  BY <1>1 DEF EitsUpTo, EitsAfter
<1>3. E \in SUBSET (1..Len(s)) /\ A \in SUBSET E /\ \A i \in E \ A, j \in A : i < j
  BY <1>1, <1>2 DEF EitsUpTo, EitsAfter
<1>4. ASSUME A # {} PROVE LastOf(E) = LastOf(A)
  <2> HIDE DEF E, A
  <2>1. /\ LastOf(E) \in E /\ \A j \in E : j <= LastOf(E)
        /\ LastOf(A) \in A /\ \A j \in A : j <= LastOf(A)
    <3>1. E # {} /\ A \in SUBSET (1..Len(s))
      BY <1>3, <1>4
    <3> QED BY <1>1, <1>3, <1>4, <3>1, LastOfType
  <2>2. LastOf(A) \in 1..Len(s) /\ LastOf(E) \in 1..Len(s)
    <3>1. \A i \in E : i \in 1..Len(s)
      BY <1>3
    <3>2. LastOf(A) \in E
      BY <1>3, <2>1
    <3> QED BY <2>1, <3>1, <3>2
  <2>3. LastOf(E) \in A
    <3>1. LastOf(A) \in E /\ LastOf(A) <= LastOf(E)
      BY <1>3, <2>1
    <3> QED BY <1>1, <1>3, <2>1, <2>2, <3>1
  <2>4. LastOf(E) <= LastOf(A) /\ LastOf(A) <= LastOf(E)
    BY <1>3, <2>1, <2>3
  <2> QED BY <1>1, <2>2, <2>4
<1> QED
  BY <1>2, <1>4

LEMMA LaterCaptions ==
  ASSUME NEW s \in Seq(Lines), NEW n \in Nat, n <= Len(s)
  PROVE  /\ EitsUpTo(s, n) # {} =>
              CaptionsOf(s, Len(s)) =
                CaptionsOf(s, n) \cup CaptionsAt(s, {i \in DOMAIN s : i > n})
         /\ EitsUpTo(s, n) = {} =>
              CaptionsOf(s, Len(s)) =
                CaptionsAt(s, {i \in DOMAIN s : i > n /\ \E e \in EitsAfter(s, n) : e < i})
<1> DEFINE M == {i \in 1..n : \E e \in EitsUpTo(s, n) : e < i}
           N == {i \in 1..Len(s) : \E e \in EitsUpTo(s, Len(s)) : e < i}
<1>1. DOMAIN s = 1..Len(s) /\ Len(s) \in Nat
  BY LenProperties
<1>2. CaptionsOf(s, n) = CaptionsAt(s, M) /\ CaptionsOf(s, Len(s)) = CaptionsAt(s, N)
  BY <1>1, EitsOfPrefix
<1>3. /\ EitsUpTo(s, Len(s)) = EitsUpTo(s, n) \cup EitsAfter(s, n)
      /\ \A e \in EitsUpTo(s, n) : e \in 1..n
      /\ \A e \in EitsAfter(s, n) : e \in 1..Len(s) /\ e > n
  BY <1>1, LaterEits, EitsOfPrefix DEF EitsAfter
<1>4. ASSUME EitsUpTo(s, n) # {}
      PROVE  N = M \cup {i \in DOMAIN s : i > n}
  BY <1>1, <1>3, <1>4
<1>5. ASSUME EitsUpTo(s, n) = {}
      PROVE  N = {i \in DOMAIN s : i > n /\ \E e \in EitsAfter(s, n) : e < i}
  BY <1>1, <1>3, <1>5
<1>6. \A X, Y : CaptionsAt(s, X \cup Y) = CaptionsAt(s, X) \cup CaptionsAt(s, Y)
  BY DEF CaptionsAt
<1> HIDE DEF M, N
<1>7. CASE EitsUpTo(s, n) # {}
  BY <1>2, <1>4, <1>6, <1>7
<1>8. CASE EitsUpTo(s, n) = {}
  BY <1>2, <1>5, <1>8
<1> QED
  BY <1>7, <1>8

LEMMA ShownPrefix ==
  ASSUME IndexTypeOK, NEW p \in Path, indexed[p] # Null, Intact(p)
  PROVE  indexed[p].lines \in Nat /\ indexed[p].lines <= Len(files[p].lines)
<1>1. /\ indexed[p].lines \in Nat /\ Len(files[p].lines) \in Nat
      /\ Size(files[p]) \in Nat /\ Size(files[p]) <= 2 * Len(files[p].lines) + 1
  BY SizeBounds DEF IndexTypeOK, IndexedRow
<1>2. 2 * indexed[p].lines <= Size(files[p])
  BY DEF Intact, Offset, LineSize
<1> QED
  BY <1>1, <1>2
-----------------------------------------------------------------------------
(* What a pass over the tail of a file leaves in the index.                  *)

LEMMA ExactIndexTail ==
  ASSUME IndexTypeOK, OwnerConsistent, CaptionsExact, NEW p \in Path,
         Present(p), ~Settled(p), indexed[p] # Null => Intact(p),
         IndexTail(p), UNCHANGED files
  PROVE  ShowsLines(p, indexed[p].lines)'
<1> DEFINE r == Recording(p)
           s == files[p].lines
           n == StartLine(p)
           all == EitsUpTo(s, Len(s))
           eits == EitsAfter(s, n)
           old == EitsUpTo(s, n)
           new == CaptionsAt(s, CaptionLines(p))
           kept == IF TakesOver(p) THEN {}
                   ELSE {c \in captions[r] : \A d \in new : d.line_no # c.line_no}
<1>1. r \in Recordings /\ r # Null
  BY RecordingType, NullAssumption
<1>2. s \in Seq(Lines) /\ Len(s) \in Nat /\ DOMAIN s = 1..Len(s)
  BY LenProperties DEF IndexTypeOK, File
<1>3. n \in Nat /\ n <= Len(s)
  BY <1>2, ShownPrefix DEF StartLine
<1>4. all = old \cup eits /\ (eits # {} => LastOf(all) = LastOf(eits))
  BY <1>2, <1>3, LaterEits
<1>5. Linked(p) <=> old # {}
  <2>1. CASE indexed[p] = Null
    <3>1. n = 0
      BY <2>1 DEF StartLine
    <3>2. \A i \in EitsAfter(s, 0) : i \in Int /\ i > 0
      BY <1>2 DEF EitsAfter
    <3>3. EitsUpTo(s, 0) = {}
      BY <3>2 DEF EitsUpTo
    <3> QED BY <2>1, <3>1, <3>3 DEF Linked
  <2>2. CASE indexed[p] # Null
    <3>1. ShowsLines(p, n)
      BY <2>2 DEF CaptionsExact, StartLine, Settled, IndexTypeOK, IndexedRow
    <3> QED BY <2>2, <3>1 DEF Linked, ShowsLines
  <2> QED BY <2>1, <2>2
<1>6. old # {} => captions[r] = CaptionsOf(s, n) /\ programs[r].eit = LastOf(old)
  <2> SUFFICES ASSUME old # {} PROVE captions[r] = CaptionsOf(s, n) /\ programs[r].eit = LastOf(old)
    OBVIOUS
  <2>1. indexed[p] # Null
    BY <1>5 DEF Linked
  <2>2. ShowsLines(p, n)
    BY <2>1 DEF CaptionsExact, StartLine, Settled, IndexTypeOK, IndexedRow
  <2> QED BY <2>2 DEF ShowsLines
<1>7. Linked(p) => programs[r] # Null /\ programs[r].path = p
  BY DEF Linked, OwnerConsistent, IndexTypeOK, IndexedRow
<1>8. ~Linked(p) /\ ~TakesOver(p) /\ eits # {} => captions[r] = {}
  <2> SUFFICES ASSUME ~Linked(p), programs[r] # Null, programs[r].path = p PROVE FALSE
    BY <1>1 DEF TakesOver, OwnerConsistent
  <2> QED BY <1>1 DEF Linked, OwnerConsistent
<1>9. TakesOver(p) => eits # {} /\ ~Linked(p)
  BY <1>7 DEF TakesOver
<1>10. CaptionLines(p) = IF Linked(p) THEN {i \in DOMAIN s : i > n}
         ELSE {i \in DOMAIN s : i > n /\ \E e \in eits : e < i}
  BY <1>9 DEF CaptionLines
<1>11. captions'[r] = kept \cup new
  BY <1>1 DEF IndexTail, IndexTypeOK
<1>12. programs'[r] = IF eits = {} THEN programs[r] ELSE [path |-> p, eit |-> LastOf(eits)]
  BY <1>1 DEF IndexTail, IndexTypeOK
<1>13. indexed'[p] = [status |-> "ok", lines |-> Len(s),
                      program_id |-> IF Linked(p) \/ eits # {} THEN r ELSE Null]
  BY DEF IndexTail, EndLine
<1>14. ASSUME Linked(p) PROVE kept = CaptionsOf(s, n)
  <2>1. \A c \in CaptionsOf(s, n) : c.line_no \in 1..n
    BY DEF CaptionsOf, CaptionsAt
  <2>2. \A d \in new : d.line_no > n
    BY <1>10, <1>14 DEF CaptionsAt
  <2>3. kept = {c \in CaptionsOf(s, n) : \A d \in new : d.line_no # c.line_no}
    BY <1>5, <1>6, <1>9, <1>14
  <2>4. \A c \in CaptionsOf(s, n), d \in new : d.line_no # c.line_no
    <3> HIDE DEF new, n
    <3> QED BY <1>3, <2>1, <2>2
  <2> HIDE DEF new, n, kept
  <2> QED BY <2>3, <2>4
<1>15. ASSUME ~Linked(p), eits # {} PROVE kept = {}
  BY <1>8, <1>15
<1>16. ASSUME all # {} PROVE captions'[r] = CaptionsOf(s, Len(s))
  <2>1. CASE Linked(p)
    <3>1. new = CaptionsAt(s, {i \in DOMAIN s : i > n})
      BY <1>10, <2>1
    <3> HIDE DEF new, kept, n, old
    <3> QED BY <1>2, <1>3, <1>5, <1>11, <1>14, <2>1, <3>1, LaterCaptions DEF old
  <2>2. CASE ~Linked(p)
    <3>1. new = CaptionsAt(s, {i \in DOMAIN s : i > n /\ \E e \in eits : e < i})
      BY <1>10, <2>2
    <3>2. old = {} /\ eits # {}
      BY <1>4, <1>5, <1>16, <2>2
    <3>3. kept = {}
      BY <1>15, <2>2, <3>2
    <3> HIDE DEF new, kept, n
    <3> QED BY <1>2, <1>3, <1>11, <3>1, <3>2, <3>3, LaterCaptions
  <2> QED BY <2>1, <2>2
<1>17. ASSUME all # {} PROVE programs'[r].eit = LastOf(all)
  <2>1. CASE eits = {}
    <3>1. old = all /\ programs'[r] = programs[r]
      BY <1>4, <1>12, <2>1
    <3> QED BY <1>6, <1>17, <3>1
  <2>2. CASE eits # {}
    <3>1. programs'[r].eit = LastOf(eits)
      BY <1>12, <2>2
    <3> QED BY <1>4, <2>2, <3>1
  <2> QED BY <2>1, <2>2
<1>18. /\ indexed'[p].lines = Len(s)
       /\ (indexed'[p].program_id # Null) <=> (all # {})
  BY <1>1, <1>4, <1>5, <1>13
<1>19. files'[p].lines = s
  OBVIOUS
<1> HIDE DEF all, s
<1> QED
  BY <1>16, <1>17, <1>18, <1>19 DEF ShowsLines, all

LEMMA CaptionsExactIndexTail ==
  ASSUME IndexTypeOK, OwnerConsistent, CaptionsExact, NEW p \in Path,
         Present(p), ~Settled(p), indexed[p] # Null => Intact(p),
         IndexTail(p), UNCHANGED files
  PROVE  CaptionsExact'
<1> DEFINE r == Recording(p)
           eits == EitsAfter(files[p].lines, StartLine(p))
           new == CaptionsAt(files[p].lines, CaptionLines(p))
<1> SUFFICES ASSUME NEW q \in Path, indexed'[q] # Null, indexed'[q].status = "ok", Intact(q)'
             PROVE  ShowsLines(q, indexed[q].lines)'
  BY DEF CaptionsExact
<1>1. CASE q = p
  BY <1>1, ExactIndexTail
<1>2. CASE q # p
  <2> DEFINE x == Recording(q)
             n == indexed[q].lines
             shown == EitsUpTo(files[q].lines, n)
  <2>1. x \in Recordings /\ r \in Recordings /\ x # Null
    BY RecordingType, NullAssumption
  <2>2. indexed'[q] = indexed[q] /\ ~(TakesOver(p) /\ q = programs[r].path)
    <3>1. TakesOver(p) /\ q = programs[r].path /\ indexed[q] # Null =>
            indexed'[q].status = "duplicate"
      BY <1>2 DEF IndexTail
    <3>2. ~(TakesOver(p) /\ q = programs[r].path /\ indexed[q] # Null) =>
            indexed'[q] = indexed[q]
      BY <1>2 DEF IndexTail
    <3> QED BY <3>1, <3>2
  <2>3. ShowsLines(q, n)
    <3>1. Intact(q)
      BY <2>2 DEF Intact, Present, Size, Offset
    <3> QED BY <2>2, <3>1 DEF CaptionsExact
  <2>4. shown # {} => captions'[x] = captions[x] /\ programs'[x] = programs[x]
    <3> SUFFICES ASSUME shown # {}
                 PROVE  captions'[x] = captions[x] /\ programs'[x] = programs[x]
      OBVIOUS
    <3>1. CASE x # r
      BY <2>1, <3>1 DEF IndexTail, IndexTypeOK
    <3>2. CASE x = r
      <4>1. programs[r] # Null /\ programs[r].path = q
        <5>1. indexed[q] # Null /\ indexed[q].program_id # Null
          BY <2>2, <2>3 DEF ShowsLines
        <5>2. indexed[q].program_id = x
          BY <5>1 DEF OwnerConsistent, IndexTypeOK, IndexedRow
        <5> QED BY <3>2, <5>1, <5>2 DEF OwnerConsistent
      <4>2. eits = {}
        BY <1>2, <2>2, <4>1 DEF TakesOver
      <4>3. ~Linked(p)
        BY <1>2, <4>1 DEF Linked, OwnerConsistent, IndexTypeOK, IndexedRow
      <4>4. new = {}
        <5>1. CaptionLines(p) = {}
          BY <4>2, <4>3 DEF CaptionLines
        <5> QED BY <5>1 DEF CaptionsAt
      <4>5. captions'[r] = {c \in captions[r] : \A d \in new : d.line_no # c.line_no} \cup new
        BY <2>1, <4>2 DEF IndexTail, IndexTypeOK, TakesOver
      <4>6. programs'[r] = programs[r]
        BY <2>1, <4>2 DEF IndexTail, IndexTypeOK
      <4> HIDE DEF new
      <4> QED BY <3>2, <4>4, <4>5, <4>6
    <3> QED BY <3>1, <3>2
  <2>5. files'[q].lines = files[q].lines
    OBVIOUS
  <2> QED BY <2>2, <2>3, <2>4, <2>5 DEF ShowsLines
<1> QED
  BY <1>1, <1>2
-----------------------------------------------------------------------------
(* A change of the archive leaves what was indexed as it was.                *)

LEMMA ShownUnchanged ==
  ASSUME IndexTypeOK, IndexTypeOK', CaptionsExact, UNCHANGED dbVars,
         NEW q \in Path, indexed[q] # Null, indexed[q].status = "ok",
         NEW n, n = indexed[q].lines, Intact(q), Intact(q)',
         \A i \in 1..n : files'[q].lines[i] = files[q].lines[i]
  PROVE  ShowsLines(q, indexed[q].lines)'
<1>1. n \in Nat /\ n <= Len(files[q].lines) /\ files[q].lines \in Seq(Lines)
  BY ShownPrefix DEF IndexTypeOK, File
<1>2. n <= Len(files'[q].lines) /\ files'[q].lines \in Seq(Lines)
  <2>1. /\ Len(files'[q].lines) \in Nat /\ Size(files'[q]) \in Nat
        /\ Size(files'[q]) <= 2 * Len(files'[q].lines) + 1
    <3> DEFINE f == files'[q]
    <3>1. f \in File
      BY DEF IndexTypeOK
    <3> HIDE DEF f
    <3>2. /\ Len(f.lines) \in Nat /\ Size(f) \in Nat
          /\ Size(f) <= 2 * Len(f.lines) + 1
      BY <3>1, SizeBounds
    <3> QED BY <3>2 DEF f
  <2>2. 2 * n <= Size(files'[q])
    BY DEF Intact, Offset, LineSize, dbVars
  <2> QED BY <1>1, <2>1, <2>2 DEF IndexTypeOK, File
<1>3. /\ EitsUpTo(files[q].lines, n) = EitsUpTo(files'[q].lines, n)
      /\ CaptionsOf(files[q].lines, n) = CaptionsOf(files'[q].lines, n)
  BY <1>1, <1>2, SamePrefix
<1>4. ShowsLines(q, n)
  BY DEF CaptionsExact
<1> QED
  BY <1>3, <1>4 DEF ShowsLines, dbVars

LEMMA CaptionsExactArchive ==
  ASSUME IndexTypeOK, IndexTypeOK', NoFalseShrink, CaptionsExact, ArchiveStep
  PROVE  CaptionsExact'
<1> USE ArchiveAssumption
<1>1. UNCHANGED dbVars
  BY ArchiveStepType DEF IndexTypeOK
<1> SUFFICES ASSUME NEW q \in Path, indexed[q] # Null, indexed[q].status = "ok", Intact(q)'
             PROVE  ShowsLines(q, indexed[q].lines)'
  BY <1>1 DEF CaptionsExact, dbVars
<1> DEFINE n == indexed[q].lines
<1>2. /\ n \in Nat /\ files[q] \in File /\ files[q].lines \in Seq(Lines)
      /\ Len(files[q].lines) \in Nat /\ Size(files[q]) \in Nat
      /\ Size(files[q]) >= 2 * Len(files[q].lines)
  <2>1. indexed[q] \in IndexedRow
    BY DEF IndexTypeOK
  <2>2. files[q] \in File
    BY DEF IndexTypeOK
  <2>3. n \in Nat /\ files[q].lines \in Seq(Lines)
    BY <2>1, <2>2 DEF IndexedRow, File
  <2>4. /\ Len(files[q].lines) \in Nat /\ Size(files[q]) \in Nat
        /\ Size(files[q]) >= 2 * Len(files[q].lines)
    BY <2>2, SizeBounds DEF File
  <2> QED BY <2>2, <2>3, <2>4
<1>3. (Present(q) /\ n <= Len(files[q].lines)) => Intact(q)
  BY <1>2 DEF Intact, Offset, LineSize
<1>4. ASSUME files'[q] = files[q] PROVE ShowsLines(q, indexed[q].lines)'
  <2>1. Intact(q)
    BY <1>1, <1>4 DEF Intact, Present, Offset, Size, dbVars
  <2> QED BY <1>1, <1>4, <2>1, ShownUnchanged
<1>5. ASSUME files[q].state = "open",
             \A i \in 1..Len(files[q].lines) : files'[q].lines[i] = files[q].lines[i]
      PROVE  ShowsLines(q, indexed[q].lines)'
  <2>1. Intact(q) /\ n <= Len(files[q].lines)
    BY <1>3, <1>5 DEF NoFalseShrink, Present
  <2> QED BY <1>1, <1>2, <1>5, <2>1, ShownUnchanged
<1>6. PICK p \in Path :
        \/ CreateFile(p)
        \/ WriteText(p)
        \/ \E line \in Lines : WriteNewline(p, line)
        \/ CloseFile(p)
        \/ RemoveFile(p)
        \/ \E k \in 0..MaxLines, cut \in BOOLEAN : PowerLoss(p, k, cut)
  BY DEF ArchiveStep
<1>7. CASE CreateFile(p)
  <2>1. q # p
    BY <1>7 DEF CreateFile, NoFalseShrink
  <2> QED BY <1>4, <1>7, <2>1 DEF CreateFile, IndexTypeOK
<1>8. CASE WriteText(p)
  <2>1. CASE q = p
    <3>1. files[q].state = "open" /\ files'[q] = WithText(files[q])
      BY <1>8, <2>1 DEF WriteText, IndexTypeOK
    <3>2. WithText(files[q]).lines = files[q].lines
      BY <1>2 DEF WithText, File
    <3> QED BY <1>5, <3>1, <3>2
  <2>2. CASE q # p
    BY <1>4, <1>8, <2>2 DEF WriteText, IndexTypeOK
  <2> QED BY <2>1, <2>2
<1>9. ASSUME NEW line \in Lines, WriteNewline(p, line)
      PROVE  ShowsLines(q, indexed[q].lines)'
  <2>1. CASE q = p
    <3>1. files[q].state = "open" /\ files'[q] = WithNewline(files[q], line)
      BY <1>9, <2>1 DEF WriteNewline, IndexTypeOK
    <3>2. \A i \in 1..Len(files[q].lines) :
            WithNewline(files[q], line).lines[i] = files[q].lines[i]
      BY <1>2, FileOperations
    <3> QED BY <1>5, <3>1, <3>2
  <2>2. CASE q # p
    BY <1>4, <1>9, <2>2 DEF WriteNewline, IndexTypeOK
  <2> QED BY <2>1, <2>2
<1>10. CASE CloseFile(p)
  <2>1. CASE q = p
    <3>1. files[q].state = "open" /\ files'[q] = Closed(files[q])
      BY <1>10, <2>1 DEF CloseFile, IndexTypeOK
    <3>2. Closed(files[q]).lines = files[q].lines
      BY <1>2 DEF Closed, File
    <3> QED BY <1>5, <3>1, <3>2
  <2>2. CASE q # p
    BY <1>4, <1>10, <2>2 DEF CloseFile, IndexTypeOK
  <2> QED BY <2>1, <2>2
<1>11. CASE RemoveFile(p)
  <2>1. q # p
    <3>1. files'[p].state = "removed"
      BY <1>11 DEF RemoveFile, Removed, IndexTypeOK
    <3> QED BY <3>1 DEF Intact, Present
  <2> QED BY <1>4, <1>11, <2>1 DEF RemoveFile, IndexTypeOK
<1>12. ASSUME NEW k \in 0..MaxLines, NEW cut \in BOOLEAN, PowerLoss(p, k, cut)
       PROVE  ShowsLines(q, indexed[q].lines)'
  <2>1. k \in Nat /\ Present(p) /\ k <= Len(files[p].lines)
    BY <1>12 DEF PowerLoss
  <2>2. CASE q = p
    <3> DEFINE f == Truncated(files[q], k, cut)
    <3>1. files'[q] = f
      BY <1>12, <2>2 DEF PowerLoss
    <3>2. /\ f \in File /\ Len(f.lines) = k
          /\ \A i \in 1..k : f.lines[i] = files[q].lines[i]
      BY <1>2, <2>1, <2>2, TruncatedFile
    <3>3. n <= k
      <4>1. 2 * n <= Size(f)
        BY <1>1, <3>1 DEF Intact, Offset, LineSize, dbVars
      <4>2. Size(f) <= 2 * k + 1 /\ Size(f) \in Nat
        <5> HIDE DEF f
        <5> QED BY <2>1, <3>2, SizeBounds
      <4> QED BY <1>2, <2>1, <4>1, <4>2
    <3>4. Intact(q)
      BY <1>2, <1>3, <2>1, <2>2, <3>3
    <3>5. \A i \in 1..n : files'[q].lines[i] = files[q].lines[i]
      BY <1>2, <2>1, <3>1, <3>2, <3>3
    <3> QED BY <1>1, <3>4, <3>5, ShownUnchanged
  <2>3. CASE q # p
    <3>1. files'[q] = Closed(files[q])
      BY <1>12, <2>3 DEF PowerLoss
    <3>2. CASE files[q].state = "open"
      <4>1. Closed(files[q]).lines = files[q].lines
        BY <1>2 DEF Closed, File
      <4> QED BY <1>5, <3>1, <3>2, <4>1
    <3>3. CASE files[q].state # "open"
      BY <1>4, <3>1, <3>3 DEF Closed
    <3> QED BY <3>2, <3>3
  <2> QED BY <2>2, <2>3
<1> QED
  BY <1>6, <1>7, <1>8, <1>9, <1>10, <1>11, <1>12

LEMMA CaptionsExactStep ==
  /\ IndexTypeOK /\ IndexTypeOK' /\ OwnerConsistent /\ NoFalseShrink /\ CaptionsExact
  /\ [IndexNext]_indexVars
  => CaptionsExact'
<1> SUFFICES ASSUME IndexTypeOK, IndexTypeOK', OwnerConsistent, NoFalseShrink,
                    CaptionsExact, [IndexNext]_indexVars
             PROVE  CaptionsExact'
  OBVIOUS
<1>1. CASE UNCHANGED <<files, dbVars>>
  BY <1>1 DEF CaptionsExact, ShowsLines, Intact, Present, Size, Offset, dbVars
<1>2. CASE ArchiveStep
  BY <1>2, CaptionsExactArchive
<1>3. CASE IngestCommit
  <2> DEFINE p == tx.path
  <2>1. /\ p \in Path /\ Present(p) /\ UNCHANGED files
        /\ tx.size \in Nat /\ tx.size <= Size(files[p]) /\ Size(files[p]) \in Nat
    BY <1>3, SizeBounds DEF IngestCommit, IndexTypeOK, NoFalseShrink
  <2>2. ASSUME UNCHANGED <<programs, captions>>,
               \A q \in Path : indexed'[q] # Null =>
                 indexed'[q].status # "ok" \/ indexed'[q] = indexed[q]
        PROVE  CaptionsExact'
    BY <2>1, <2>2 DEF CaptionsExact, ShowsLines, Intact, Present, Size, Offset
  <2>3. CASE MarkCollisionLoser(p)
    <3>1. \A q \in Path : indexed'[q].status = "duplicate" \/ indexed'[q] = indexed[q]
      BY <2>1, <2>3 DEF MarkCollisionLoser, IndexTypeOK
    <3> QED BY <2>2, <2>3, <3>1 DEF MarkCollisionLoser
  <2>4. CASE MarkShrunk(p, tx.size)
    <3>1. \A q \in Path : indexed'[q] # Null =>
             indexed'[q].status = "error" \/ indexed'[q] = indexed[q]
      BY <2>1, <2>4 DEF MarkShrunk, IndexTypeOK, IndexedRow
    <3> QED BY <2>2, <2>4, <3>1 DEF MarkShrunk
  <2>5. CASE IndexNewLines(p, tx.size)
    <3>1. indexed[p] # Null => Intact(p)
      <4>1. indexed[p] # Null => Offset(indexed[p]) \in Nat
        BY <2>1 DEF Offset, LineSize, IndexTypeOK, IndexedRow
      <4> QED BY <2>1, <2>5, <4>1 DEF IndexNewLines, Intact
    <3> QED BY <2>1, <2>5, <3>1, CaptionsExactIndexTail DEF IndexNewLines, Continues
  <2>6. CASE SkipSettled(p) \/ SkipUnchanged(p, tx.size)
    BY <1>1, <2>1, <2>6 DEF SkipSettled, SkipUnchanged
  <2> QED BY <1>3, <2>3, <2>4, <2>5, <2>6 DEF IngestCommit
<1>4. CASE CleanupDeleted
  <2> SUFFICES ASSUME NEW q \in Path, indexed'[q] # Null, indexed'[q].status = "ok", Intact(q)'
               PROVE  ShowsLines(q, indexed[q].lines)'
    BY DEF CaptionsExact
  <2> DEFINE r == Recording(q)
  <2>1. files' = files /\ Present(q) /\ q \notin GonePaths
    BY <1>4 DEF CleanupDeleted, Intact, Present, GonePaths, PresentPaths
  <2>2. /\ indexed[q] # Null /\ indexed'[q].status = indexed[q].status
        /\ indexed'[q].lines = indexed[q].lines
    BY <1>4 DEF CleanupDeleted, IndexTypeOK, IndexedRow
  <2>3. ShowsLines(q, indexed[q].lines)
    <3>1. Intact(q)
      BY <2>1, <2>2 DEF Intact, Present, Size, Offset
    <3> QED BY <2>2, <3>1 DEF CaptionsExact
  <2>4. r \in Recordings /\ r # Null
    BY RecordingType, NullAssumption
  <2>5. CASE indexed[q].program_id = Null
    <3>1. indexed'[q] = indexed[q]
      BY <1>4, <2>2, <2>5 DEF CleanupDeleted
    <3> QED BY <2>1, <2>3, <2>5, <3>1 DEF ShowsLines
  <2>6. CASE indexed[q].program_id # Null
    <3>1. programs[r] # Null /\ programs[r].path = q /\ indexed[q].program_id = r
      BY <2>2, <2>6 DEF OwnerConsistent, IndexTypeOK, IndexedRow
    <3>2. /\ indexed'[q] = indexed[q] /\ programs'[r] = programs[r]
          /\ captions'[r] = captions[r]
      BY <1>4, <2>1, <2>2, <2>4, <3>1 DEF CleanupDeleted
    <3> QED BY <2>1, <2>3, <3>2 DEF ShowsLines
  <2> QED BY <2>5, <2>6
<1>5. CASE DeleteDatabase
  BY <1>5 DEF DeleteDatabase, CaptionsExact
<1>6. CASE (\E p \in Path : IngestStat(p)) \/ IngestRollback \/ UNCHANGED indexVars
  BY <1>1, <1>6 DEF IngestStat, IngestRollback, indexVars, dbVars
<1> QED
  BY <1>2, <1>3, <1>4, <1>5, <1>6 DEF IndexNext, IndexStep

(* An indexed file shows exactly its captions, however its indexing was cut  *)
(* into passes and whatever happened to the archive between them.            *)
THEOREM CaptionsExactCorrect == IndexSpec => []CaptionsExact
<1>1. IndexInit => CaptionsExact
  BY DEF IndexInit, CaptionsExact
<1> QED
  BY <1>1, IndexTypeCorrect, OwnerCorrect, NoFalseShrinkCorrect, CaptionsExactStep,
     PTL DEF IndexSpec
-----------------------------------------------------------------------------
(* What no transaction may take out of the index.                            *)

(* A program that was indexed is not lost to a collision: only cleanup of    *)
(* its removed file or a new database drops its row (ingest.rs:241-262,      *)
(* 611-619).                                                                 *)
THEOREM ProgramsPersistCorrect == IndexSpec => ProgramsPersist
<1> DEFINE Kept == \A r \in Recordings :
                     (programs[r] # Null /\ programs'[r] = Null) =>
                       \/ ~Present(programs[r].path)
                       \/ \A q \in Path : indexed'[q] = Null
<1>1. IndexTypeOK /\ [IndexNext]_indexVars => Kept
  <2> SUFFICES ASSUME IndexTypeOK, [IndexNext]_indexVars,
                      NEW r \in Recordings, programs[r] # Null, programs'[r] = Null
               PROVE  \/ ~Present(programs[r].path)
                      \/ \A q \in Path : indexed'[q] = Null
    OBVIOUS
  <2>1. ~(UNCHANGED programs)
    OBVIOUS
  <2>2. /\ ~(UNCHANGED indexVars) /\ ~ArchiveStep /\ ~IngestRollback
        /\ \A p \in Path : ~IngestStat(p)
    <3>1. ArchiveStep => UNCHANGED dbVars
      BY ArchiveStepType DEF IndexTypeOK
    <3> QED BY <2>1, <3>1 DEF indexVars, dbVars, IngestRollback, IngestStat
  <2>3. ~IngestCommit
    <3> SUFFICES ASSUME IngestCommit PROVE FALSE
      OBVIOUS
    <3> DEFINE p == tx.path
               eits == EitsAfter(files[p].lines, StartLine(p))
    <3>1. p \in Path /\ IndexNewLines(p, tx.size)
      BY <2>1 DEF IngestCommit, IndexTypeOK, SkipSettled, MarkCollisionLoser, MarkShrunk,
                  SkipUnchanged, dbVars
    <3>2. programs' = [programs EXCEPT ![Recording(p)] =
                         IF eits = {} THEN @ ELSE [path |-> p, eit |-> LastOf(eits)]]
      BY <3>1 DEF IndexNewLines, IndexTail
    <3>3. r = Recording(p) /\ eits # {} /\ programs'[r] = [path |-> p, eit |-> LastOf(eits)]
      BY <3>2 DEF IndexTypeOK
    <3>4. LastOf(eits) \in Nat \ {0}
      <4>1. files[p].lines \in Seq(Lines) /\ Len(files[p].lines) \in Nat
        BY <3>1, SizeBounds DEF IndexTypeOK, File
      <4>2. eits \in SUBSET (1..Len(files[p].lines))
        BY <4>1, LenProperties DEF EitsAfter
      <4> HIDE DEF eits
      <4> QED BY <3>3, <4>1, <4>2, LastOfPositive
    <3>5. programs'[r] \in ProgramRow
      BY <3>1, <3>3, <3>4 DEF ProgramRow
    <3> QED BY <3>5, NullAssumption
  <2>4. CASE CleanupDeleted
    BY <2>4 DEF CleanupDeleted, GonePaths, PresentPaths
  <2>5. CASE DeleteDatabase
    BY <2>5 DEF DeleteDatabase
  <2> QED BY <2>2, <2>3, <2>4, <2>5 DEF IndexNext, IndexStep
<1>2. UNCHANGED indexVars => Kept
  BY DEF indexVars, dbVars
<1> QED BY <1>1, <1>2, IndexTypeCorrect, PTL DEF IndexSpec, ProgramsPersist

(* A pass over the tail of the file that holds a recording adds captions     *)
(* under line numbers that no indexed caption has.                           *)
LEMMA CaptionsAdded ==
  ASSUME IndexTypeOK, OwnerConsistent, CaptionsExact, NEW p \in Path,
         Present(p), ~Settled(p), indexed[p] # Null => Intact(p),
         IndexTail(p), NEW r \in Recordings, programs[r] # Null, programs'[r].path = programs[r].path
  PROVE  captions[r] \subseteq captions'[r]
<1> DEFINE s == files[p].lines
           n == StartLine(p)
           eits == EitsAfter(s, n)
           new == CaptionsAt(s, CaptionLines(p))
<1>1. /\ programs' = [programs EXCEPT ![Recording(p)] =
                        IF eits = {} THEN @ ELSE [path |-> p, eit |-> LastOf(eits)]]
      /\ captions' = [captions EXCEPT ![Recording(p)] =
            (IF TakesOver(p) THEN {}
             ELSE {c \in captions[Recording(p)] : \A d \in new : d.line_no # c.line_no}) \cup new]
  BY DEF IndexTail
<1>2. CASE r # Recording(p)
  BY <1>1, <1>2 DEF IndexTypeOK
<1>3. CASE r = Recording(p)
  <2>1. ~TakesOver(p)
    <3>1. TakesOver(p) => eits # {} /\ programs[r].path # p
      BY <1>3 DEF TakesOver
    <3>2. eits # {} => programs'[r].path = p
      BY <1>1, <1>3 DEF IndexTypeOK
    <3> QED BY <3>1, <3>2
  <2>2. captions'[r] = {c \in captions[r] : \A d \in new : d.line_no # c.line_no} \cup new
    BY <1>1, <1>3, <2>1 DEF IndexTypeOK
  <2>3. CASE programs[r].path = p
    <3>1. indexed[p] # Null /\ indexed[p].program_id = r /\ r # Null
      BY <2>3, NullAssumption DEF OwnerConsistent
    <3>2. indexed[p].status = "ok" /\ n = indexed[p].lines
      BY <3>1 DEF Settled, IndexTypeOK, IndexedRow, StartLine
    <3>3. n \in Nat /\ n <= Len(s) /\ s \in Seq(Lines)
      BY <3>1, <3>2, ShownPrefix DEF IndexTypeOK, File
    <3>4. captions[r] = CaptionsOf(s, n)
      BY <1>3, <3>1, <3>2 DEF CaptionsExact, ShowsLines
    <3>5. \A c \in captions[r] : c.line_no \in 1..n
      <4>1. captions[r] = CaptionsAt(s, {i \in 1..n : \E e \in EitsUpTo(s, n) : e < i})
        BY <3>3, <3>4, EitsOfPrefix
      <4> QED BY <4>1 DEF CaptionsAt
    <3>6. \A d \in new : d.line_no > n
      BY DEF CaptionsAt, CaptionLines
    <3>7. \A d \in new, c \in captions[r] : d.line_no # c.line_no
      <4> HIDE DEF new, n
      <4> QED BY <3>3, <3>5, <3>6
    <3> HIDE DEF new, n
    <3> QED BY <2>2, <3>7
  <2>4. CASE programs[r].path # p
    <3>1. eits = {} /\ ~Linked(p)
      BY <1>3, <2>1, <2>4 DEF TakesOver, Linked, OwnerConsistent, IndexTypeOK, IndexedRow
    <3>2. CaptionLines(p) = {}
      BY <3>1 DEF CaptionLines
    <3>3. new = {}
      BY <3>2 DEF CaptionsAt
    <3> HIDE DEF new
    <3> QED BY <2>2, <3>3
  <2> QED BY <2>3, <2>4
<1> QED BY <1>2, <1>3

(* An incremental pass never drops or renumbers an indexed caption: one goes *)
(* only with its program's row or when another file takes the recording over *)
(* (ingest.rs:343-388, 448-450).                                             *)
THEOREM CaptionsPersistCorrect == IndexSpec => CaptionsPersist
<1> DEFINE Kept == \A r \in Recordings :
                     (programs[r] # Null /\ programs'[r] # Null
                        /\ programs'[r].path = programs[r].path) =>
                       captions[r] \subseteq captions'[r]
           Inv == IndexTypeOK /\ OwnerConsistent /\ NoFalseShrink /\ CaptionsExact
<1>1. UNCHANGED captions => Kept
  OBVIOUS
<1>2. Inv /\ [IndexNext]_indexVars => Kept
  <2> SUFFICES ASSUME Inv, [IndexNext]_indexVars, ~(UNCHANGED captions) PROVE Kept
    BY <1>1
  <2>1. /\ ~(UNCHANGED indexVars) /\ ~ArchiveStep /\ ~IngestRollback
        /\ \A p \in Path : ~IngestStat(p)
    <3>1. ArchiveStep => UNCHANGED dbVars
      BY ArchiveStepType DEF IndexTypeOK
    <3> QED BY <3>1 DEF indexVars, dbVars, IngestRollback, IngestStat
  <2>2. CASE IngestCommit
    <3> DEFINE p == tx.path
    <3>1. /\ p \in Path /\ Present(p) /\ IndexNewLines(p, tx.size)
          /\ tx.size \in Nat /\ tx.size <= Size(files[p]) /\ Size(files[p]) \in Nat
      BY <2>2, SizeBounds DEF IngestCommit, IndexTypeOK, NoFalseShrink, SkipSettled,
         MarkCollisionLoser, MarkShrunk, SkipUnchanged, dbVars
    <3>2. indexed[p] # Null => Intact(p)
      <4>1. indexed[p] # Null => Offset(indexed[p]) \in Nat
        BY <3>1 DEF Offset, LineSize, IndexTypeOK, IndexedRow
      <4> QED BY <3>1, <4>1 DEF IndexNewLines, Intact
    <3> QED BY <3>1, <3>2, CaptionsAdded DEF IndexNewLines, Continues
  <2>3. CASE CleanupDeleted
    BY <2>3 DEF CleanupDeleted
  <2>4. CASE DeleteDatabase
    BY <2>4 DEF DeleteDatabase
  <2> QED BY <2>1, <2>2, <2>3, <2>4 DEF IndexNext, IndexStep
<1>3. UNCHANGED indexVars => Kept
  BY <1>1 DEF indexVars, dbVars
<1> QED
  BY <1>2, <1>3, IndexTypeCorrect, OwnerCorrect, NoFalseShrinkCorrect, CaptionsExactCorrect, PTL
     DEF IndexSpec, CaptionsPersist

-----------------------------------------------------------------------------
(* The captions of a program, by their line numbers.                         *)

(* No two captions of a program have one line number, and none is beyond the *)
(* lines its file was indexed to.                                            *)
CaptionsNumbered ==
  \A r \in Recordings : \A c \in captions[r] :
    /\ c.line_no <= indexed[programs[r].path].lines
    /\ \A d \in captions[r] : c.line_no = d.line_no => c = d

Gone(r) == programs'[r] = Null /\ captions'[r] = {}

Same(r) == programs[r] # Null /\ programs'[r].path = programs[r].path

(* The program keeps its captions as long as it keeps its file, and what is  *)
(* added has the numbers of lines that were not indexed before.              *)
ExtendedBy(r, new) ==
  LET n == indexed'[programs'[r].path].lines
      m == indexed[programs'[r].path].lines
  IN  /\ captions'[r] = (IF Same(r) THEN captions[r] ELSE {}) \cup new
      /\ \A c, d \in new : c.line_no = d.line_no => c = d
      /\ \A c \in new : c.line_no <= n /\ (Same(r) => m < c.line_no)
      /\ Same(r) => m <= n

Extended(r) == programs'[r] # Null /\ \E new \in SUBSET CaptionRow : ExtendedBy(r, new)

LEMMA NothingExtended ==
  ASSUME IndexTypeOK, OwnerConsistent, NEW r \in Recordings,
         programs'[r] = programs[r], captions'[r] = captions[r],
         \A q \in Path : programs[r] # Null /\ q = programs[r].path =>
           indexed'[q].lines = indexed[q].lines
  PROVE  Gone(r) \/ Extended(r)
<1>1. CASE programs[r] = Null
  BY <1>1 DEF Gone, OwnerConsistent
<1>2. CASE programs[r] # Null
  <2> DEFINE q == programs[r].path
  <2>1. q \in Path /\ indexed[q] # Null
    BY <1>2 DEF OwnerConsistent, IndexTypeOK, ProgramRow
  <2>2. indexed[q].lines \in Nat /\ indexed'[q].lines = indexed[q].lines
    BY <1>2, <2>1 DEF IndexTypeOK, IndexedRow
  <2>3. Same(r)
    BY <1>2 DEF Same
  <2>4. ExtendedBy(r, {})
    BY <2>2, <2>3 DEF ExtendedBy
  <2> QED BY <1>2, <2>4 DEF Extended
<1> QED BY <1>1, <1>2

(* A pass over the tail of a file.                                           *)
LEMMA TailExtends ==
  ASSUME IndexTypeOK, IndexTypeOK', OwnerConsistent, CaptionsNumbered, NEW p \in Path,
         indexed[p] # Null => indexed[p].lines <= Len(files[p].lines),
         IndexTail(p), NEW r \in Recordings
  PROVE  Gone(r) \/ Extended(r)
<1> DEFINE s == files[p].lines
           n == StartLine(p)
           eits == EitsAfter(s, n)
           new == CaptionsAt(s, CaptionLines(p))
<1>1. /\ programs' = [programs EXCEPT ![Recording(p)] =
                        IF eits = {} THEN @ ELSE [path |-> p, eit |-> LastOf(eits)]]
      /\ captions' = [captions EXCEPT ![Recording(p)] =
            (IF TakesOver(p) THEN {}
             ELSE {c \in captions[Recording(p)] : \A d \in new : d.line_no # c.line_no}) \cup new]
  BY DEF IndexTail
<1>2. /\ indexed'[p].lines = Len(s)
      /\ \A q \in Path : q # p /\ indexed[q] # Null => indexed'[q].lines = indexed[q].lines
  <2>1. indexed'[p].lines = EndLine(p)
    BY DEF IndexTail
  <2>2. ASSUME NEW q \in Path, q # p, indexed[q] # Null PROVE indexed'[q].lines = indexed[q].lines
    BY <2>2 DEF IndexTail
  <2> QED BY <2>1, <2>2 DEF EndLine
<1>3. s \in Seq(Lines) /\ Len(s) \in Nat /\ n \in 0..Len(s)
  BY LenProperties DEF IndexTypeOK, File, IndexedRow, StartLine
<1>4. /\ new \in SUBSET CaptionRow
      /\ \A c, d \in new : c.line_no = d.line_no => c = d
      /\ \A c \in new : n < c.line_no /\ c.line_no <= Len(s)
  <2>1. CaptionLines(p) \in SUBSET {i \in 1..Len(s) : i > n}
    BY <1>3, LenProperties DEF CaptionLines
  <2>2. \A i \in 1..Len(s) : s[i] \in Lines
    BY <1>3, ElementOfSeq
  <2> QED BY <1>3, <2>1, <2>2 DEF CaptionsAt, CaptionRow
<1>5. CASE r # Recording(p)
  <2>1. programs'[r] = programs[r] /\ captions'[r] = captions[r]
    BY <1>1, <1>5 DEF IndexTypeOK
  <2>2. ASSUME programs[r] # Null PROVE programs[r].path # p /\ indexed[programs[r].path] # Null
    BY <1>5, <2>2 DEF OwnerConsistent
  <2> QED BY <1>2, <2>1, <2>2, NothingExtended
<1>6. CASE r = Recording(p) /\ eits = {} /\ ~(programs[r] # Null /\ programs[r].path = p)
  <2>1. ~Linked(p)
    BY <1>6 DEF Linked, OwnerConsistent, IndexTypeOK, IndexedRow
  <2>2. ~TakesOver(p) /\ new = {}
    <3>1. CaptionLines(p) = {}
      BY <1>6, <2>1 DEF CaptionLines
    <3> QED BY <1>6, <3>1 DEF TakesOver, CaptionsAt
  <2> HIDE DEF eits, new
  <2>3. programs'[r] = programs[r] /\ captions'[r] = captions[r]
    BY <1>1, <1>6, <2>2 DEF IndexTypeOK
  <2>4. ASSUME programs[r] # Null PROVE programs[r].path # p /\ indexed[programs[r].path] # Null
    BY <1>6, <2>4 DEF OwnerConsistent
  <2> QED BY <1>2, <2>3, <2>4, NothingExtended
<1>7. CASE r = Recording(p) /\ (eits # {} \/ (programs[r] # Null /\ programs[r].path = p))
  <2>1. programs'[r] # Null /\ programs'[r].path = p
    <3>1. CASE eits = {}
      BY <1>1, <1>7, <3>1 DEF IndexTypeOK
    <3>2. CASE eits # {}
      <4>1. eits \in SUBSET (1..Len(s))
        BY <1>3, LenProperties DEF EitsAfter
      <4>2. LastOf(eits) \in Nat \ {0}
        <5> HIDE DEF eits
        <5> QED BY <1>3, <3>2, <4>1, LastOfPositive
      <4>3. [path |-> p, eit |-> LastOf(eits)] \in ProgramRow
        BY <4>2 DEF ProgramRow
      <4>4. programs'[r] = [path |-> p, eit |-> LastOf(eits)]
        BY <1>1, <1>7, <3>2 DEF IndexTypeOK
      <4> QED BY <4>3, <4>4, NullAssumption
    <3> QED BY <3>1, <3>2
  <2>2. TakesOver(p) <=> programs[r] # Null /\ ~Same(r)
    BY <1>7, <2>1 DEF TakesOver, Same
  <2>3. programs[r] = Null => captions[r] = {}
    BY DEF OwnerConsistent
  <2>4. Same(r) => /\ indexed[p] # Null /\ indexed[p].lines = n
                   /\ \A c \in captions[r] : c.line_no <= n
    BY <2>1 DEF Same, OwnerConsistent, StartLine, CaptionsNumbered
  <2>5. Same(r) => {c \in captions[r] : \A d \in new : d.line_no # c.line_no} = captions[r]
    <3> SUFFICES ASSUME Same(r), NEW c \in captions[r], NEW d \in new PROVE d.line_no # c.line_no
      OBVIOUS
    <3>1. PICK k \in Nat : k = c.line_no
      BY DEF IndexTypeOK, CaptionRow
    <3> HIDE DEF new, n
    <3>2. PICK l \in Nat : l = d.line_no
      BY <1>4 DEF CaptionRow
    <3> QED BY <1>3, <1>4, <2>4, <3>1, <3>2
  <2> HIDE DEF eits, new
  <2>6. captions'[r] = (IF Same(r) THEN captions[r] ELSE {}) \cup new
    <3>1. captions'[r] = (IF TakesOver(p) THEN {}
             ELSE {c \in captions[r] : \A d \in new : d.line_no # c.line_no}) \cup new
      BY <1>1, <1>7 DEF IndexTypeOK
    <3>2. programs[r] = Null => ~Same(r) /\ {c \in captions[r] : \A d \in new : d.line_no # c.line_no} = {}
      BY <2>3 DEF Same
    <3> QED BY <2>2, <2>5, <3>1, <3>2
  <2>7. ExtendedBy(r, new)
    BY <1>2, <1>3, <1>4, <2>1, <2>4, <2>6 DEF ExtendedBy
  <2> QED BY <1>4, <2>1, <2>7 DEF Extended
<1> QED BY <1>5, <1>6, <1>7

LEMMA NewLinesExtends ==
  ASSUME IndexTypeOK, IndexTypeOK', OwnerConsistent, CaptionsNumbered, NEW p \in Path,
         NEW size \in Nat, size <= Size(files[p]), IndexNewLines(p, size),
         NEW r \in Recordings
  PROVE  Gone(r) \/ Extended(r)
<1>1. ASSUME indexed[p] # Null PROVE indexed[p].lines <= Len(files[p].lines)
  <2>1. indexed[p].lines \in Nat /\ 2 * indexed[p].lines < size
    BY <1>1 DEF IndexNewLines, Offset, LineSize, IndexTypeOK, IndexedRow
  <2>2. /\ Len(files[p].lines) \in Nat /\ Size(files[p]) \in Nat
        /\ Size(files[p]) <= 2 * Len(files[p].lines) + 1
    <3>1. PICK f \in File : f = files[p]
      BY DEF IndexTypeOK
    <3>2. f.partial \in BOOLEAN
      BY DEF File
    <3> QED BY <3>1, <3>2, SizeBounds
  <2> QED BY <2>1, <2>2
<1> QED BY <1>1, TailExtends DEF IndexNewLines

LEMMA CollisionExtends ==
  ASSUME IndexTypeOK, OwnerConsistent, NEW p \in Path, MarkCollisionLoser(p),
         NEW r \in Recordings
  PROVE  Gone(r) \/ Extended(r)
<1>1. programs' = programs /\ captions' = captions /\ indexed[p] = Null
  BY DEF MarkCollisionLoser, LosesCollision
<1>2. \A q \in Path : q # p => indexed'[q] = indexed[q]
  BY DEF MarkCollisionLoser, IndexTypeOK
<1>3. programs[r] # Null => programs[r].path # p
  BY <1>1 DEF OwnerConsistent
<1> QED BY <1>1, <1>2, <1>3, NothingExtended

LEMMA CleanupExtends ==
  ASSUME IndexTypeOK, OwnerConsistent, CleanupDeleted, NEW r \in Recordings
  PROVE  Gone(r) \/ Extended(r)
<1>1. CASE programs[r] # Null /\ programs[r].path \notin GonePaths
  <2>1. programs'[r] = programs[r] /\ captions'[r] = captions[r]
    BY <1>1 DEF CleanupDeleted
  <2>2. ASSUME NEW q \in Path, q = programs[r].path PROVE indexed'[q].lines = indexed[q].lines
    <3>1. indexed[q] # Null /\ indexed[q] \in IndexedRow
      BY <1>1, <2>2 DEF OwnerConsistent, IndexTypeOK
    <3>2. \/ indexed'[q] = indexed[q]
          \/ indexed'[q] = [indexed[q] EXCEPT !.program_id = Null]
      BY <1>1, <2>2, <3>1 DEF CleanupDeleted
    <3> QED BY <3>1, <3>2 DEF IndexedRow
  <2> QED BY <2>1, <2>2, NothingExtended
<1>2. CASE programs[r] = Null \/ programs[r].path \in GonePaths
  BY <1>2 DEF CleanupDeleted, Gone, OwnerConsistent
<1> QED BY <1>1, <1>2

(* Line numbers stay unique and within the indexed lines.                    *)
LEMMA NumberedExtended ==
  ASSUME IndexTypeOK, IndexTypeOK', OwnerConsistent, OwnerConsistent', CaptionsNumbered,
         \A r \in Recordings : Gone(r) \/ Extended(r)
  PROVE  CaptionsNumbered'
<1> SUFFICES ASSUME NEW r \in Recordings, NEW c \in captions'[r]
             PROVE  /\ c.line_no <= indexed'[programs'[r].path].lines
                    /\ \A d \in captions'[r] : c.line_no = d.line_no => c = d
  BY DEF CaptionsNumbered
<1>1. Extended(r)
  BY DEF Gone
<1>2. PICK new \in SUBSET CaptionRow : ExtendedBy(r, new)
  BY <1>1 DEF Extended
<1>3. PICK n : n = indexed'[programs'[r].path].lines
  OBVIOUS
<1>4. PICK m : m = indexed[programs'[r].path].lines
  OBVIOUS
<1>5. \A d \in captions[r] : d \in CaptionRow /\ d.line_no \in Nat
  BY DEF IndexTypeOK, CaptionRow
<1>6. \A d \in new : d.line_no \in Nat
  BY DEF CaptionRow
<1>7. CASE ~Same(r)
  BY <1>2, <1>7 DEF ExtendedBy
<1>8. CASE Same(r)
  <2>1. captions'[r] = captions[r] \cup new /\ m <= n
        /\ (\A d, e \in new : d.line_no = e.line_no => d = e)
        /\ \A d \in new : d.line_no <= n /\ m < d.line_no
    BY <1>2, <1>3, <1>4, <1>8 DEF ExtendedBy
  <2>2. \A d \in captions[r] : /\ d.line_no <= m
                               /\ \A e \in captions[r] : d.line_no = e.line_no => d = e
    BY <1>4, <1>8 DEF Same, CaptionsNumbered
  <2>3. m \in Nat /\ n \in Nat
    <3>1. programs'[r].path \in Path
      BY <1>1 DEF Extended, IndexTypeOK, ProgramRow
    <3>2. indexed[programs'[r].path] # Null
      BY <1>8 DEF Same, OwnerConsistent
    <3>3. m \in Nat
      BY <1>4, <3>1, <3>2 DEF IndexTypeOK, IndexedRow
    <3>4. indexed'[programs'[r].path] # Null
      BY <1>1 DEF Extended, OwnerConsistent
    <3> QED BY <1>3, <3>1, <3>3, <3>4 DEF IndexTypeOK, IndexedRow
  <2>4. c.line_no <= n
    BY <1>5, <1>6, <2>1, <2>2, <2>3
  <2>5. ASSUME NEW d \in captions'[r], c.line_no = d.line_no PROVE c = d
    BY <1>5, <1>6, <2>1, <2>2, <2>3, <2>5
  <2> QED BY <1>3, <2>4, <2>5
<1> QED BY <1>7, <1>8

(* A pass over a file touches one program.                                   *)
LEMMA IndexTailOne ==
  ASSUME IndexTypeOK, NEW p \in Path, IndexTail(p), NEW r \in Recordings, r # Recording(p)
  PROVE  programs'[r] = programs[r]
BY DEF IndexTail, IndexTypeOK
=============================================================================
