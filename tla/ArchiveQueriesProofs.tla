------------------------- MODULE ArchiveQueriesProofs -------------------------
(* Proofs about the answers to queries, for every archive, every request and *)
(* every interleaving of its statements with the writer.                     *)
EXTENDS ArchiveQueries, SearchIndexProofs, DataLemmas

-----------------------------------------------------------------------------
(* The stored state: the index and what the queries read beside it.          *)

(* A program has an id of its own.                                           *)
IdsUnique ==
  /\ ids \in [Recordings -> (Nat \ {0}) \cup {Null}]
  /\ \A r \in Recordings : ids[r] = Null <=> programs[r] = Null
  /\ \A r, q \in Recordings : ids[r] # Null /\ ids[r] = ids[q] => r = q
  /\ \E n \in Nat : UsedIds \subseteq 1..n

(* Each caption of a program is the line of its file that it is numbered as, *)
(* as long as the file is there.                                             *)
ShownIn(shown, lines) ==
  \A c \in shown : c.line_no \in 1..Len(lines) /\ lines[c.line_no] = c.text

FileShows(p, shown) ==
  files[p].state # "unused" /\ (Present(p) => ShownIn(shown, files[p].lines))

UsedPaths == {p \in Path : files[p].state # "unused"}

StoredInv ==
  /\ IndexTypeOK /\ OwnerConsistent /\ CaptionsNumbered
  /\ IdsUnique
  /\ \A r \in Rows : described[r] \in Lines /\ FileShows(programs[r].path, captions[r])
  /\ IsFiniteSet(UsedPaths)
  /\ caption_fts = CaptionRows /\ program_fts = ProgramRows

-----------------------------------------------------------------------------
(* The writer.                                                               *)

ArchiveMove(p) ==
  \/ \E line \in Lines : StartFile(p, line) \/ AppendLine(p, line)
  \/ RemoveFile(p)

LEMMA WriterMoves ==
  ASSUME WriterStep
  PROVE  \/ CleanupDeleted
         \/ \E p \in Path : IngestFile(p) \/ ArchiveMove(p)
BY QueryAssumption DEF WriterStep, ArchiveMove

(* What the recorder and the collector do to the files.                      *)
LEMMA FilesMove ==
  ASSUME IndexTypeOK, NEW p \in Path, ArchiveMove(p)
  PROVE  /\ UNCHANGED <<dbVars, tx>> /\ files' \in [Path -> File]
         /\ \A q \in Path : q # p => files'[q] = files[q]
         /\ \/ files[p].state = "unused" /\ files'[p].state = "open"
            \/ /\ files[p].state = "open" /\ files'[p].state = "open"
               /\ \E line \in Lines : files'[p].lines = Append(files[p].lines, line)
            \/ Present(p) /\ files'[p].state = "removed"
<1> USE DEF IndexTypeOK
<1>0. files[p] \in File /\ files[p].lines \in Seq(Lines)
  BY DEF File
<1>1. ASSUME NEW line \in Lines, StartFile(p, line)
      PROVE  /\ UNCHANGED <<dbVars, tx>> /\ files' \in [Path -> File]
             /\ \A q \in Path : q # p => files'[q] = files[q]
             /\ files[p].state = "unused" /\ files'[p].state = "open"
  <2>1. Created \in File /\ Created.state = "open"
    BY ConstantFiles DEF Created
  <2>2. WithNewline(Created, line) \in File /\ WithNewline(Created, line).state = "open"
    BY <2>1, FileOperations DEF WithNewline, File
  <2> QED BY <1>1, <2>2 DEF StartFile
<1>2. ASSUME NEW line \in Lines, AppendLine(p, line)
      PROVE  /\ UNCHANGED <<dbVars, tx>> /\ files' \in [Path -> File]
             /\ \A q \in Path : q # p => files'[q] = files[q]
             /\ files[p].state = "open" /\ files'[p].state = "open"
             /\ files'[p].lines = Append(files[p].lines, line)
  <2>1. /\ WithText(files[p]) \in File /\ WithText(files[p]).lines = files[p].lines
        /\ WithText(files[p]).state = files[p].state
    BY <1>0, <1>2, FileOperations DEF WithText, File
  <2>2. /\ WithNewline(WithText(files[p]), line) \in File
        /\ WithNewline(WithText(files[p]), line).state = files[p].state
        /\ WithNewline(WithText(files[p]), line).lines = Append(files[p].lines, line)
    BY <2>1, FileOperations DEF WithNewline, File
  <2> QED BY <1>2, <2>2 DEF AppendLine
<1>3. ASSUME RemoveFile(p)
      PROVE  /\ UNCHANGED <<dbVars, tx>> /\ files' \in [Path -> File]
             /\ \A q \in Path : q # p => files'[q] = files[q]
             /\ Present(p) /\ files'[p].state = "removed"
  BY <1>3, ConstantFiles DEF RemoveFile, Removed
<1> QED BY <1>1, <1>2, <1>3 DEF ArchiveMove

LEMMA CollisionSound ==
  ASSUME IndexTypeOK, OwnerConsistent, NEW p \in Path, MarkCollisionLoser(p), UNCHANGED <<files, tx>>
  PROVE  IndexTypeOK' /\ OwnerConsistent'
<1>1. IndexTypeOK'
  BY DEF MarkCollisionLoser, IndexTypeOK, IndexedRow
<1>2. OwnerConsistent'
  BY NullAssumption DEF MarkCollisionLoser, LosesCollision, OwnerConsistent, IndexTypeOK,
     IndexedRow, ProgramRow
<1> QED BY <1>1, <1>2

(* The index stays well formed, its tables agree, and captions are added     *)
(* only beyond the indexed lines.                                            *)
LEMMA WriterIndex ==
  ASSUME IndexTypeOK, OwnerConsistent, CaptionsNumbered, WriterStep
  PROVE  /\ IndexTypeOK' /\ OwnerConsistent' /\ CaptionsNumbered'
         /\ \E one : \A r \in Recordings : programs[r] = Null /\ programs'[r] # Null => r = one
<1> SUFFICES /\ IndexTypeOK' /\ OwnerConsistent'
             /\ \A r \in Recordings : Gone(r) \/ Extended(r)
             /\ \E one : \A r \in Recordings : programs[r] = Null /\ programs'[r] # Null => r = one
  BY NumberedExtended
<1>1. CASE CleanupDeleted
  <2>1. [IndexNext]_indexVars
    BY <1>1 DEF IndexNext, IndexStep
  <2>2. \A r \in Recordings : programs'[r] = Null \/ programs'[r] = programs[r]
    BY <1>1 DEF CleanupDeleted
  <2> QED BY <1>1, <2>1, <2>2, IndexTypeStep, OwnerStep, CleanupExtends
<1>2. ASSUME NEW p \in Path, IngestFile(p), MarkCollisionLoser(p)
      PROVE  /\ IndexTypeOK' /\ OwnerConsistent'
             /\ \A r \in Recordings : Gone(r) \/ Extended(r)
             /\ programs' = programs
  <2>1. IndexTypeOK' /\ OwnerConsistent'
    BY <1>2, CollisionSound DEF IngestFile
  <2> QED BY <1>2, <2>1, CollisionExtends DEF MarkCollisionLoser
<1>3. ASSUME NEW p \in Path, IngestFile(p), IndexNewLines(p, Size(files[p]))
      PROVE  /\ IndexTypeOK' /\ OwnerConsistent'
             /\ \A r \in Recordings : Gone(r) \/ Extended(r)
             /\ \A r \in Recordings : r # Recording(p) => programs'[r] = programs[r]
  <2>1. IndexTail(p) /\ UNCHANGED <<files, tx>>
    BY <1>3 DEF IngestFile, IndexNewLines
  <2>2. IndexTypeOK'
    BY <2>1, IndexTailType DEF IndexTypeOK
  <2>3. Size(files[p]) \in Nat
    BY SizeBounds DEF IndexTypeOK
  <2> QED BY <1>3, <2>1, <2>2, <2>3, OwnerIndexTail, NewLinesExtends, IndexTailOne
<1>4. ASSUME NEW p \in Path, ArchiveMove(p)
      PROVE  /\ IndexTypeOK' /\ OwnerConsistent'
             /\ \A r \in Recordings : Gone(r) \/ Extended(r)
             /\ programs' = programs
  <2>1. UNCHANGED <<dbVars, tx>> /\ files' \in [Path -> File]
    BY <1>4, FilesMove
  <2>2. IndexTypeOK' /\ OwnerConsistent'
    BY <2>1 DEF IndexTypeOK, OwnerConsistent, dbVars
  <2> QED BY <2>1, <2>2, NothingExtended DEF dbVars
<1> QED BY <1>1, <1>2, <1>3, <1>4, WriterMoves DEF IngestFile

-----------------------------------------------------------------------------
(* The ids of the programs.                                                  *)

LEMMA NextIdFresh ==
  ASSUME NEW n \in Nat, UsedIds \subseteq 1..n
  PROVE  /\ NextId \in 1..n + 1
         /\ \A i \in UsedIds : i < NextId
<1>1. CASE UsedIds = {}
  BY <1>1 DEF NextId
<1>2. CASE UsedIds # {}
  <2>1. NextId = 1 + LastOf(UsedIds)
    BY <1>2 DEF NextId, LastOf
  <2>2. PICK m \in UsedIds : m = LastOf(UsedIds) /\ \A j \in UsedIds : j <= m
    BY <1>2, LastOfType
  <2>3. m \in 1..n /\ \A j \in UsedIds : j \in 1..n
    OBVIOUS
  <2> QED BY <2>1, <2>2, <2>3
<1> QED BY <1>1, <1>2

LEMMA IdsNext ==
  ASSUME IndexTypeOK, OwnerConsistent, CaptionsNumbered, IdsUnique, WriterStep
  PROVE  IdsUnique'
<1>1. PICK n \in Nat : UsedIds \subseteq 1..n
  BY DEF IdsUnique
<1>2. PICK next \in 1..n + 1 : next = NextId /\ \A i \in UsedIds : i < next
  BY <1>1, NextIdFresh
<1>3. PICK one : \A r \in Recordings : programs[r] = Null /\ programs'[r] # Null => r = one
  BY WriterIndex
<1>4. ids' = [r \in Recordings |-> IF programs'[r] = Null THEN Null
                                   ELSE IF programs[r] = Null THEN next ELSE ids[r]]
  BY <1>2 DEF WriterStep, AssignIds
<1>5. \A r \in Recordings : ids[r] # Null => ids[r] \in UsedIds /\ ids[r] \in 1..n
  BY <1>1 DEF UsedIds
<1>6. next \in Nat /\ next # Null /\ next # 0
  BY IdAssumption
<1>7. \A r \in Recordings : ids'[r] = Null <=> programs'[r] = Null
  BY <1>4, <1>6 DEF IdsUnique
<1>8. ASSUME NEW r \in Recordings, NEW q \in Recordings, ids'[r] # Null, ids'[r] = ids'[q]
      PROVE  r = q
  <2>1. \A o \in Recordings : ids[o] # next
    <3> SUFFICES ASSUME NEW o \in Recordings, ids[o] = next PROVE FALSE
      OBVIOUS
    <3>1. next \in UsedIds
      BY <1>5, <1>6
    <3>2. next < next /\ next \in Int
      BY <1>2, <3>1
    <3> QED BY <3>2
  <2> QED BY <1>3, <1>4, <1>7, <1>8, <2>1 DEF IdsUnique
<1>9. UsedIds' \subseteq 1..n + 1
  <2>1. ASSUME NEW r \in Recordings, ids'[r] # Null PROVE ids'[r] \in 1..n + 1
    <3>1. ids'[r] = next \/ (ids'[r] = ids[r] /\ ids[r] # Null)
      BY <1>4, <1>7, <2>1 DEF IdsUnique
    <3> QED BY <1>5, <3>1
  <2> QED BY <2>1 DEF UsedIds
<1>10. ids' \in [Recordings -> (Nat \ {0}) \cup {Null}]
  <2>1. ids \in [Recordings -> (Nat \ {0}) \cup {Null}]
    BY DEF IdsUnique
  <2>2. \A r \in Recordings : ids[r] \in (Nat \ {0}) \cup {Null}
    BY <2>1
  <2>3. next \in Nat \ {0}
    BY <1>6
  <2> DEFINE Id == (Nat \ {0}) \cup {Null}
  <2>4. next \in Id /\ Null \in Id /\ \A r \in Recordings : ids[r] \in Id
    BY <2>2, <2>3
  <2> HIDE DEF Id
  <2>5. ids' \in [Recordings -> Id]
    BY <1>4, <2>4
  <2> QED BY <2>5 DEF Id
<1>11. \E m \in Nat : UsedIds' \subseteq 1..m
  BY <1>9, n + 1 \in Nat
<1> QED BY <1>7, <1>8, <1>10, <1>11 DEF IdsUnique

-----------------------------------------------------------------------------
(* The rows and the files they were read from.                               *)

(* The first lines of a file stay what they are while it grows.              *)
LEMMA ShownAppend ==
  ASSUME NEW s \in Seq(Lines), NEW line \in Lines, NEW shown, ShownIn(shown, s)
  PROVE  ShownIn(shown, Append(s, line))
<1>1. PICK t \in Seq(Lines) : t = Append(s, line)
  BY AppendProperties
<1>2. Len(t) = Len(s) + 1 /\ \A i \in 1..Len(s) : t[i] = s[i]
  BY <1>1, AppendProperties
<1>3. \A i \in 1..Len(s) : i \in 1..Len(t)
  BY <1>2, LenProperties
<1> QED BY <1>1, <1>2, <1>3 DEF ShownIn

LEMMA FileShowsMove ==
  ASSUME IndexTypeOK, NEW p \in Path, ArchiveMove(p), NEW q \in Path, NEW shown,
         FileShows(q, shown)
  PROVE  FileShows(q, shown)'
<1>1. CASE q # p
  BY <1>1, FilesMove DEF FileShows, Present
<1>2. CASE q = p
  <2>1. PICK s \in Seq(Lines) : s = files[p].lines
    BY DEF IndexTypeOK, File
  <2>2. ASSUME files[p].state = "open", NEW line \in Lines, files'[p].lines = Append(s, line)
        PROVE  ShownIn(shown, files'[p].lines)
    BY <1>2, <2>1, <2>2, ShownAppend DEF FileShows, Present
  <2> QED BY <1>2, <2>1, <2>2, FilesMove DEF FileShows, Present
<1> QED BY <1>1, <1>2

(* A pass reads the rows from the file.                                      *)
LEMMA TailShows ==
  ASSUME IndexTypeOK, OwnerConsistent, NEW p \in Path, Present(p), IndexTail(p),
         programs[Recording(p)] # Null =>
           FileShows(programs[Recording(p)].path, captions[Recording(p)]),
         programs'[Recording(p)] # Null
  PROVE  LET r == Recording(p)
         IN  /\ ShownIn(captions'[r], files[programs'[r].path].lines) \/ ~Present(programs'[r].path)
             /\ files[programs'[r].path].state # "unused"
             /\ programs'[r] # programs[r] =>
                  files[programs'[r].path].lines[programs'[r].eit] \in Lines
<1> DEFINE r == Recording(p)
           s == files[p].lines
           eits == EitsAfter(s, StartLine(p))
           new == CaptionsAt(s, CaptionLines(p))
           kept == IF TakesOver(p) THEN {}
                   ELSE {c \in captions[r] : \A d \in new : d.line_no # c.line_no}
<1>1. /\ programs' = [programs EXCEPT ![r] =
                        IF eits = {} THEN @ ELSE [path |-> p, eit |-> LastOf(eits)]]
      /\ captions' = [captions EXCEPT ![r] = kept \cup new]
  BY DEF IndexTail
<1>2. s \in Seq(Lines) /\ Len(s) \in Nat /\ DOMAIN s = 1..Len(s) /\ r \in Recordings
  BY RecordingType, LenProperties DEF IndexTypeOK, File
<1>3. ShownIn(new, s)
  <2>1. CaptionLines(p) \subseteq 1..Len(s)
    BY <1>2 DEF CaptionLines
  <2> QED BY <2>1 DEF CaptionsAt, ShownIn
<1>4. eits \in SUBSET (1..Len(s)) /\ (eits # {} => LastOf(eits) \in 1..Len(s))
  <2>1. eits \in SUBSET (1..Len(s))
    BY <1>2 DEF EitsAfter
  <2> HIDE DEF eits
  <2> QED BY <1>2, <2>1, LastOfType
<1> HIDE DEF r, s, eits, new
<1>5. /\ captions'[r] = kept \cup new
      /\ programs'[r] = IF eits = {} THEN programs[r] ELSE [path |-> p, eit |-> LastOf(eits)]
  BY <1>1, <1>2 DEF IndexTypeOK
<1>6. files[p].state # "unused"
  BY DEF Present
<1>7. CASE eits = {}
  <2>1. programs'[r] = programs[r] /\ programs[r] # Null /\ ~TakesOver(p)
    BY <1>5, <1>7 DEF TakesOver, eits, s, r
  <2>2. kept \subseteq captions[r] /\ FileShows(programs[r].path, captions[r])
    BY <2>1 DEF r
  <2>3. CASE programs[r].path = p
    BY <1>3, <1>5, <2>1, <2>2, <2>3 DEF FileShows, ShownIn, s, r
  <2>4. CASE programs[r].path # p
    <3>1. new = {}
      <4>1. ~Linked(p)
        BY <2>4 DEF Linked, OwnerConsistent, IndexTypeOK, IndexedRow, r
      <4>2. CaptionLines(p) = {}
        BY <1>7, <4>1 DEF CaptionLines, eits, s
      <4> QED BY <4>2 DEF CaptionsAt, new
    <3> QED BY <1>5, <2>1, <2>2, <3>1 DEF FileShows, ShownIn, r
  <2> QED BY <2>3, <2>4
<1>8. CASE eits # {}
  <2>1. programs'[r].path = p /\ programs'[r].eit = LastOf(eits)
    BY <1>5, <1>8
  <2>2. ShownIn(kept, s)
    <3>1. CASE TakesOver(p)
      BY <3>1 DEF ShownIn
    <3>2. CASE ~TakesOver(p)
      <4>1. programs[r] = Null \/ programs[r].path = p
        BY <1>8, <3>2 DEF TakesOver, eits, s, r
      <4>2. programs[r] = Null => captions[r] = {}
        BY <1>2 DEF OwnerConsistent
      <4>3. programs[r] # Null => ShownIn(captions[r], s)
        BY <4>1 DEF FileShows, r, s
      <4>4. kept \subseteq captions[r]
        BY <3>2
      <4> HIDE DEF kept
      <4> QED BY <4>2, <4>3, <4>4 DEF ShownIn
    <3> QED BY <3>1, <3>2
  <2>3. ShownIn(kept \cup new, s)
    BY <1>3, <2>2 DEF ShownIn
  <2>4. s[LastOf(eits)] \in Lines
    BY <1>2, <1>4, <1>8, ElementOfSeq
  <2> QED BY <1>5, <1>6, <2>1, <2>3, <2>4 DEF r, s
<1> QED BY <1>7, <1>8

(* The program of a row keeps its text; the row of a new one is described by *)
(* an EIT of its file.                                                       *)
LEMMA RowsNext ==
  ASSUME StoredInv, WriterStep, NEW r \in Recordings, programs'[r] # Null
  PROVE  described'[r] \in Lines /\ FileShows(programs[r].path, captions[r])'
<1> USE DEF StoredInv
<1>0. /\ \A q \in Recordings : programs[q] # Null =>
           described[q] \in Lines /\ FileShows(programs[q].path, captions[q])
      /\ programs[r] # Null => programs[r].path \in Path
  BY DEF Rows, IndexTypeOK, ProgramRow
<1>1. described'[r] = IF programs'[r] = programs[r] THEN described[r]
                      ELSE files[programs'[r].path].lines[programs'[r].eit]
  BY DEF WriterStep, Describe
<1>2. CASE programs'[r] = programs[r] /\ captions'[r] = captions[r] /\ files' = files
  BY <1>0, <1>1, <1>2 DEF FileShows, Present
<1>3. CASE CleanupDeleted
  BY <1>2, <1>3 DEF CleanupDeleted
<1>4. ASSUME NEW p \in Path, IngestFile(p)
      PROVE  described'[r] \in Lines /\ FileShows(programs[r].path, captions[r])'
  <2>1. files' = files /\ Present(p)
    BY <1>4 DEF IngestFile
  <2>2. CASE MarkCollisionLoser(p)
    BY <1>2, <2>1, <2>2 DEF MarkCollisionLoser
  <2>3. CASE IndexTail(p) /\ r # Recording(p)
    <3>1. programs'[r] = programs[r] /\ captions'[r] = captions[r]
      BY <2>3 DEF IndexTail, IndexTypeOK
    <3> QED BY <1>2, <2>1, <3>1
  <2>4. CASE IndexTail(p) /\ r = Recording(p)
    <3>1. /\ ShownIn(captions'[r], files[programs'[r].path].lines) \/ ~Present(programs'[r].path)
          /\ files[programs'[r].path].state # "unused"
          /\ programs'[r] # programs[r] =>
               files[programs'[r].path].lines[programs'[r].eit] \in Lines
      BY <1>0, <2>1, <2>4, TailShows
    <3> QED BY <1>0, <1>1, <2>1, <3>1 DEF FileShows, Present
  <2> QED BY <1>4, <2>2, <2>3, <2>4 DEF IngestFile, IndexNewLines
<1>5. ASSUME NEW p \in Path, ArchiveMove(p)
      PROVE  described'[r] \in Lines /\ FileShows(programs[r].path, captions[r])'
  <2>1. programs' = programs /\ captions' = captions
    BY <1>5, FilesMove DEF dbVars
  <2>2. PICK q \in Path : q = programs[r].path
    BY <1>0, <2>1
  <2>3. PICK shown : shown = captions[r]
    OBVIOUS
  <2>4. FileShows(q, shown)'
    BY <1>0, <1>5, <2>1, <2>2, <2>3, FileShowsMove
  <2> QED BY <1>0, <1>1, <2>1, <2>2, <2>3, <2>4 DEF FileShows
<1> QED BY <1>3, <1>4, <1>5, WriterMoves

LEMMA UsedNext ==
  ASSUME StoredInv, WriterStep
  PROVE  IsFiniteSet(UsedPaths')
<1> USE DEF StoredInv
<1>1. CASE files' = files
  BY <1>1 DEF UsedPaths
<1>2. ASSUME NEW p \in Path, ArchiveMove(p) PROVE IsFiniteSet(UsedPaths')
  <2>1. UsedPaths' \in SUBSET (UsedPaths \cup {p})
    BY <1>2, FilesMove DEF UsedPaths
  <2>2. IsFiniteSet(UsedPaths \cup {p})
    BY FS_AddElement
  <2> QED BY <2>1, <2>2, FS_Subset
<1> QED BY <1>1, <1>2, WriterMoves DEF CleanupDeleted, IngestFile

LEMMA StoredNext == StoredInv /\ WriterStep => StoredInv'
<1> SUFFICES ASSUME StoredInv, WriterStep PROVE StoredInv'
  OBVIOUS
<1>1. IndexTypeOK' /\ OwnerConsistent' /\ CaptionsNumbered'
  BY WriterIndex DEF StoredInv
<1>2. IdsUnique'
  BY IdsNext DEF StoredInv
<1>3. \A r \in Rows' : described'[r] \in Lines /\ FileShows(programs[r].path, captions[r])'
  BY RowsNext DEF Rows
<1>4. caption_fts' = CaptionRows' /\ program_fts' = ProgramRows'
  <2>1. \A fts, new : Triggered(fts, fts, new) = new
    BY DEF Triggered
  <2> QED BY <2>1 DEF StoredInv, WriterStep, CaptionTriggers, ProgramTriggers
<1>5. IsFiniteSet(UsedPaths')
  BY UsedNext
<1> QED BY <1>1, <1>2, <1>3, <1>4, <1>5 DEF StoredInv

LEMMA StoredSame == StoredInv /\ UNCHANGED storedVars => StoredInv'
<1> SUFFICES ASSUME StoredInv, UNCHANGED storedVars PROVE StoredInv'
  OBVIOUS
<1>1. /\ UNCHANGED <<files, programs, captions, indexed, ids, tx>>
      /\ UNCHANGED <<described, caption_fts, program_fts>>
  BY DEF storedVars, writerVars, indexVars, dbVars
<1>2. IndexTypeOK' /\ OwnerConsistent' /\ CaptionsNumbered'
  BY <1>1 DEF StoredInv, IndexTypeOK, OwnerConsistent, CaptionsNumbered
<1>3. IdsUnique'
  BY <1>1 DEF StoredInv, IdsUnique, UsedIds
<1>4. Rows' = Rows /\ CaptionRows' = CaptionRows /\ ProgramRows' = ProgramRows
  BY <1>1 DEF Rows, CaptionRows, ProgramRows
<1>5. \A p, shown : FileShows(p, shown)' <=> FileShows(p, shown)
  BY <1>1 DEF FileShows, Present
<1> QED BY <1>1, <1>2, <1>3, <1>4, <1>5 DEF StoredInv, UsedPaths

LEMMA StoredInit == QueryInit => StoredInv
<1> SUFFICES ASSUME QueryInit PROVE StoredInv
  OBVIOUS
<1>1. IndexInit /\ ids = [r \in Recordings |-> Null]
  BY DEF QueryInit, WriterInit
<1>2. IndexTypeOK /\ OwnerConsistent
  BY <1>1, IndexTypeInit DEF IndexInit, OwnerConsistent
<1>3. CaptionsNumbered
  BY <1>1 DEF IndexInit, CaptionsNumbered
<1>4. IdsUnique
  <2>1. UsedIds \subseteq 1..0
    BY <1>1 DEF UsedIds
  <2> QED BY <1>1, <2>1 DEF IndexInit, IdsUnique
<1>5. UsedPaths = {} /\ Rows = {} /\ CaptionRows = {} /\ ProgramRows = {}
  BY <1>1 DEF IndexInit, FilesInit, NewFile, UsedPaths, Rows, CaptionRows, ProgramRows
<1> QED BY <1>2, <1>3, <1>4, <1>5, FS_EmptySet DEF StoredInv, QueryInit

-----------------------------------------------------------------------------
(* A raw request.                                                            *)

RawRequest ==
  [kind : {"raw"}, stage : {"found", "checked", "reading"}, path : Path, body : Seq(Lines),
   unlinked : Seq(Lines) \cup {Null}, shown : SUBSET CaptionRow]

IsRaw == request # Null /\ request.kind = "raw"

(* Until the file is open, what the index showed is what the file has, if it *)
(* is there; then it is what the handle reads, and the body its first lines. *)
RawSound ==
  /\ request \in RawRequest
  /\ request.stage # "reading" =>
       /\ request.unlinked = Null /\ request.body = <<>>
       /\ FileShows(request.path, request.shown)
  /\ request.stage = "reading" =>
       /\ files[request.path].state # "unused"
       /\ request.unlinked = Null <=> Present(request.path)
       /\ ShownIn(request.shown, Content)
       /\ Len(request.body) <= Len(Content)
       /\ \A i \in 1..Len(request.body) : request.body[i] = Content[i]

RawInv == StoredInv /\ (IsRaw => RawSound)

LEMMA ContentType ==
  ASSUME IndexTypeOK, RawSound
  PROVE  Content \in Seq(Lines)
BY DEF IndexTypeOK, File, RawSound, RawRequest, Content

(* A step of the request, with what the writer keeps.                        *)
LEMMA RawStart ==
  ASSUME StoredInv, NEW r \in Recordings, RawFind(r)
  PROVE  RawSound'
<1>1. /\ UNCHANGED files /\ programs[r] # Null
      /\ request' = [kind |-> "raw", stage |-> "found", path |-> programs[r].path,
                     body |-> <<>>, unlinked |-> Null, shown |-> captions[r]]
  BY DEF RawFind, storedVars, writerVars, indexVars
<1>2. programs[r].path \in Path /\ captions[r] \in SUBSET CaptionRow
  BY <1>1 DEF StoredInv, IndexTypeOK, ProgramRow
<1>3. request' \in RawRequest
  BY <1>1, <1>2 DEF RawRequest
<1>4. FileShows(programs[r].path, captions[r])
  BY <1>1 DEF StoredInv, Rows
<1> QED BY <1>1, <1>3, <1>4 DEF RawSound, FileShows, Present

LEMMA RawChecked ==
  ASSUME RawSound, RawStat
  PROVE  RawSound'
<1>1. /\ UNCHANGED files /\ request.stage = "found"
      /\ request' = [request EXCEPT !.stage = "checked"]
  BY DEF RawStat, Asking, storedVars, writerVars, indexVars
<1>2. /\ request' \in RawRequest /\ request'.stage = "checked"
      /\ request'.unlinked = request.unlinked /\ request'.body = request.body
      /\ request'.path = request.path /\ request'.shown = request.shown
  BY <1>1 DEF RawSound, RawRequest
<1> QED BY <1>1, <1>2 DEF RawSound, FileShows, Present

LEMMA RawOpened ==
  ASSUME IndexTypeOK, RawSound, RawOpen
  PROVE  RawSound'
<1>1. /\ UNCHANGED files /\ request.stage = "checked" /\ Present(request.path)
      /\ request' = [request EXCEPT !.stage = "reading"]
  BY DEF RawOpen, Asking, storedVars, writerVars, indexVars
<1>2. /\ request' \in RawRequest /\ request'.stage = "reading"
      /\ request'.unlinked = request.unlinked /\ request'.body = request.body
      /\ request'.path = request.path /\ request'.shown = request.shown
  BY <1>1 DEF RawSound, RawRequest
<1>3. request.unlinked = Null /\ request.body = <<>> /\ FileShows(request.path, request.shown)
  BY <1>1 DEF RawSound
<1>4. Content' = files[request.path].lines
  BY <1>1, <1>2, <1>3 DEF Content
<1>5. files[request.path].lines \in Seq(Lines) /\ Len(files[request.path].lines) \in Nat
  BY LenProperties DEF IndexTypeOK, File, RawSound, RawRequest
<1> QED BY <1>1, <1>2, <1>3, <1>4, <1>5 DEF RawSound, FileShows, Present

LEMMA RawChunk ==
  ASSUME IndexTypeOK, RawSound, RawRead
  PROVE  RawSound'
<1>1. /\ UNCHANGED files /\ request.stage = "reading"
      /\ request' = [request EXCEPT !.body = First(Content, Len(@) + ChunkLines)]
  BY DEF RawRead, Asking, storedVars, writerVars, indexVars
<1>2. PICK s \in Seq(Lines) : s = Content
  BY ContentType
<1>3. PICK body : body = First(Content, Len(request.body) + ChunkLines)
  OBVIOUS
<1>4. Len(request.body) \in Nat /\ Len(s) \in Nat /\ ChunkLines \in Nat \ {0}
  BY <1>2, LenProperties, QueryAssumption DEF RawSound, RawRequest
<1>5. PICK n \in 0..Len(s) : body = SubSeq(s, 1, n)
  BY <1>2, <1>3, <1>4 DEF First
<1>6. body \in Seq(Lines) /\ Len(body) = n /\ \A i \in 1..n : body[i] = s[i]
  BY <1>5, <1>4, SubSeqProperties
<1>7. /\ request' \in RawRequest /\ request'.stage = "reading"
      /\ request'.unlinked = request.unlinked /\ request'.body = body
      /\ request'.path = request.path /\ request'.shown = request.shown
  BY <1>1, <1>3, <1>6 DEF RawSound, RawRequest
<1>8. Content' = s
  BY <1>1, <1>2, <1>7 DEF Content
<1> QED BY <1>1, <1>2, <1>4, <1>6, <1>7, <1>8 DEF RawSound, Present

(* The writer leaves the handle what it reads, and appends to it.            *)
LEMMA RawKept ==
  ASSUME StoredInv, WriterStep, IsRaw, RawSound
  PROVE  RawSound'
<1> DEFINE p == request.path
<1>1. IndexTypeOK
  BY DEF StoredInv
<1>2. p \in Path /\ request \in RawRequest
  BY DEF RawSound, RawRequest
<1>3. CASE files' = files
  <2>1. request' = request
    BY <1>3 DEF WriterStep, KeepHandle, Present
  <2> QED BY <1>3, <2>1 DEF RawSound, FileShows, Present, Content
<1>4. ASSUME NEW q \in Path, ArchiveMove(q) PROVE RawSound'
  <2>1. request.stage # "reading" => request' = request
    BY DEF WriterStep, KeepHandle, IsRaw
  <2>2. CASE request.stage # "reading"
    <3>1. PICK shown : shown = request.shown
      OBVIOUS
    <3>2. PICK o \in Path : o = p
      BY <1>2
    <3>3. FileShows(o, shown)
      BY <2>2, <3>1, <3>2 DEF RawSound
    <3>4. FileShows(o, shown)'
      BY <1>1, <1>4, <3>3, FileShowsMove
    <3>5. request' = request
      BY <2>1, <2>2
    <3> QED BY <2>2, <3>1, <3>2, <3>4, <3>5 DEF RawSound, FileShows
  <2>3. CASE request.stage = "reading" /\ q # p
    <3>1. files'[p] = files[p]
      BY <1>1, <1>2, <1>4, <2>3, FilesMove
    <3>2. request' = request
      BY <3>1 DEF WriterStep, KeepHandle, Present
    <3> QED BY <2>3, <3>1, <3>2 DEF RawSound, Present, Content
  <2>4. CASE request.stage = "reading" /\ q = p
    <3>1. files[p].state # "unused" /\ (request.unlinked = Null <=> Present(p))
      BY <2>4 DEF RawSound
    <3>2. PICK s \in Seq(Lines) : s = Content
      BY <1>1, ContentType
    <3>3. Len(request.body) \in Nat /\ Len(s) \in Nat
      BY <1>2, LenProperties DEF RawRequest
    <3>4. Present(p)
      BY <1>1, <1>4, <2>4, <3>1, FilesMove DEF Present
    <3>5. request.unlinked = Null /\ s = files[p].lines
      BY <3>1, <3>2, <3>4 DEF Content
    <3>6. CASE files'[p].state = "removed"
      <4>1. request' = [request EXCEPT !.unlinked = s]
        BY <2>4, <3>4, <3>5, <3>6 DEF WriterStep, KeepHandle, IsRaw
      <4>2. /\ request' \in RawRequest /\ request'.stage = "reading"
            /\ request'.unlinked = s /\ request'.body = request.body
            /\ request'.path = p /\ request'.shown = request.shown
        BY <1>2, <2>4, <4>1 DEF RawRequest
      <4>3. s # Null /\ Content' = s
        BY <4>2, QueryAssumption DEF Content
      <4>4. /\ ShownIn(request.shown, s) /\ Len(request.body) <= Len(s)
            /\ \A i \in 1..Len(request.body) : request.body[i] = s[i]
        BY <2>4, <3>2 DEF RawSound
      <4> QED BY <3>6, <4>2, <4>3, <4>4 DEF RawSound, Present
    <3>7. CASE files[p].state = "open" /\ files'[p].state = "open"
      <4>1. PICK line \in Lines : files'[p].lines = Append(s, line)
        BY <1>1, <1>4, <2>4, <3>5, <3>7, FilesMove
      <4>2. request' = request
        BY <3>7 DEF WriterStep, KeepHandle
      <4>3. PICK t \in Seq(Lines) : t = Append(s, line)
        BY AppendProperties
      <4>4. Content' = t
        BY <3>5, <4>1, <4>2, <4>3 DEF Content
      <4>5. Len(t) = Len(s) + 1 /\ \A i \in 1..Len(s) : t[i] = s[i]
        BY <4>3, AppendProperties
      <4>6. ShownIn(request.shown, t)
        BY <2>4, <3>2, <4>3, ShownAppend DEF RawSound
      <4>7. /\ Len(request.body) <= Len(s)
            /\ \A i \in 1..Len(request.body) : request.body[i] = s[i]
        BY <2>4, <3>2 DEF RawSound
      <4>8. \A i \in 1..Len(request.body) : i \in 1..Len(s)
        BY <3>3, <4>7
      <4>9. Len(request.body) <= Len(t) /\ \A i \in 1..Len(request.body) : request.body[i] = t[i]
        BY <3>3, <4>5, <4>7, <4>8
      <4> QED BY <1>2, <2>4, <3>5, <3>7, <4>2, <4>4, <4>6, <4>9 DEF RawSound, Present
    <3> QED BY <1>1, <1>4, <2>4, <3>1, <3>4, <3>6, <3>7, FilesMove DEF Present
  <2> QED BY <2>2, <2>3, <2>4
<1> QED BY <1>3, <1>4, WriterMoves DEF CleanupDeleted, IngestFile

LEMMA RawInvInit == QueryInit => RawInv
BY StoredInit DEF QueryInit, RawInv, IsRaw

LEMMA RawInvNext == RawInv /\ [QueryNext]_queryVars => RawInv'
<1> SUFFICES ASSUME RawInv, [QueryNext]_queryVars PROVE RawInv'
  OBVIOUS
<1>0. StoredInv /\ IndexTypeOK
  BY DEF RawInv, StoredInv
<1>1. CASE UNCHANGED <<storedVars, request>>
  <2>1. UNCHANGED files
    BY <1>1 DEF storedVars, writerVars, indexVars
  <2> QED BY <1>0, <1>1, <2>1, StoredSame
      DEF RawInv, IsRaw, RawSound, FileShows, Present, Content
<1>2. CASE WriterStep
  <2>1. IsRaw' => IsRaw
    BY <1>2 DEF WriterStep, KeepHandle, IsRaw
  <2> QED BY <1>0, <1>2, <2>1, StoredNext, RawKept DEF RawInv
<1>3. ASSUME NEW req \in Requests, SearchFirst(req) PROVE RawInv'
  BY <1>0, <1>3, StoredSame DEF SearchFirst, RawInv, IsRaw
<1>4. CASE SearchSecond \/ RawGone \/ RawEnd
  BY <1>0, <1>4, StoredSame DEF SearchSecond, RawGone, RawEnd, RawInv, IsRaw
<1>5. ASSUME NEW r \in Recordings, RawFind(r) PROVE RawInv'
  <2>1. StoredInv'
    BY <1>0, <1>5, StoredSame DEF RawFind
  <2> QED BY <1>0, <1>5, <2>1, RawStart DEF RawInv
<1>6. CASE RawStat \/ RawOpen \/ RawRead
  <2>1. IsRaw /\ StoredInv'
    BY <1>0, <1>6, StoredSame DEF RawStat, RawOpen, RawRead, Asking, IsRaw
  <2> QED BY <1>0, <1>6, <2>1, RawChecked, RawOpened, RawChunk DEF RawInv
<1>7. CASE OpenDatabase \/ UNCHANGED queryVars
  BY <1>1, <1>7 DEF OpenDatabase, queryVars
<1> QED BY <1>2, <1>3, <1>4, <1>5, <1>6, <1>7 DEF QueryNext

(* Between the statement that finds a program and the last read of its file, *)
(* whatever the recorder, the collector and the indexer do in between, each  *)
(* caption that the index had is the line of the body that it is numbered as *)
(* (query_service.rs:350-384, archive.rs:456-483).                           *)
THEOREM RawShows == QuerySpec => RawShowsIndexed
<1>1. RawInv /\ [QueryNext]_queryVars =>
        [RawEnd => \A c \in request.shown :
           c.line_no <= Len(request.body) /\ request.body[c.line_no] = c.text]_queryVars
  <2> SUFFICES ASSUME RawInv, RawEnd, NEW c \in request.shown
               PROVE  c.line_no <= Len(request.body) /\ request.body[c.line_no] = c.text
    OBVIOUS
  <2>1. request.stage = "reading" /\ Len(request.body) >= Len(Content) /\ RawSound
    BY DEF RawEnd, Asking, RawInv, IsRaw
  <2>2. PICK s \in Seq(Lines) : s = Content
    BY <2>1, ContentType DEF RawInv, StoredInv
  <2>3. /\ ShownIn(request.shown, s) /\ Len(request.body) <= Len(s)
        /\ \A i \in 1..Len(request.body) : request.body[i] = s[i]
    BY <2>1, <2>2 DEF RawSound
  <2>4. Len(request.body) \in Nat /\ Len(s) \in Nat
    BY <2>1, LenProperties DEF RawSound, RawRequest
  <2>5. Len(request.body) = Len(s)
    BY <2>1, <2>2, <2>3, <2>4
  <2>6. c.line_no \in 1..Len(s) /\ s[c.line_no] = c.text
    BY <2>3 DEF ShownIn
  <2> QED BY <2>3, <2>4, <2>5, <2>6
<1> QED BY <1>1, RawInvInit, RawInvNext, PTL DEF QuerySpec, RawShowsIndexed

-----------------------------------------------------------------------------
(* The order of the answers.                                                 *)

NewerRows == {e \in Rows \X Rows :
                e[1].at > e[2].at \/ (e[1].at = e[2].at /\ ids[e[1]] > ids[e[2]])}

LEMMA RowsOrder ==
  ASSUME StoredInv
  PROVE  /\ IsFiniteSet(Rows) /\ Rows \subseteq Recordings
         /\ \A r \in Rows : ids[r] \in Nat /\ r.at \in Nat
         /\ \A r, q \in Rows : ids[r] = ids[q] => r = q
         /\ \A r, q \in Rows : <<r, q>> \in NewerRows <=>
              r.at > q.at \/ (r.at = q.at /\ ids[r] > ids[q])
         /\ \A A \in SUBSET Rows : IsFiniteSet(A) /\ StrictOrderOn(A, NewerRows)
<1>1. Rows \subseteq Recordings /\ IdsUnique
  BY DEF Rows, StoredInv
<1>2. \A r \in Rows : ids[r] \in UsedIds /\ ids[r] \in Nat /\ r.at \in Nat
  <2> SUFFICES ASSUME NEW r \in Rows PROVE ids[r] \in UsedIds /\ ids[r] \in Nat /\ r.at \in Nat
    OBVIOUS
  <2>1. r \in Recordings /\ ids[r] # Null /\ ids[r] \in (Nat \ {0}) \cup {Null}
    BY <1>1 DEF Rows, IdsUnique
  <2>2. r.at \in Nat
    BY <2>1, ArchiveAssumption DEF Recordings
  <2> QED BY <2>1, <2>2 DEF UsedIds
<1>3. \A r, q \in Rows : ids[r] = ids[q] => r = q
  BY <1>1 DEF Rows, IdsUnique
<1>4. PICK n \in Nat : UsedIds \subseteq 1..n
  BY <1>1 DEF IdsUnique
<1>5. IsFiniteSet(Rows)
  <2> DEFINE f == [r \in Rows |-> ids[r]]
  <2>1. f \in [Rows -> 1..n] /\ \A x, y \in Rows : f[x] = f[y] => x = y
    BY <1>2, <1>3, <1>4
  <2> HIDE DEF f
  <2> QED BY <2>1, NumberedFinite
<1>6. \A r, q \in Rows : <<r, q>> \in NewerRows <=>
        r.at > q.at \/ (r.at = q.at /\ ids[r] > ids[q])
  BY DEF NewerRows
<1>7. ASSUME NEW A \in SUBSET Rows PROVE IsFiniteSet(A) /\ StrictOrderOn(A, NewerRows)
  <2>1. IsFiniteSet(A)
    BY <1>5, FS_Subset
  <2>2. \A x \in A : <<x, x>> \notin NewerRows
    BY <1>2, <1>6
  <2>3. \A x, y, z \in A : <<x, y>> \in NewerRows /\ <<y, z>> \in NewerRows => <<x, z>> \in NewerRows
    BY <1>2, <1>6
  <2>4. ASSUME NEW x \in A, NEW y \in A
        PROVE  x = y \/ <<x, y>> \in NewerRows \/ <<y, x>> \in NewerRows
    <3>1. ids[x] \in Nat /\ ids[y] \in Nat /\ x.at \in Nat /\ y.at \in Nat
      BY <1>2
    <3>2. ids[x] = ids[y] => x = y
      BY <1>3
    <3> QED BY <1>6, <3>1, <3>2
  <2> QED BY <2>1, <2>2, <2>3, <2>4 DEF StrictOrderOn
<1> QED BY <1>1, <1>2, <1>3, <1>5, <1>6, <1>7

(* The first n of a sequence.                                                *)
LEMMA FirstOf ==
  ASSUME NEW X, NEW s \in Seq(X), NEW n \in Nat
  PROVE  LET t == First(s, n)
         IN  /\ t \in Seq(X) /\ Len(t) = IF Len(s) < n THEN Len(s) ELSE n
             /\ \A i \in 1..Len(t) : i \in 1..Len(s) /\ t[i] = s[i]
BY LenProperties, SubSeqProperties DEF First

(* Rows that are sorted by program have each their own.                      *)
Distinct(S) ==
  /\ \A x \in S : x.id \in Nat /\ x.recording \in Recordings
  /\ \A x, y \in S : x.id = y.id => x = y

NewerPairs(S) == {e \in S \X S : Newer(e[1], e[2])}

LEMMA NewerOrder ==
  ASSUME NEW S, Distinct(S)
  PROVE  /\ StrictOrderOn(S, NewerPairs(S))
         /\ \A x, y \in S : <<x, y>> \in NewerPairs(S) <=> Newer(x, y)
<1>1. \A x, y \in S : <<x, y>> \in NewerPairs(S) <=> Newer(x, y)
  BY DEF NewerPairs
<1>2. \A x \in S : x.recording.at \in Nat /\ x.id \in Nat
  BY ArchiveAssumption DEF Distinct, Recordings
<1> QED BY <1>1, <1>2 DEF Newer, StrictOrderOn, Distinct

LEMMA NewestSorted ==
  ASSUME NEW S, IsFiniteSet(S), Distinct(S)
  PROVE  LET s == Sorted(S, Newer)
         IN  /\ s \in Seq(S) /\ Len(s) = Cardinality(S)
             /\ \A i, j \in 1..Len(s) : i < j => Newer(s[i], s[j])
             /\ \A i \in 1..Len(s) : Cardinality(EarlierIn(S, NewerPairs(S), s[i])) = i - 1
             /\ \A x \in S : \E i \in 1..Len(s) : s[i] = x
<1> DEFINE R == NewerPairs(S)
           n == Cardinality(S)
           Before(x) == {y \in S : Newer(y, x)}
           At(i) == CHOOSE x \in S : Cardinality(Before(x)) = i - 1
           s == [i \in 1..n |-> At(i)]
<1>1. \A x \in S : EarlierIn(S, R, x) = Before(x)
  BY DEF EarlierIn, NewerPairs
<1> HIDE DEF R
<1>2. StrictOrderOn(S, R) /\ \A x, y \in S : <<x, y>> \in R <=> Newer(x, y)
  BY NewerOrder DEF R
<1>3. n \in Nat /\ \A i \in 1..n : \E x \in S : Cardinality(EarlierIn(S, R, x)) = i - 1
  BY <1>2, PlacesTaken
<1>4. Sorted(S, Newer) = s
  BY DEF Sorted
<1> HIDE DEF Before
<1>5. \A i \in 1..n : At(i) \in S /\ Cardinality(Before(At(i))) = i - 1
  BY <1>1, <1>3
<1> HIDE DEF At, n
<1>6. s \in [1..n -> S] /\ \A i \in 1..n : Cardinality(EarlierIn(S, R, s[i])) = i - 1
  BY <1>1, <1>5
<1> HIDE DEF s
<1>7. ByPlace(S, R, n, s)
  BY <1>6 DEF ByPlace, n
<1>8. /\ \A i, j \in 1..n : i < j <=> <<s[i], s[j]>> \in R
      /\ \A x \in S : \E i \in 1..n : s[i] = x
  BY <1>2, <1>7, SortedSet
<1>9. s \in Seq(S) /\ Len(s) = n
  BY <1>3, <1>6
<1>10. \A i, j \in 1..n : i < j => Newer(s[i], s[j])
  BY <1>2, <1>6, <1>8
<1> QED BY <1>4, <1>6, <1>8, <1>9, <1>10 DEF R, n

(* search_general merges two lists of programs by id.                        *)
ItemRow == [recording : Recordings, id : Nat, hits : Seq(Nat)]

ItemList(items) ==
  /\ items \in Seq(ItemRow)
  /\ \A i, j \in 1..Len(items) : items[i].id = items[j].id => i = j

MergedSet(by_line, by_program) ==
  Items(by_line) \cup {x \in Items(by_program) : x.id \notin {y.id : y \in Items(by_line)}}

LEMMA ListItems ==
  ASSUME NEW items, ItemList(items)
  PROVE  /\ Len(items) \in Nat /\ DOMAIN items = 1..Len(items)
         /\ Items(items) = {items[i] : i \in 1..Len(items)}
         /\ Distinct(Items(items)) /\ Items(items) \subseteq ItemRow
         /\ IsFiniteSet(Items(items)) /\ Cardinality(Items(items)) = Len(items)
<1>1. Len(items) \in Nat /\ DOMAIN items = 1..Len(items) /\ \A i \in 1..Len(items) : items[i] \in ItemRow
  BY LenProperties, ElementOfSeq DEF ItemList
<1>2. Items(items) = {items[i] : i \in 1..Len(items)}
  BY <1>1 DEF Items
<1>3. Items(items) \subseteq ItemRow
  BY <1>1, <1>2
<1>4. Distinct(Items(items))
  BY <1>1, <1>2 DEF Distinct, ItemRow, ItemList
<1>5. /\ IsFiniteSet({items[i] : i \in 1..Len(items)})
      /\ Cardinality({items[i] : i \in 1..Len(items)}) = Len(items)
  BY DistinctLength DEF ItemList
<1> QED BY <1>1, <1>2, <1>3, <1>4, <1>5

LEMMA MergedItems ==
  ASSUME NEW by_line, ItemList(by_line), NEW by_program, ItemList(by_program), NEW limit \in Nat
  PROVE  LET U == MergedSet(by_line, by_program)
             R == NewerPairs(U)
             m == Merged(by_line, by_program, limit)
         IN  /\ IsFiniteSet(U) /\ Distinct(U) /\ U \subseteq ItemRow
             /\ m \in Seq(U) /\ Len(m) <= limit
             /\ \A i, j \in 1..Len(m) : i < j => Newer(m[i], m[j])
             /\ Items(m) = TopIn(U, R, limit)
             /\ \A x \in U : x \notin Items(m) =>
                  Len(m) = limit /\ \A i \in 1..Len(m) : Newer(m[i], x)
<1> DEFINE U == MergedSet(by_line, by_program)
           R == NewerPairs(U)
           s == Sorted(U, Newer)
           m == First(s, limit)
<1>1. Merged(by_line, by_program, limit) = m
  BY DEF Merged, MergedSet
<1>2. U \subseteq ItemRow /\ Distinct(U)
  <2>1. /\ Distinct(Items(by_line)) /\ Items(by_line) \subseteq ItemRow
        /\ Distinct(Items(by_program)) /\ Items(by_program) \subseteq ItemRow
    BY ListItems
  <2> QED BY <2>1 DEF Distinct, MergedSet
<1>3. IsFiniteSet(U)
  <2>1. IsFiniteSet(Items(by_line) \cup Items(by_program))
    BY ListItems, FS_Union
  <2>2. U \in SUBSET (Items(by_line) \cup Items(by_program))
    BY DEF MergedSet
  <2> QED BY <2>1, <2>2, FS_Subset
<1> HIDE DEF U
<1>4. /\ s \in Seq(U) /\ Len(s) = Cardinality(U)
      /\ \A i, j \in 1..Len(s) : i < j => Newer(s[i], s[j])
      /\ \A i \in 1..Len(s) : Cardinality(EarlierIn(U, R, s[i])) = i - 1
      /\ \A x \in U : \E i \in 1..Len(s) : s[i] = x
  BY <1>2, <1>3, NewestSorted
<1>5. Len(s) \in Nat
  BY <1>4, LenProperties
<1> HIDE DEF s, R
<1>6. /\ m \in Seq(U) /\ Len(m) = IF Len(s) < limit THEN Len(s) ELSE limit
      /\ \A i \in 1..Len(m) : i \in 1..Len(s) /\ m[i] = s[i]
  BY <1>4, FirstOf
<1> HIDE DEF m
<1>7. Len(m) <= limit /\ Len(m) \in Nat /\ \A i, j \in 1..Len(m) : i < j => Newer(m[i], m[j])
  BY <1>4, <1>5, <1>6
<1>8. Items(m) = {m[i] : i \in 1..Len(m)} /\ \A i \in 1..Len(m) : m[i] \in U
  BY <1>6, LenProperties, ElementOfSeq DEF Items
<1>9. ASSUME NEW x \in U PROVE x \in Items(m) <=> Cardinality(EarlierIn(U, R, x)) < limit
  <2>1. PICK k \in 1..Len(s) : s[k] = x /\ Cardinality(EarlierIn(U, R, x)) = k - 1
    BY <1>4
  <2>2. ASSUME k - 1 < limit PROVE x \in Items(m)
    <3>1. k \in 1..Len(m)
      BY <1>5, <1>6, <2>2
    <3> QED BY <1>6, <1>8, <2>1, <3>1
  <2>3. ASSUME x \in Items(m) PROVE k - 1 < limit
    <3>1. PICK i \in 1..Len(m) : m[i] = x
      BY <1>8, <2>3
    <3>2. Cardinality(EarlierIn(U, R, x)) = i - 1
      BY <1>4, <1>6, <3>1
    <3> QED BY <1>7, <2>1, <3>1, <3>2
  <2> QED BY <2>1, <2>2, <2>3
<1>10. Items(m) = TopIn(U, R, limit)
  BY <1>8, <1>9 DEF TopIn
<1>11. ASSUME NEW x \in U, x \notin Items(m)
       PROVE  Len(m) = limit /\ \A i \in 1..Len(m) : Newer(m[i], x)
  <2>1. PICK k \in 1..Len(s) : s[k] = x /\ Cardinality(EarlierIn(U, R, x)) = k - 1
    BY <1>4
  <2>2. k > limit
    BY <1>9, <1>11, <2>1
  <2>3. Len(m) = limit
    BY <1>5, <1>6, <2>2
  <2>4. ASSUME NEW i \in 1..Len(m) PROVE Newer(m[i], x)
    <3>1. i < k /\ i \in 1..Len(s) /\ m[i] = s[i]
      BY <1>6, <2>2, <2>3
    <3> QED BY <1>4, <2>1, <3>1
  <2> QED BY <2>3, <2>4
<1> QED BY <1>1, <1>2, <1>3, <1>6, <1>7, <1>10, <1>11 DEF U, R

LEMMA MergedOrder ==
  ASSUME NEW by_line, ItemList(by_line), NEW by_program, ItemList(by_program), NEW limit \in Nat,
         NEW items, items = Merged(by_line, by_program, limit)
  PROVE  /\ Distinct(MergedSet(by_line, by_program))
         /\ items \in Seq(MergedSet(by_line, by_program)) /\ Len(items) <= limit
         /\ \A i, j \in 1..Len(items) : i < j => Newer(items[i], items[j])
BY MergedItems

(* The `limit` newest programs of a set, in order.                           *)
Lists(items, A, limit) ==
  /\ items \in Seq(ItemRow)
  /\ \A i \in 1..Len(items) :
       items[i].recording \in Rows /\ items[i].id = ids[items[i].recording]
  /\ \A i, j \in 1..Len(items) : i < j => Newer(items[i], items[j])
  /\ {items[i].recording : i \in 1..Len(items)} = TopIn(A, NewerRows, limit)

LEMMA ListsComplete ==
  ASSUME StoredInv, NEW A \in SUBSET Rows, NEW limit \in Nat, NEW items, Lists(items, A, limit)
  PROVE  /\ ItemList(items) /\ Len(items) \in Nat /\ Len(items) <= limit
         /\ \A r \in A : \/ \E i \in 1..Len(items) : items[i].recording = r
                         \/ /\ Len(items) = limit
                            /\ \A i \in 1..Len(items) : <<items[i].recording, r>> \in NewerRows
<1> USE DEF Lists
<1>1. Len(items) \in Nat /\ \A i \in 1..Len(items) : items[i] \in ItemRow
  BY LenProperties, ElementOfSeq
<1>2. ASSUME NEW i \in 1..Len(items), NEW j \in 1..Len(items), items[i].id = items[j].id
      PROVE  i = j
  <2>1. items[i].recording = items[j].recording
    BY <1>2, RowsOrder
  <2>2. items[i].id \in Nat /\ items[i].recording.at \in Nat
    BY <1>1, RowsOrder
  <2>3. ~Newer(items[i], items[j]) /\ ~Newer(items[j], items[i])
    BY <1>2, <2>1, <2>2 DEF Newer
  <2>4. ~(i < j) /\ ~(j < i)
    BY <2>3
  <2> QED BY <1>1, <2>4
<1>3. ItemList(items)
  BY <1>2 DEF ItemList
<1> DEFINE T == {items[i].recording : i \in 1..Len(items)}
           q == [i \in 1..Len(items) |-> items[i].recording]
<1>4. Cardinality(T) = Len(items)
  <2>1. q \in Seq(Recordings) /\ Len(q) = Len(items) /\ \A i \in 1..Len(items) : q[i] = items[i].recording
    BY <1>1 DEF ItemRow
  <2>2. \A i, j \in 1..Len(q) : q[i] = q[j] => i = j
    BY <1>2, <2>1
  <2>3. {q[i] : i \in 1..Len(q)} = T
    BY <2>1
  <2> HIDE DEF q, T
  <2> QED BY <2>1, <2>2, <2>3, DistinctLength
<1>5. T = TopIn(A, NewerRows, limit) /\ IsFiniteSet(A) /\ StrictOrderOn(A, NewerRows)
  BY RowsOrder
<1>6. /\ Cardinality(T) \in 0..limit
      /\ \A r \in A : r \notin T => Cardinality(T) = limit /\ \A y \in T : <<y, r>> \in NewerRows
  <2> DEFINE top == TopIn(A, NewerRows, limit)
  <2>1. /\ Cardinality(top) \in 0..limit
        /\ \A r \in A : r \notin top =>
             Cardinality(top) = limit /\ \A y \in top : <<y, r>> \in NewerRows
    BY <1>5, TopMembers
  <2> HIDE DEF top, T
  <2>2. T = top
    BY <1>5 DEF top
  <2> QED BY <2>1, <2>2
<1>7. \A r : r \in T <=> \E i \in 1..Len(items) : items[i].recording = r
  OBVIOUS
<1> HIDE DEF T, Lists
<1> QED BY <1>1, <1>3, <1>4, <1>6, <1>7

LEMMA MetadataLists ==
  ASSUME StoredInv, NEW expression, NEW s, s.limit \in Nat
  PROVE  LET items == SearchProgramMetadata(expression, s)
         IN  /\ Lists(items, {q \in MatchedPrograms(expression) : Passes(s.filter, q)}, s.limit)
             /\ \A i \in 1..Len(items) : items[i].hits = <<>>
<1> DEFINE A == {q \in MatchedPrograms(expression) : Passes(s.filter, q)}
           rows == {[recording |-> r, id |-> ids[r]] : r \in A}
           t == Sorted(rows, Newer)
           newest == First(t, s.limit)
           items == [i \in DOMAIN newest |-> Item(newest[i], <<>>)]
           f == [r \in A |-> [recording |-> r, id |-> ids[r]]]
           R == NewerPairs(rows)
<1>1. SearchProgramMetadata(expression, s) = items
  BY DEF SearchProgramMetadata
<1>2. A \in SUBSET Rows
  BY DEF MatchedPrograms
<1> HIDE DEF A
<1>3. /\ f \in [A -> rows] /\ \A y \in rows : \E r \in A : f[r] = y
      /\ \A r \in A : f[r].recording = r /\ f[r].id = ids[r]
  OBVIOUS
<1>4. \A x \in rows : x.recording \in A /\ x.id = ids[x.recording] /\ x = f[x.recording]
  OBVIOUS
<1> HIDE DEF rows, f
<1>5. /\ IsFiniteSet(A) /\ \A r \in A : ids[r] \in Nat /\ r \in Recordings /\ r \in Rows
      /\ \A r, q \in A : ids[r] = ids[q] => r = q
      /\ \A r, q \in A : <<r, q>> \in NewerRows <=>
           r.at > q.at \/ (r.at = q.at /\ ids[r] > ids[q])
      /\ StrictOrderOn(A, NewerRows)
  BY <1>2, RowsOrder
<1>6. Distinct(rows)
  BY <1>3, <1>4, <1>5 DEF Distinct
<1>7. \A x, y \in rows : <<x, y>> \in R <=> Newer(x, y)
  BY <1>6, NewerOrder
<1> HIDE DEF R
<1>8. \A r, q \in A : <<r, q>> \in NewerRows <=> <<f[r], f[q]>> \in R
  <2> SUFFICES ASSUME NEW r \in A, NEW q \in A
               PROVE  <<r, q>> \in NewerRows <=> <<f[r], f[q]>> \in R
    OBVIOUS
  <2>1. f[r] \in rows /\ f[q] \in rows
    BY <1>3
  <2>2. <<f[r], f[q]>> \in R <=> Newer(f[r], f[q])
    BY <1>7, <2>1
  <2>3. Newer(f[r], f[q]) <=> r.at > q.at \/ (r.at = q.at /\ ids[r] > ids[q])
    BY <1>3 DEF Newer
  <2> QED BY <1>5, <2>2, <2>3
<1>9. /\ IsFiniteSet(rows)
      /\ \A r \in A : Cardinality(EarlierIn(A, NewerRows, r)) = Cardinality(EarlierIn(rows, R, f[r]))
  <2>1. \A r, q \in A : f[r] = f[q] => r = q
    BY <1>3
  <2>2. IsFiniteSet(A)
    BY <1>5
  <2>3. SameOrder(A, NewerRows, rows, R, f)
    BY <1>3, <1>8, <2>1 DEF SameOrder
  <2> QED BY <2>2, <2>3, SameRank
<1>10. /\ t \in Seq(rows) /\ Len(t) = Cardinality(rows)
       /\ \A i, j \in 1..Len(t) : i < j => Newer(t[i], t[j])
       /\ \A i \in 1..Len(t) : Cardinality(EarlierIn(rows, R, t[i])) = i - 1
       /\ \A x \in rows : \E i \in 1..Len(t) : t[i] = x
  BY <1>6, <1>9, NewestSorted DEF R
<1> HIDE DEF t
<1>11. /\ newest \in Seq(rows) /\ Len(newest) = IF Len(t) < s.limit THEN Len(t) ELSE s.limit
       /\ \A i \in 1..Len(newest) : i \in 1..Len(t) /\ newest[i] = t[i]
  BY <1>10, FirstOf
<1> HIDE DEF newest
<1>12. Len(t) \in Nat /\ Len(newest) \in Nat /\ DOMAIN newest = 1..Len(newest)
  BY <1>10, <1>11, LenProperties
<1>13. \A i \in 1..Len(newest) : newest[i] \in rows /\ newest[i].recording \in A
  BY <1>4, <1>10, <1>11, ElementOfSeq
<1>14. \A i \in 1..Len(newest) :
         /\ items[i] = Item(newest[i], <<>>) /\ items[i] \in ItemRow /\ items[i].hits = <<>>
         /\ items[i].recording = newest[i].recording /\ items[i].id = newest[i].id
  BY <1>4, <1>5, <1>12, <1>13 DEF Item, ItemRow
<1>15. items \in Seq(ItemRow) /\ Len(items) = Len(newest)
  BY <1>12, <1>14
<1> HIDE DEF items
<1>16. \A i, j \in 1..Len(items) : i < j => Newer(items[i], items[j])
  <2> SUFFICES ASSUME NEW i \in 1..Len(items), NEW j \in 1..Len(items), i < j
               PROVE  Newer(items[i], items[j])
    OBVIOUS
  <2>1. i \in 1..Len(newest) /\ j \in 1..Len(newest)
    BY <1>15
  <2>2. Newer(newest[i], newest[j])
    BY <1>10, <1>11, <2>1
  <2> QED BY <1>14, <2>1, <2>2 DEF Newer
<1>17. ASSUME NEW r \in A
       PROVE  Cardinality(EarlierIn(A, NewerRows, r)) < s.limit <=>
                \E i \in 1..Len(items) : items[i].recording = r
  <2>1. PICK k \in 1..Len(t) : t[k] = f[r] /\ Cardinality(EarlierIn(A, NewerRows, r)) = k - 1
    BY <1>3, <1>9, <1>10
  <2>2. ASSUME k - 1 < s.limit PROVE k \in 1..Len(items) /\ items[k].recording = r
    <3>1. k \in 1..Len(items)
      BY <1>11, <1>12, <1>15, <2>2
    <3> QED BY <1>3, <1>11, <1>14, <1>15, <2>1, <3>1
  <2>3. ASSUME NEW i \in 1..Len(items), items[i].recording = r PROVE k - 1 < s.limit
    <3>1. t[i] = f[r] /\ i \in 1..Len(t)
      BY <1>4, <1>11, <1>13, <1>14, <1>15, <2>3
    <3>2. Cardinality(EarlierIn(rows, R, t[i])) = i - 1 /\ Cardinality(EarlierIn(rows, R, t[i])) = k - 1
      BY <1>10, <2>1, <3>1
    <3>3. i <= s.limit
      BY <1>11, <1>12, <1>15
    <3> QED BY <1>12, <2>1, <3>2, <3>3
  <2> QED BY <2>1, <2>2, <2>3
<1>18. {items[i].recording : i \in 1..Len(items)} = TopIn(A, NewerRows, s.limit)
  BY <1>13, <1>14, <1>15, <1>17 DEF TopIn
<1>19. \A i \in 1..Len(items) :
         items[i].recording \in Rows /\ items[i].id = ids[items[i].recording]
  BY <1>4, <1>5, <1>13, <1>14, <1>15
<1> QED BY <1>1, <1>14, <1>15, <1>16, <1>18, <1>19 DEF Lists, A

-----------------------------------------------------------------------------
(* The rows of the matched captions, and the programs that they make up.     *)
MatchRow == [recording : Recordings, id : Nat, line_no : Nat]

Consistent(S) ==
  S \subseteq MatchRow /\ \A x \in S : x.recording \in Rows /\ x.id = ids[x.recording]

LEMMA MatchedRows ==
  ASSUME StoredInv, NEW expression, NEW within, NEW filter
  PROVE  /\ IsFiniteSet(MatchedLines(expression, within, filter))
         /\ Consistent(MatchedLines(expression, within, filter))
<1> DEFINE M == MatchedLines(expression, within, filter)
           Of(r) == {x \in M : x.recording = r}
           f == [r \in Rows |-> Of(r)]
<1>1. ASSUME NEW x \in M
      PROVE  /\ x \in MatchRow /\ x.recording \in Rows /\ x.id = ids[x.recording]
             /\ \E c \in captions[x.recording] : c.line_no = x.line_no
             /\ x = [recording |-> x.recording, id |-> x.id, line_no |-> x.line_no]
  <2>1. PICK y \in CaptionRows :
          x = [recording |-> y.program, id |-> ids[y.program], line_no |-> y.line_no]
    BY <1>1 DEF MatchedLines
  <2>2. PICK r \in Recordings : \E c \in captions[r] : y.program = r /\ y.line_no = c.line_no
    BY <2>1 DEF CaptionRows
  <2>3. PICK c \in captions[r] : y.program = r /\ y.line_no = c.line_no
    BY <2>2
  <2>4. r \in Rows
    BY <2>3 DEF Rows, StoredInv, OwnerConsistent
  <2>5. c.line_no \in Nat
    BY DEF StoredInv, IndexTypeOK, CaptionRow
  <2>6. ids[r] \in Nat
    BY <2>4, RowsOrder
  <2>7. x = [recording |-> r, id |-> ids[r], line_no |-> c.line_no]
    BY <2>1, <2>3
  <2> QED BY <2>4, <2>5, <2>6, <2>7 DEF MatchRow
<1> HIDE DEF M
<1>2. ASSUME NEW r \in Rows PROVE IsFiniteSet(Of(r))
  <2> DEFINE g == [x \in Of(r) |-> x.line_no]
  <2>1. PICK m \in Nat : \A c \in captions[r] : c.line_no \in 1..m
    <3>1. r \in Recordings /\ programs[r] # Null
      BY DEF Rows
    <3>2. indexed[programs[r].path] \in IndexedRow
      BY <3>1 DEF StoredInv, OwnerConsistent, IndexTypeOK, ProgramRow
    <3>3. indexed[programs[r].path].lines \in Nat
      BY <3>2 DEF IndexedRow
    <3>4. \A c \in captions[r] :
            c.line_no \in Nat \ {0} /\ c.line_no <= indexed[programs[r].path].lines
      BY <3>1 DEF StoredInv, CaptionsNumbered, IndexTypeOK, CaptionRow
    <3> QED BY <3>3, <3>4
  <2>2. g \in [Of(r) -> 1..m]
    BY <1>1, <2>1
  <2>3. \A x, y \in Of(r) : g[x] = g[y] => x = y
    BY <1>1
  <2> HIDE DEF g, Of
  <2> QED BY <2>2, <2>3, NumberedFinite
<1>3. M = UNION {f[r] : r \in Rows}
  BY <1>1
<1>4. f \in Surjection(Rows, {f[r] : r \in Rows})
  BY DEF Surjection
<1>5. \A T \in {f[r] : r \in Rows} : IsFiniteSet(T)
  BY <1>2
<1> HIDE DEF f
<1>6. IsFiniteSet({f[r] : r \in Rows})
  BY <1>4, RowsOrder, FS_Surjection
<1>7. IsFiniteSet(M)
  BY <1>3, <1>5, <1>6, FS_UNION
<1> QED BY <1>1, <1>7 DEF Consistent, M

Precedes(x, y) == Newer(x, y) \/ (x.id = y.id /\ ByLine(x, y))

LEMMA RowsPrecede ==
  ASSUME StoredInv, NEW S, Consistent(S)
  PROVE  /\ \A x \in S : x.recording.at \in Nat /\ x.id \in Nat /\ x.line_no \in Nat
         /\ \A x, y \in S : x.id = y.id => x.recording = y.recording
         /\ \A x, y, z \in S : Precedes(x, y) /\ Precedes(y, z) => Precedes(x, z)
         /\ \A x, y \in S : x = y \/ Precedes(x, y) \/ Precedes(y, x)
         /\ \A x \in S : ~Precedes(x, x)
<1>1. \A x \in S : x.recording.at \in Nat /\ x.id \in Nat /\ x.line_no \in Nat
  BY RowsOrder DEF Consistent, MatchRow
<1>2. \A x, y \in S : x.id = y.id => x.recording = y.recording
  BY RowsOrder DEF Consistent
<1>3. \A x, y \in S : x.recording = y.recording /\ x.id = y.id /\ x.line_no = y.line_no => x = y
  BY DEF Consistent, MatchRow
<1>4. ASSUME NEW x \in S, NEW y \in S, NEW z \in S, Precedes(x, y), Precedes(y, z)
      PROVE  Precedes(x, z)
  BY <1>1, <1>2, <1>4 DEF Precedes, Newer, ByLine
<1>5. ASSUME NEW x \in S, NEW y \in S PROVE x = y \/ Precedes(x, y) \/ Precedes(y, x)
  BY <1>1, <1>2, <1>3 DEF Precedes, Newer, ByLine
<1>6. \A x \in S : ~Precedes(x, x)
  BY <1>1 DEF Precedes, Newer, ByLine
<1> QED BY <1>1, <1>2, <1>4, <1>5, <1>6

SortedRows(S) == Sorted(S, LAMBDA x, y : Newer(x, y) \/ (x.id = y.id /\ ByLine(x, y)))

InOrder(s, S) ==
  /\ s \in Seq(S) /\ {s[i] : i \in 1..Len(s)} = S
  /\ \A i, j \in 1..Len(s) : i < j => Precedes(s[i], s[j])

LEMMA RowsSorted ==
  ASSUME StoredInv, NEW S, IsFiniteSet(S), Consistent(S)
  PROVE  InOrder(SortedRows(S), S)
<1> DEFINE R == {e \in S \X S : Precedes(e[1], e[2])}
           n == Cardinality(S)
           Before(x) == {y \in S : Newer(y, x) \/ (y.id = x.id /\ ByLine(y, x))}
           At(i) == CHOOSE x \in S : Cardinality(Before(x)) = i - 1
           s == [i \in 1..n |-> At(i)]
<1>1. \A x \in S : EarlierIn(S, R, x) = Before(x)
  BY DEF EarlierIn, Precedes
<1>2. \A x, y \in S : <<x, y>> \in R <=> Precedes(x, y)
  OBVIOUS
<1> HIDE DEF R
<1>3. StrictOrderOn(S, R)
  BY <1>2, RowsPrecede DEF StrictOrderOn
<1>4. n \in Nat /\ \A i \in 1..n : \E x \in S : Cardinality(EarlierIn(S, R, x)) = i - 1
  BY <1>3, PlacesTaken
<1>5. SortedRows(S) = s
  BY DEF SortedRows, Sorted
<1> HIDE DEF Before
<1>6. \A i \in 1..n : At(i) \in S /\ Cardinality(Before(At(i))) = i - 1
  BY <1>1, <1>4
<1> HIDE DEF At, n
<1>7. s \in [1..n -> S] /\ \A i \in 1..n : Cardinality(EarlierIn(S, R, s[i])) = i - 1
  BY <1>1, <1>6
<1> HIDE DEF s
<1>8. ByPlace(S, R, n, s)
  BY <1>7 DEF ByPlace, n
<1>9. /\ \A i, j \in 1..n : i < j <=> <<s[i], s[j]>> \in R
      /\ {s[i] : i \in 1..n} = S
  BY <1>3, <1>8, SortedSet
<1>10. s \in Seq(S) /\ Len(s) = n
  BY <1>4, <1>7
<1>11. \A i, j \in 1..n : i < j => Precedes(s[i], s[j])
  BY <1>2, <1>7, <1>9
<1> QED BY <1>5, <1>9, <1>10, <1>11 DEF InOrder

(* What GroupRows has made of the rows in K.                                 *)
Groups(items, K) ==
  /\ items \in Seq(ItemRow)
  /\ \A i, j \in 1..Len(items) : i < j => Newer(items[i], items[j])
  /\ \A i \in 1..Len(items) :
       \E x \in K : x.recording = items[i].recording /\ x.id = items[i].id
  /\ \A x \in K : \E i \in 1..Len(items) : items[i].recording = x.recording
  /\ \A i \in 1..Len(items) :
       /\ Items(items[i].hits) = {x.line_no : x \in {y \in K : y.id = items[i].id}}
       /\ \A k, l \in 1..Len(items[i].hits) : k < l => items[i].hits[k] < items[i].hits[l]

(* The next row is x, and the one before it was last.                        *)
AddsNext(S, K, x, last, items) ==
  /\ Consistent(S) /\ K \in SUBSET S /\ x \in S /\ last \in S
  /\ Groups(items, K)
  /\ \A y \in K : Precedes(y, x) /\ (y = last \/ Precedes(y, last))
  /\ items # <<>> => last \in K /\ items[Len(items)].id = last.id

GroupsTo(items, K, x) ==
  Groups(items, K) /\ items # <<>> /\ items[Len(items)].id = x.id

LEMMA RowAdded ==
  ASSUME StoredInv, NEW S, NEW K, NEW x, NEW last, NEW items, AddsNext(S, K, x, last, items)
  PROVE  GroupsTo(AddRow(items, x), K \cup {x}, x)
<1>12. /\ Consistent(S) /\ K \in SUBSET S /\ x \in S /\ last \in S
       /\ Groups(items, K)
       /\ \A y \in K : Precedes(y, x) /\ (y = last \/ Precedes(y, last))
       /\ items # <<>> => last \in K /\ items[Len(items)].id = last.id
  BY DEF AddsNext
<1> USE <1>12
<1>0. PICK n \in Nat : n = Len(items)
  BY LenProperties DEF Groups
<1>11. PICK added : added = AddRow(items, x)
  OBVIOUS
<1>1. DOMAIN items = 1..n /\ items \in Seq(ItemRow) /\ \A i \in 1..n : items[i] \in ItemRow
  BY <1>0, LenProperties, ElementOfSeq DEF Groups
<1>2. /\ \A y \in S : y.recording.at \in Nat /\ y.id \in Nat /\ y.line_no \in Nat
      /\ \A y, z \in S : y.id = z.id => y.recording = z.recording
      /\ \A y, z \in S : Precedes(y, z) => (y.id = z.id /\ y.line_no < z.line_no) \/ Newer(y, z)
  BY RowsPrecede DEF Precedes, ByLine
<1>3. x.recording \in Recordings /\ x.id \in Nat /\ x.line_no \in Nat
  BY DEF Consistent, MatchRow
<1>4. \A i, j \in 1..n : i < j => Newer(items[i], items[j])
  BY <1>0 DEF Groups
<1>5. \A i \in 1..n : \E y \in K : y.recording = items[i].recording /\ y.id = items[i].id
  BY <1>0 DEF Groups
<1>6. \A y \in K : \E i \in 1..n : items[i].recording = y.recording
  BY <1>0 DEF Groups
<1>7. \A i \in 1..n :
        /\ Items(items[i].hits) = {y.line_no : y \in {z \in K : z.id = items[i].id}}
        /\ \A k, l \in 1..Len(items[i].hits) : k < l => items[i].hits[k] < items[i].hits[l]
  BY <1>0 DEF Groups
<1>8. \A i \in 1..n : items[i].hits \in Seq(Nat)
  BY <1>1 DEF ItemRow
<1>9. CASE items # <<>> /\ items[n].id = x.id
  <2>1. n \in 1..n /\ last \in K /\ last.id = x.id /\ last.recording = x.recording
    BY <1>0, <1>1, <1>2, <1>9
  <2>2. PICK h \in Seq(Nat) : h = items[n].hits
    BY <1>8, <2>1
  <2>3. PICK g \in Seq(Nat) : g = Append(h, x.line_no)
    BY <1>3, AppendProperties
  <2>4. PICK m \in Nat : m = Len(h) /\ DOMAIN h = 1..m
    BY LenProperties
  <2>5. /\ Len(g) = m + 1 /\ DOMAIN g = 1..m + 1 /\ g[m + 1] = x.line_no
        /\ \A k \in 1..m : g[k] = h[k]
    BY <1>3, <2>3, <2>4, AppendProperties, LenProperties
  <2>6. Items(g) = Items(h) \cup {x.line_no}
    <3>1. \A k \in 1..m + 1 : k \in 1..m \/ k = m + 1
      OBVIOUS
    <3>2. \A k \in 1..m : k \in 1..m + 1
      OBVIOUS
    <3>3. m + 1 \in 1..m + 1
      OBVIOUS
    <3> QED BY <2>4, <2>5, <3>1, <3>2, <3>3 DEF Items
  <2>7. Items(h) = {y.line_no : y \in {z \in K : z.id = x.id}}
    BY <1>7, <1>9, <2>1, <2>2
  <2>8. Items(g) = {y.line_no : y \in {z \in K \cup {x} : z.id = x.id}}
    BY <2>6, <2>7
  <2>9. \A k, l \in 1..m + 1 : k < l => g[k] < g[l]
    <3> SUFFICES ASSUME NEW k \in 1..m + 1, NEW l \in 1..m + 1, k < l PROVE g[k] < g[l]
      OBVIOUS
    <3>1. k \in 1..m /\ g[k] = h[k]
      BY <2>5
    <3>2. CASE l \in 1..m
      BY <1>7, <2>1, <2>2, <2>4, <2>5, <3>1, <3>2
    <3>3. CASE l = m + 1
      <4>1. h[k] \in Items(h)
        BY <2>4, <3>1 DEF Items
      <4>2. PICK y \in K : y.id = x.id /\ y.line_no = h[k]
        BY <2>7, <4>1
      <4>3. /\ y.recording = x.recording /\ y.recording.at \in Nat /\ y.id \in Nat
            /\ (y.id = x.id /\ y.line_no < x.line_no) \/ Newer(y, x)
        BY <1>2, <4>2
      <4>4. y.line_no < x.line_no
        BY <4>2, <4>3 DEF Newer
      <4> QED BY <2>5, <3>1, <3>3, <4>2, <4>4
    <3> QED BY <3>2, <3>3
  <2>10. PICK item \in ItemRow :
           /\ item = [items[n] EXCEPT !.hits = g] /\ item.hits = g
           /\ item.recording = items[n].recording /\ item.id = x.id
    <3> DEFINE changed == [items[n] EXCEPT !.hits = g]
    <3>1. items[n] \in ItemRow /\ items[n].id = x.id
      BY <1>0, <1>1, <1>9, <2>1
    <3>2. changed \in ItemRow /\ changed.hits = g
      BY <3>1 DEF ItemRow
    <3>3. changed.recording = items[n].recording /\ changed.id = x.id
      BY <3>1 DEF ItemRow
    <3> QED BY <3>2, <3>3
  <2>11. added = [items EXCEPT ![n] = item]
    BY <1>0, <1>9, <1>11, <2>2, <2>3, <2>10 DEF AddRow
  <2>12. /\ added \in Seq(ItemRow) /\ Len(added) = n /\ added[n] = item
         /\ \A i \in 1..n : i # n => added[i] = items[i]
    BY <1>1, <2>1, <2>11
  <2>13. \A i \in 1..n : added[i].recording = items[i].recording /\ added[i].id = items[i].id
    BY <1>9, <2>10, <2>12
  <2>14. ASSUME NEW i \in 1..n, NEW j \in 1..n, i < j PROVE Newer(added[i], added[j])
    <3>1. Newer(items[i], items[j])
      BY <1>4, <2>14
    <3> QED BY <2>13, <3>1 DEF Newer
  <2>15. ASSUME NEW i \in 1..n
         PROVE  /\ Items(added[i].hits) = {y.line_no : y \in {z \in K \cup {x} : z.id = added[i].id}}
                /\ \A k, l \in 1..Len(added[i].hits) : k < l => added[i].hits[k] < added[i].hits[l]
    <3>1. CASE i = n
      <4>1. added[i].hits = g /\ added[i].id = x.id
        BY <2>10, <2>12, <3>1
      <4> QED BY <2>5, <2>8, <2>9, <4>1
    <3>2. CASE i # n
      <4>1. added[i] = items[i]
        BY <2>12, <3>2
      <4>2. items[i].id # x.id
        <5> SUFFICES ASSUME items[i].id = x.id PROVE FALSE
          OBVIOUS
        <5>1. i < n
          BY <1>1, <3>2
        <5>2. Newer(items[i], items[n])
          BY <1>4, <2>1, <5>1
        <5>3. PICK y \in K : y.recording = items[i].recording /\ y.id = items[i].id
          BY <1>5
        <5>4. PICK z \in K : z.recording = items[n].recording /\ z.id = items[n].id
          BY <1>5, <2>1
        <5>5. y \in S /\ z \in S /\ y.id = z.id
          BY <1>9, <5>3, <5>4
        <5>6. y.recording = z.recording /\ y.recording.at \in Nat /\ y.id \in Nat
          BY <1>2, <5>5
        <5> QED BY <1>9, <5>2, <5>3, <5>4, <5>6 DEF Newer
      <4>3. {z \in K \cup {x} : z.id = items[i].id} = {z \in K : z.id = items[i].id}
        BY <4>2
      <4> QED BY <1>7, <4>1, <4>3
    <3> QED BY <3>1, <3>2
  <2>16. \A y \in K \cup {x} : \E i \in 1..n : added[i].recording = y.recording
    BY <1>6, <2>1, <2>13
  <2>17. \A i \in 1..n :
           \E y \in K \cup {x} : y.recording = added[i].recording /\ y.id = added[i].id
    BY <1>5, <2>13
  <2>18. added # <<>> /\ added[n].id = x.id
    BY <1>9, <2>1, <2>12, <2>13
  <2>19. Groups(added, K \cup {x})
    BY <2>12, <2>14, <2>15, <2>16, <2>17 DEF Groups
  <2> QED BY <1>11, <2>12, <2>18, <2>19 DEF GroupsTo
<1>10. CASE items = <<>> \/ items[n].id # x.id
  <2>1. PICK new \in ItemRow :
          /\ new = Item(x, <<x.line_no>>) /\ new.hits = <<x.line_no>>
          /\ new.recording = x.recording /\ new.id = x.id
    <3> DEFINE made == Item(x, <<x.line_no>>)
    <3>1. <<x.line_no>> \in Seq(Nat)
      BY <1>3
    <3>2. made \in ItemRow /\ made.hits = <<x.line_no>>
      BY <1>3, <3>1 DEF Item, ItemRow
    <3>3. made.recording = x.recording /\ made.id = x.id
      BY DEF Item
    <3> QED BY <3>2, <3>3
  <2>2. added = Append(items, new)
    BY <1>0, <1>10, <1>11, <2>1 DEF AddRow
  <2>3. /\ added \in Seq(ItemRow) /\ Len(added) = n + 1 /\ added[n + 1] = new
        /\ \A i \in 1..n : added[i] = items[i]
    BY <1>0, <1>1, <2>2, AppendProperties
  <2>4. ASSUME NEW y \in K PROVE Newer(y, x) /\ y.id # x.id
    <3>1. items # <<>>
      <4>1. \E i \in 1..n : items[i].recording = y.recording
        BY <1>6
      <4> QED BY <1>1, <4>1
    <3>2. last \in K /\ last.id # x.id
      BY <1>0, <1>10, <3>1
    <3>3. Newer(last, x)
      BY <1>2, <3>2
    <3>4. Newer(y, last) \/ (y.id = last.id /\ y.recording = last.recording)
      BY <1>2
    <3>5. /\ y.recording.at \in Nat /\ y.id \in Nat /\ last.recording.at \in Nat /\ last.id \in Nat
          /\ x.recording.at \in Nat /\ x.id \in Nat
          /\ y.id = x.id => y.recording = x.recording
      BY <1>2
    <3>6. Newer(y, x)
      <4> DEFINE a == y.recording.at
                 b == last.recording.at
                 c == x.recording.at
      <4>1. /\ a \in Nat /\ b \in Nat /\ c \in Nat /\ (b > c \/ (b = c /\ last.id > x.id))
            /\ \/ a > b \/ (a = b /\ y.id > last.id)
               \/ a = b /\ y.id = last.id
        BY <3>3, <3>4, <3>5 DEF Newer
      <4> HIDE DEF a, b, c
      <4>2. a > c \/ (a = c /\ y.id > x.id)
        BY <3>5, <4>1
      <4> QED BY <4>2 DEF a, c, Newer
    <3> QED BY <3>5, <3>6 DEF Newer
  <2>5. \A i \in 1..n : items[i].id # x.id /\ Newer(items[i], new)
    <3> SUFFICES ASSUME NEW i \in 1..n PROVE items[i].id # x.id /\ Newer(items[i], new)
      OBVIOUS
    <3>1. PICK y \in K : y.recording = items[i].recording /\ y.id = items[i].id
      BY <1>5
    <3>2. Newer(y, x) /\ y.id # x.id
      BY <2>4
    <3> QED BY <2>1, <3>1, <3>2 DEF Newer
  <2>6. /\ \A i \in 1..n + 1 : i \in 1..n \/ i = n + 1
        /\ \A i \in 1..n : i \in 1..n + 1
        /\ n + 1 \in 1..n + 1
    BY <1>1
  <2>7. ASSUME NEW i \in 1..n + 1, NEW j \in 1..n + 1, i < j PROVE Newer(added[i], added[j])
    <3>1. i \in 1..n
      BY <1>1, <2>7
    <3>2. CASE j \in 1..n
      BY <1>4, <2>3, <2>7, <3>1, <3>2
    <3>3. CASE j = n + 1
      BY <2>3, <2>5, <3>1, <3>3
    <3> QED BY <2>6, <3>2, <3>3
  <2>8. ASSUME NEW i \in 1..n + 1
        PROVE  /\ Items(added[i].hits) = {y.line_no : y \in {z \in K \cup {x} : z.id = added[i].id}}
               /\ \A k, l \in 1..Len(added[i].hits) : k < l => added[i].hits[k] < added[i].hits[l]
    <3>1. CASE i = n + 1
      <4>1. added[i].hits = <<x.line_no>> /\ added[i].id = x.id
        BY <2>1, <2>3, <3>1
      <4>2. Items(<<x.line_no>>) = {x.line_no}
        BY DEF Items
      <4>3. {z \in K \cup {x} : z.id = x.id} = {x}
        BY <2>4
      <4>4. {y.line_no : y \in {x}} = {x.line_no}
        OBVIOUS
      <4>5. \A k, l \in 1..Len(<<x.line_no>>) : ~(k < l)
        OBVIOUS
      <4> QED BY <4>1, <4>2, <4>3, <4>4, <4>5
    <3>2. CASE i \in 1..n
      <4>1. {z \in K \cup {x} : z.id = items[i].id} = {z \in K : z.id = items[i].id}
        BY <2>5, <3>2
      <4> QED BY <1>7, <2>3, <3>2, <4>1
    <3> QED BY <2>6, <3>1, <3>2
  <2>9. \A y \in K \cup {x} : \E i \in 1..n + 1 : added[i].recording = y.recording
    BY <1>6, <2>1, <2>3, <2>6
  <2>10. \A i \in 1..n + 1 :
           \E y \in K \cup {x} : y.recording = added[i].recording /\ y.id = added[i].id
    <3> SUFFICES ASSUME NEW i \in 1..n + 1
                 PROVE  \E y \in K \cup {x} : y.recording = added[i].recording /\ y.id = added[i].id
      OBVIOUS
    <3>1. CASE i \in 1..n
      BY <1>5, <2>3, <3>1
    <3>2. CASE i = n + 1
      BY <2>1, <2>3, <3>2
    <3> QED BY <2>6, <3>1, <3>2
  <2>11. added # <<>> /\ added[n + 1].id = x.id
    BY <1>1, <2>1, <2>3
  <2>12. Groups(added, K \cup {x})
    BY <2>3, <2>7, <2>8, <2>9, <2>10 DEF Groups
  <2> QED BY <1>11, <2>3, <2>11, <2>12 DEF GroupsTo
<1> QED BY <1>9, <1>10

(* Rows are added one after the other.                                       *)
RowByRow(A, s) ==
  \E f \in [0..Len(s) -> A] :
    /\ f[0] = <<>> /\ f[Len(s)] = GroupRows(s)
    /\ \A i \in 1..Len(s) : f[i] = AddRow(f[i - 1], s[i])

LEMMA GroupRowsFold ==
  ASSUME NEW A, <<>> \in A, NEW X, NEW s \in Seq(X),
         \A items \in A, x \in X : AddRow(items, x) \in A
  PROVE  RowByRow(A, s)
<1> DEFINE n == Len(s)
           op == [i \in 1..n |-> [a \in A |-> AddRow(a, s[i])]]
           Iter(F) == [t \in SUBSET (DOMAIN s) |->
                  IF t = {} THEN <<>> ELSE AddRow(F[t \ {LargestOf(t)}], s[LargestOf(t)])]
<1>1. GroupRows(s) = (CHOOSE F : F = Iter(F))[DOMAIN s]
  BY Zenon DEF GroupRows, Seqs!FoldLeft, Seqs!MapThenFoldSet, Seqs!Max, LargestOf
<1>2. n \in Nat /\ DOMAIN s = 1..n /\ \A i \in 1..n : s[i] \in X
  BY LenProperties, ElementOfSeq
<1>3. op \in [1..n -> [A -> A]] /\ \A i \in 1..n, a \in A : op[i][a] = AddRow(a, s[i])
  BY <1>2
<1> HIDE DEF n, op
<1>4. \A t \in SUBSET (1..n) : t # {} => LargestOf(t) \in t
  BY <1>2, SubsetLargest
<1>5. \E F : F = Iter(F)
  <2>0. PICK b \in A : b = <<>>
    OBVIOUS
  <2>1. PICK F : SubsetSolution(A, b, n, op, F)
    BY <1>2, <1>3, SubsetRecursion
  <2>2. /\ F \in [SUBSET (1..n) -> A]
        /\ \A t \in SUBSET (1..n) :
             F[t] = IF t = {} THEN b ELSE op[LargestOf(t)][F[t \ {LargestOf(t)}]]
    BY <2>1 DEF SubsetSolution
  <2>3. ASSUME NEW t \in SUBSET (1..n), t # {}
        PROVE  F[t] = AddRow(F[t \ {LargestOf(t)}], s[LargestOf(t)])
    <3>1. F[t \ {LargestOf(t)}] \in A /\ LargestOf(t) \in 1..n
      BY <1>4, <2>2, <2>3
    <3> QED BY <1>3, <2>2, <2>3, <3>1
  <2>4. F = Iter(F)
    BY <1>2, <2>0, <2>2, <2>3
  <2> QED BY <2>4
<1>6. PICK F : F = Iter(F) /\ GroupRows(s) = F[1..n]
  BY <1>1, <1>2, <1>5
<1>7. F[{}] = <<>>
  BY <1>6
<1>8. ASSUME NEW t \in SUBSET (1..n), t # {}, F[t \ {LargestOf(t)}] \in A
      PROVE  F[t] = op[LargestOf(t)][F[t \ {LargestOf(t)}]]
  <2>1. LargestOf(t) \in 1..n
    BY <1>4, <1>8
  <2>2. F[t] = AddRow(F[t \ {LargestOf(t)}], s[LargestOf(t)])
    BY <1>2, <1>6, <1>8
  <2> QED BY <1>3, <1>8, <2>1, <2>2
<1>9. FoldsTo(A, <<>>, n, op, F[1..n])
  BY <1>2, <1>3, <1>7, <1>8, PrefixesFold
<1>10. PICK f \in [0..n -> A] : f[0] = <<>> /\ f[n] = F[1..n] /\ \A i \in 1..n : f[i] = op[i][f[i - 1]]
  BY <1>9 DEF FoldsTo
<1>11. \A i \in 1..n : f[i] = AddRow(f[i - 1], s[i])
  <2>1. \A i \in 1..n : i - 1 \in 0..n
    BY <1>2
  <2> QED BY <1>3, <1>10, <2>1
<1> QED BY <1>6, <1>10, <1>11 DEF n, RowByRow

LEMMA GroupedRows ==
  ASSUME StoredInv, NEW S, Consistent(S), NEW s \in Seq(S),
         \A i, j \in 1..Len(s) : i < j => Precedes(s[i], s[j])
  PROVE  Groups(GroupRows(s), {s[i] : i \in 1..Len(s)})
<1> DEFINE Prefix(n) == {s[i] : i \in 1..n}
<1>1. PICK m \in Nat : m = Len(s)
  BY LenProperties
<1>2. \A i \in 1..m : s[i] \in S
  BY <1>1, ElementOfSeq
<1>3. ASSUME NEW items \in Seq(ItemRow), NEW x \in S PROVE AddRow(items, x) \in Seq(ItemRow)
  <2>1. x.recording \in Recordings /\ x.id \in Nat /\ x.line_no \in Nat
    BY DEF Consistent, MatchRow
  <2>2. CASE items # <<>>
    <3>1. PICK n \in Nat : n = Len(items) /\ n \in 1..n /\ items[n] \in ItemRow
      BY <2>2, LenProperties, ElementOfSeq
    <3>2. PICK h \in Seq(Nat) : h = Append(items[n].hits, x.line_no)
      BY <2>1, <3>1, AppendProperties DEF ItemRow
    <3>3. [items[n] EXCEPT !.hits = h] \in ItemRow
      BY <3>1 DEF ItemRow
    <3>4. [items EXCEPT ![n] = [items[n] EXCEPT !.hits = h]] \in Seq(ItemRow)
      BY <3>1, <3>3
    <3>5. [items EXCEPT ![n].hits = h] = [items EXCEPT ![n] = [items[n] EXCEPT !.hits = h]]
      BY <3>1
    <3>6. [items EXCEPT ![n].hits = Append(@, x.line_no)] = [items EXCEPT ![n].hits = h]
      BY <3>1, <3>2
    <3>7. Append(items, Item(x, <<x.line_no>>)) \in Seq(ItemRow)
      BY <2>1 DEF Item, ItemRow
    <3> QED BY <3>1, <3>4, <3>5, <3>6, <3>7 DEF AddRow
  <2>3. CASE items = <<>>
    BY <2>1, <2>3 DEF AddRow, Item, ItemRow
  <2> QED BY <2>2, <2>3
<1>4. PICK f \in [0..m -> Seq(ItemRow)] :
        /\ f[0] = <<>> /\ f[m] = GroupRows(s)
        /\ \A i \in 1..m : f[i] = AddRow(f[i - 1], s[i])
  <2>1. <<>> \in Seq(ItemRow) /\ \A items \in Seq(ItemRow), x \in S : AddRow(items, x) \in Seq(ItemRow)
    BY <1>3
  <2>2. RowByRow(Seq(ItemRow), s)
    BY <2>1, GroupRowsFold
  <2> QED BY <1>1, <2>2 DEF RowByRow
<1> DEFINE Made(n) == /\ Groups(f[n], Prefix(n))
                      /\ n # 0 => f[n] # <<>> /\ f[n][Len(f[n])].id = s[n].id
           N == {n \in Nat : n <= m => Made(n)}
<1>5. Made(0)
  <2>1. Prefix(0) = {} /\ f[0] = <<>> /\ Len(<<>>) = 0 /\ 1..0 = {} /\ <<>> \in Seq(ItemRow)
    BY <1>4
  <2> HIDE DEF Prefix
  <2> QED BY <2>1 DEF Groups
<1>6. ASSUME NEW n \in Nat, n + 1 <= m, Made(n) PROVE Made(n + 1)
  <2>1. /\ n + 1 \in 1..m /\ (n + 1) - 1 = n /\ n \in 0..m
        /\ \A i \in 1..n : i \in 1..m /\ i < n + 1
        /\ \A i \in 1..n + 1 : i \in 1..n \/ i = n + 1
        /\ \A i \in 1..n : i \in 1..n + 1
        /\ n + 1 \in 1..n + 1
    BY <1>6
  <2>2. Prefix(n) \in SUBSET S /\ s[n + 1] \in S /\ Prefix(n + 1) = Prefix(n) \cup {s[n + 1]}
    BY <1>2, <2>1
  <2>3. \A y \in Prefix(n) : Precedes(y, s[n + 1])
    BY <1>1, <2>1
  <2>4. f[n + 1] = AddRow(f[n], s[n + 1])
    BY <1>4, <2>1
  <2>5. PICK last \in S : /\ f[n] # <<>> => last \in Prefix(n) /\ f[n][Len(f[n])].id = last.id
                          /\ \A y \in Prefix(n) : y = last \/ Precedes(y, last)
    <3>1. CASE n = 0
      <4>1. Prefix(n) = {} /\ f[n] = <<>>
        BY <1>4, <3>1
      <4> QED BY <2>2, <4>1
    <3>2. CASE n # 0
      <4>1. n \in 1..n /\ n \in 1..m /\ \A i \in 1..n : i = n \/ i < n
        BY <2>1, <3>2
      <4>2. s[n] \in S /\ s[n] \in Prefix(n)
        BY <1>2, <4>1
      <4>3. \A y \in Prefix(n) : y = s[n] \/ Precedes(y, s[n])
        BY <1>1, <2>1, <4>1
      <4>4. f[n][Len(f[n])].id = s[n].id
        BY <1>6, <3>2
      <4> QED BY <4>2, <4>3, <4>4
    <3> QED BY <3>1, <3>2
  <2>6. Groups(f[n], Prefix(n))
    BY <1>6
  <2> HIDE DEF Prefix
  <2>7. PICK x \in S, K \in SUBSET S : x = s[n + 1] /\ K = Prefix(n)
    BY <2>2
  <2>10. PICK items : items = f[n]
    OBVIOUS
  <2>8. AddsNext(S, K, x, last, items)
    BY <2>3, <2>5, <2>6, <2>7, <2>10 DEF AddsNext
  <2>9. GroupsTo(AddRow(items, x), K \cup {x}, x)
    BY <2>8, RowAdded
  <2> QED BY <2>2, <2>4, <2>7, <2>9, <2>10 DEF GroupsTo
<1> HIDE DEF Made
<1>7. \A n \in Nat : n \in N
  <2>1. 0 \in N
    BY <1>5
  <2>2. ASSUME NEW n \in Nat, n \in N PROVE n + 1 \in N
    BY <1>6, <2>2
  <2> HIDE DEF N
  <2> QED BY <2>1, <2>2, SetInduction
<1>8. Made(m)
  BY <1>7
<1> QED BY <1>1, <1>4, <1>8 DEF Made

(* The window functions: DENSE_RANK counts the newer programs, and each      *)
(* program has a row that ROW_NUMBER puts first.                             *)
RowPrograms(S) == {x.recording : x \in S}

LEMMA RankOfProgram ==
  ASSUME StoredInv, NEW S, Consistent(S), NEW x \in S
  PROVE  ProgramRank(S, x) = 1 + Cardinality(EarlierIn(RowPrograms(S), NewerRows, x.recording))
<1> DEFINE E == EarlierIn(RowPrograms(S), NewerRows, x.recording)
           F == {[id |-> y.id, at |-> y.recording.at] : y \in {z \in S : Newer(z, x)}}
           g == [q \in E |-> [id |-> ids[q], at |-> q.at]]
<1>1. \A y \in S : y.recording \in Rows /\ y.id = ids[y.recording]
  BY DEF Consistent
<1>2. RowPrograms(S) \in SUBSET Rows
  BY <1>1 DEF RowPrograms
<1>3. \A y \in S : Newer(y, x) <=> <<y.recording, x.recording>> \in NewerRows
  BY <1>1 DEF NewerRows, Newer
<1>4. \A q : q \in E <=> \E y \in S : y.recording = q /\ Newer(y, x)
  BY <1>3 DEF EarlierIn, RowPrograms
<1>5. IsFiniteSet(E) /\ E \in SUBSET Rows
  <2>1. E \in SUBSET Rows
    BY <1>2 DEF EarlierIn
  <2> QED BY <2>1, RowsOrder
<1>6. ASSUME NEW q \in E PROVE g[q] \in F
  BY <1>1, <1>4
<1>7. ASSUME NEW w \in F PROVE \E q \in E : g[q] = w
  <2>1. PICK y \in S : Newer(y, x) /\ w = [id |-> y.id, at |-> y.recording.at]
    OBVIOUS
  <2>2. y.recording \in E
    BY <1>4, <2>1
  <2> HIDE DEF E
  <2> QED BY <1>1, <2>1, <2>2
<1>8. ASSUME NEW p \in E, NEW q \in E, g[p] = g[q] PROVE p = q
  <2>1. ids[p] = ids[q]
    BY <1>8
  <2> QED BY <1>5, <2>1, RowsOrder
<1>9. g \in Bijection(E, F)
  <2>1. g \in [E -> F]
    BY <1>6
  <2> HIDE DEF E, F, g
  <2> QED BY <1>7, <1>8, <2>1 DEF Bijection, Injection, Surjection, IsInjective
<1>10. Cardinality(F) = Cardinality(E)
  <2> HIDE DEF E, F, g
  <2> QED BY <1>5, <1>9, FS_Bijection DEF ExistsBijection
<1> QED BY <1>10 DEF ProgramRank

LEMMA FirstRow ==
  ASSUME StoredInv, NEW S, Consistent(S), NEW r \in RowPrograms(S)
  PROVE  \E x \in S : x.recording = r /\ HitRank(S, x) = 1
<1> DEFINE T == {x.line_no : x \in {y \in S : y.recording = r}}
<1>1. T \in SUBSET Nat /\ T # {}
  BY DEF Consistent, MatchRow, RowPrograms
<1>2. PICK m \in T : \A k \in T : m <= k
  <2> HIDE DEF T
  <2> QED BY <1>1, SmallestMember
<1>3. PICK x \in S : x.recording = r /\ x.line_no = m
  OBVIOUS
<1>4. {y \in S : y.id = x.id /\ ByLine(y, x)} = {}
  <2> SUFFICES ASSUME NEW y \in S, y.id = x.id, y.line_no < x.line_no PROVE FALSE
    BY DEF ByLine
  <2>1. y.recording = x.recording /\ y.line_no \in Nat /\ x.line_no \in Nat
    BY RowsPrecede
  <2>2. m <= y.line_no /\ m \in Nat
    BY <1>1, <1>2, <1>3, <2>1
  <2> HIDE DEF T
  <2> QED BY <1>3, <2>1, <2>2
<1>5. Cardinality({y \in S : y.id = x.id /\ ByLine(y, x)}) + 1 = 1
  BY <1>4, FS_EmptySet
<1> QED BY <1>3, <1>5 DEF HitRank

(* The rows that the ranks keep are the newest programs that have a row,     *)
(* each with its first rows.                                                 *)
Kept(S, limit, inner) ==
  {x \in S : ProgramRank(S, x) <= limit /\ HitRank(S, x) <= inner}

FirstLines(items, S, inner) ==
  \A i \in 1..Len(items) :
    /\ Items(items[i].hits) =
         {x.line_no : x \in {y \in S : y.id = items[i].id /\ HitRank(S, y) <= inner}}
    /\ \A k, l \in 1..Len(items[i].hits) : k < l => items[i].hits[k] < items[i].hits[l]

LEMMA CaptionLists ==
  ASSUME StoredInv, NEW S, IsFiniteSet(S), Consistent(S),
         NEW limit \in Nat, NEW inner \in Nat \ {0}
  PROVE  /\ Lists(GroupRows(Ranked(S, limit, inner)), RowPrograms(S), limit)
         /\ FirstLines(GroupRows(Ranked(S, limit, inner)), S, inner)
<1> DEFINE T == Kept(S, limit, inner)
           A == RowPrograms(S)
<1>1. PICK s : s = Ranked(S, limit, inner)
  OBVIOUS
<1>2. PICK items : items = GroupRows(s)
  OBVIOUS
<1>3. T \in SUBSET S /\ IsFiniteSet(T) /\ Consistent(T)
  <2>1. T \in SUBSET S
    BY DEF Kept
  <2> HIDE DEF T
  <2>2. IsFiniteSet(T)
    BY <2>1, FS_Subset
  <2> QED BY <2>1, <2>2 DEF Consistent
<1>4. s = SortedRows(T)
  BY <1>1 DEF Ranked, Kept, SortedRows
<1>5. A \in SUBSET Rows /\ IsFiniteSet(A)
  <2>1. A \in SUBSET Rows
    BY DEF Consistent, RowPrograms
  <2> QED BY <2>1, RowsOrder
<1>6. \A r \in A : Cardinality(EarlierIn(A, NewerRows, r)) \in Nat
  <2> SUFFICES ASSUME NEW r \in A PROVE Cardinality(EarlierIn(A, NewerRows, r)) \in Nat
    OBVIOUS
  <2>1. EarlierIn(A, NewerRows, r) \in SUBSET A
    BY DEF EarlierIn
  <2> HIDE DEF A
  <2> QED BY <1>5, <2>1, FS_Subset, FS_CardinalityType
<1>7. \A x \in S : /\ x.recording \in A
                   /\ ProgramRank(S, x) <= limit <=> x.recording \in TopIn(A, NewerRows, limit)
  <2> SUFFICES ASSUME NEW x \in S
               PROVE  /\ x.recording \in A
                      /\ ProgramRank(S, x) <= limit <=> x.recording \in TopIn(A, NewerRows, limit)
    OBVIOUS
  <2>1. x.recording \in A
    BY DEF RowPrograms
  <2>2. PICK n \in Nat : n = Cardinality(EarlierIn(A, NewerRows, x.recording))
    BY <1>6, <2>1
  <2>3. ProgramRank(S, x) = 1 + n
    BY <2>2, RankOfProgram
  <2> HIDE DEF A
  <2> QED BY <2>1, <2>2, <2>3 DEF TopIn
<1>8. \A x \in S : x \in T <=> x.recording \in TopIn(A, NewerRows, limit) /\ HitRank(S, x) <= inner
  BY <1>7 DEF Kept
<1>9. RowPrograms(T) = TopIn(A, NewerRows, limit)
  <2>1. ASSUME NEW r \in TopIn(A, NewerRows, limit) PROVE \E x \in T : x.recording = r
    <3>1. r \in RowPrograms(S)
      BY DEF TopIn
    <3>2. PICK x \in S : x.recording = r /\ HitRank(S, x) = 1
      BY <3>1, FirstRow
    <3> QED BY <1>8, <3>2
  <2>2. \A x \in T : x.recording \in TopIn(A, NewerRows, limit)
    BY <1>3, <1>8
  <2> HIDE DEF T, A
  <2> QED BY <2>1, <2>2 DEF RowPrograms
<1> HIDE DEF T, A
<1>10. /\ s \in Seq(T) /\ {s[i] : i \in 1..Len(s)} = T
       /\ \A i, j \in 1..Len(s) : i < j => Precedes(s[i], s[j])
  <2>1. InOrder(SortedRows(T), T)
    BY <1>3, RowsSorted
  <2>2. InOrder(s, T)
    BY <1>4, <2>1
  <2> QED BY <2>2 DEF InOrder
<1>11. Groups(items, T)
  BY <1>2, <1>3, <1>10, GroupedRows
<1>12. /\ items \in Seq(ItemRow)
       /\ \A i, j \in 1..Len(items) : i < j => Newer(items[i], items[j])
       /\ \A i \in 1..Len(items) :
            \E x \in T : x.recording = items[i].recording /\ x.id = items[i].id
       /\ \A x \in T : \E i \in 1..Len(items) : items[i].recording = x.recording
  BY <1>11 DEF Groups
<1>13. \A i \in 1..Len(items) :
         items[i].recording \in Rows /\ items[i].id = ids[items[i].recording]
  BY <1>3, <1>12 DEF Consistent
<1>14. {items[i].recording : i \in 1..Len(items)} = TopIn(A, NewerRows, limit)
  BY <1>9, <1>12 DEF RowPrograms
<1>15. Lists(items, A, limit)
  BY <1>12, <1>13, <1>14 DEF Lists
<1>16. ASSUME NEW i \in 1..Len(items)
       PROVE  /\ Items(items[i].hits) =
                   {x.line_no : x \in {y \in S : y.id = items[i].id /\ HitRank(S, y) <= inner}}
              /\ \A k, l \in 1..Len(items[i].hits) : k < l => items[i].hits[k] < items[i].hits[l]
  <2>1. /\ Items(items[i].hits) = {x.line_no : x \in {y \in T : y.id = items[i].id}}
        /\ \A k, l \in 1..Len(items[i].hits) : k < l => items[i].hits[k] < items[i].hits[l]
    BY <1>11 DEF Groups
  <2>2. PICK z \in T : z.recording = items[i].recording /\ z.id = items[i].id
    BY <1>12
  <2>3. \A y \in S : y.id = z.id => y.recording = z.recording
    BY <1>3, RowsPrecede
  <2>4. {y \in T : y.id = items[i].id} = {y \in S : y.id = items[i].id /\ HitRank(S, y) <= inner}
    BY <1>3, <1>8, <2>2, <2>3
  <2> QED BY <2>1, <2>4
<1>17. FirstLines(items, S, inner)
  BY <1>16 DEF FirstLines
<1> QED BY <1>1, <1>2, <1>15, <1>17 DEF A

-----------------------------------------------------------------------------
(* A search by `q`, in two statements.                                       *)

IsSearch == request # Null /\ request.kind = "search"

(* An item is newer than what a program is now.                              *)
NewerThanRow(item, r) ==
  \/ item.recording.at > r.at
  \/ item.recording.at = r.at /\ item.id > ids[r]

(* The program is in the list, or newer ones fill it.                        *)
Carried(items, r, limit) ==
  \/ \E i \in 1..Len(items) : items[i].recording = r /\ items[i].id = ids[r]
  \/ Len(items) = limit /\ \A i \in 1..Len(items) : NewerThanRow(items[i], r)

(* What the first statement found, and what has matched ever since.          *)
SearchSound ==
  /\ request.search \in Requests
  /\ ItemList(request.by_line)
  /\ \A r \in lasting.captions :
       r \in Rows /\ Carried(request.by_line, r, Search(request.search).limit)
  /\ lasting.metadata \subseteq MetadataMatches(request.search)

SearchInv == StoredInv /\ (IsSearch => SearchSound)

LEMMA SearchLimits ==
  ASSUME NEW req \in Requests
  PROVE  /\ Search(req).limit \in Nat \ {0} /\ Search(req).inner_hits \in Nat \ {0}
         /\ Search(req).limit <= MaxLimit /\ Search(req).inner_hits <= MaxInnerHits
<1>1. req.limit \in Int /\ req.inner_hits \in Int
  BY QueryAssumption DEF Request
<1>2. MaxLimit \in Nat \ {0} /\ MaxInnerHits \in Nat \ {0}
  BY QueryAssumption
<1>3. ASSUME NEW n \in Int, NEW high \in Nat \ {0}
      PROVE  Clamp(n, 1, high) \in Nat \ {0} /\ Clamp(n, 1, high) <= high
  BY DEF Clamp
<1>4. /\ Search(req).limit = Clamp(req.limit, 1, MaxLimit)
      /\ Search(req).inner_hits = Clamp(req.inner_hits, 1, MaxInnerHits)
  BY DEF Search
<1> QED BY <1>1, <1>2, <1>3, <1>4

(* The matches of captions are programs.                                     *)
LEMMA MatchesAreRows ==
  ASSUME OwnerConsistent, NEW req
  PROVE  CaptionMatches(req) \subseteq Rows
<1> SUFFICES ASSUME NEW r \in CaptionMatches(req) PROVE r \in Rows
  OBVIOUS
<1>0. PICK x \in MatchedLines(Parsed[req.q], Rows, Search(req).filter) : r = x.recording
  BY DEF CaptionMatches
<1>1. PICK y \in CaptionRows : r = y.program
  <2>1. PICK y \in CaptionRows :
          x = [recording |-> y.program, id |-> ids[y.program], line_no |-> y.line_no]
    BY DEF MatchedLines
  <2> QED BY <1>0, <2>1
<1>2. PICK q \in Recordings : y.program = q /\ captions[q] # {}
  BY <1>1 DEF CaptionRows
<1> QED BY <1>1, <1>2 DEF Rows, OwnerConsistent

(* A list of the newest carries each program that it lists from.             *)
LEMMA ListsCarry ==
  ASSUME StoredInv, NEW A \in SUBSET Rows, NEW limit \in Nat, NEW items,
         Lists(items, A, limit), NEW r \in A
  PROVE  Carried(items, r, limit)
<1>1. \/ \E i \in 1..Len(items) : items[i].recording = r
      \/ /\ Len(items) = limit
         /\ \A i \in 1..Len(items) : <<items[i].recording, r>> \in NewerRows
  BY ListsComplete
<1>2. \A i \in 1..Len(items) : items[i].id = ids[items[i].recording]
  BY DEF Lists
<1>3. \A i \in 1..Len(items) :
        <<items[i].recording, r>> \in NewerRows => NewerThanRow(items[i], r)
  BY <1>2 DEF NewerRows, NewerThanRow
<1> QED BY <1>1, <1>2, <1>3 DEF Carried

LEMMA FirstStatement ==
  ASSUME StoredInv, NEW req \in Requests, SearchFirst(req)
  PROVE  SearchSound'
<1>1. /\ request' = [kind |-> "search", search |-> req, by_line |-> ByLineOf(req)]
      /\ lasting' = [captions |-> CaptionMatches(req), metadata |-> MetadataMatches(req)]
      /\ UNCHANGED storedVars
  BY DEF SearchFirst
<1>2. PICK S : S = MatchedLines(Parsed[req.q], Rows, Search(req).filter)
  OBVIOUS
<1>3. IsFiniteSet(S) /\ Consistent(S)
  BY <1>2, MatchedRows
<1>4. RowPrograms(S) = CaptionMatches(req) /\ RowPrograms(S) \in SUBSET Rows
  <2>1. RowPrograms(S) = CaptionMatches(req)
    BY <1>2 DEF RowPrograms, CaptionMatches
  <2> QED BY <2>1, MatchesAreRows DEF StoredInv
<1>5. PICK limit \in Nat, inner \in Nat \ {0} :
        limit = Search(req).limit /\ inner = Search(req).inner_hits
  BY SearchLimits
<1>6. PICK items : items = ByLineOf(req)
  OBVIOUS
<1>7. items = GroupRows(Ranked(S, limit, inner))
  BY <1>2, <1>5, <1>6 DEF ByLineOf, SearchCaptions
<1>8. Lists(items, RowPrograms(S), limit)
  BY <1>3, <1>7, CaptionLists
<1>9. ItemList(items)
  BY <1>4, <1>8, ListsComplete
<1>10. \A r \in CaptionMatches(req) : r \in Rows /\ Carried(items, r, limit)
  BY <1>4, <1>8, ListsCarry
<1>11. Rows' = Rows /\ ids' = ids /\ MetadataMatches(req)' = MetadataMatches(req)
  BY <1>1 DEF storedVars, writerVars, indexVars, dbVars, Rows, MetadataMatches, MatchedPrograms,
     Passes
<1>12. \A r \in CaptionMatches(req) : r \in Rows' /\ Carried(items, r, limit)'
  BY <1>10, <1>11 DEF Carried, NewerThanRow
<1> QED BY <1>1, <1>5, <1>6, <1>9, <1>11, <1>12 DEF SearchSound

LEMMA SearchKept ==
  ASSUME StoredInv, WriterStep, StoredInv', IsSearch, SearchSound
  PROVE  SearchSound'
<1>1. request' = request
  BY DEF WriterStep, KeepHandle, IsSearch
<1>2. lasting' = [captions |-> lasting.captions \cap CaptionMatches(request.search)',
                  metadata |-> lasting.metadata \cap MetadataMatches(request.search)']
  BY DEF WriterStep, StillMatching, IsSearch
<1>3. \A r \in Rows : r \in Rows' => ids'[r] = ids[r]
  BY DEF WriterStep, AssignIds, Rows
<1>4. ASSUME NEW r \in lasting'.captions
      PROVE  r \in Rows' /\ Carried(request.by_line, r, Search(request.search).limit)'
  <2>1. r \in lasting.captions /\ r \in CaptionMatches(request.search)'
    BY <1>2, <1>4
  <2>2. r \in Rows'
    <3>1. PICK x \in MatchedLines(Parsed[request.search.q], Rows, Search(request.search).filter)' :
            r = x.recording
      BY <2>1 DEF CaptionMatches
    <3>2. PICK y \in CaptionRows' :
            x = [recording |-> y.program, id |-> ids'[y.program], line_no |-> y.line_no]
      BY DEF MatchedLines
    <3>3. PICK q \in Recordings : y.program = q /\ captions'[q] # {}
      BY DEF CaptionRows
    <3> QED BY <3>1, <3>2, <3>3 DEF Rows, StoredInv, OwnerConsistent
  <2>3. r \in Rows /\ Carried(request.by_line, r, Search(request.search).limit)
    BY <2>1 DEF SearchSound
  <2> QED BY <1>1, <1>3, <2>2, <2>3 DEF Carried, NewerThanRow
<1>5. lasting'.metadata \subseteq MetadataMatches(request.search)'
  BY <1>2
<1> QED BY <1>1, <1>4, <1>5 DEF SearchSound

LEMMA SearchSame ==
  SearchInv /\ UNCHANGED <<storedVars, request, lasting>> => SearchInv'
<1> SUFFICES ASSUME SearchInv, UNCHANGED <<storedVars, request, lasting>> PROVE SearchInv'
  OBVIOUS
<1>1. StoredInv'
  BY StoredSame DEF SearchInv
<1>2. ASSUME IsSearch, SearchSound PROVE SearchSound'
  <2>1. Rows' = Rows /\ ids' = ids
    BY DEF storedVars, writerVars, indexVars, Rows
  <2>2. MetadataMatches(request.search)' = MetadataMatches(request.search)
    BY <2>1 DEF storedVars, MetadataMatches, MatchedPrograms, Passes
  <2> QED BY <1>2, <2>1, <2>2 DEF SearchSound, Carried, NewerThanRow
<1> QED BY <1>1, <1>2 DEF SearchInv, IsSearch

LEMMA SearchInvInit == QueryInit => SearchInv
BY StoredInit DEF QueryInit, SearchInv, IsSearch

LEMMA SearchInvNext == RawInv /\ SearchInv /\ [QueryNext]_queryVars => SearchInv'
<1> SUFFICES ASSUME RawInv, SearchInv, [QueryNext]_queryVars PROVE SearchInv'
  OBVIOUS
<1>0. StoredInv
  BY DEF SearchInv
<1>1. CASE UNCHANGED <<storedVars, request, lasting>>
  BY <1>1, SearchSame
<1>2. CASE WriterStep
  <2>1. IsSearch' => IsSearch
    BY <1>2 DEF WriterStep, KeepHandle, IsSearch
  <2> QED BY <1>0, <1>2, <2>1, StoredNext, SearchKept DEF SearchInv
<1>3. ASSUME NEW req \in Requests, SearchFirst(req) PROVE SearchInv'
  <2>1. StoredInv'
    BY <1>0, <1>3, StoredSame DEF SearchFirst
  <2> QED BY <1>0, <1>3, <2>1, FirstStatement DEF SearchInv
<1>4. CASE SearchSecond \/ RawGone \/ RawEnd
  BY <1>0, <1>4, StoredSame DEF SearchSecond, RawGone, RawEnd, SearchInv, IsSearch
<1>5. ASSUME NEW r \in Recordings, RawFind(r) PROVE SearchInv'
  BY <1>0, <1>5, StoredSame DEF RawFind, SearchInv, IsSearch
<1>6. CASE RawStat \/ RawOpen \/ RawRead
  <2>1. request \in RawRequest /\ request.kind = "raw"
    BY <1>6 DEF RawStat, RawOpen, RawRead, Asking, RawInv, IsRaw, RawSound
  <2>2. request'.kind = request.kind
    BY <1>6, <2>1 DEF RawStat, RawOpen, RawRead, RawRequest
  <2> QED BY <1>0, <1>6, <2>1, <2>2, StoredSame DEF RawStat, RawOpen, RawRead, SearchInv, IsSearch
<1>7. CASE OpenDatabase \/ UNCHANGED queryVars
  BY <1>1, <1>7 DEF OpenDatabase, queryVars
<1> QED BY <1>2, <1>3, <1>4, <1>5, <1>6, <1>7 DEF QueryNext

(* When `limit` of the merged items are newer than a program, all that are   *)
(* answered are.                                                             *)
LEMMA NewerFill ==
  ASSUME NEW by_line, ItemList(by_line), NEW by_program, ItemList(by_program),
         NEW limit \in Nat, NEW r, r.at \in Nat, ids[r] \in Nat,
         NEW full, ItemList(full), Len(full) = limit,
         Items(full) \subseteq MergedSet(by_line, by_program),
         \A x \in Items(full) : NewerThanRow(x, r)
  PROVE  LET items == Merged(by_line, by_program, limit)
         IN  Len(items) = limit /\ \A i \in 1..Len(items) : NewerThanRow(items[i], r)
<1> DEFINE U == MergedSet(by_line, by_program)
<1>1. PICK items : items = Merged(by_line, by_program, limit)
  OBVIOUS
<1>2. /\ Distinct(U) /\ U \subseteq ItemRow /\ items \in Seq(U) /\ Len(items) <= limit
      /\ \A i, j \in 1..Len(items) : i < j => Newer(items[i], items[j])
      /\ \A x \in U : x \notin Items(items) =>
           Len(items) = limit /\ \A i \in 1..Len(items) : Newer(items[i], x)
  BY <1>1, MergedItems
<1>3. Items(full) \subseteq U
  OBVIOUS
<1> HIDE DEF U
<1>4. /\ Len(items) \in Nat /\ DOMAIN items = 1..Len(items)
      /\ \A i \in 1..Len(items) : items[i] \in U /\ items[i] \in ItemRow
  BY <1>2, LenProperties, ElementOfSeq
<1>5. \A x \in ItemRow : x.recording.at \in Nat /\ x.id \in Nat
  BY ArchiveAssumption DEF ItemRow, Recordings
<1>6. CASE Items(full) \subseteq Items(items)
  <2>1. ItemList(items)
    <3>1. items \in Seq(ItemRow)
      <4>1. PICK n \in Nat : n = Len(items) /\ items \in [1..n -> U]
        BY <1>2, <1>4, LenProperties
      <4>2. items \in [1..n -> ItemRow]
        BY <1>2, <4>1
      <4> QED BY <4>2
    <3>2. ASSUME NEW i \in 1..Len(items), NEW j \in 1..Len(items), items[i].id = items[j].id
          PROVE  i = j
      <4>1. items[i] = items[j] /\ items[i].recording.at \in Nat /\ items[i].id \in Nat
        BY <1>2, <1>4, <1>5, <3>2 DEF Distinct
      <4>2. ~Newer(items[i], items[j]) /\ ~Newer(items[j], items[i])
        BY <4>1 DEF Newer
      <4>3. ~(i < j) /\ ~(j < i)
        BY <1>2, <4>2
      <4> QED BY <1>4, <4>3
    <3> QED BY <3>1, <3>2 DEF ItemList
  <2>2. /\ IsFiniteSet(Items(items)) /\ Cardinality(Items(items)) = Len(items)
        /\ Items(items) = {items[i] : i \in 1..Len(items)}
    BY <2>1, ListItems
  <2>3. IsFiniteSet(Items(full)) /\ Cardinality(Items(full)) = limit
    BY ListItems
  <2>4. Items(full) = Items(items) /\ Len(items) = limit
    <3>1. /\ Cardinality(Items(full)) <= Cardinality(Items(items))
          /\ Cardinality(Items(full)) = Cardinality(Items(items)) => Items(full) = Items(items)
      BY <1>6, <2>2, FS_Subset
    <3>2. Len(items) <= limit /\ limit <= Len(items)
      BY <1>2, <2>2, <2>3, <3>1
    <3>3. Len(items) = limit
      <4>1. PICK n \in Nat : n = Len(items)
        BY <1>4
      <4>2. n = limit
        BY <3>2, <4>1
      <4> QED BY <4>1, <4>2
    <3> QED BY <2>2, <2>3, <3>1, <3>3
  <2> QED BY <1>1, <2>2, <2>4
<1>7. CASE ~(Items(full) \subseteq Items(items))
  <2>1. PICK x \in Items(full) : x \notin Items(items)
    BY <1>7
  <2>2. /\ x \in U /\ x \in ItemRow /\ NewerThanRow(x, r)
        /\ Len(items) = limit /\ \A i \in 1..Len(items) : Newer(items[i], x)
    BY <1>2, <1>3, <2>1
  <2>3. ASSUME NEW i \in 1..Len(items) PROVE NewerThanRow(items[i], r)
    <3>1. /\ items[i].recording.at \in Nat /\ items[i].id \in Nat
          /\ x.recording.at \in Nat /\ x.id \in Nat
      BY <1>4, <1>5, <2>2
    <3> QED BY <2>2, <3>1 DEF Newer, NewerThanRow
  <2> QED BY <1>1, <2>2, <2>3
<1> QED BY <1>6, <1>7

(* What the answer says of a program that kept matching.                     *)
Covered(items, r, limit) ==
  \/ \E i \in 1..Len(items) : items[i].recording = r
  \/ Len(items) = limit /\ \A i \in 1..Len(items) : NewerThanRow(items[i], r)

(* An item of either list that is in the merge carries its program.          *)
LEMMA OneMerged ==
  ASSUME NEW by_line, ItemList(by_line), NEW by_program, ItemList(by_program),
         NEW limit \in Nat, NEW r,
         NEW x \in MergedSet(by_line, by_program), x.recording = r, x.id = ids[r]
  PROVE  Covered(Merged(by_line, by_program, limit), r, limit)
<1> DEFINE U == MergedSet(by_line, by_program)
<1>1. PICK items : items = Merged(by_line, by_program, limit)
  OBVIOUS
<1>2. /\ items \in Seq(U)
      /\ x \notin Items(items) =>
           Len(items) = limit /\ \A i \in 1..Len(items) : Newer(items[i], x)
  BY <1>1, MergedItems
<1> HIDE DEF U
<1>3. DOMAIN items = 1..Len(items)
  BY <1>2, LenProperties
<1>4. CASE x \in Items(items)
  <2>1. PICK i \in 1..Len(items) : items[i] = x
    BY <1>3, <1>4 DEF Items
  <2> QED BY <1>1, <2>1 DEF Covered
<1>5. CASE x \notin Items(items)
  <2>1. \A i \in 1..Len(items) : Newer(items[i], x) => NewerThanRow(items[i], r)
    BY DEF Newer, NewerThanRow
  <2> QED BY <1>1, <1>2, <1>5, <2>1 DEF Covered
<1> QED BY <1>4, <1>5

LEMMA CaptionsCovered ==
  ASSUME NEW by_line, ItemList(by_line), NEW by_program, ItemList(by_program),
         NEW limit \in Nat, NEW r, r.at \in Nat, ids[r] \in Nat, Carried(by_line, r, limit)
  PROVE  Covered(Merged(by_line, by_program, limit), r, limit)
<1>0. Items(by_line) = {by_line[i] : i \in 1..Len(by_line)}
  BY ListItems
<1>1. CASE \E i \in 1..Len(by_line) : by_line[i].recording = r /\ by_line[i].id = ids[r]
  <2>1. PICK x \in MergedSet(by_line, by_program) : x.recording = r /\ x.id = ids[r]
    BY <1>0, <1>1 DEF MergedSet
  <2> QED BY <2>1, OneMerged
<1>2. CASE Len(by_line) = limit /\ \A i \in 1..Len(by_line) : NewerThanRow(by_line[i], r)
  <2>1. Items(by_line) \subseteq MergedSet(by_line, by_program)
    BY DEF MergedSet
  <2>2. \A x \in Items(by_line) : NewerThanRow(x, r)
    BY <1>0, <1>2
  <2> QED BY <1>2, <2>1, <2>2, NewerFill DEF Covered
<1> QED BY <1>1, <1>2 DEF Carried

(* Both lists name a program by its recording.                               *)
SameNames(by_line, by_program) ==
  \A x \in Items(by_line), y \in Items(by_program) : x.id = y.id => x.recording = y.recording

LEMMA MetadataCovered ==
  ASSUME NEW by_line, ItemList(by_line), NEW by_program, ItemList(by_program),
         SameNames(by_line, by_program),
         NEW limit \in Nat, NEW r, r.at \in Nat, ids[r] \in Nat, Carried(by_program, r, limit)
  PROVE  Covered(Merged(by_line, by_program, limit), r, limit)
<1> DEFINE U == MergedSet(by_line, by_program)
<1>0. /\ Items(by_program) = {by_program[i] : i \in 1..Len(by_program)}
      /\ Len(by_program) \in Nat
      /\ \A i, j \in 1..Len(by_program) : by_program[i].id = by_program[j].id => i = j
  BY ListItems DEF ItemList
<1>1. U \subseteq ItemRow
  BY MergedItems
<1>2. \A x \in Items(by_program) : \E y \in U : y.id = x.id /\ y.recording = x.recording
  BY DEF MergedSet, SameNames
<1>3. CASE \E i \in 1..Len(by_program) : by_program[i].recording = r /\ by_program[i].id = ids[r]
  <2>1. PICK x \in MergedSet(by_line, by_program) : x.recording = r /\ x.id = ids[r]
    BY <1>0, <1>2, <1>3
  <2> QED BY <2>1, OneMerged
<1>4. CASE Len(by_program) = limit /\ \A i \in 1..Len(by_program) : NewerThanRow(by_program[i], r)
  <2>1. PICK P : P = by_program
    OBVIOUS
  <2> DEFINE Twin(i) == CHOOSE y \in U : y.id = P[i].id /\ y.recording = P[i].recording
             full == [i \in 1..limit |-> Twin(i)]
  <2>2. ASSUME NEW i \in 1..limit
        PROVE  Twin(i) \in U /\ Twin(i).id = P[i].id /\ Twin(i).recording = P[i].recording
    <3>1. P[i] \in Items(by_program)
      BY <1>0, <1>4, <2>1
    <3> HIDE DEF U
    <3> QED BY <1>2, <3>1
  <2> HIDE DEF U, Twin
  <2>3. full \in [1..limit -> U] /\ \A i \in 1..limit :
          /\ full[i] \in U /\ full[i].id = P[i].id /\ full[i].recording = P[i].recording
    BY <2>2
  <2> HIDE DEF full
  <2>4. full \in [1..limit -> ItemRow]
    BY <1>1, <2>3
  <2>5. full \in Seq(ItemRow) /\ Len(full) = limit
    BY <2>4
  <2>6. ItemList(full)
    BY <1>0, <1>4, <2>1, <2>3, <2>5 DEF ItemList
  <2>7. Items(full) = {full[i] : i \in 1..limit}
    BY <2>5, <2>6, ListItems
  <2>8. Items(full) \subseteq U
    BY <2>3, <2>7
  <2>9. ASSUME NEW x \in Items(full) PROVE NewerThanRow(x, r)
    <3>1. PICK i \in 1..limit : x = full[i]
      BY <2>7
    <3>2. NewerThanRow(by_program[i], r)
      BY <1>4
    <3> QED BY <2>1, <2>3, <3>1, <3>2 DEF NewerThanRow
  <2> QED BY <2>5, <2>6, <2>8, <2>9, NewerFill DEF Covered, U
<1> QED BY <1>3, <1>4 DEF Carried

LEMMA ByProgramLists ==
  ASSUME StoredInv, NEW req \in Requests
  PROVE  Lists(ByProgramOf(req), MetadataMatches(req), Search(req).limit)
<1>1. PICK s : s = Search(req) /\ s.limit \in Nat
  BY SearchLimits
<1>2. Lists(SearchProgramMetadata(Parsed[req.q], s),
            {q \in MatchedPrograms(Parsed[req.q]) : Passes(s.filter, q)}, s.limit)
  BY <1>1, MetadataLists
<1> QED BY <1>1, <1>2 DEF ByProgramOf, MetadataMatches

(* Whatever the writer commits between the two statements of a search by     *)
(* `q`, its answer is in order and within the limit, and a program that kept *)
(* matching is in it unless newer ones fill it; by its title only while no   *)
(* id that the first statement found is another program's                    *)
(* (query.rs:351-390).                                                       *)
THEOREM SearchesComplete == QuerySpec => GeneralComplete
<1>1. ASSUME SearchInv, SearchSecond
      PROVE  LET items == SearchItems
                 limit == Search(request.search).limit
             IN  /\ Len(items) <= limit
                 /\ \A i, j \in DOMAIN items : i < j => Newer(items[i], items[j])
                 /\ \A r \in lasting.captions \cup (IF Renumbered THEN {} ELSE lasting.metadata) :
                      \/ \E i \in DOMAIN items : items[i].recording = r
                      \/ Len(items) = limit /\ \A i \in DOMAIN items : NewerThanRow(items[i], r)
                 /\ \A i \in DOMAIN items :
                      \A x \in Items(request.by_line) : x.id = items[i].id => items[i] = x
  <2>1. StoredInv /\ SearchSound
    BY <1>1 DEF SearchInv, SearchSecond, IsSearch
  <2>2. PICK req \in Requests, limit \in Nat : req = request.search /\ limit = Search(req).limit
    <3>1. request.search \in Requests
      BY <2>1 DEF SearchSound
    <3>2. Search(request.search).limit \in Nat
      BY <3>1, SearchLimits
    <3> QED BY <3>1, <3>2
  <2>0. PICK by_line, by_program : by_line = request.by_line /\ by_program = ByProgramOf(req)
    OBVIOUS
  <2>3. PICK items : items = Merged(by_line, by_program, limit) /\ items = SearchItems
    BY <2>2, <2>0 DEF SearchItems
  <2>4. Lists(by_program, MetadataMatches(req), limit) /\ MetadataMatches(req) \in SUBSET Rows
    BY <2>1, <2>2, <2>0, ByProgramLists DEF MetadataMatches, MatchedPrograms
  <2>5. ItemList(by_line) /\ ItemList(by_program)
    BY <2>1, <2>2, <2>4, <2>0, ListsComplete DEF SearchSound
  <2>6. /\ Distinct(MergedSet(by_line, by_program))
        /\ items \in Seq(MergedSet(by_line, by_program)) /\ Len(items) <= limit
        /\ \A i, j \in 1..Len(items) : i < j => Newer(items[i], items[j])
    BY <2>3, <2>5, MergedOrder
  <2>7. DOMAIN items = 1..Len(items)
    BY <2>6, LenProperties
  <2>8. \A r \in Rows : r.at \in Nat /\ ids[r] \in Nat
    BY <2>1, RowsOrder
  <2>9. ASSUME NEW r \in lasting.captions PROVE Covered(items, r, limit)
    <3>1. r \in Rows /\ Carried(by_line, r, limit)
      BY <2>1, <2>2, <2>0 DEF SearchSound
    <3> QED BY <2>3, <2>5, <2>8, <3>1, CaptionsCovered
  <2>10. ASSUME ~Renumbered, NEW r \in lasting.metadata PROVE Covered(items, r, limit)
    <3>1. r \in MetadataMatches(req) /\ r \in Rows
      BY <2>1, <2>2, <2>4 DEF SearchSound
    <3>2. Carried(by_program, r, limit)
      BY <2>1, <2>4, <3>1, ListsCarry
    <3>3. SameNames(by_line, by_program)
      <4> SUFFICES ASSUME NEW x \in Items(by_line), NEW y \in Items(by_program), x.id = y.id
                   PROVE  x.recording = y.recording
        BY DEF SameNames
      <4>1. y.recording \in Rows /\ y.id = ids[y.recording]
        BY <2>4, <2>5, ListItems DEF Lists
      <4> QED BY <2>10, <2>0, <4>1 DEF Renumbered
    <3> QED BY <2>3, <2>5, <2>8, <3>1, <3>2, <3>3, MetadataCovered
  <2>11. ASSUME NEW i \in DOMAIN items, NEW x \in Items(by_line), x.id = items[i].id
         PROVE  items[i] = x
    <3>1. x \in MergedSet(by_line, by_program)
      BY DEF MergedSet
    <3>2. items[i] \in MergedSet(by_line, by_program)
      BY <2>6, <2>7, ElementOfSeq
    <3> QED BY <2>6, <2>11, <3>1, <3>2 DEF Distinct
  <2> QED BY <2>2, <2>3, <2>6, <2>7, <2>9, <2>10, <2>11, <2>0 DEF Covered
<1>2. SearchInv /\ [QueryNext]_queryVars =>
        [SearchSecond =>
           LET items == SearchItems
               limit == Search(request.search).limit
               NewerThan(item, r) ==
                 \/ item.recording.at > r.at
                 \/ item.recording.at = r.at /\ item.id > ids[r]
           IN  /\ Len(items) <= limit
               /\ \A i, j \in DOMAIN items : i < j => Newer(items[i], items[j])
               /\ \A r \in lasting.captions \cup (IF Renumbered THEN {} ELSE lasting.metadata) :
                    \/ \E i \in DOMAIN items : items[i].recording = r
                    \/ Len(items) = limit /\ \A i \in DOMAIN items : NewerThan(items[i], r)
               /\ \A i \in DOMAIN items :
                    \A x \in Items(request.by_line) : x.id = items[i].id => items[i] = x
          ]_queryVars
  BY <1>1 DEF NewerThanRow
<1> QED BY <1>2, RawInvInit, RawInvNext, SearchInvInit, SearchInvNext, PTL
        DEF QuerySpec, GeneralComplete

-----------------------------------------------------------------------------
(* The folds of SearchExpressions.                                           *)

(* The sequences w[1], w[2], ... one after the other.                        *)
Concatenation(w) ==
  (CHOOSE F : F = [t \in SUBSET (DOMAIN w) |->
                     IF t = {} THEN <<>> ELSE F[t \ {LargestOf(t)}] \o w[LargestOf(t)]])[DOMAIN w]

ConcatsTo(X, w, result) ==
  \E f \in [0..Len(w) -> Seq(X)] :
    /\ f[0] = <<>> /\ f[Len(w)] = result
    /\ \A i \in 1..Len(w) : f[i] = f[i - 1] \o w[i]

LEMMA ConcatFold ==
  ASSUME NEW X, NEW w \in Seq(Seq(X))
  PROVE  ConcatsTo(X, w, Concatenation(w))
<1> DEFINE n == Len(w)
           A == Seq(X)
           op == [i \in 1..n |-> [a \in A |-> a \o w[i]]]
           Iter(F) == [t \in SUBSET (DOMAIN w) |->
                         IF t = {} THEN <<>> ELSE F[t \ {LargestOf(t)}] \o w[LargestOf(t)]]
<1>1. Concatenation(w) = (CHOOSE F : F = Iter(F))[DOMAIN w]
  BY Zenon DEF Concatenation
<1>2. n \in Nat /\ DOMAIN w = 1..n /\ \A i \in 1..n : w[i] \in A
  BY LenProperties, ElementOfSeq
<1>3. op \in [1..n -> [A -> A]] /\ \A i \in 1..n, a \in A : op[i][a] = a \o w[i]
  <2>1. \A i \in 1..n, a \in A : a \o w[i] \in A
    BY <1>2, ConcatProperties
  <2> HIDE DEF A, n
  <2> QED BY <2>1
<1>0. <<>> \in A
  OBVIOUS
<1> HIDE DEF n, op, A
<1>4. \A t \in SUBSET (1..n) : t # {} => LargestOf(t) \in t
  BY <1>2, SubsetLargest
<1>5. \E F : F = Iter(F)
  <2>0. PICK b \in A : b = <<>>
    BY <1>0
  <2>1. PICK F : SubsetSolution(A, b, n, op, F)
    BY <1>2, <1>3, SubsetRecursion
  <2>2. /\ F \in [SUBSET (1..n) -> A]
        /\ \A t \in SUBSET (1..n) :
             F[t] = IF t = {} THEN b ELSE op[LargestOf(t)][F[t \ {LargestOf(t)}]]
    BY <2>1 DEF SubsetSolution
  <2>3. ASSUME NEW t \in SUBSET (1..n), t # {}
        PROVE  F[t] = F[t \ {LargestOf(t)}] \o w[LargestOf(t)]
    <3>1. F[t \ {LargestOf(t)}] \in A /\ LargestOf(t) \in 1..n
      BY <1>4, <2>2, <2>3
    <3> QED BY <1>3, <2>2, <2>3, <3>1
  <2>4. F = Iter(F)
    BY <1>2, <2>0, <2>2, <2>3
  <2> QED BY <2>4
<1>6. PICK F : F = Iter(F) /\ Concatenation(w) = F[1..n]
  BY <1>1, <1>2, <1>5
<1>7. F[{}] = <<>>
  BY <1>6
<1>8. ASSUME NEW t \in SUBSET (1..n), t # {}, F[t \ {LargestOf(t)}] \in A
      PROVE  F[t] = op[LargestOf(t)][F[t \ {LargestOf(t)}]]
  <2>1. LargestOf(t) \in 1..n
    BY <1>4, <1>8
  <2>2. F[t] = F[t \ {LargestOf(t)}] \o w[LargestOf(t)]
    BY <1>2, <1>6, <1>8
  <2> QED BY <1>3, <1>8, <2>1, <2>2
<1>9. FoldsTo(A, <<>>, n, op, F[1..n])
  BY <1>0, <1>2, <1>3, <1>7, <1>8, PrefixesFold
<1>10. PICK f \in [0..n -> A] :
         f[0] = <<>> /\ f[n] = F[1..n] /\ \A i \in 1..n : f[i] = op[i][f[i - 1]]
  BY <1>9 DEF FoldsTo
<1>11. \A i \in 1..n : f[i] = f[i - 1] \o w[i]
  <2>1. \A i \in 1..n : i - 1 \in 0..n
    BY <1>2
  <2> QED BY <1>3, <1>10, <2>1
<1> QED BY <1>6, <1>10, <1>11 DEF n, A, ConcatsTo

LEMMA ConcatType ==
  ASSUME NEW X, NEW w \in Seq(Seq(X))
  PROVE  Concatenation(w) \in Seq(X) /\ (Len(w) = 0 => Concatenation(w) = <<>>)
<1>1. PICK n \in Nat : n = Len(w)
  BY LenProperties
<1>2. PICK f \in [0..n -> Seq(X)] : f[0] = <<>> /\ f[n] = Concatenation(w)
  BY <1>1, ConcatFold DEF ConcatsTo
<1>3. n \in 0..n
  BY <1>1
<1> QED BY <1>1, <1>2, <1>3

LEMMA ConcatAppend ==
  ASSUME NEW X, NEW w \in Seq(Seq(X)), NEW x \in Seq(X)
  PROVE  Concatenation(Append(w, x)) = Concatenation(w) \o x
<1>1. PICK n \in Nat : n = Len(w)
  BY LenProperties
<1>2. PICK v \in Seq(Seq(X)) : v = Append(w, x)
  BY AppendProperties
<1>3. Len(v) = n + 1 /\ v[n + 1] = x /\ \A i \in 1..n : v[i] = w[i]
  BY <1>1, <1>2, AppendProperties
<1>4. PICK f \in [0..n -> Seq(X)] : /\ f[0] = <<>> /\ f[n] = Concatenation(w)
                                    /\ \A i \in 1..n : f[i] = f[i - 1] \o w[i]
  BY <1>1, ConcatFold DEF ConcatsTo
<1>5. PICK g \in [0..n + 1 -> Seq(X)] : /\ g[0] = <<>> /\ g[n + 1] = Concatenation(v)
                                        /\ \A i \in 1..n + 1 : g[i] = g[i - 1] \o v[i]
  <2>1. ConcatsTo(X, v, Concatenation(v))
    BY <1>2, ConcatFold
  <2> QED BY <1>3, <2>1 DEF ConcatsTo
<1> DEFINE N == {i \in Nat : i <= n => f[i] = g[i]}
<1>6. 0 \in N
  BY <1>4, <1>5
<1>7. ASSUME NEW i \in Nat, i \in N PROVE i + 1 \in N
  <2> SUFFICES ASSUME i + 1 <= n PROVE f[i + 1] = g[i + 1]
    OBVIOUS
  <2>1. i + 1 \in 1..n /\ i + 1 \in 1..n + 1 /\ (i + 1) - 1 = i /\ i <= n
    BY <1>1
  <2> QED BY <1>3, <1>4, <1>5, <1>7, <2>1
<1> HIDE DEF N
<1>8. n \in N
  BY <1>1, <1>6, <1>7, SetInduction
<1>9. f[n] = g[n]
  BY <1>8 DEF N
<1>10. g[n + 1] = g[n] \o v[n + 1]
  <2>1. n + 1 \in 1..n + 1 /\ (n + 1) - 1 = n
    BY <1>1
  <2> QED BY <1>5, <2>1
<1> QED BY <1>2, <1>3, <1>4, <1>5, <1>9, <1>10

(* normalize_search_text.                                                    *)
LEMMA NormalizeFold ==
  ASSUME NEW s \in Seq(Letters)
  PROVE  Normalize(s) = Concatenation([i \in 1..Len(s) |-> Normal[s[i]]])
<1>1. PICK n \in Nat : n = Len(s) /\ DOMAIN s = 1..n
  BY LenProperties
<1>2. PICK w : w = [i \in 1..n |-> Normal[s[i]]]
  OBVIOUS
<1> DEFINE Iter(F) == [t \in SUBSET (DOMAIN s) |->
                         IF t = {} THEN <<>> ELSE F[t \ {LargestOf(t)}] \o Normal[s[LargestOf(t)]]]
           SameFold(F) == [t \in SUBSET (DOMAIN w) |->
                         IF t = {} THEN <<>> ELSE F[t \ {LargestOf(t)}] \o w[LargestOf(t)]]
<1>3. Normalize(s) = (CHOOSE F : F = Iter(F))[DOMAIN s]
  BY Zenon DEF Normalize, Seqs!FoldLeft, Seqs!MapThenFoldSet, Seqs!Max, LargestOf
<1>4. \A t \in SUBSET (1..n) : t # {} => w[LargestOf(t)] = Normal[s[LargestOf(t)]]
  BY <1>1, <1>2, SubsetLargest
<1>5. ASSUME NEW F PROVE Iter(F) = SameFold(F)
  BY <1>1, <1>2, <1>4
<1>6. Concatenation(w) = (CHOOSE F : F = SameFold(F))[DOMAIN w]
  BY Zenon DEF Concatenation
<1> HIDE DEF Iter, SameFold
<1>7. (CHOOSE F : F = Iter(F)) = (CHOOSE F : F = SameFold(F))
  BY <1>5
<1> QED BY <1>1, <1>2, <1>3, <1>6, <1>7

LEMMA NormalizeType ==
  ASSUME NEW s \in Seq(Letters)
  PROVE  Normalize(s) \in Seq(Letters) /\ (s = <<>> => Normalize(s) = <<>>)
<1>1. PICK n \in Nat : n = Len(s) /\ \A i \in 1..n : s[i] \in Letters
  BY LenProperties, ElementOfSeq
<1>2. PICK w : w = [i \in 1..n |-> Normal[s[i]]]
  OBVIOUS
<1>3. w \in Seq(Seq(Letters)) /\ Len(w) = n
  <2>1. \A i \in 1..n : Normal[s[i]] \in Seq(Letters)
    BY <1>1, NormalAssumption
  <2> QED BY <1>1, <1>2, <2>1
<1>4. Normalize(s) = Concatenation(w)
  BY <1>1, <1>2, NormalizeFold
<1>5. s = <<>> => Len(w) = 0
  BY <1>1, <1>3
<1> QED BY <1>3, <1>4, <1>5, ConcatType

(* The characters of a piece of the tokens, joined.                          *)
Joined(tokens) == Seqs!FoldLeft(LAMBDA letters, t : letters \o t.letters, <<>>, tokens)

LEMMA JoinedFold ==
  ASSUME NEW s \in Seq(Token)
  PROVE  Joined(s) = Concatenation([i \in 1..Len(s) |-> s[i].letters])
<1>1. PICK n \in Nat : n = Len(s) /\ DOMAIN s = 1..n
  BY LenProperties
<1>2. PICK w : w = [i \in 1..n |-> s[i].letters]
  OBVIOUS
<1> DEFINE Iter(F) == [t \in SUBSET (DOMAIN s) |->
                         IF t = {} THEN <<>> ELSE F[t \ {LargestOf(t)}] \o s[LargestOf(t)].letters]
           SameFold(F) == [t \in SUBSET (DOMAIN w) |->
                         IF t = {} THEN <<>> ELSE F[t \ {LargestOf(t)}] \o w[LargestOf(t)]]
<1>3. Joined(s) = (CHOOSE F : F = Iter(F))[DOMAIN s]
  BY Zenon DEF Joined, Seqs!FoldLeft, Seqs!MapThenFoldSet, Seqs!Max, LargestOf
<1>4. \A t \in SUBSET (1..n) : t # {} => w[LargestOf(t)] = s[LargestOf(t)].letters
  BY <1>1, <1>2, SubsetLargest
<1>5. ASSUME NEW F PROVE Iter(F) = SameFold(F)
  BY <1>1, <1>2, <1>4
<1>6. Concatenation(w) = (CHOOSE F : F = SameFold(F))[DOMAIN w]
  BY Zenon DEF Concatenation
<1> HIDE DEF Iter, SameFold
<1>7. (CHOOSE F : F = Iter(F)) = (CHOOSE F : F = SameFold(F))
  BY <1>5
<1> QED BY <1>1, <1>2, <1>3, <1>6, <1>7

LEMMA JoinedPieces ==
  ASSUME NEW s \in Seq(Token)
  PROVE  /\ Joined(s) \in Seq(Letters) /\ (s = <<>> => Joined(s) = <<>>)
         /\ \A x \in Token : Joined(Append(s, x)) = Joined(s) \o x.letters
<1>1. PICK n \in Nat : n = Len(s) /\ \A i \in 1..n : s[i] \in Token
  BY LenProperties, ElementOfSeq
<1>2. PICK w : w = [i \in 1..n |-> s[i].letters]
  OBVIOUS
<1>3. w \in Seq(Seq(Letters)) /\ Len(w) = n
  <2>1. \A i \in 1..n : s[i].letters \in Seq(Letters)
    BY <1>1 DEF Token
  <2> QED BY <1>1, <1>2, <2>1
<1>4. Joined(s) = Concatenation(w)
  BY <1>1, <1>2, JoinedFold
<1>5. s = <<>> => Len(w) = 0
  BY <1>1, <1>3
<1>6. ASSUME NEW x \in Token PROVE Joined(Append(s, x)) = Joined(s) \o x.letters
  <2>1. PICK u \in Seq(Token) : u = Append(s, x)
    BY AppendProperties
  <2>2. Len(u) = n + 1 /\ u[n + 1] = x /\ \A i \in 1..n : u[i] = s[i]
    BY <1>1, <2>1, AppendProperties
  <2>3. x.letters \in Seq(Letters)
    BY DEF Token
  <2>4. [i \in 1..Len(u) |-> u[i].letters] = Append(w, x.letters)
    <3>1. \A i \in 1..n + 1 : i \in 1..n \/ i = n + 1
      BY <1>1
    <3>2. PICK v \in Seq(Seq(Letters)) : v = Append(w, x.letters)
      BY <1>3, <2>3, AppendProperties
    <3>3. /\ Len(v) = n + 1 /\ DOMAIN v = 1..n + 1 /\ v[n + 1] = x.letters
          /\ \A i \in 1..n : v[i] = w[i]
      BY <1>3, <2>3, <3>2, AppendProperties, LenProperties
    <3>4. v = [i \in 1..n + 1 |-> v[i]]
      BY <1>1, <3>2, <3>3
    <3>5. \A i \in 1..n + 1 : v[i] = u[i].letters
      BY <1>2, <2>2, <3>1, <3>3
    <3> QED BY <2>2, <3>2, <3>4, <3>5
  <2> QED BY <1>3, <1>4, <2>1, <2>3, <2>4, JoinedFold, ConcatAppend
<1> QED BY <1>3, <1>4, <1>5, <1>6, ConcatType

-----------------------------------------------------------------------------
(* The parser: after each token its state says what the tokens before it     *)
(* mean.                                                                     *)
Term == Seq(Letters)

ParserState ==
  [clauses : Seq(Seq(Term)), clause : Seq(Term), parts : Term,
   expecting : BOOLEAN, ok : BOOLEAN]

LEMMA ParserTypes ==
  /\ ParserStart \in ParserState
  /\ \A st \in ParserState :
       /\ Flush(st) \in ParserState /\ EndClause(st) \in ParserState
       /\ \A op \in {"AND", "OR"} : Operator(st, op) \in ParserState
       /\ \A token \in Token : ReadToken(st, token) \in ParserState
<1>1. ParserStart \in ParserState
  BY DEF ParserStart, ParserState, Term
<1>2. ASSUME NEW st \in ParserState PROVE Flush(st) \in ParserState
  <2>1. PICK term \in Term : term = Normalize(st.parts)
    BY NormalizeType DEF ParserState, Term
  <2>2. PICK c \in Seq(Term) : c = Append(st.clause, term)
    BY <2>1, AppendProperties DEF ParserState
  <2>3. Flush(st) = IF term = <<>> THEN [st EXCEPT !.ok = FALSE]
                    ELSE [st EXCEPT !.clause = c, !.parts = <<>>]
    BY <2>1, <2>2 DEF Flush
  <2>4. <<>> \in Term
    BY DEF Term
  <2>5. /\ st.clauses \in Seq(Seq(Term)) /\ st.expecting \in BOOLEAN
        /\ st = [clauses |-> st.clauses, clause |-> st.clause, parts |-> st.parts,
                 expecting |-> st.expecting, ok |-> st.ok]
    BY DEF ParserState
  <2>6. [st EXCEPT !.ok = FALSE] \in ParserState
    BY DEF ParserState
  <2>7. [st EXCEPT !.clause = c, !.parts = <<>>] \in ParserState
    BY <2>4, <2>2 DEF ParserState
  <2> QED BY <2>3, <2>6, <2>7
<1>3. ASSUME NEW st \in ParserState PROVE EndClause(st) \in ParserState
  <2>1. PICK c \in Seq(Seq(Term)) : c = Append(st.clauses, st.clause)
    BY AppendProperties DEF ParserState
  <2>2. EndClause(st) = [st EXCEPT !.clauses = c, !.clause = <<>>]
    BY <2>1 DEF EndClause
  <2>3. <<>> \in Seq(Term)
    OBVIOUS
  <2>4. [st EXCEPT !.clauses = c, !.clause = <<>>] \in ParserState
    BY <2>3 DEF ParserState
  <2> QED BY <2>2, <2>4
<1>4. ASSUME NEW st \in ParserState, NEW op \in {"AND", "OR"}
      PROVE  Operator(st, op) \in ParserState
  <2>1. PICK u \in ParserState : u = IF op = "OR" THEN EndClause(Flush(st)) ELSE Flush(st)
    BY <1>2, <1>3
  <2>2. Operator(st, op) = IF st.expecting THEN [st EXCEPT !.ok = FALSE]
                           ELSE [u EXCEPT !.expecting = TRUE]
    BY <2>1 DEF Operator
  <2> QED BY <2>2 DEF ParserState
<1>5. ASSUME NEW st \in ParserState, NEW token \in Token
      PROVE  ReadToken(st, token) \in ParserState
  <2>1. PICK p \in Term : p = st.parts \o token.letters
    BY ConcatProperties DEF ParserState, Token, Term
  <2>2. token.op = "none" => ReadToken(st, token) = [st EXCEPT !.parts = p, !.expecting = FALSE]
    BY <2>1 DEF ReadToken
  <2>3. token.op # "none" => ReadToken(st, token) \in ParserState
    BY <1>4 DEF ReadToken, Token
  <2> QED BY <2>2, <2>3 DEF ParserState
<1> QED BY <1>1, <1>2, <1>3, <1>4, <1>5

ReadOne(st, token) == IF st.ok THEN ReadToken(st, token) ELSE st

(* result is what the token loop makes of the tokens.                        *)
TokenByToken(s, result) ==
  \E f \in [0..Len(s) -> ParserState] :
    /\ f[0] = ParserStart /\ f[Len(s)] = result
    /\ \A i \in 1..Len(s) : f[i] = ReadOne(f[i - 1], s[i])

TokenLoop(s) ==
  Seqs!FoldLeft(LAMBDA st, token : IF st.ok THEN ReadToken(st, token) ELSE st, ParserStart, s)

LEMMA ParseFold ==
  ASSUME NEW s \in Seq(Token)
  PROVE  TokenByToken(s, TokenLoop(s))
<1> DEFINE n == Len(s)
           A == ParserState
           op == [i \in 1..n |-> [a \in A |-> ReadOne(a, s[i])]]
           Iter(F) == [t \in SUBSET (DOMAIN s) |->
                         IF t = {} THEN ParserStart
                         ELSE ReadOne(F[t \ {LargestOf(t)}], s[LargestOf(t)])]
<1>1. TokenLoop(s) = (CHOOSE F : F = Iter(F))[DOMAIN s]
  BY Zenon DEF TokenLoop, Seqs!FoldLeft, Seqs!MapThenFoldSet, Seqs!Max, LargestOf, ReadOne
<1>2. n \in Nat /\ DOMAIN s = 1..n /\ \A i \in 1..n : s[i] \in Token
  BY LenProperties, ElementOfSeq
<1>3. op \in [1..n -> [A -> A]] /\ \A i \in 1..n, a \in A : op[i][a] = ReadOne(a, s[i])
  <2>1. \A i \in 1..n, a \in A : ReadOne(a, s[i]) \in A
    BY <1>2, ParserTypes DEF ReadOne
  <2> HIDE DEF A, n
  <2> QED BY <2>1
<1>0. ParserStart \in A
  BY ParserTypes
<1> HIDE DEF n, op, A
<1>4. \A t \in SUBSET (1..n) : t # {} => LargestOf(t) \in t
  BY <1>2, SubsetLargest
<1>5. \E F : F = Iter(F)
  <2>0. PICK b \in A : b = ParserStart
    BY <1>0
  <2>1. PICK F : SubsetSolution(A, b, n, op, F)
    BY <1>2, <1>3, SubsetRecursion
  <2>2. /\ F \in [SUBSET (1..n) -> A]
        /\ \A t \in SUBSET (1..n) :
             F[t] = IF t = {} THEN b ELSE op[LargestOf(t)][F[t \ {LargestOf(t)}]]
    BY <2>1 DEF SubsetSolution
  <2>3. ASSUME NEW t \in SUBSET (1..n), t # {}
        PROVE  F[t] = ReadOne(F[t \ {LargestOf(t)}], s[LargestOf(t)])
    <3>1. F[t \ {LargestOf(t)}] \in A /\ LargestOf(t) \in 1..n
      BY <1>4, <2>2, <2>3
    <3> QED BY <1>3, <2>2, <2>3, <3>1
  <2>4. F = Iter(F)
    BY <1>2, <2>0, <2>2, <2>3
  <2> QED BY <2>4
<1>6. PICK F : F = Iter(F) /\ TokenLoop(s) = F[1..n]
  BY <1>1, <1>2, <1>5
<1>7. F[{}] = ParserStart
  BY <1>6
<1>8. ASSUME NEW t \in SUBSET (1..n), t # {}, F[t \ {LargestOf(t)}] \in A
      PROVE  F[t] = op[LargestOf(t)][F[t \ {LargestOf(t)}]]
  <2>1. LargestOf(t) \in 1..n
    BY <1>4, <1>8
  <2>2. F[t] = ReadOne(F[t \ {LargestOf(t)}], s[LargestOf(t)])
    BY <1>2, <1>6, <1>8
  <2> QED BY <1>3, <1>8, <2>1, <2>2
<1>9. FoldsTo(A, ParserStart, n, op, F[1..n])
  BY <1>0, <1>2, <1>3, <1>7, <1>8, PrefixesFold
<1>10. PICK f \in [0..n -> A] :
         f[0] = ParserStart /\ f[n] = F[1..n] /\ \A i \in 1..n : f[i] = op[i][f[i - 1]]
  BY <1>9 DEF FoldsTo
<1>11. \A i \in 1..n : f[i] = ReadOne(f[i - 1], s[i])
  <2>1. \A i \in 1..n : i - 1 \in 0..n
    BY <1>2
  <2> QED BY <1>3, <1>10, <2>1
<1> QED BY <1>6, <1>10, <1>11 DEF n, A, TokenByToken

LEMMA ParseLoop ==
  ASSUME NEW s
  PROVE  Parse(s) = IF TokenLoop(s).ok THEN ParseEnd(TokenLoop(s)) ELSE TokenLoop(s)
BY Zenon DEF Parse, TokenLoop

Members(s) == {s[k] : k \in DOMAIN s}
MemberSets(s) == {Members(x) : x \in Members(s)}

LEMMA MemberSetsOf ==
  ASSUME NEW s
  PROVE  \A T : T \in MemberSets(s) <=> \E c \in DOMAIN s : T = Members(s[c])
<1>1. \A x : x \in Members(s) <=> \E c \in DOMAIN s : x = s[c]
  BY DEF Members
<1>2. \A T : T \in MemberSets(s) <=> \E x \in Members(s) : T = Members(x)
  <2> HIDE DEF Members
  <2> QED BY Zenon DEF MemberSets
<1> HIDE DEF Members, MemberSets
<1> QED BY Zenon, <1>1, <1>2

LEMMA MembersAppend ==
  ASSUME NEW X, NEW s \in Seq(X), NEW x \in X
  PROVE  Members(Append(s, x)) = Members(s) \cup {x}
<1>1. PICK n \in Nat : n = Len(s) /\ DOMAIN s = 1..n
  BY LenProperties
<1>2. PICK u \in Seq(X) : u = Append(s, x)
  BY AppendProperties
<1>3. DOMAIN u = 1..n + 1 /\ u[n + 1] = x /\ \A k \in 1..n : u[k] = s[k]
  BY <1>1, <1>2, AppendProperties, LenProperties
<1>4. 1..n + 1 = (1..n) \cup {n + 1}
  BY <1>1
<1> QED BY <1>1, <1>2, <1>3, <1>4 DEF Members

LEMMA SpanOf ==
  ASSUME NEW C, NEW s
  PROVE  s \in Spans(C) <=> \E x \in C, y \in C :
                              s = <<x, y>> /\ x < y /\ \A k \in C : ~(x < k /\ k < y)
<1>1. ASSUME s \in Spans(C)
      PROVE  \E x \in C, y \in C : s = <<x, y>> /\ x < y /\ \A k \in C : ~(x < k /\ k < y)
  <2>1. s \in C \X C /\ s[1] < s[2] /\ \A k \in C : ~(s[1] < k /\ k < s[2])
    BY <1>1 DEF Spans
  <2>2. s[1] \in C /\ s[2] \in C /\ s = <<s[1], s[2]>>
    BY <2>1
  <2> QED BY <2>1, <2>2
<1>2. ASSUME NEW x \in C, NEW y \in C, s = <<x, y>>, x < y, \A k \in C : ~(x < k /\ k < y)
      PROVE  s \in Spans(C)
  BY <1>2 DEF Spans
<1> QED BY <1>1, <1>2

LEMMA SpanParts ==
  ASSUME NEW C, NEW s \in Spans(C)
  PROVE  /\ s[1] \in C /\ s[2] \in C /\ s = <<s[1], s[2]>> /\ s[1] < s[2]
         /\ \A k \in C : ~(s[1] < k /\ k < s[2])
BY SpanOf

LEMMA SubSeqGrows ==
  ASSUME NEW X, NEW s \in Seq(X), NEW a \in Nat, NEW i \in Nat, a <= i, i + 1 <= Len(s)
  PROVE  SubSeq(s, a + 1, i + 1) = Append(SubSeq(s, a + 1, i), s[i + 1])
<1>1. PICK n \in Nat : n = Len(s) /\ i + 1 \in 1..n /\ s[i + 1] \in X
  BY LenProperties, ElementOfSeq
<1>0. \A k \in (a + 1)..(i + 1) : s[k] \in X
  <2>1. \A k \in (a + 1)..(i + 1) : k \in 1..n
    BY <1>1
  <2> QED BY <1>1, <2>1, ElementOfSeq
<1>2. PICK u \in Seq(X) : u = SubSeq(s, a + 1, i + 1)
  <2>1. a + 1 \in Int /\ i + 1 \in Int
    OBVIOUS
  <2>2. SubSeq(s, a + 1, i + 1) \in Seq(X)
    BY <1>0, <2>1, SubSeqProperties
  <2> QED BY <2>2
<1>3. PICK v \in Seq(X) : v = SubSeq(s, a + 1, i)
  <2>1. \A k \in (a + 1)..i : s[k] \in X
    BY <1>0
  <2>2. a + 1 \in Int /\ i \in Int
    OBVIOUS
  <2>3. SubSeq(s, a + 1, i) \in Seq(X)
    BY <2>1, <2>2, SubSeqProperties
  <2> QED BY <2>3
<1>4. PICK w \in Seq(X) : w = Append(v, s[i + 1])
  BY <1>1, AppendProperties
<1>5. Len(u) = i - a + 1 /\ \A k \in 1..(i - a + 1) : u[k] = s[a + k]
  BY <1>0, <1>2, SubSeqProperties
<1>6. Len(v) = i - a /\ \A k \in 1..(i - a) : v[k] = s[a + k]
  <2>1. \A k \in (a + 1)..i : s[k] \in X
    BY <1>0
  <2> QED BY <2>1, <1>3, SubSeqProperties
<1>7. /\ Len(w) = i - a + 1 /\ w[i - a + 1] = s[i + 1]
      /\ \A k \in 1..(i - a) : w[k] = v[k]
  BY <1>1, <1>4, <1>6, AppendProperties
<1>8. PICK d \in Nat : d = i - a /\ a + (d + 1) = i + 1
  OBVIOUS
<1>9. \A k \in 1..d + 1 : u[k] = w[k]
  <2>1. \A k \in 1..d + 1 : k \in 1..d \/ k = d + 1
    BY <1>8
  <2> QED BY <1>5, <1>6, <1>7, <1>8, <2>1
<1>10. u = w
  BY <1>5, <1>7, <1>8, <1>9, SeqEqual
<1> QED BY <1>2, <1>3, <1>4, <1>10

(* A cut behind all others adds one span, from the last of them to it.       *)
LEMMA SpansGrow ==
  ASSUME NEW C \in SUBSET Nat, NEW a \in C, \A c \in C : c <= a, NEW m \in Nat, a < m
  PROVE  /\ Spans(C \cup {m}) = Spans(C) \cup {<<a, m>>}
         /\ \A s \in Spans(C) : s \in Nat \X Nat /\ s[2] <= a
<1>1. ASSUME NEW s \in Spans(C) PROVE s \in Nat \X Nat /\ s[2] <= a
  <2>1. s[1] \in C /\ s[2] \in C /\ s = <<s[1], s[2]>>
    BY SpanParts
  <2>2. s[1] \in Nat /\ s[2] \in Nat /\ s[2] <= a
    BY <2>1
  <2>3. <<s[1], s[2]>> \in Nat \X Nat
    BY <2>2
  <2> QED BY <2>1, <2>2, <2>3
<1>2. <<a, m>> \in Spans(C \cup {m})
  <2>1. PICK D : D = C \cup {m}
    OBVIOUS
  <2>2. a \in D /\ m \in D /\ \A k \in D : ~(a < k /\ k < m)
    BY <2>1
  <2>3. <<a, m>> \in Spans(D)
    BY <2>2, SpanOf
  <2> QED BY <2>1, <2>3
<1>3. Spans(C) \subseteq Spans(C \cup {m})
  <2>1. ASSUME NEW s \in Spans(C) PROVE s \in Spans(C \cup {m})
    <3>1. /\ s[1] \in C /\ s[2] \in C /\ s = <<s[1], s[2]>> /\ s[1] < s[2]
          /\ \A k \in C : ~(s[1] < k /\ k < s[2])
      BY SpanParts
    <3>2. ~(s[1] < m /\ m < s[2])
      <4>1. s[2] \in Nat /\ s[2] <= a
        BY <3>1
      <4> QED BY <4>1
    <3>3. PICK D : D = C \cup {m}
      OBVIOUS
    <3>4. s[1] \in D /\ s[2] \in D /\ \A k \in D : ~(s[1] < k /\ k < s[2])
      BY <3>1, <3>2, <3>3
    <3>5. s \in Spans(D)
      BY <3>1, <3>4, SpanOf
    <3> QED BY <3>3, <3>5
  <2> QED BY <2>1
<1>4. ASSUME NEW s \in Spans(C \cup {m}), s # <<a, m>> PROVE s \in Spans(C)
  <2>1. PICK x \in C \cup {m}, y \in C \cup {m} :
          s = <<x, y>> /\ x < y /\ \A k \in C \cup {m} : ~(x < k /\ k < y)
    <3>1. PICK D : D = C \cup {m}
      OBVIOUS
    <3>2. s \in Spans(D)
      BY <3>1
    <3>3. \E x \in D, y \in D : s = <<x, y>> /\ x < y /\ \A k \in D : ~(x < k /\ k < y)
      BY <3>2, SpanOf
    <3> QED BY <3>1, <3>3
  <2>2. x # m
    BY <2>1
  <2>3. y # m
    <3>1. SUFFICES ASSUME y = m PROVE FALSE
      OBVIOUS
    <3>2. x # a
      BY <1>4, <2>1, <3>1
    <3>3. x < a
      BY <2>1, <2>2, <3>2
    <3> QED BY <2>1, <3>1, <3>3
  <2> QED BY <2>1, <2>2, <2>3, SpanOf
<1> QED BY <1>1, <1>2, <1>3, <1>4

(* The terms of a piece of the tokens; those of each clause.                 *)
TermsWithin(tokens, C, low, high) ==
  {TermOf(tokens, s) : s \in {q \in Spans(C) : low <= q[1] /\ q[2] <= high}}

AskedTerms(tokens, C, O) == {TermsWithin(tokens, C, p[1], p[2]) : p \in Spans(O)}

(* What the state says: the cuts C so far, those O of OR, the last of each.  *)
Reading(tokens, st, i, C, O, a, o) ==
  /\ C \in SUBSET (0..i) /\ O \in SUBSET C /\ a \in C /\ o \in O
  /\ \A c \in C : c <= a
  /\ \A c \in O : c <= o
  /\ st.parts = Joined(SubSeq(tokens, a + 1, i))
  /\ st.expecting <=> a = i
  /\ \A s \in Spans(C) : TermOf(tokens, s) # <<>>
  /\ Members(st.clause) = TermsWithin(tokens, C, o, i)
  /\ MemberSets(st.clauses) = AskedTerms(tokens, C, O)

LEMMA TermJoined ==
  ASSUME NEW tokens, NEW a \in Nat, NEW m \in Nat
  PROVE  TermOf(tokens, <<a, m>>) = Normalize(Joined(SubSeq(tokens, a + 1, m - 1)))
BY Zenon DEF TermOf, Joined

(* What a cut at m = i + 1 adds.                                             *)
CutAdds(tokens, st, C, O, a, o, m, term) ==
  /\ term = TermOf(tokens, <<a, m>>) /\ <<a, m>> \in Spans(C \cup {m})
  /\ st.expecting => term = <<>>
  /\ term # <<>> => \A s \in Spans(C \cup {m}) : TermOf(tokens, s) # <<>>
  /\ Members(st.clause) \cup {term} = TermsWithin(tokens, C \cup {m}, o, m)
  /\ TermsWithin(tokens, C \cup {m}, m, m) = {}
  /\ MemberSets(st.clauses)
       = AskedTerms(tokens, C \cup {m}, O)
  /\ AskedTerms(tokens, C \cup {m}, O \cup {m})
       = AskedTerms(tokens, C \cup {m}, O) \cup {TermsWithin(tokens, C \cup {m}, o, m)}

LEMMA CutAdded ==
  ASSUME NEW tokens \in Seq(Token), NEW st \in ParserState, NEW i \in Nat, i <= Len(tokens),
         NEW C, NEW O, NEW a, NEW o, Reading(tokens, st, i, C, O, a, o),
         NEW m \in Nat, m = i + 1, NEW term, term = Normalize(st.parts)
  PROVE  CutAdds(tokens, st, C, O, a, o, m, term)
<1>1. /\ C \in SUBSET (0..i) /\ O \in SUBSET C /\ a \in C /\ o \in O
      /\ \A c \in C : c <= a
      /\ \A c \in O : c <= o
      /\ st.parts = Joined(SubSeq(tokens, a + 1, i))
      /\ st.expecting <=> a = i
      /\ \A s \in Spans(C) : TermOf(tokens, s) # <<>>
      /\ Members(st.clause) = TermsWithin(tokens, C, o, i)
      /\ MemberSets(st.clauses) = AskedTerms(tokens, C, O)
  BY DEF Reading
<1>2. C \in SUBSET Nat /\ O \in SUBSET Nat /\ a \in Nat /\ o \in Nat /\ o <= a /\ a <= i
      /\ a < m /\ o < m /\ m - 1 = i
  BY <1>1
<1>3. term = TermOf(tokens, <<a, m>>)
  <2>1. TermOf(tokens, <<a, m>>) = Normalize(Joined(SubSeq(tokens, a + 1, m - 1)))
    BY <1>2, TermJoined
  <2> QED BY <1>1, <1>2, <2>1
<1>4. /\ Spans(C \cup {m}) = Spans(C) \cup {<<a, m>>}
      /\ \A s \in Spans(C) : s \in Nat \X Nat /\ s[2] <= a
  <2>1. C \in SUBSET Nat /\ a \in C /\ \A c \in C : c <= a
    BY <1>1, <1>2
  <2> QED BY <1>2, <2>1, SpansGrow
<1>5. /\ Spans(O \cup {m}) = Spans(O) \cup {<<o, m>>}
      /\ \A s \in Spans(O) : s \in Nat \X Nat /\ s[2] <= o
  <2>1. PICK D \in SUBSET Nat : D = O
    BY <1>2
  <2>2. o \in D /\ \A c \in D : c <= o
    BY <1>1, <2>1
  <2>4. o < m
    BY <1>2
  <2>3. /\ Spans(D \cup {m}) = Spans(D) \cup {<<o, m>>}
        /\ \A s \in Spans(D) : s \in Nat \X Nat /\ s[2] <= o
    BY <2>2, <2>4, SpansGrow
  <2> QED BY <2>1, <2>3
<1>6. ASSUME st.expecting PROVE term = <<>>
  <2>1. SubSeq(tokens, i + 1, i) = <<>>
    BY SubSeqProperties
  <2>2. Joined(<<>>) = <<>> /\ Normalize(<<>>) = <<>>
    <3>1. <<>> \in Seq(Token) /\ <<>> \in Seq(Letters)
      OBVIOUS
    <3> QED BY <3>1, JoinedPieces, NormalizeType
  <2> QED BY <1>1, <1>6, <2>1, <2>2
<1>7. ASSUME term # <<>>, NEW s \in Spans(C \cup {m}) PROVE TermOf(tokens, s) # <<>>
  BY <1>1, <1>3, <1>4, <1>7
<1>8. Members(st.clause) \cup {term} = TermsWithin(tokens, C \cup {m}, o, m)
  <2>1. {q \in Spans(C \cup {m}) : o <= q[1] /\ q[2] <= m}
          = {q \in Spans(C) : o <= q[1] /\ q[2] <= i} \cup {<<a, m>>}
    <3>1. \A q \in Spans(C) : q[2] <= m /\ q[2] <= i
      BY <1>2, <1>4
    <3>2. o <= <<a, m>>[1] /\ <<a, m>>[2] <= m
      BY <1>2
    <3> QED BY <1>4, <3>1, <3>2
  <2> HIDE DEF Spans
  <2> QED BY <1>1, <1>3, <2>1 DEF TermsWithin
<1>9. TermsWithin(tokens, C \cup {m}, m, m) = {}
  <2>1. ASSUME NEW q \in Spans(C \cup {m}), m <= q[1] /\ q[2] <= m PROVE FALSE
    <3>1. PICK D : D = C \cup {m}
      OBVIOUS
    <3>2. q \in Spans(D)
      BY <2>1, <3>1
    <3>3. q[2] \in D /\ q[1] < q[2]
      BY <3>2, SpanParts
    <3>4. q[2] \in Nat
      BY <1>2, <3>1, <3>3
    <3>5. q[1] \in D
      BY <3>2, SpanParts
    <3>6. q[1] \in Nat
      BY <1>2, <3>1, <3>5
    <3> QED BY <1>2, <2>1, <3>3, <3>4, <3>6
  <2> QED BY <2>1 DEF TermsWithin
<1>10. ASSUME NEW p \in Spans(O)
       PROVE  TermsWithin(tokens, C \cup {m}, p[1], p[2]) = TermsWithin(tokens, C, p[1], p[2])
  <2>1. p[2] \in Nat /\ p[2] <= a
    BY <1>2, <1>5
  <2>2. ~(<<a, m>>[2] <= p[2])
    BY <1>2, <2>1
  <2>3. {q \in Spans(C \cup {m}) : p[1] <= q[1] /\ q[2] <= p[2]}
          = {q \in Spans(C) : p[1] <= q[1] /\ q[2] <= p[2]}
    BY <1>4, <2>2
  <2> QED BY <2>3 DEF TermsWithin
<1>11. AskedTerms(tokens, C \cup {m}, O) = AskedTerms(tokens, C, O)
  BY <1>10 DEF AskedTerms
<1>12. AskedTerms(tokens, C \cup {m}, O \cup {m})
         = AskedTerms(tokens, C \cup {m}, O) \cup {TermsWithin(tokens, C \cup {m}, o, m)}
  <2>1. <<o, m>>[1] = o /\ <<o, m>>[2] = m
    OBVIOUS
  <2> QED BY <1>5, <2>1 DEF AskedTerms
<1> QED BY <1>1, <1>3, <1>4, <1>6, <1>7, <1>8, <1>9, <1>11, <1>12 DEF CutAdds

(* The cuts among the first i places.                                        *)
Cuts(tokens, ops, i) == Ends(tokens, ops) \cap (0..i)

Reads(tokens, st, i) ==
  \E a, o \in Nat :
    Reading(tokens, st, i, Cuts(tokens, {"AND", "OR"}, i), Cuts(tokens, {"OR"}, i), a, o)

LEMMA EndsOf ==
  ASSUME NEW tokens \in Seq(Token)
  PROVE  \A ops : /\ Ends(tokens, ops) \in SUBSET (0..Len(tokens) + 1)
                  /\ 0 \in Ends(tokens, ops) /\ Len(tokens) + 1 \in Ends(tokens, ops)
                  /\ \A i \in 1..Len(tokens) : i \in Ends(tokens, ops) <=> tokens[i].op \in ops
<1>1. PICK n \in Nat : n = Len(tokens) /\ DOMAIN tokens = 1..n
  BY LenProperties
<1> QED BY <1>1 DEF Ends

LEMMA CutsGrow ==
  ASSUME NEW tokens \in Seq(Token), NEW i \in Nat
  PROVE  \A ops : Cuts(tokens, ops, i + 1)
                    = Cuts(tokens, ops, i) \cup (IF i + 1 \in Ends(tokens, ops) THEN {i + 1} ELSE {})
<1>1. 0..i + 1 = (0..i) \cup {i + 1}
  OBVIOUS
<1> QED BY <1>1 DEF Cuts

(* An operator, or the end, at m = i + 1.                                    *)
LEMMA CutRead ==
  ASSUME NEW tokens \in Seq(Token), NEW st \in ParserState, NEW i \in Nat, i <= Len(tokens),
         Reads(tokens, st, i), NEW m \in Nat, m = i + 1, m \in Ends(tokens, {"AND", "OR"}),
         NEW term, term = Normalize(st.parts)
  PROVE  /\ st.expecting \/ term = <<>> => ~WellFormed(tokens)
         /\ \A new \in ParserState :
              /\ term # <<>> /\ new.parts = <<>> /\ new.expecting
              /\ IF m \in Ends(tokens, {"OR"})
                   THEN /\ new.clauses = Append(st.clauses, Append(st.clause, term))
                        /\ new.clause = <<>>
                   ELSE new.clauses = st.clauses /\ new.clause = Append(st.clause, term)
              => Reads(tokens, new, m)
<1>1. PICK C, O : C = Cuts(tokens, {"AND", "OR"}, i) /\ O = Cuts(tokens, {"OR"}, i)
  OBVIOUS
<1>2. PICK a \in Nat : \E o \in Nat : Reading(tokens, st, i, C, O, a, o)
  BY <1>1 DEF Reads
<1>3. PICK o \in Nat : Reading(tokens, st, i, C, O, a, o)
  BY <1>2
<1>4. C \in SUBSET (0..i) /\ O \in SUBSET C /\ a \in C /\ o \in O /\ o <= a /\ a <= i
  BY <1>3 DEF Reading
<1>5. Cuts(tokens, {"AND", "OR"}, m) = C \cup {m}
  BY <1>1, CutsGrow
<1>6. Cuts(tokens, {"OR"}, m) = IF m \in Ends(tokens, {"OR"}) THEN O \cup {m} ELSE O
  <2>1. PICK ops : ops = {"OR"}
    OBVIOUS
  <2>2. Cuts(tokens, ops, i + 1)
          = Cuts(tokens, ops, i) \cup (IF i + 1 \in Ends(tokens, ops) THEN {i + 1} ELSE {})
    BY CutsGrow
  <2> QED BY <1>1, <2>1, <2>2
<1>7. /\ term = TermOf(tokens, <<a, m>>) /\ <<a, m>> \in Spans(C \cup {m})
      /\ st.expecting => term = <<>>
      /\ term # <<>> => \A s \in Spans(C \cup {m}) : TermOf(tokens, s) # <<>>
      /\ Members(st.clause) \cup {term} = TermsWithin(tokens, C \cup {m}, o, m)
      /\ TermsWithin(tokens, C \cup {m}, m, m) = {}
      /\ MemberSets(st.clauses)
           = AskedTerms(tokens, C \cup {m}, O)
      /\ AskedTerms(tokens, C \cup {m}, O \cup {m})
           = AskedTerms(tokens, C \cup {m}, O) \cup {TermsWithin(tokens, C \cup {m}, o, m)}
  <2>1. CutAdds(tokens, st, C, O, a, o, m, term)
    BY <1>3, CutAdded
  <2> QED BY <2>1 DEF CutAdds
<1>8. ASSUME term = <<>> PROVE ~WellFormed(tokens)
  <2>1. ASSUME NEW k \in Ends(tokens, {"AND", "OR"}), a < k, k < m PROVE FALSE
    <3>1. k \in 0..m
      BY <2>1, EndsOf
    <3>2. k \in C \cup {m}
      BY <1>5, <2>1, <3>1 DEF Cuts
    <3> QED BY <1>7, <2>1, <3>2, SpanParts
  <2>2. a \in Ends(tokens, {"AND", "OR"}) /\ a < m
    BY <1>1, <1>4 DEF Cuts
  <2>3. <<a, m>> \in Terms(tokens)
    BY <2>1, <2>2, SpanOf DEF Terms
  <2> QED BY <1>7, <1>8, <2>3 DEF WellFormed
<1>9. term \in Term /\ Append(st.clause, term) \in Seq(Term)
  <2>1. term \in Term
    BY NormalizeType DEF ParserState, Term
  <2> QED BY <2>1, AppendProperties DEF ParserState
<1>10. Members(Append(st.clause, term)) = TermsWithin(tokens, C \cup {m}, o, m)
  <2>1. st.clause \in Seq(Term)
    BY DEF ParserState
  <2>2. Members(Append(st.clause, term)) = Members(st.clause) \cup {term}
    BY <1>9, <2>1, MembersAppend
  <2> QED BY <1>7, <2>2
<1>11. SubSeq(tokens, m + 1, m) = <<>> /\ Joined(<<>>) = <<>>
  <2>1. <<>> \in Seq(Token)
    OBVIOUS
  <2>2. Joined(<<>>) = <<>>
    BY <2>1, JoinedPieces
  <2> QED BY <2>2, SubSeqProperties
<1>12. ASSUME NEW new \in ParserState, term # <<>>, new.parts = <<>>, new.expecting,
              m \in Ends(tokens, {"OR"}),
              new.clauses = Append(st.clauses, Append(st.clause, term)), new.clause = <<>>
       PROVE  Reads(tokens, new, m)
  <2>1. MemberSets(new.clauses)
          = MemberSets(st.clauses)
              \cup {Members(Append(st.clause, term))}
    <3>1. Members(new.clauses) = Members(st.clauses) \cup {Append(st.clause, term)}
      <4>1. st.clauses \in Seq(Seq(Term))
        BY DEF ParserState
      <4>2. Members(Append(st.clauses, Append(st.clause, term)))
              = Members(st.clauses) \cup {Append(st.clause, term)}
        <5>1. PICK X : X = Seq(Term)
          OBVIOUS
        <5>2. PICK u \in Seq(X) : u = st.clauses
          BY <4>1, <5>1
        <5>3. PICK x \in X : x = Append(st.clause, term)
          BY <1>9, <5>1
        <5>4. Members(Append(u, x)) = Members(u) \cup {x}
          BY MembersAppend
        <5> QED BY <5>2, <5>3, <5>4
      <4> QED BY <1>12, <4>2
    <3>3. {Members(x) : x \in Members(st.clauses) \cup {Append(st.clause, term)}}
            = {Members(x) : x \in Members(st.clauses)} \cup {Members(Append(st.clause, term))}
      OBVIOUS
    <3> QED BY <3>1, <3>3 DEF MemberSets
  <2>2. Members(new.clause) = {}
    BY <1>12 DEF Members
  <2>3. Reading(tokens, new, m, C \cup {m}, O \cup {m}, m, m)
    <3>1. /\ C \cup {m} \in SUBSET (0..m) /\ O \cup {m} \in SUBSET (C \cup {m})
          /\ \A c \in C \cup {m} : c <= m
          /\ \A c \in O \cup {m} : c <= m
      BY <1>4
    <3> QED BY <1>7, <1>10, <1>11, <1>12, <2>1, <2>2, <3>1 DEF Reading
  <2> QED BY <1>5, <1>6, <1>12, <2>3 DEF Reads
<1>13. ASSUME NEW new \in ParserState, term # <<>>, new.parts = <<>>, new.expecting,
              m \notin Ends(tokens, {"OR"}),
              new.clauses = st.clauses, new.clause = Append(st.clause, term)
       PROVE  Reads(tokens, new, m)
  <2>1. Reading(tokens, new, m, C \cup {m}, O, m, o)
    <3>1. /\ C \cup {m} \in SUBSET (0..m) /\ O \in SUBSET (C \cup {m})
          /\ \A c \in C \cup {m} : c <= m
          /\ \A c \in O : c <= o
      BY <1>3, <1>4 DEF Reading
    <3>2. new.parts = Joined(SubSeq(tokens, m + 1, m)) /\ (new.expecting <=> m = m)
      BY <1>11, <1>13
    <3>3. \A s \in Spans(C \cup {m}) : TermOf(tokens, s) # <<>>
      BY <1>7, <1>13
    <3>4. Members(new.clause) = TermsWithin(tokens, C \cup {m}, o, m)
      BY <1>10, <1>13
    <3>5. MemberSets(new.clauses)
            = AskedTerms(tokens, C \cup {m}, O)
      BY <1>7, <1>13
    <3>6. m \in C \cup {m} /\ o \in O
      BY <1>4
    <3> QED BY <3>1, <3>2, <3>3, <3>4, <3>5, <3>6 DEF Reading
  <2> QED BY <1>5, <1>6, <1>13, <2>1 DEF Reads
<1> QED BY <1>7, <1>8, <1>12, <1>13

(* A word at i + 1.                                                          *)
LEMMA WordRead ==
  ASSUME NEW tokens \in Seq(Token), NEW st \in ParserState, NEW i \in Nat, i < Len(tokens),
         Reads(tokens, st, i), tokens[i + 1].op = "none"
  PROVE  Reads(tokens, ReadToken(st, tokens[i + 1]), i + 1)
<1>1. PICK C, O : C = Cuts(tokens, {"AND", "OR"}, i) /\ O = Cuts(tokens, {"OR"}, i)
  OBVIOUS
<1>2. PICK a \in Nat : \E o \in Nat : Reading(tokens, st, i, C, O, a, o)
  BY <1>1 DEF Reads
<1>3. PICK o \in Nat : Reading(tokens, st, i, C, O, a, o)
  BY <1>2
<1>4. C \in SUBSET (0..i) /\ O \in SUBSET C /\ a \in C /\ o \in O /\ o <= a /\ a <= i
  BY <1>3 DEF Reading
<1>5. PICK n \in Nat : n = Len(tokens) /\ i + 1 \in 1..n /\ tokens[i + 1] \in Token
  BY LenProperties, ElementOfSeq
<1>6. PICK x \in Token : x = tokens[i + 1]
  BY <1>5
<1>7. Cuts(tokens, {"AND", "OR"}, i + 1) = C /\ Cuts(tokens, {"OR"}, i + 1) = O
  <2>1. PICK both, ops : both = {"AND", "OR"} /\ ops = {"OR"}
    OBVIOUS
  <2>2. /\ Cuts(tokens, both, i + 1)
             = Cuts(tokens, both, i) \cup (IF i + 1 \in Ends(tokens, both) THEN {i + 1} ELSE {})
        /\ Cuts(tokens, ops, i + 1)
             = Cuts(tokens, ops, i) \cup (IF i + 1 \in Ends(tokens, ops) THEN {i + 1} ELSE {})
    BY CutsGrow
  <2>3. i + 1 \notin Ends(tokens, both) /\ i + 1 \notin Ends(tokens, ops)
    BY <1>5, <2>1, EndsOf
  <2> QED BY <1>1, <2>1, <2>2, <2>3
<1>8. PICK new : new = ReadToken(st, x)
  OBVIOUS
<1>9. /\ new.parts = st.parts \o x.letters /\ ~new.expecting
      /\ new.clause = st.clause /\ new.clauses = st.clauses
  BY <1>6, <1>8 DEF ReadToken, ParserState
<1>10. SubSeq(tokens, a + 1, i + 1) = Append(SubSeq(tokens, a + 1, i), x)
  BY <1>4, <1>5, <1>6, SubSeqGrows
<1>11. new.parts = Joined(SubSeq(tokens, a + 1, i + 1))
  <2>1. SubSeq(tokens, a + 1, i) \in Seq(Token)
    BY <1>4, <1>5, SubSeqProperties
  <2>2. st.parts = Joined(SubSeq(tokens, a + 1, i))
    BY <1>3 DEF Reading
  <2> QED BY <1>9, <1>10, <2>1, <2>2, JoinedPieces
<1>12. TermsWithin(tokens, C, o, i) = TermsWithin(tokens, C, o, i + 1)
  <2>1. ASSUME NEW s \in Spans(C) PROVE s[2] <= i /\ s[2] <= i + 1
    <3>1. s[2] \in C
      BY SpanParts
    <3>2. PICK y : y = s[2] /\ y \in C
      BY <3>1
    <3>3. y \in 0..i
      BY <1>4, <3>2
    <3>4. y <= i /\ y <= i + 1
      BY <3>3
    <3> QED BY <3>2, <3>4
  <2> QED BY <2>1 DEF TermsWithin
<1>13. Reading(tokens, new, i + 1, C, O, a, o)
  <2>1. C \in SUBSET (0..i + 1) /\ a # i + 1
    BY <1>4
  <2> QED BY <1>3, <1>9, <1>11, <1>12, <2>1 DEF Reading
<1> QED BY <1>6, <1>7, <1>8, <1>13 DEF Reads

Flushed(st, flushed, term) ==
  /\ term = <<>> => ~flushed.ok
  /\ term # <<>> =>
       /\ flushed.ok = st.ok /\ flushed.parts = <<>>
       /\ flushed.clauses = st.clauses
       /\ flushed.clause = Append(st.clause, term)

LEMMA FlushFields ==
  ASSUME NEW st \in ParserState, NEW term, term = Normalize(st.parts)
  PROVE  Flushed(st, Flush(st), term)
<1>1. term = <<>> => Flush(st) = [st EXCEPT !.ok = FALSE]
  BY DEF Flush
<1>2. term # <<>> => Flush(st) = [st EXCEPT !.clause = Append(@, term), !.parts = <<>>]
  BY DEF Flush
<1>3. [st EXCEPT !.ok = FALSE].ok = FALSE
  BY DEF ParserState
<1> QED BY <1>1, <1>2, <1>3 DEF ParserState, Flushed

LEMMA EndFields ==
  ASSUME NEW st \in ParserState
  PROVE  /\ EndClause(st).ok = st.ok /\ EndClause(st).parts = st.parts
         /\ EndClause(st).clause = <<>>
         /\ EndClause(st).clauses = Append(st.clauses, st.clause)
BY DEF EndClause, ParserState

LEMMA OperatorRead ==
  ASSUME NEW tokens \in Seq(Token), NEW st \in ParserState, NEW i \in Nat, i < Len(tokens),
         Reads(tokens, st, i), st.ok, NEW op \in {"AND", "OR"}, op = tokens[i + 1].op
  PROVE  /\ Operator(st, op).ok => Reads(tokens, Operator(st, op), i + 1)
         /\ ~Operator(st, op).ok => ~WellFormed(tokens)
<1>1. PICK n \in Nat : n = Len(tokens) /\ i + 1 \in 1..n
  BY LenProperties
<1>2. PICK m \in Nat : m = i + 1
  OBVIOUS
<1>3. PICK term : term = Normalize(st.parts)
  OBVIOUS
<1>4. m \in Ends(tokens, {"AND", "OR"}) /\ (m \in Ends(tokens, {"OR"}) <=> op = "OR")
  <2>1. PICK both, ors : both = {"AND", "OR"} /\ ors = {"OR"}
    OBVIOUS
  <2>2. (m \in Ends(tokens, both) <=> op \in both) /\ (m \in Ends(tokens, ors) <=> op \in ors)
    BY <1>1, <1>2, EndsOf
  <2> QED BY <2>1, <2>2
<1>5. st.expecting \/ term = <<>> => ~WellFormed(tokens)
  BY <1>1, <1>2, <1>3, <1>4, CutRead
<1>6. PICK new \in ParserState : new = Operator(st, op)
  BY ParserTypes
<1>7. PICK flushed \in ParserState : flushed = Flush(st)
  BY ParserTypes
<1>8. PICK u \in ParserState : u = IF op = "OR" THEN EndClause(flushed) ELSE flushed
  BY ParserTypes
<1>9. new = IF st.expecting THEN [st EXCEPT !.ok = FALSE] ELSE [u EXCEPT !.expecting = TRUE]
  BY <1>6, <1>7, <1>8 DEF Operator
<1>10. /\ term = <<>> => ~flushed.ok
       /\ term # <<>> =>
            /\ flushed.ok = st.ok /\ flushed.parts = <<>>
            /\ flushed.clauses = st.clauses
            /\ flushed.clause = Append(st.clause, term)
  <2>1. Flushed(st, flushed, term)
    BY <1>3, <1>7, FlushFields
  <2> QED BY <2>1 DEF Flushed
<1>11. u.ok = flushed.ok /\ u.parts = flushed.parts
  BY <1>8, EndFields
<1>12. /\ op = "OR" => u.clause = <<>> /\ u.clauses = Append(flushed.clauses, flushed.clause)
       /\ op # "OR" => u.clause = flushed.clause /\ u.clauses = flushed.clauses
  BY <1>8, EndFields
<1>13. st.expecting => ~new.ok
  BY <1>9 DEF ParserState
<1>14. ~st.expecting => /\ new.ok = u.ok /\ new.parts = u.parts /\ new.expecting
                        /\ new.clause = u.clause /\ new.clauses = u.clauses
  BY <1>9 DEF ParserState
<1>15. ASSUME new.ok PROVE Reads(tokens, new, m)
  <2>1. term # <<>> /\ ~st.expecting
    BY <1>10, <1>11, <1>13, <1>14, <1>15
  <2>2. new.parts = <<>> /\ new.expecting
    BY <1>10, <1>11, <1>14, <2>1
  <2>3. IF m \in Ends(tokens, {"OR"})
          THEN /\ new.clauses = Append(st.clauses, Append(st.clause, term))
               /\ new.clause = <<>>
          ELSE new.clauses = st.clauses /\ new.clause = Append(st.clause, term)
    BY <1>4, <1>10, <1>12, <1>14, <2>1
  <2> QED BY <1>1, <1>2, <1>3, <1>4, <2>1, <2>2, <2>3, CutRead
<1>16. ASSUME ~new.ok PROVE ~WellFormed(tokens)
  <2>1. CASE st.expecting
    BY <2>1, <1>5
  <2>2. CASE ~st.expecting /\ term = <<>>
    BY <2>2, <1>5
  <2>3. CASE ~st.expecting /\ term # <<>>
    <3>1. ~flushed.ok
      BY <2>3, <1>11, <1>14, <1>16
    <3>2. ~st.ok
      BY <2>3, <1>10, <3>1
    <3> QED BY <3>2
  <2> QED BY <2>1, <2>2, <2>3
<1> QED BY <1>2, <1>6, <1>15, <1>16

LEMMA StartReads ==
  ASSUME NEW tokens \in Seq(Token)
  PROVE  Reads(tokens, ParserStart, 0)
<1>1. Cuts(tokens, {"AND", "OR"}, 0) = {0} /\ Cuts(tokens, {"OR"}, 0) = {0}
  <2>1. \A ops : Cuts(tokens, ops, 0) = {0}
    BY EndsOf DEF Cuts
  <2> QED BY <2>1
<1>2. Spans({0}) = {}
  <2>1. ASSUME NEW s \in Spans({0}) PROVE FALSE
    BY SpanParts
  <2> QED BY <2>1
<1>3. SubSeq(tokens, 0 + 1, 0) = <<>> /\ Joined(<<>>) = <<>>
  <2>1. <<>> \in Seq(Token)
    OBVIOUS
  <2>2. Joined(<<>>) = <<>>
    BY <2>1, JoinedPieces
  <2> QED BY <2>2, SubSeqProperties
<1>4. Members(<<>>) = {} /\ MemberSets(<<>>) = {}
  BY DEF Members, MemberSets
<1>5. TermsWithin(tokens, {0}, 0, 0) = {} /\ AskedTerms(tokens, {0}, {0}) = {}
  BY <1>2 DEF TermsWithin, AskedTerms
<1>6. /\ ParserStart.parts = <<>> /\ ParserStart.expecting
      /\ ParserStart.clause = <<>> /\ ParserStart.clauses = <<>>
  BY DEF ParserStart
<1>7. Reading(tokens, ParserStart, 0, {0}, {0}, 0, 0)
  <2>1. {0} \in SUBSET (0..0) /\ \A c \in {0} : c <= 0
    OBVIOUS
  <2> QED BY <1>2, <1>3, <1>4, <1>5, <1>6, <2>1 DEF Reading
<1> QED BY <1>1, <1>7 DEF Reads

(* What the parser makes of an expression.                                   *)
ParsedAs(tokens, st) ==
  /\ st.ok <=> WellFormed(tokens)
  /\ st.ok => MemberSets(st.clauses)
                = AskedTerms(tokens, Ends(tokens, {"AND", "OR"}), Ends(tokens, {"OR"}))

LEMMA EndRead ==
  ASSUME NEW tokens \in Seq(Token), NEW st \in ParserState, st.ok,
         Reads(tokens, st, Len(tokens))
  PROVE  ParsedAs(tokens, ParseEnd(st))
<1>1. PICK n \in Nat : n = Len(tokens)
  BY LenProperties
<1>2. PICK m \in Nat : m = n + 1
  OBVIOUS
<1>3. PICK term : term = Normalize(st.parts)
  OBVIOUS
<1>4. /\ m \in Ends(tokens, {"AND", "OR"}) /\ m \in Ends(tokens, {"OR"})
      /\ Cuts(tokens, {"AND", "OR"}, m) = Ends(tokens, {"AND", "OR"})
      /\ Cuts(tokens, {"OR"}, m) = Ends(tokens, {"OR"})
  <2>1. \A ops : m \in Ends(tokens, ops) /\ Cuts(tokens, ops, m) = Ends(tokens, ops)
    BY <1>1, <1>2, EndsOf DEF Cuts
  <2> QED BY <2>1
<1>5. st.expecting \/ term = <<>> => ~WellFormed(tokens)
  BY <1>1, <1>2, <1>3, <1>4, CutRead
<1>6. PICK flushed \in ParserState : flushed = Flush(st)
  BY ParserTypes
<1>7. PICK u \in ParserState : u = EndClause(flushed)
  BY ParserTypes
<1>8. PICK new \in ParserState : new = [u EXCEPT !.expecting = TRUE]
  BY DEF ParserState
<1>9. /\ new.parts = u.parts /\ new.expecting
      /\ new.clause = u.clause /\ new.clauses = u.clauses
  BY <1>8 DEF ParserState
<1>10. ParseEnd(st) = IF st.expecting THEN [st EXCEPT !.ok = FALSE] ELSE u
  BY <1>6, <1>7 DEF ParseEnd
<1>11. [st EXCEPT !.ok = FALSE].ok = FALSE
  BY DEF ParserState
<1>12. /\ u.ok = flushed.ok /\ u.parts = flushed.parts
       /\ u.clause = <<>> /\ u.clauses = Append(flushed.clauses, flushed.clause)
  BY <1>7, EndFields
<1>13. /\ term = <<>> => ~flushed.ok
       /\ term # <<>> =>
            /\ flushed.ok = st.ok /\ flushed.parts = <<>>
            /\ flushed.clauses = st.clauses
            /\ flushed.clause = Append(st.clause, term)
  <2>1. Flushed(st, flushed, term)
    BY <1>3, <1>6, FlushFields
  <2> QED BY <2>1 DEF Flushed
<1>14. CASE st.expecting \/ term = <<>>
  <2>1. ~ParseEnd(st).ok
    BY <1>10, <1>11, <1>12, <1>13, <1>14
  <2> QED BY <1>5, <1>14, <2>1 DEF ParsedAs
<1>15. CASE ~st.expecting /\ term # <<>>
  <2>1. ParseEnd(st) = u /\ u.ok
    BY <1>10, <1>12, <1>13, <1>15
  <2>2. new.parts = <<>> /\ new.clause = <<>>
        /\ new.clauses = Append(st.clauses, Append(st.clause, term))
    BY <1>9, <1>12, <1>13, <1>15
  <2>3. Reads(tokens, new, m)
    <3>1. IF m \in Ends(tokens, {"OR"})
            THEN /\ new.clauses = Append(st.clauses, Append(st.clause, term))
                 /\ new.clause = <<>>
            ELSE new.clauses = st.clauses /\ new.clause = Append(st.clause, term)
      BY <1>4, <2>2
    <3>2. new.parts = <<>> /\ new.expecting /\ n <= Len(tokens) /\ Reads(tokens, st, n)
      BY <1>1, <1>9, <2>2
    <3> QED BY <1>2, <1>3, <1>4, <1>15, <3>1, <3>2, CutRead
  <2>4. /\ \A s \in Spans(Ends(tokens, {"AND", "OR"})) : TermOf(tokens, s) # <<>>
        /\ MemberSets(new.clauses)
             = AskedTerms(tokens, Ends(tokens, {"AND", "OR"}), Ends(tokens, {"OR"}))
    BY <1>4, <2>3 DEF Reads, Reading
  <2>5. WellFormed(tokens)
    BY <2>4 DEF WellFormed, Terms
  <2> QED BY <1>9, <2>1, <2>4, <2>5 DEF ParsedAs
<1> QED BY <1>14, <1>15

LEMMA ParseSound ==
  ASSUME NEW tokens \in Seq(Token)
  PROVE  ParsedAs(tokens, Parse(tokens))
<1>1. PICK n \in Nat : n = Len(tokens) /\ DOMAIN tokens = 1..n
  BY LenProperties
<1>2. PICK f \in [0..n -> ParserState] :
        /\ f[0] = ParserStart /\ f[n] = TokenLoop(tokens)
        /\ \A i \in 1..n : f[i] = ReadOne(f[i - 1], tokens[i])
  BY <1>1, ParseFold DEF TokenByToken
<1> DEFINE Right(i) == /\ f[i].ok => Reads(tokens, f[i], i)
                       /\ ~f[i].ok => ~WellFormed(tokens)
           N == {i \in Nat : i <= n => Right(i)}
<1>3. 0 \in N
  <2>1. ParserStart.ok
    BY DEF ParserStart
  <2> QED BY <1>2, <2>1, StartReads
<1>4. ASSUME NEW i \in Nat, i \in N PROVE i + 1 \in N
  <2> SUFFICES ASSUME i + 1 <= n PROVE Right(i + 1)
    OBVIOUS
  <2>1. i < n /\ i \in 0..n /\ i + 1 \in 1..n /\ (i + 1) - 1 = i
    BY <1>1
  <2>2. Right(i) /\ f[i + 1] = ReadOne(f[i], tokens[i + 1])
    BY <1>2, <1>4, <2>1
  <2>3. PICK st \in ParserState : st = f[i]
    BY <1>2, <2>1
  <2>4. PICK x \in Token : x = tokens[i + 1]
    BY <1>1, <2>1, ElementOfSeq
  <2>5. CASE ~st.ok
    BY <2>2, <2>3, <2>5 DEF ReadOne
  <2>6. CASE st.ok /\ x.op = "none"
    <3>1. f[i + 1] = ReadToken(st, x)
      BY <2>2, <2>3, <2>4, <2>6 DEF ReadOne
    <3>2. Reads(tokens, f[i + 1], i + 1)
      BY <1>1, <2>1, <2>2, <2>3, <2>4, <2>6, <3>1, WordRead
    <3>3. f[i + 1].ok
      BY <2>6, <3>1 DEF ReadToken, ParserState
    <3> QED BY <3>2, <3>3
  <2>7. CASE st.ok /\ x.op # "none"
    <3>1. x.op \in {"AND", "OR"}
      BY <2>7 DEF Token
    <3>2. f[i + 1] = Operator(st, x.op)
      BY <2>2, <2>3, <2>4, <2>7 DEF ReadOne, ReadToken
    <3>3. PICK op \in {"AND", "OR"} : op = x.op
      BY <3>1
    <3>4. Reads(tokens, st, i)
      BY <2>2, <2>3, <2>7
    <3>5. /\ Operator(st, op).ok => Reads(tokens, Operator(st, op), i + 1)
          /\ ~Operator(st, op).ok => ~WellFormed(tokens)
      BY <1>1, <2>1, <2>4, <2>7, <3>3, <3>4, OperatorRead
    <3> QED BY <3>2, <3>3, <3>5
  <2> QED BY <2>5, <2>6, <2>7
<1> HIDE DEF N
<1>5. n \in N
  BY <1>3, <1>4, SetInduction
<1>6. Right(n)
  BY <1>5 DEF N
<1>7. PICK st \in ParserState : st = f[n]
  BY <1>2
<1>8. Parse(tokens) = IF st.ok THEN ParseEnd(st) ELSE st
  BY <1>2, <1>7, ParseLoop
<1>9. st.ok => ParsedAs(tokens, ParseEnd(st))
  BY <1>1, <1>6, <1>7, EndRead
<1>10. ~st.ok => ParsedAs(tokens, st)
  BY <1>6, <1>7 DEF ParsedAs
<1> QED BY <1>8, <1>9, <1>10

(* For every expression: the parser accepts it exactly when each of its      *)
(* terms has a letter that counts, and the query made of it matches a row    *)
(* exactly when the expression asks for it (text.rs:34-95).                  *)
THEOREM ParserSound ==
  \A tokens \in Seq(Token) :
    /\ Parse(tokens).ok <=> WellFormed(tokens)
    /\ Parse(tokens).ok =>
         \A columns \in Seq(Seq(Letters)) :
           MatchesRow(Parse(tokens), SearchText(columns)) <=> Asks(tokens, columns)
<1> SUFFICES ASSUME NEW tokens \in Seq(Token)
             PROVE  /\ Parse(tokens).ok <=> WellFormed(tokens)
                    /\ Parse(tokens).ok =>
                         \A columns \in Seq(Seq(Letters)) :
                           MatchesRow(Parse(tokens), SearchText(columns)) <=> Asks(tokens, columns)
  OBVIOUS
<1>1. PICK e : e = Parse(tokens)
  OBVIOUS
<1>2. /\ e.ok <=> WellFormed(tokens)
      /\ e.ok => MemberSets(e.clauses)
                   = AskedTerms(tokens, Ends(tokens, {"AND", "OR"}), Ends(tokens, {"OR"}))
  BY <1>1, ParseSound DEF ParsedAs
<1>3. ASSUME e.ok, NEW columns \in Seq(Seq(Letters))
      PROVE  MatchesRow(e, SearchText(columns)) <=> Asks(tokens, columns)
  <2> DEFINE Found(x) == \E k \in DOMAIN columns : HasPhrase(Normalize(columns[k]), x)
  <2>1. MatchesRow(e, SearchText(columns)) <=> \E T \in MemberSets(e.clauses) : \A x \in T : Found(x)
    <3>1. ASSUME NEW x
          PROVE  (\E k \in DOMAIN SearchText(columns) : HasPhrase(SearchText(columns)[k], x))
                   <=> Found(x)
      BY DEF SearchText
    <3> HIDE DEF Found
    <3>2. MatchesRow(e, SearchText(columns))
            <=> \E c \in DOMAIN e.clauses : \A t \in DOMAIN e.clauses[c] : Found(e.clauses[c][t])
      BY <3>1 DEF MatchesRow
    <3>3. \A u : (\A x \in Members(u) : Found(x)) <=> \A t \in DOMAIN u : Found(u[t])
      BY DEF Members
    <3>4. (\E T \in MemberSets(e.clauses) : \A x \in T : Found(x))
            <=> \E c \in DOMAIN e.clauses : \A x \in Members(e.clauses[c]) : Found(x)
      <4>1. \A T : T \in MemberSets(e.clauses)
                     <=> \E c \in DOMAIN e.clauses : T = Members(e.clauses[c])
        BY MemberSetsOf
      <4> DEFINE All(T) == \A x \in T : Found(x)
      <4>2. (\E T \in MemberSets(e.clauses) : All(T))
              <=> \E c \in DOMAIN e.clauses : All(Members(e.clauses[c]))
        <5> HIDE DEF All, Members, MemberSets
        <5> QED BY Zenon, <4>1
      <4> QED BY <4>2
    <3> QED BY <3>2, <3>3, <3>4
  <2>2. Asks(tokens, columns)
          <=> \E T \in AskedTerms(tokens, Ends(tokens, {"AND", "OR"}), Ends(tokens, {"OR"})) :
                \A x \in T : Found(x)
    <3>1. Asks(tokens, columns)
            <=> \E p \in Spans(Ends(tokens, {"OR"})) :
                  \A q \in Spans(Ends(tokens, {"AND", "OR"})) :
                    p[1] <= q[1] /\ q[2] <= p[2] => Found(TermOf(tokens, q))
      BY DEF Asks, Terms
    <3> HIDE DEF Found
    <3>2. \A p : (\A x \in TermsWithin(tokens, Ends(tokens, {"AND", "OR"}), p[1], p[2]) : Found(x))
                   <=> \A q \in Spans(Ends(tokens, {"AND", "OR"})) :
                         p[1] <= q[1] /\ q[2] <= p[2] => Found(TermOf(tokens, q))
      BY DEF TermsWithin
    <3>3. (\E T \in AskedTerms(tokens, Ends(tokens, {"AND", "OR"}), Ends(tokens, {"OR"})) :
             \A x \in T : Found(x))
            <=> \E p \in Spans(Ends(tokens, {"OR"})) :
                  \A x \in TermsWithin(tokens, Ends(tokens, {"AND", "OR"}), p[1], p[2]) : Found(x)
      BY DEF AskedTerms
    <3> QED BY <3>1, <3>2, <3>3
  <2> QED BY <1>2, <1>3, <2>1, <2>2
<1> QED BY <1>1, <1>2, <1>3

-----------------------------------------------------------------------------
(* Which requests are answered.                                              *)

LEMMA ExpressionsParsed ==
  ASSUME NEW req \in Requests
  PROVE  \A f \in {"q", "program_q", "line_q"} :
           /\ req[f] \in Seq(Token) /\ Len(req[f]) \in Nat
           /\ req[f] = <<>> => Len(req[f]) = 0
           /\ req[f] \in DOMAIN Parsed /\ Parsed[req[f]] = Parse(req[f])
           /\ Parsed[req[f]].ok <=> WellFormed(req[f])
<1> SUFFICES ASSUME NEW f \in {"q", "program_q", "line_q"}
             PROVE  /\ req[f] \in Seq(Token) /\ Len(req[f]) \in Nat
                    /\ req[f] = <<>> => Len(req[f]) = 0
                    /\ req[f] \in DOMAIN Parsed /\ Parsed[req[f]] = Parse(req[f])
                    /\ Parsed[req[f]].ok <=> WellFormed(req[f])
  OBVIOUS
<1>1. req \in Request
  BY QueryAssumption
<1>2. req.q \in Seq(Token) /\ req.program_q \in Seq(Token) /\ req.line_q \in Seq(Token)
  BY <1>1 DEF Request
<1>3. PICK tokens : tokens = req[f] /\ tokens \in {req.q, req.program_q, req.line_q}
  OBVIOUS
<1>4. tokens \in Seq(Token)
  BY <1>2, <1>3
<1>5. tokens \in UNION {{r.q, r.program_q, r.line_q} : r \in Requests}
  BY <1>3
<1>6. tokens \in DOMAIN Parsed /\ Parsed[tokens] = Parse(tokens)
  BY <1>5 DEF Parsed
<1>7. Len(tokens) \in Nat /\ (tokens = <<>> => Len(tokens) = 0)
  BY <1>4, LenProperties
<1> QED BY <1>3, <1>4, <1>6, <1>7, ParserSound

LEMMA DayOf ==
  ASSUME NEW n \in Nat, NEW D \in Nat \ {0}
  PROVE  \E d \in Nat : \E r \in 0..D - 1 : d = n \div D /\ r = n % D /\ n = d * D + r
<1>1. n \div D \in Nat /\ n % D \in 0..D - 1
  OBVIOUS
<1>2. PICK d \in Nat : d = n \div D
  BY <1>1
<1>3. PICK r \in 0..D - 1 : r = n % D
  BY <1>1
<1>4. n = D * d + r
  BY <1>2, <1>3
<1>5. D * d = d * D
  OBVIOUS
<1> QED BY <1>1, <1>2, <1>3, <1>4, <1>5

LEMMA DayOrder ==
  ASSUME NEW D \in Nat \ {0}, NEW a \in Nat, NEW b \in Nat, NEW s \in 0..D - 1, NEW t \in 0..D - 1
  PROVE  a * D + s >= b * D + t <=> (a > b \/ (a = b /\ s >= t))
<1>1. ASSUME NEW x \in Nat, NEW y \in Nat, x > y PROVE x * D >= y * D + D
  <2>1. PICK k \in Nat : x = y + (1 + k)
    <3>1. x - y - 1 \in Nat /\ x = y + (1 + (x - y - 1))
      BY <1>1
    <3> QED BY <3>1
  <2>2. x * D = y * D + D + k * D
    BY <2>1
  <2>3. k * D \in Nat /\ y * D \in Nat
    OBVIOUS
  <2> QED BY <2>2, <2>3
<1>2. a * D \in Nat /\ b * D \in Nat
  OBVIOUS
<1>3. CASE a > b
  BY <1>1, <1>2, <1>3
<1>4. CASE b > a
  <2>1. b * D >= a * D + D
    BY <1>1, <1>4
  <2>2. a * D + s < b * D + t
    BY <1>2, <2>1
  <2> QED BY <1>2, <1>4, <2>2
<1>5. CASE a = b
  BY <1>2, <1>5
<1> QED BY <1>3, <1>4, <1>5

LEMMA BoundsExpand ==
  ASSUME NEW b \in Bound
  PROVE  /\ ExpandFrom(b) \in Nat /\ ExpandTo(b) \in Nat
         /\ b # Null /\ b # Invalid /\ ExpandFrom(b) # Null /\ ExpandTo(b) # Null
         /\ \A n \in Nat : LET day == n \div DaySeconds
                               second == n % DaySeconds
                           IN  /\ n >= ExpandFrom(b) <=>
                                    day > b.day \/ (day = b.day /\ (b.at = Null \/ second >= b.at))
                               /\ n <= ExpandTo(b) <=>
                                    day < b.day \/ (day = b.day /\ (b.at = Null \/ second <= b.at))
<1>1. PICK D \in Nat \ {0} : D = DaySeconds
  BY QueryAssumption
<1>2. b # Null /\ b # Invalid
  BY QueryAssumption
<1>3. b.day \in Nat /\ b.at \in 0..(D - 1) \cup {Null}
  BY <1>1 DEF Bound
<1>4. PICK s \in 0..D - 1 : s = IF b.at = Null THEN 0 ELSE b.at
  BY <1>3
<1>5. PICK t \in 0..D - 1 : t = IF b.at = Null THEN D - 1 ELSE b.at
  BY <1>3
<1>6. PICK e \in Nat : e = b.day
  BY <1>3
<1>7. ExpandFrom(b) = e * D + s /\ ExpandTo(b) = e * D + t
  BY <1>1, <1>2, <1>4, <1>5, <1>6 DEF ExpandFrom, ExpandTo
<1>8. e * D + s \in Nat /\ e * D + t \in Nat
  <2>1. e * D \in Nat
    OBVIOUS
  <2> QED BY <2>1
<1>9. ASSUME NEW n \in Nat
      PROVE  /\ n >= ExpandFrom(b) <=> \/ n \div D > e
                                       \/ n \div D = e /\ (b.at = Null \/ n % D >= b.at)
             /\ n <= ExpandTo(b) <=> \/ n \div D < e
                                     \/ n \div D = e /\ (b.at = Null \/ n % D <= b.at)
  <2>1. PICK d \in Nat : \E r \in 0..D - 1 : d = n \div D /\ r = n % D /\ n = d * D + r
    BY DayOf
  <2>2. PICK r \in 0..D - 1 : r = n % D /\ n = d * D + r
    BY <2>1
  <2>3. n = d * D + r
    BY <2>2
  <2>4. n >= e * D + s <=> (d > e \/ (d = e /\ r >= s))
    BY <2>3, DayOrder
  <2>5. e * D + t >= n <=> (e > d \/ (e = d /\ t >= r))
    BY <2>3, DayOrder
  <2>6. n <= e * D + t <=> e * D + t >= n
    BY <1>8
  <2>7. r >= s <=> (b.at = Null \/ r >= b.at)
    BY <1>3, <1>4
  <2>8. t >= r <=> (b.at = Null \/ r <= b.at)
    BY <1>3, <1>5
  <2>9. e > d <=> d < e
    OBVIOUS
  <2> QED BY <1>7, <2>1, <2>2, <2>4, <2>5, <2>6, <2>7, <2>8, <2>9
<1> QED BY <1>1, <1>2, <1>6, <1>7, <1>8, <1>9, IdAssumption

LEMMA Accepted ==
  ASSUME NEW req \in Requests
  PROVE  BadRequest(req) <=> ~Acceptable(req)
<1> DEFINE G == Given(req)
           Names == {"q", "program_q", "line_q"}
<1>1. G \subseteq Names /\ \A f \in Names : f \in G <=> req[f] # <<>>
  BY DEF Given
<1>2. req \in Request
  BY QueryAssumption
<1>3. /\ req.stream \in Streams \cup {Null, Invalid}
      /\ req.from \in Bound \cup {Null, Invalid} /\ req.to \in Bound \cup {Null, Invalid}
      /\ req.genre \in Genre \cup {Null, Invalid}
  BY <1>2 DEF Request
<1>4. Invalid # Null /\ Null \notin Nat /\ Null \notin Genre /\ Invalid \notin Genre
  BY QueryAssumption, IdAssumption
<1>5. (G = {} \/ ("q" \in G /\ G # {"q"}))
         <=> G \notin {{"q"}, {"program_q"}, {"line_q"}, {"program_q", "line_q"}}
  <2> HIDE DEF G
  <2>1. CASE "q" \in G
    <3>1. G # {} /\ G # {"program_q"} /\ G # {"line_q"} /\ G # {"program_q", "line_q"}
      BY <2>1
    <3> QED BY <2>1, <3>1
  <2>2. CASE "q" \notin G
    <3>1. G \subseteq {"program_q", "line_q"} /\ G # {"q"}
      BY <1>1, <2>2
    <3>2. G = {} \/ G = {"program_q"} \/ G = {"line_q"} \/ G = {"program_q", "line_q"}
      BY <3>1
    <3>3. {} # {"program_q"} /\ {} # {"line_q"} /\ {} # {"program_q", "line_q"} /\ {} # {"q"}
      OBVIOUS
    <3> QED BY <2>2, <3>1, <3>2, <3>3
  <2> QED BY <2>1, <2>2
<1>6. (\E f \in Names : Len(req[f]) > MaxExpression) <=> ~\A f \in G : Len(req[f]) <= MaxExpression
  <2>1. MaxExpression \in Nat
    BY QueryAssumption
  <2>2. \A f \in Names : Len(req[f]) \in Nat /\ (f \notin G => Len(req[f]) = 0)
    BY <1>1, ExpressionsParsed
  <2> HIDE DEF G, Names
  <2>3. \A f \in Names : Len(req[f]) > MaxExpression => f \in G
    BY <2>1, <2>2
  <2> QED BY <1>1, <2>1, <2>2, <2>3
<1>7. (\E f \in G : ~Parsed[req[f]].ok) <=> ~\A f \in G : WellFormed(req[f])
  BY <1>1, ExpressionsParsed
<1>8. BadGenre(req.genre)
        <=> \/ req.genre = Invalid
            \/ ~(req.genre # Null => {req.genre.level1, req.genre.level2} \subseteq (0..15) \cup {Null})
  <2>1. CASE req.genre \in {Null, Invalid}
    BY <1>4, <2>1 DEF BadGenre
  <2>2. CASE req.genre \in Genre
    <3>1. PICK g \in Genre : g = req.genre
      BY <2>2
    <3>2. g.level1 \in Nat /\ g.level2 \in Nat \cup {Null}
      BY DEF Genre
    <3>3. g.level1 \in (0..15) \cup {Null} <=> ~(g.level1 > 15)
      BY <1>4, <3>2
    <3>4. g.level2 \in (0..15) \cup {Null} <=> ~(g.level2 # Null /\ g.level2 > 15)
      BY <1>4, <3>2
    <3>5. g # Null /\ g # Invalid
      BY <1>4
    <3> QED BY <3>1, <3>3, <3>4, <3>5 DEF BadGenre
  <2> QED BY <1>3, <2>1, <2>2
<1>9. ASSUME Invalid \notin {req.stream, req.from, req.to}
      PROVE  (Null \notin {req.from, req.to} /\ ExpandFrom(req.from) > ExpandTo(req.to))
                <=> ~(Null \notin {req.from, req.to} => ExpandFrom(req.from) <= ExpandTo(req.to))
  <2>1. CASE Null \in {req.from, req.to}
    BY <2>1
  <2>2. CASE Null \notin {req.from, req.to}
    <3>1. req.from \in Bound /\ req.to \in Bound
      BY <1>3, <1>9, <2>2
    <3>2. ExpandFrom(req.from) \in Nat /\ ExpandTo(req.to) \in Nat
      BY <3>1, BoundsExpand
    <3> QED BY <2>2, <3>2
  <2> QED BY <2>1, <2>2
<1> DEFINE OneOf == G \in {{"q"}, {"program_q"}, {"line_q"}, {"program_q", "line_q"}}
<1>10. BadExpression(req) <=> ~(OneOf /\ \A f \in G : Len(req[f]) <= MaxExpression /\ WellFormed(req[f]))
  <2> HIDE DEF G
  <2>1. (G = {} \/ ("q" \in G /\ G # {"q"})) <=> ~OneOf
    BY <1>5
  <2> HIDE DEF OneOf
  <2>2. BadExpression(req) <=> \/ \E f \in Names : Len(req[f]) > MaxExpression
                               \/ G = {} \/ ("q" \in G /\ G # {"q"})
                               \/ \E f \in G : ~Parsed[req[f]].ok
    BY DEF BadExpression, G
  <2> QED BY <1>6, <1>7, <2>1, <2>2
<1>11. BadFilter(req)
         <=> ~(/\ Invalid \notin {req.stream, req.from, req.to, req.genre}
               /\ req.genre # Null => {req.genre.level1, req.genre.level2} \subseteq (0..15) \cup {Null}
               /\ Null \notin {req.from, req.to} => ExpandFrom(req.from) <= ExpandTo(req.to))
  BY <1>8, <1>9 DEF BadFilter
<1>12. Acceptable(req)
         <=> /\ OneOf /\ \A f \in G : Len(req[f]) <= MaxExpression /\ WellFormed(req[f])
             /\ Invalid \notin {req.stream, req.from, req.to, req.genre}
             /\ req.genre # Null => {req.genre.level1, req.genre.level2} \subseteq (0..15) \cup {Null}
             /\ Null \notin {req.from, req.to} => ExpandFrom(req.from) <= ExpandTo(req.to)
  BY DEF Acceptable
<1> HIDE DEF OneOf, G
<1> QED BY <1>10, <1>11, <1>12 DEF BadRequest

-----------------------------------------------------------------------------
(* What the statements match is what the expressions ask for.                *)

FilterRight(req, r) ==
  Passes(Search(req).filter, r)
    <=> /\ InRange(req, r) /\ req.stream \in {Null, r.stream}
        /\ req.genre # Null => Passes(Search(req).filter, r)

LEMMA FilterPasses ==
  ASSUME NEW req \in Requests, Acceptable(req)
  PROVE  \A r \in Recordings : FilterRight(req, r)
<1> SUFFICES ASSUME NEW r \in Recordings PROVE FilterRight(req, r)
  OBVIOUS
<1>1. req.from \in Bound \cup {Null} /\ req.to \in Bound \cup {Null}
  <2>1. req \in Request
    BY QueryAssumption
  <2>2. Invalid \notin {req.stream, req.from, req.to, req.genre}
    BY DEF Acceptable
  <2> QED BY <2>1, <2>2 DEF Request
<1>2. r.at \in Nat
  BY ArchiveAssumption DEF Recordings
<1>3. PICK filter : filter = Search(req).filter
  OBVIOUS
<1>4. /\ filter.stream = req.stream /\ filter.genre = req.genre
      /\ filter.from = ExpandFrom(req.from) /\ filter.to = ExpandTo(req.to)
  BY <1>3 DEF Search
<1>5. (filter.from # Null => r.at >= filter.from) /\ (filter.to # Null => r.at <= filter.to)
        <=> InRange(req, r)
  <2> DEFINE day == r.at \div DaySeconds
             second == r.at % DaySeconds
             NotBefore(b) == day > b.day \/ (day = b.day /\ (b.at = Null \/ second >= b.at))
             NotAfter(b) == day < b.day \/ (day = b.day /\ (b.at = Null \/ second <= b.at))
  <2>1. InRange(req, r) <=> /\ req.from # Null => NotBefore(req.from)
                            /\ req.to # Null => NotAfter(req.to)
    BY DEF InRange
  <2>2. (filter.from # Null => r.at >= filter.from) <=> (req.from # Null => NotBefore(req.from))
    <3>1. CASE req.from = Null
      BY <1>4, <3>1 DEF ExpandFrom
    <3>2. CASE req.from \in Bound
      <4>1. PICK b \in Bound : b = req.from
        BY <3>2
      <4>2. b # Null /\ ExpandFrom(b) # Null /\ (r.at >= ExpandFrom(b) <=> NotBefore(b))
        BY <1>2, BoundsExpand
      <4> HIDE DEF NotBefore
      <4> QED BY <1>4, <4>1, <4>2
    <3> QED BY <1>1, <3>1, <3>2
  <2>3. (filter.to # Null => r.at <= filter.to) <=> (req.to # Null => NotAfter(req.to))
    <3>1. CASE req.to = Null
      BY <1>4, <3>1 DEF ExpandTo
    <3>2. CASE req.to \in Bound
      <4>1. PICK b \in Bound : b = req.to
        BY <3>2
      <4>2. b # Null /\ ExpandTo(b) # Null /\ (r.at <= ExpandTo(b) <=> NotAfter(b))
        BY <1>2, BoundsExpand
      <4> HIDE DEF NotAfter
      <4> QED BY <1>4, <4>1, <4>2
    <3> QED BY <1>1, <3>1, <3>2
  <2> HIDE DEF NotBefore, NotAfter
  <2> QED BY <2>1, <2>2, <2>3
<1>6. Passes(filter, r) <=> /\ filter.stream \in {Null, r.stream}
                            /\ filter.from # Null => r.at >= filter.from
                            /\ filter.to # Null => r.at <= filter.to
                            /\ filter.genre # Null => Passes(filter, r)
  BY DEF Passes
<1> HIDE DEF Passes
<1> QED BY <1>3, <1>4, <1>5, <1>6 DEF FilterRight

(* An expression of a request that the parser accepts.                       *)
Accepting(tokens) == tokens \in DOMAIN Parsed /\ Parsed[tokens].ok

LEMMA LineAsked ==
  ASSUME NEW tokens, Accepting(tokens), NEW line \in Lines
  PROVE  MatchesRow(Parsed[tokens], Stored[line]) <=> line \in AskedLines[tokens]
<1>1. PICK req \in Requests : tokens \in {req.q, req.program_q, req.line_q}
  BY DEF Accepting, Parsed
<1>2. tokens \in Seq(Token) /\ Parsed[tokens] = Parse(tokens) /\ Parse(tokens).ok
  <2>1. PICK f \in {"q", "program_q", "line_q"} : tokens = req[f]
    BY <1>1
  <2> QED BY <2>1, ExpressionsParsed DEF Accepting
<1>3. Columns[line] \in Seq(Seq(Letters))
  BY QueryAssumption
<1>4. Stored[line] = SearchText(Columns[line])
  BY DEF Stored
<1>5. line \in AskedLines[tokens] <=> Asks(tokens, Columns[line])
  BY DEF AskedLines, Accepting
<1> QED BY <1>2, <1>3, <1>4, <1>5, ParserSound

LEMMA TitlesMatched ==
  ASSUME StoredInv, NEW tokens, Accepting(tokens)
  PROVE  MatchedPrograms(Parsed[tokens]) = {r \in Rows : TitleAsks(tokens, r)}
<1>1. program_fts = ProgramRows /\ \A r \in Rows : described[r] \in Lines
  BY DEF StoredInv
<1>2. ASSUME NEW r \in Rows
      PROVE  MatchesRow(Parsed[tokens], Stored[described[r]]) <=> TitleAsks(tokens, r)
  BY <1>1, LineAsked DEF TitleAsks
<1> HIDE DEF MatchesRow, TitleAsks
<1>3. ASSUME NEW r \in MatchedPrograms(Parsed[tokens]) PROVE r \in Rows /\ TitleAsks(tokens, r)
  <2>1. PICK x \in program_fts : x.program = r /\ r \in Rows /\ MatchesRow(Parsed[tokens], Stored[x.text])
    BY DEF MatchedPrograms
  <2>2. PICK q \in Rows : x = [program |-> q, text |-> described[q]]
    BY <1>1 DEF ProgramRows
  <2> QED BY <1>2, <2>1, <2>2
<1>4. ASSUME NEW r \in Rows, TitleAsks(tokens, r) PROVE r \in MatchedPrograms(Parsed[tokens])
  <2>1. [program |-> r, text |-> described[r]] \in program_fts
    BY <1>1 DEF ProgramRows
  <2> QED BY <1>2, <1>4, <2>1 DEF MatchedPrograms
<1> QED BY <1>3, <1>4

(* A row of each hit of each program.                                        *)
MatchesHits(S, tokens, within) ==
  /\ \A x \in S : x.recording \in within /\ \E c \in Hits(tokens, x.recording) : c.line_no = x.line_no
  /\ \A r \in within : \A c \in Hits(tokens, r) :
       [recording |-> r, id |-> ids[r], line_no |-> c.line_no] \in S

LEMMA HitsMatched ==
  ASSUME StoredInv, NEW tokens, Accepting(tokens), NEW within \in SUBSET Rows, NEW filter
  PROVE  MatchesHits(MatchedLines(Parsed[tokens], within, filter), tokens,
                     {r \in within : Passes(filter, r)})
<1> DEFINE S == MatchedLines(Parsed[tokens], within, filter)
           matched == {[program |-> x.program, line_no |-> x.line_no] :
                         x \in {y \in caption_fts : MatchesRow(Parsed[tokens], Stored[y.text])}}
<1>1. caption_fts = CaptionRows
  BY DEF StoredInv
<1>2. \A r \in Recordings : \A c, d \in captions[r] : c.line_no = d.line_no => c = d
  BY DEF StoredInv, CaptionsNumbered
<1>3. ASSUME NEW r \in Recordings, NEW c \in captions[r]
      PROVE  [program |-> r, line_no |-> c.line_no] \in matched <=> c \in Hits(tokens, r)
  <2>1. c.text \in Lines
    BY DEF StoredInv, IndexTypeOK, CaptionRow
  <2>2. c \in Hits(tokens, r) <=> MatchesRow(Parsed[tokens], Stored[c.text])
    BY <2>1, LineAsked DEF Hits
  <2> HIDE DEF MatchesRow, Hits
  <2>3. ASSUME c \in Hits(tokens, r)
        PROVE  [program |-> r, line_no |-> c.line_no] \in matched
    <3>1. [program |-> r, line_no |-> c.line_no, text |-> c.text] \in caption_fts
      BY <1>1 DEF CaptionRows
    <3> QED BY <2>2, <2>3, <3>1
  <2>4. ASSUME [program |-> r, line_no |-> c.line_no] \in matched
        PROVE  c \in Hits(tokens, r)
    <3>1. PICK y \in caption_fts : /\ MatchesRow(Parsed[tokens], Stored[y.text])
                                   /\ y.program = r /\ y.line_no = c.line_no
      BY <2>4
    <3>2. PICK q \in Recordings : \E d \in captions[q] :
            y = [program |-> q, line_no |-> d.line_no, text |-> d.text]
      BY <1>1 DEF CaptionRows
    <3>3. PICK d \in captions[q] : y = [program |-> q, line_no |-> d.line_no, text |-> d.text]
      BY <3>2
    <3>4. q = r /\ d = c
      BY <1>2, <3>1, <3>3
    <3> QED BY <2>2, <3>1, <3>3, <3>4
  <2> QED BY <2>3, <2>4
<1> HIDE DEF matched
<1>4. S = {[recording |-> x.program, id |-> ids[x.program], line_no |-> x.line_no] :
             x \in {y \in CaptionRows :
                      /\ [program |-> y.program, line_no |-> y.line_no] \in matched
                      /\ y.program \in within
                      /\ Passes(filter, y.program)}}
  BY DEF MatchedLines, matched
<1> HIDE DEF S, Passes
<1>5. ASSUME NEW x \in S
      PROVE  /\ x.recording \in within /\ Passes(filter, x.recording)
             /\ \E c \in Hits(tokens, x.recording) : c.line_no = x.line_no
  <2>1. PICK y \in CaptionRows :
          /\ [program |-> y.program, line_no |-> y.line_no] \in matched
          /\ y.program \in within /\ Passes(filter, y.program)
          /\ x = [recording |-> y.program, id |-> ids[y.program], line_no |-> y.line_no]
    BY <1>4
  <2>2. PICK r \in Recordings : \E c \in captions[r] :
          y = [program |-> r, line_no |-> c.line_no, text |-> c.text]
    BY DEF CaptionRows
  <2>3. PICK c \in captions[r] : y = [program |-> r, line_no |-> c.line_no, text |-> c.text]
    BY <2>2
  <2>4. y.program = r /\ y.line_no = c.line_no
    BY <2>3
  <2>5. c \in Hits(tokens, r)
    BY <1>3, <2>1, <2>4
  <2> QED BY <2>1, <2>4, <2>5
<1>6. ASSUME NEW r \in within, Passes(filter, r), NEW c \in Hits(tokens, r)
      PROVE  [recording |-> r, id |-> ids[r], line_no |-> c.line_no] \in S
  <2>1. r \in Recordings /\ c \in captions[r]
    BY DEF Rows, Hits
  <2>2. [program |-> r, line_no |-> c.line_no] \in matched
    BY <1>3, <2>1
  <2>3. PICK y \in CaptionRows : y = [program |-> r, line_no |-> c.line_no, text |-> c.text]
    <3>1. [program |-> r, line_no |-> c.line_no, text |-> c.text]
            \in {[program |-> r, line_no |-> d.line_no, text |-> d.text] : d \in captions[r]}
      BY <2>1
    <3> QED BY <2>1, <3>1 DEF CaptionRows
  <2>4. y.program = r /\ y.line_no = c.line_no
    BY <2>3
  <2> QED BY <1>4, <1>6, <2>2, <2>4
<1> QED BY <1>5, <1>6 DEF MatchesHits, S

(* The first `inner` hits of a program, by number.                           *)
FirstHitsOf(H, inner) == {c \in H : Cardinality({d \in H : ByLine(d, c)}) < inner}

RankedHits(S, tokens, r, inner) ==
  {x.line_no : x \in {y \in S : y.id = ids[r] /\ HitRank(S, y) <= inner}}
    = {c.line_no : c \in FirstHitsOf(Hits(tokens, r), inner)}

LEMMA HitsRanked ==
  ASSUME StoredInv, NEW S, IsFiniteSet(S), Consistent(S), NEW tokens, NEW within \in SUBSET Rows,
         MatchesHits(S, tokens, within), NEW inner \in Nat \ {0}
  PROVE  \A r \in within : RankedHits(S, tokens, r, inner)
<1> SUFFICES ASSUME NEW r \in within PROVE RankedHits(S, tokens, r, inner)
  OBVIOUS
<1> DEFINE T == {x \in S : x.id = ids[r]}
           H == Hits(tokens, r)
           f == [x \in T |-> CHOOSE c \in H : c.line_no = x.line_no]
           RT == {e \in T \X T : ByLine(e[1], e[2])}
           RH == {e \in H \X H : ByLine(e[1], e[2])}
<1>1. \A x \in S : /\ x \in MatchRow /\ x.recording \in within /\ x.id = ids[x.recording]
                   /\ \E c \in Hits(tokens, x.recording) : c.line_no = x.line_no
  BY DEF Consistent, MatchesHits
<1>2. \A x \in T : x.recording = r /\ x = [recording |-> r, id |-> ids[r], line_no |-> x.line_no]
  <2>1. ASSUME NEW x \in T PROVE x.recording = r
    BY <1>1, RowsOrder
  <2> QED BY <1>1, <2>1 DEF MatchRow
<1>3. \A c, d \in H : c.line_no = d.line_no => c = d
  BY DEF StoredInv, CaptionsNumbered, Hits, Rows
<1>4. \A c \in H : [recording |-> r, id |-> ids[r], line_no |-> c.line_no] \in T
  BY DEF MatchesHits
<1>5. \A x \in T : \E c \in H : c.line_no = x.line_no
  BY <1>1, <1>2
<1>6. IsFiniteSet(T) /\ T \in SUBSET S
  BY FS_Subset
<1> HIDE DEF H
<1>7. \A x \in T : f[x] \in H /\ f[x].line_no = x.line_no
  BY <1>5
<1>8. f \in [T -> H]
  BY <1>7
<1>9. SameOrder(T, RT, H, RH, f)
  <2>1. \A c \in H : \E x \in T : f[x] = c
    <3> SUFFICES ASSUME NEW c \in H PROVE \E x \in T : f[x] = c
      OBVIOUS
    <3>1. PICK x \in T : x.line_no = c.line_no
      BY <1>4
    <3> HIDE DEF f, T
    <3> QED BY <1>3, <1>7, <3>1
  <2> HIDE DEF f, T
  <2>2. \A x, y \in T : f[x] = f[y] => x = y
    BY <1>2, <1>7
  <2>3. \A x, y \in T : <<x, y>> \in RT <=> <<f[x], f[y]>> \in RH
    BY <1>7 DEF ByLine
  <2> QED BY <1>8, <2>1, <2>2, <2>3 DEF SameOrder
<1>10. \A x \in T : Cardinality(EarlierIn(T, RT, x)) = Cardinality(EarlierIn(H, RH, f[x]))
  <2> HIDE DEF T, f, RT, RH
  <2> QED BY <1>6, <1>9, SameRank
<1>11. ASSUME NEW x \in T
       PROVE  HitRank(S, x) = Cardinality({d \in H : ByLine(d, f[x])}) + 1
  <2>1. EarlierIn(T, RT, x) = {y \in S : y.id = x.id /\ ByLine(y, x)}
    BY DEF EarlierIn
  <2>2. f[x] \in H
    BY <1>7
  <2>3. EarlierIn(H, RH, f[x]) = {d \in H : ByLine(d, f[x])}
    <3> HIDE DEF f
    <3> QED BY <2>2 DEF EarlierIn
  <2>4. HitRank(S, x) = Cardinality(EarlierIn(T, RT, x)) + 1
    BY <2>1 DEF HitRank
  <2> HIDE DEF T, RT, RH, f
  <2> QED BY <1>10, <2>3, <2>4
<1>12. \A x \in T : Cardinality({d \in H : ByLine(d, f[x])}) \in Nat
  <2>1. IsFiniteSet(H)
    <3> HIDE DEF T, f, RT, RH
    <3> QED BY <1>6, <1>9, SameRank
  <2>2. \A x \in T : IsFiniteSet({d \in H : ByLine(d, f[x])})
    BY <2>1, FS_Subset
  <2> QED BY <2>2, FS_CardinalityType
<1> HIDE DEF f, RT, RH
<1>13. \A x \in T : HitRank(S, x) <= inner <=> f[x] \in FirstHitsOf(H, inner)
  <2> SUFFICES ASSUME NEW x \in T
               PROVE  HitRank(S, x) <= inner <=> f[x] \in FirstHitsOf(H, inner)
    OBVIOUS
  <2>1. f[x] \in FirstHitsOf(H, inner) <=> Cardinality({d \in H : ByLine(d, f[x])}) < inner
    BY <1>7 DEF FirstHitsOf
  <2>2. PICK k \in Nat : k = Cardinality({d \in H : ByLine(d, f[x])})
    BY <1>12
  <2> QED BY <1>11, <2>1, <2>2
<1>14. \A c \in FirstHitsOf(H, inner) : \E x \in T : f[x] = c
  BY <1>9 DEF FirstHitsOf, SameOrder
<1>15. {x.line_no : x \in {y \in T : HitRank(S, y) <= inner}}
         = {c.line_no : c \in FirstHitsOf(H, inner)}
  <2> HIDE DEF T
  <2> QED BY <1>7, <1>13, <1>14
<1> QED BY <1>15 DEF H, RankedHits

-----------------------------------------------------------------------------
(* The answer of a search in one state.                                      *)

AskedRows(req) == {r \in Rows : Wanted(req, r) /\ Passes(Search(req).filter, r)}

LineHits(items, tokens, inner) ==
  \A i \in 1..Len(items) :
    /\ Items(items[i].hits) = {c.line_no : c \in FirstHitsOf(Hits(tokens, items[i].recording), inner)}
    /\ \A k, l \in 1..Len(items[i].hits) : k < l => items[i].hits[k] < items[i].hits[l]

LEMMA CaptionAnswers ==
  ASSUME StoredInv, NEW tokens, Accepting(tokens), NEW within \in SUBSET Rows, NEW filter,
         NEW limit \in Nat, NEW inner \in Nat \ {0}
  PROVE  LET S == MatchedLines(Parsed[tokens], within, filter)
             items == GroupRows(Ranked(S, limit, inner))
         IN  /\ Lists(items, {r \in within : Passes(filter, r) /\ Hits(tokens, r) # {}}, limit)
             /\ LineHits(items, tokens, inner)
<1> DEFINE within2 == {r \in within : Passes(filter, r)}
<1>1. PICK S : S = MatchedLines(Parsed[tokens], within, filter)
  OBVIOUS
<1>2. PICK items : items = GroupRows(Ranked(S, limit, inner))
  OBVIOUS
<1>3. IsFiniteSet(S) /\ Consistent(S)
  BY <1>1, MatchedRows
<1>4. MatchesHits(S, tokens, within2)
  BY <1>1, HitsMatched
<1>5. within2 \in SUBSET Rows
  OBVIOUS
<1>6. Lists(items, RowPrograms(S), limit) /\ FirstLines(items, S, inner)
  BY <1>2, <1>3, CaptionLists
<1>7. RowPrograms(S) = {r \in within2 : Hits(tokens, r) # {}}
  <2> HIDE DEF within2
  <2>1. ASSUME NEW x \in S PROVE x.recording \in within2 /\ Hits(tokens, x.recording) # {}
    BY <1>4 DEF MatchesHits
  <2>2. ASSUME NEW r \in within2, NEW c \in Hits(tokens, r)
        PROVE  \E x \in S : x.recording = r
    <3>1. [recording |-> r, id |-> ids[r], line_no |-> c.line_no] \in S
      BY <1>4 DEF MatchesHits
    <3> QED BY <3>1
  <2> QED BY <2>1, <2>2 DEF RowPrograms
<1>8. {r \in within2 : Hits(tokens, r) # {}}
        = {r \in within : Passes(filter, r) /\ Hits(tokens, r) # {}}
  OBVIOUS
<1>9. LineHits(items, tokens, inner)
  <2> SUFFICES ASSUME NEW i \in 1..Len(items)
               PROVE  /\ Items(items[i].hits) =
                           {c.line_no : c \in FirstHitsOf(Hits(tokens, items[i].recording), inner)}
                      /\ \A k, l \in 1..Len(items[i].hits) : k < l => items[i].hits[k] < items[i].hits[l]
    BY DEF LineHits
  <2>1. PICK r : r = items[i].recording
    OBVIOUS
  <2>2. items[i].id = ids[r]
    BY <1>6, <2>1 DEF Lists
  <2>3. r \in within2
    <3>1. r \in TopIn(RowPrograms(S), NewerRows, limit)
      BY <1>6, <2>1 DEF Lists
    <3>2. r \in RowPrograms(S)
      BY <3>1 DEF TopIn
    <3> QED BY <1>7, <3>2
  <2>4. Items(items[i].hits) =
          {x.line_no : x \in {y \in S : y.id = items[i].id /\ HitRank(S, y) <= inner}}
    BY <1>6 DEF FirstLines
  <2> HIDE DEF within2
  <2>5. {x.line_no : x \in {y \in S : y.id = ids[r] /\ HitRank(S, y) <= inner}}
          = {c.line_no : c \in FirstHitsOf(Hits(tokens, r), inner)}
    <3>1. \A q \in within2 : RankedHits(S, tokens, q, inner)
      BY <1>3, <1>4, <1>5, HitsRanked
    <3> QED BY <2>3, <3>1 DEF RankedHits
  <2>6. \A k, l \in 1..Len(items[i].hits) : k < l => items[i].hits[k] < items[i].hits[l]
    BY <1>6 DEF FirstLines
  <2> QED BY <2>1, <2>2, <2>4, <2>5, <2>6
<1> QED BY <1>1, <1>2, <1>6, <1>7, <1>8, <1>9

LEMMA MergedLists ==
  ASSUME StoredInv, NEW A \in SUBSET Rows, NEW B \in SUBSET Rows, NEW limit \in Nat,
         NEW by_line, Lists(by_line, A, limit), NEW by_program, Lists(by_program, B, limit)
  PROVE  /\ Lists(Merged(by_line, by_program, limit), A \cup B, limit)
         /\ \A x \in Items(Merged(by_line, by_program, limit)) :
              x \in Items(by_line) \/ (x \in Items(by_program) /\ x.recording \notin A)
<1>1. PICK U : U = MergedSet(by_line, by_program)
  OBVIOUS
<1>2. PICK R : R = NewerPairs(U)
  OBVIOUS
<1>3. PICK m : m = Merged(by_line, by_program, limit)
  OBVIOUS
<1>4. PICK TA : TA = TopIn(A, NewerRows, limit)
  OBVIOUS
<1>5. PICK TB : TB = TopIn(B, NewerRows, limit)
  OBVIOUS
<1>6. ItemList(by_line) /\ ItemList(by_program)
  BY ListsComplete
<1>7. /\ IsFiniteSet(U) /\ Distinct(U) /\ U \subseteq ItemRow
      /\ m \in Seq(U)
      /\ \A i, j \in 1..Len(m) : i < j => Newer(m[i], m[j])
      /\ Items(m) = TopIn(U, R, limit)
  <2> DEFINE V == MergedSet(by_line, by_program)
             n == Merged(by_line, by_program, limit)
  <2>1. /\ IsFiniteSet(V) /\ Distinct(V) /\ V \subseteq ItemRow /\ n \in Seq(V)
        /\ \A i, j \in 1..Len(n) : i < j => Newer(n[i], n[j])
    BY <1>6, MergedItems
  <2>3. Items(n) = TopIn(V, NewerPairs(V), limit)
    BY <1>6, MergedItems
  <2> HIDE DEF V, n
  <2>2. U = V /\ R = NewerPairs(V) /\ m = n
    BY <1>1, <1>2, <1>3 DEF V, n
  <2> QED BY <2>1, <2>2, <2>3
<1>8. \A x \in Items(by_line) : x.recording \in TA /\ x.id = ids[x.recording]
  BY <1>4, <1>6, ListItems DEF Lists
<1>9. \A x \in Items(by_program) : x.recording \in TB /\ x.id = ids[x.recording]
  BY <1>5, <1>6, ListItems DEF Lists
<1>10. \A r \in TA : \E x \in Items(by_line) : x.recording = r
  BY <1>4, <1>6, ListItems DEF Lists
<1>11. \A r \in TB : \E x \in Items(by_program) : x.recording = r
  BY <1>5, <1>6, ListItems DEF Lists
<1>12. TA \subseteq A /\ TB \subseteq B
  BY <1>4, <1>5 DEF TopIn
<1>13. \A r, q \in Rows : ids[r] = ids[q] => r = q
  BY RowsOrder
<1>14. /\ Items(by_line) \subseteq U
       /\ \A x \in U : \/ x \in Items(by_line)
                       \/ x \in Items(by_program) /\ \A y \in Items(by_line) : y.id # x.id
       /\ \A x \in Items(by_program) : x \in U \/ \E y \in Items(by_line) : y.id = x.id
  BY <1>1 DEF MergedSet
<1>15. \A x \in U : x.recording \in TA \cup TB /\ x.id = ids[x.recording] /\ x.recording \in Rows
  BY <1>8, <1>9, <1>12, <1>14
<1>16. \A r \in TA \cup TB : \E x \in U : x.recording = r
  <2>1. ASSUME NEW r \in TB PROVE \E x \in U : x.recording = r
    <3>1. PICK x \in Items(by_program) : x.recording = r
      BY <1>11
    <3>2. CASE x \in U
      BY <3>1, <3>2
    <3>3. CASE \E y \in Items(by_line) : y.id = x.id
      <4>1. PICK y \in Items(by_line) : y.id = x.id
        BY <3>3
      <4>2. y.recording = r
        BY <1>8, <1>9, <1>12, <1>13, <3>1, <4>1
      <4> QED BY <1>14, <4>2
    <3> QED BY <1>14, <3>2, <3>3
  <2> QED BY <1>10, <1>14, <2>1
<1>17. PICK f : f = [x \in U |-> x.recording]
  OBVIOUS
<1>18. SameOrder(U, R, TA \cup TB, NewerRows, f)
  <2>1. f \in [U -> TA \cup TB]
    BY <1>15, <1>17
  <2>2. \A r \in TA \cup TB : \E x \in U : f[x] = r
    BY <1>16, <1>17
  <2>3. \A x, y \in U : f[x] = f[y] => x = y
    BY <1>7, <1>15, <1>17 DEF Distinct
  <2>4. \A x, y \in U : <<x, y>> \in R <=> <<f[x], f[y]>> \in NewerRows
    <3> SUFFICES ASSUME NEW x \in U, NEW y \in U
                 PROVE  <<x, y>> \in R <=> <<f[x], f[y]>> \in NewerRows
      OBVIOUS
    <3>1. <<x, y>> \in R <=> Newer(x, y)
      BY <1>2, <1>7, NewerOrder
    <3>2. x.recording \in Rows /\ y.recording \in Rows
      BY <1>15
    <3>3. <<x.recording, y.recording>> \in NewerRows
            <=> \/ x.recording.at > y.recording.at
                \/ x.recording.at = y.recording.at /\ ids[x.recording] > ids[y.recording]
      BY <3>2, RowsOrder
    <3> QED BY <1>15, <1>17, <3>1, <3>3 DEF Newer
  <2> QED BY <2>1, <2>2, <2>3, <2>4 DEF SameOrder
<1>19. \A x \in U : Cardinality(EarlierIn(U, R, x)) = Cardinality(EarlierIn(TA \cup TB, NewerRows, f[x]))
  BY <1>7, <1>18, SameRank
<1>20. IsFiniteSet(A \cup B) /\ StrictOrderOn(A \cup B, NewerRows)
  BY RowsOrder
<1>21. TopIn(A \cup B, NewerRows, limit) = TopIn(TA \cup TB, NewerRows, limit)
  BY <1>4, <1>5, <1>20, TopUnion
<1>22. DOMAIN m = 1..Len(m) /\ Items(m) = {m[i] : i \in 1..Len(m)}
  BY <1>7 DEF Items
<1>23. {m[i].recording : i \in 1..Len(m)} = TopIn(TA \cup TB, NewerRows, limit)
  <2>1. ASSUME NEW x \in U
        PROVE  x \in Items(m) <=> x.recording \in TopIn(TA \cup TB, NewerRows, limit)
    <3>1. f[x] = x.recording /\ f[x] \in TA \cup TB
      BY <1>15, <1>17
    <3>2. x \in Items(m) <=> Cardinality(EarlierIn(U, R, x)) < limit
      BY <1>7 DEF TopIn
    <3>3. x.recording \in TopIn(TA \cup TB, NewerRows, limit)
            <=> Cardinality(EarlierIn(TA \cup TB, NewerRows, f[x])) < limit
      BY <3>1 DEF TopIn
    <3> QED BY <1>19, <3>2, <3>3
  <2>2. ASSUME NEW i \in 1..Len(m)
        PROVE  m[i].recording \in TopIn(TA \cup TB, NewerRows, limit)
    <3>1. m[i] \in Items(m) /\ m[i] \in U
      BY <1>7, <1>22
    <3> QED BY <2>1, <3>1
  <2>3. ASSUME NEW r \in TopIn(TA \cup TB, NewerRows, limit)
        PROVE  \E i \in 1..Len(m) : m[i].recording = r
    <3>1. r \in TA \cup TB
      BY DEF TopIn
    <3>2. PICK x \in U : x.recording = r
      BY <1>16, <3>1
    <3>3. x \in Items(m)
      BY <2>1, <3>2
    <3> QED BY <1>22, <3>2, <3>3
  <2> QED BY <2>2, <2>3
<1>24. \A i \in 1..Len(m) : m[i] \in U
  BY <1>7
<1>25. m \in Seq(ItemRow)
  BY <1>7
<1>26. Lists(m, A \cup B, limit)
  BY <1>7, <1>15, <1>21, <1>23, <1>24, <1>25 DEF Lists
<1>27. ASSUME NEW x \in Items(m)
       PROVE  x \in Items(by_line) \/ (x \in Items(by_program) /\ x.recording \notin A)
  <2>1. x \in U /\ x.recording \in TopIn(A \cup B, NewerRows, limit)
    BY <1>21, <1>22, <1>23, <1>24
  <2>2. CASE x \in Items(by_line)
    BY <2>2
  <2>3. CASE x \in Items(by_program) /\ \A y \in Items(by_line) : y.id # x.id
    <3>1. PICK r \in Rows : r = x.recording /\ x.id = ids[r]
      BY <1>15, <2>1
    <3>2. ASSUME r \in A PROVE FALSE
      <4>1. PICK E : E = EarlierIn(A, NewerRows, r)
        OBVIOUS
      <4>2. PICK F : F = EarlierIn(A \cup B, NewerRows, r)
        OBVIOUS
      <4>3. E \subseteq F /\ F \subseteq A \cup B
        BY <4>1, <4>2 DEF EarlierIn
      <4>4. IsFiniteSet(F) /\ IsFiniteSet(E)
        BY <1>20, <4>3, FS_Subset
      <4>5. Cardinality(E) <= Cardinality(F) /\ Cardinality(E) \in Nat /\ Cardinality(F) \in Nat
        BY <4>3, <4>4, FS_Subset, FS_CardinalityType
      <4>6. Cardinality(F) < limit
        BY <2>1, <3>1, <4>2 DEF TopIn
      <4>7. Cardinality(E) < limit
        BY <4>5, <4>6
      <4>8. r \in TA
        BY <1>4, <3>2, <4>1, <4>7 DEF TopIn
      <4>9. PICK y \in Items(by_line) : y.recording = r
        BY <1>10, <4>8
      <4> QED BY <1>8, <2>3, <3>1, <4>9
    <3> QED BY <2>3, <3>1, <3>2
  <2> QED BY <1>14, <2>1, <2>2, <2>3
<1> QED BY <1>3, <1>26, <1>27

(* The program list of an answer, and its lines, are what was asked for.     *)
ListedRight(items, req) ==
  /\ Lists(items, AskedRows(req), Search(req).limit)
  /\ \A i \in 1..Len(items) :
       /\ Items(items[i].hits) =
            {c.line_no : c \in FirstHitsOf(HitsOf(req, items[i].recording), Search(req).inner_hits)}
       /\ \A k, l \in 1..Len(items[i].hits) : k < l => items[i].hits[k] < items[i].hits[l]

LEMMA AnswersListed ==
  ASSUME StoredInv, NEW req \in Requests, Acceptable(req), NEW items, ListedRight(items, req)
  PROVE  Answers(items, req)
<1> DEFINE asked == {r \in Rows : /\ Wanted(req, r) /\ InRange(req, r)
                                  /\ req.stream \in {Null, r.stream}
                                  /\ req.genre # Null => Passes(Search(req).filter, r)}
           NewerRow(r, q) == r.at > q.at \/ (r.at = q.at /\ ids[r] > ids[q])
           newest == {r \in asked : Cardinality({q \in asked : NewerRow(q, r)}) < Search(req).limit}
           FirstHits(r) == {c \in HitsOf(req, r) :
             Cardinality({d \in HitsOf(req, r) : ByLine(d, c)}) < Search(req).inner_hits}
<1>1. asked = AskedRows(req)
  <2>1. \A r \in Rows : r \in Recordings
    BY DEF Rows
  <2>2. \A r \in Rows : Passes(Search(req).filter, r)
           <=> /\ InRange(req, r) /\ req.stream \in {Null, r.stream}
               /\ req.genre # Null => Passes(Search(req).filter, r)
    <3>1. \A r \in Recordings : FilterRight(req, r)
      BY FilterPasses
    <3> QED BY <2>1, <3>1, Zenon DEF FilterRight
  <2> QED BY <2>2 DEF AskedRows
<1>2. \A r, q \in Rows : <<r, q>> \in NewerRows <=> NewerRow(r, q)
  BY RowsOrder
<1>3. asked \subseteq Rows
  OBVIOUS
<1>4. newest = TopIn(asked, NewerRows, Search(req).limit)
  <2> HIDE DEF asked, NewerRow
  <2>1. ASSUME NEW r \in asked
        PROVE  {q \in asked : NewerRow(q, r)} = EarlierIn(asked, NewerRows, r)
    BY <1>2, <1>3 DEF EarlierIn
  <2> QED BY <2>1 DEF TopIn
<1>5. items \in Seq(ItemRow) /\ DOMAIN items = 1..Len(items)
  BY DEF ListedRight, Lists
<1>6. {items[i].recording : i \in DOMAIN items} = newest
  BY <1>1, <1>4, <1>5 DEF ListedRight, Lists
<1>7. \A i, j \in DOMAIN items : i < j => NewerRow(items[i].recording, items[j].recording)
  BY <1>5 DEF ListedRight, Lists, Newer
<1>8. \A r : FirstHits(r) = FirstHitsOf(HitsOf(req, r), Search(req).inner_hits)
  BY DEF FirstHitsOf
<1>9. \A i \in DOMAIN items :
        /\ Items(items[i].hits) = {c.line_no : c \in FirstHits(items[i].recording)}
        /\ \A k, l \in DOMAIN items[i].hits : k < l => items[i].hits[k] < items[i].hits[l]
  <2> SUFFICES ASSUME NEW i \in 1..Len(items)
               PROVE  /\ Items(items[i].hits) = {c.line_no : c \in FirstHits(items[i].recording)}
                      /\ \A k, l \in DOMAIN items[i].hits : k < l => items[i].hits[k] < items[i].hits[l]
    BY <1>5
  <2>0. items[i] \in ItemRow
    BY <1>5
  <2>1. items[i].hits \in Seq(Nat)
    BY <2>0 DEF ItemRow
  <2>2. DOMAIN items[i].hits = 1..Len(items[i].hits)
    BY <2>1
  <2> HIDE DEF FirstHits
  <2>3. /\ Items(items[i].hits) =
             {c.line_no : c \in FirstHitsOf(HitsOf(req, items[i].recording), Search(req).inner_hits)}
        /\ \A k, l \in 1..Len(items[i].hits) : k < l => items[i].hits[k] < items[i].hits[l]
    BY DEF ListedRight
  <2>4. FirstHits(items[i].recording)
          = FirstHitsOf(HitsOf(req, items[i].recording), Search(req).inner_hits)
    BY <1>8
  <2> QED BY <2>2, <2>3, <2>4, Zenon
<1> QED BY <1>6, <1>7, <1>9, Zenon DEF Answers

LEMMA GivenAccepted ==
  ASSUME NEW req \in Requests, Acceptable(req)
  PROVE  \A f \in Given(req) : Accepting(req[f])
<1> SUFFICES ASSUME NEW f \in Given(req) PROVE Accepting(req[f])
  OBVIOUS
<1>1. f \in {"q", "program_q", "line_q"}
  BY DEF Given
<1>2. WellFormed(req[f])
  BY DEF Acceptable
<1> QED BY <1>1, <1>2, ExpressionsParsed DEF Accepting

LEMMA NoHits ==
  ASSUME NEW inner, NEW H, H = {}, NEW hits, hits = <<>>
  PROVE  /\ Items(hits) = {c.line_no : c \in FirstHitsOf(H, inner)}
         /\ \A k, l \in 1..Len(hits) : k < l => hits[k] < hits[l]
<1>1. FirstHitsOf(H, inner) = {}
  BY DEF FirstHitsOf
<1>2. Items(hits) = {} /\ Len(hits) = 0
  BY DEF Items
<1> QED BY <1>1, <1>2

(* The items of a program list have no lines.                                *)
LEMMA TitleAnswers ==
  ASSUME StoredInv, NEW tokens, Accepting(tokens), NEW s, s.limit \in Nat
  PROVE  LET items == SearchProgramMetadata(Parsed[tokens], s)
         IN  /\ Lists(items, {r \in Rows : TitleAsks(tokens, r) /\ Passes(s.filter, r)}, s.limit)
             /\ \A i \in 1..Len(items) : items[i].hits = <<>>
<1>1. PICK items : items = SearchProgramMetadata(Parsed[tokens], s)
  OBVIOUS
<1>2. PICK B : B = {q \in MatchedPrograms(Parsed[tokens]) : Passes(s.filter, q)}
  OBVIOUS
<1>3. Lists(items, B, s.limit)
  BY <1>1, <1>2, MetadataLists
<1>4. \A i \in 1..Len(items) : items[i].hits = <<>>
  BY <1>1, MetadataLists
<1>5. B = {r \in Rows : TitleAsks(tokens, r) /\ Passes(s.filter, r)}
  <2>1. MatchedPrograms(Parsed[tokens]) = {r \in Rows : TitleAsks(tokens, r)}
    BY TitlesMatched
  <2> HIDE DEF Passes, TitleAsks, MatchedPrograms
  <2> QED BY <1>2, <2>1
<1> QED BY <1>1, <1>3, <1>4, <1>5

LEMMA QAnswers ==
  ASSUME StoredInv, NEW req \in Requests, Acceptable(req), Given(req) = {"q"}
  PROVE  ListedRight(Merged(ByLineOf(req), ByProgramOf(req), Search(req).limit), req)
<1>1. PICK tokens : tokens = req.q
  OBVIOUS
<1>2. PICK filter, limit, inner : filter = Search(req).filter /\ limit = Search(req).limit
                                    /\ inner = Search(req).inner_hits
  OBVIOUS
<1>3. limit \in Nat /\ inner \in Nat \ {0}
  BY <1>2, SearchLimits
<1>4. Accepting(tokens)
  BY <1>1, GivenAccepted
<1>5. PICK by_line : by_line = ByLineOf(req)
  OBVIOUS
<1>6. PICK by_program : by_program = ByProgramOf(req)
  OBVIOUS
<1>7. PICK A : A = {r \in Rows : Passes(filter, r) /\ Hits(tokens, r) # {}}
  OBVIOUS
<1>8. PICK B : B = {r \in Rows : TitleAsks(tokens, r) /\ Passes(filter, r)}
  OBVIOUS
<1>9. Lists(by_line, A, limit) /\ LineHits(by_line, tokens, inner)
  <2>1. by_line = GroupRows(Ranked(MatchedLines(Parsed[tokens], Rows, filter), limit, inner))
    BY <1>1, <1>2, <1>5 DEF ByLineOf, SearchCaptions
  <2>2. Rows \in SUBSET Rows
    OBVIOUS
  <2> QED BY <1>3, <1>4, <1>7, <2>1, <2>2, CaptionAnswers
<1>10. Lists(by_program, B, limit) /\ \A i \in 1..Len(by_program) : by_program[i].hits = <<>>
  <2>1. PICK s : s = Search(req)
    OBVIOUS
  <2>2. by_program = SearchProgramMetadata(Parsed[tokens], s)
    BY <1>1, <1>6, <2>1 DEF ByProgramOf
  <2>3. s.limit = limit /\ s.filter = filter
    BY <1>2, <2>1
  <2> QED BY <1>3, <1>4, <1>8, <2>2, <2>3, TitleAnswers
<1>11. A \in SUBSET Rows /\ B \in SUBSET Rows
  BY <1>7, <1>8
<1>12. PICK m : m = Merged(by_line, by_program, limit)
  OBVIOUS
<1>13. Lists(m, A \cup B, limit)
  BY <1>3, <1>9, <1>10, <1>11, <1>12, MergedLists
<1>14. \A x \in Items(m) : x \in Items(by_line) \/ (x \in Items(by_program) /\ x.recording \notin A)
  BY <1>3, <1>9, <1>10, <1>11, <1>12, MergedLists
<1>15. A \cup B = AskedRows(req)
  <2>1. \A r : Wanted(req, r) <=> TitleAsks(tokens, r) \/ Hits(tokens, r) # {}
    BY <1>1 DEF Wanted
  <2> QED BY <1>2, <1>7, <1>8, <2>1 DEF AskedRows
<1>16. \A r : HitsOf(req, r) = Hits(tokens, r)
  BY <1>1 DEF HitsOf
<1>17. ASSUME NEW i \in 1..Len(m)
       PROVE  /\ Items(m[i].hits) = {c.line_no : c \in FirstHitsOf(Hits(tokens, m[i].recording), inner)}
              /\ \A k, l \in 1..Len(m[i].hits) : k < l => m[i].hits[k] < m[i].hits[l]
  <2>1. PICK x : x = m[i]
    OBVIOUS
  <2>2. x \in Items(m)
    BY <1>13, <2>1 DEF Items, Lists
  <2>3. CASE x \in Items(by_line)
    <3>1. PICK j \in 1..Len(by_line) : x = by_line[j]
      BY <1>9, <2>3 DEF Items, Lists
    <3> QED BY <1>9, <2>1, <3>1 DEF LineHits
  <2>4. CASE x \in Items(by_program) /\ x.recording \notin A
    <3>1. PICK j \in 1..Len(by_program) : x = by_program[j]
      BY <1>10, <2>4 DEF Items, Lists
    <3>2. x.hits = <<>>
      BY <1>10, <3>1
    <3>3. x.recording \in B
      BY <1>10, <3>1 DEF Lists, TopIn
    <3>4. Hits(tokens, x.recording) = {}
      BY <1>7, <1>8, <2>4, <3>3
    <3>5. PICK H : H = Hits(tokens, x.recording)
      OBVIOUS
    <3>6. PICK hits : hits = x.hits
      OBVIOUS
    <3>7. /\ Items(hits) = {c.line_no : c \in FirstHitsOf(H, inner)}
          /\ \A k, l \in 1..Len(hits) : k < l => hits[k] < hits[l]
      BY <3>2, <3>4, <3>5, <3>6, NoHits
    <3> QED BY <2>1, <3>5, <3>6, <3>7
  <2> QED BY <1>14, <2>2, <2>3, <2>4
<1>18. ListedRight(m, req)
  BY <1>2, <1>13, <1>15, <1>16, <1>17 DEF ListedRight
<1> QED BY <1>2, <1>5, <1>6, <1>12, <1>18

LEMMA TitleSearchAnswers ==
  ASSUME StoredInv, NEW req \in Requests, Acceptable(req), Given(req) = {"program_q"}
  PROVE  ListedRight(SearchProgramMetadata(Parsed[req.program_q], Search(req)), req)
<1>1. PICK tokens : tokens = req.program_q
  OBVIOUS
<1>2. PICK s : s = Search(req)
  OBVIOUS
<1>3. s.limit \in Nat
  BY <1>2, SearchLimits
<1>4. Accepting(tokens)
  BY <1>1, GivenAccepted
<1>5. PICK items : items = SearchProgramMetadata(Parsed[tokens], s)
  OBVIOUS
<1>6. Lists(items, {r \in Rows : TitleAsks(tokens, r) /\ Passes(s.filter, r)}, s.limit)
  BY <1>3, <1>4, <1>5, TitleAnswers
<1>7. \A i \in 1..Len(items) : items[i].hits = <<>>
  BY <1>3, <1>4, <1>5, TitleAnswers
<1>8. {r \in Rows : TitleAsks(tokens, r) /\ Passes(s.filter, r)} = AskedRows(req)
  <2>1. \A r : Wanted(req, r) <=> TitleAsks(tokens, r)
    BY <1>1 DEF Wanted
  <2> QED BY <1>2, <2>1 DEF AskedRows
<1>9. \A r : HitsOf(req, r) = {}
  BY DEF HitsOf
<1>10. ListedRight(items, req)
  <2>1. ASSUME NEW i \in 1..Len(items)
        PROVE  /\ Items(items[i].hits) =
                    {c.line_no : c \in FirstHitsOf(HitsOf(req, items[i].recording), s.inner_hits)}
               /\ \A k, l \in 1..Len(items[i].hits) : k < l => items[i].hits[k] < items[i].hits[l]
    <3>1. PICK H : H = HitsOf(req, items[i].recording)
      OBVIOUS
    <3>2. PICK hits : hits = items[i].hits
      OBVIOUS
    <3>3. /\ Items(hits) = {c.line_no : c \in FirstHitsOf(H, s.inner_hits)}
          /\ \A k, l \in 1..Len(hits) : k < l => hits[k] < hits[l]
      BY <1>7, <1>9, <3>1, <3>2, NoHits
    <3> QED BY <3>1, <3>2, <3>3
  <2> QED BY <1>2, <1>6, <1>8, <2>1 DEF ListedRight
<1> QED BY <1>1, <1>2, <1>5, <1>10

LEMMA LineSearchAnswers ==
  ASSUME StoredInv, NEW req \in Requests, Acceptable(req),
         Given(req) = {"line_q"} \/ Given(req) = {"program_q", "line_q"}
  PROVE  ListedRight(IF Given(req) = {"line_q"} THEN SearchCaptions(Parsed[req.line_q], Search(req))
                     ELSE SearchCombined(Parsed[req.program_q], Parsed[req.line_q], Search(req)), req)
<1>1. PICK tokens : tokens = req.line_q
  OBVIOUS
<1>2. PICK filter, limit, inner : filter = Search(req).filter /\ limit = Search(req).limit
                                    /\ inner = Search(req).inner_hits
  OBVIOUS
<1>3. limit \in Nat /\ inner \in Nat \ {0}
  BY <1>2, SearchLimits
<1>4. Accepting(tokens)
  BY <1>1, GivenAccepted
<1>5. PICK within : within = IF Given(req) = {"line_q"} THEN Rows ELSE MatchedPrograms(Parsed[req.program_q])
  OBVIOUS
<1>6. {"line_q"} # {"program_q", "line_q"}
  OBVIOUS
<1>7. within = {r \in Rows : "program_q" \in Given(req) => TitleAsks(req.program_q, r)}
  <2>1. CASE Given(req) = {"line_q"}
    BY <1>5, <2>1
  <2>2. CASE Given(req) = {"program_q", "line_q"}
    <3>1. Accepting(req.program_q)
      BY <2>2, GivenAccepted
    <3>2. within = {r \in Rows : TitleAsks(req.program_q, r)}
      BY <1>5, <1>6, <2>2, <3>1, TitlesMatched
    <3> QED BY <2>2, <3>2
  <2> QED BY <2>1, <2>2
<1>8. PICK items : items = GroupRows(Ranked(MatchedLines(Parsed[tokens], within, filter), limit, inner))
  OBVIOUS
<1>9. PICK A : A = {r \in within : Passes(filter, r) /\ Hits(tokens, r) # {}}
  OBVIOUS
<1>10. Lists(items, A, limit) /\ LineHits(items, tokens, inner)
  <2>1. within \in SUBSET Rows
    BY <1>7
  <2> QED BY <1>3, <1>4, <1>8, <1>9, <2>1, CaptionAnswers
<1>11. A = AskedRows(req)
  <2>1. \A r : Wanted(req, r) <=> /\ "program_q" \in Given(req) => TitleAsks(req.program_q, r)
                                 /\ Hits(tokens, r) # {}
    BY <1>1 DEF Wanted
  <2> QED BY <1>2, <1>7, <1>9, <2>1 DEF AskedRows
<1>12. \A r : HitsOf(req, r) = Hits(tokens, r)
  BY <1>1 DEF HitsOf
<1>13. ListedRight(items, req)
  BY <1>2, <1>10, <1>11, <1>12 DEF ListedRight, LineHits
<1>14. items = IF Given(req) = {"line_q"} THEN SearchCaptions(Parsed[req.line_q], Search(req))
               ELSE SearchCombined(Parsed[req.program_q], Parsed[req.line_q], Search(req))
  BY <1>1, <1>2, <1>5, <1>8 DEF SearchCaptions, SearchCombined
<1> QED BY <1>13, <1>14

LEMMA SearchAnswers ==
  ASSUME StoredInv, NEW req \in Requests, Acceptable(req)
  PROVE  Answers(ItemsOf(req), req)
<1>1. Given(req) \in {{"q"}, {"program_q"}, {"line_q"}, {"program_q", "line_q"}}
  BY DEF Acceptable
<1>2. /\ {"q"} # {"program_q"} /\ {"q"} # {"line_q"} /\ {"q"} # {"program_q", "line_q"}
      /\ {"program_q"} # {"line_q"} /\ {"program_q"} # {"program_q", "line_q"}
      /\ {"line_q"} # {"program_q", "line_q"}
  OBVIOUS
<1>3. ListedRight(ItemsOf(req), req)
  <2>1. CASE Given(req) = {"q"}
    <3>1. ItemsOf(req) = Merged(ByLineOf(req), ByProgramOf(req), Search(req).limit)
      BY <2>1 DEF ItemsOf
    <3> QED BY <2>1, <3>1, QAnswers
  <2>2. CASE Given(req) = {"program_q"}
    <3>1. ItemsOf(req) = SearchProgramMetadata(Parsed[req.program_q], Search(req))
      BY <1>2, <2>2 DEF ItemsOf
    <3> QED BY <2>2, <3>1, TitleSearchAnswers
  <2>3. CASE Given(req) = {"line_q"} \/ Given(req) = {"program_q", "line_q"}
    <3>1. ItemsOf(req) = IF Given(req) = {"line_q"} THEN SearchCaptions(Parsed[req.line_q], Search(req))
                         ELSE SearchCombined(Parsed[req.program_q], Parsed[req.line_q], Search(req))
      BY <1>2, <2>3 DEF ItemsOf
    <3> QED BY <2>3, <3>1, LineSearchAnswers
  <2> QED BY <1>1, <2>1, <2>2, <2>3
<1> QED BY <1>3, AnswersListed

-----------------------------------------------------------------------------
(* The lists of a stream: its months, and the programs of each.              *)

SortedNumbers(S) == Sorted(S, LAMBDA m, n : m < n)

SortedByStart(S) == Sorted(S, LAMBDA r, q : r.at < q.at)

Smaller(S) == {e \in S \X S : e[1] < e[2]}

Earlier(S) == {e \in S \X S : e[1].at < e[2].at}

(* s has the members of S, in the order of R.                                *)
Enumerates(s, S, R) == s \in Seq(S) /\ OrderedBy(s, R) /\ \A x : Occurs(x, s) <=> x \in S

LEMMA NumbersSorted ==
  ASSUME NEW S \in SUBSET Nat, IsFiniteSet(S)
  PROVE  Enumerates(SortedNumbers(S), S, Smaller(S))
<1> DEFINE R == Smaller(S)
           n == Cardinality(S)
           Before(x) == {y \in S : y < x}
           At(i) == CHOOSE x \in S : Cardinality(Before(x)) = i - 1
           s == [i \in 1..n |-> At(i)]
<1>1. \A x \in S : EarlierIn(S, R, x) = Before(x)
  BY DEF EarlierIn, Smaller
<1>2. StrictOrderOn(S, R)
  BY DEF StrictOrderOn, Smaller
<1> HIDE DEF R
<1>3. n \in Nat /\ \A i \in 1..n : \E x \in S : Cardinality(EarlierIn(S, R, x)) = i - 1
  BY <1>2, PlacesTaken
<1>4. SortedNumbers(S) = s
  BY DEF SortedNumbers, Sorted
<1> HIDE DEF Before
<1>5. \A i \in 1..n : At(i) \in S /\ Cardinality(Before(At(i))) = i - 1
  BY <1>1, <1>3
<1> HIDE DEF At, n
<1>6. s \in [1..n -> S] /\ \A i \in 1..n : Cardinality(EarlierIn(S, R, s[i])) = i - 1
  BY <1>1, <1>5
<1> HIDE DEF s
<1>7. ByPlace(S, R, n, s)
  BY <1>6 DEF ByPlace, n
<1>8. /\ \A i, j \in 1..n : i < j <=> <<s[i], s[j]>> \in R
      /\ \A x \in S : \E i \in 1..n : s[i] = x
  BY <1>2, <1>7, SortedSet
<1>9. s \in Seq(S) /\ Len(s) = n
  BY <1>3, <1>6
<1> QED BY <1>4, <1>6, <1>8, <1>9 DEF R, Enumerates, OrderedBy, Occurs

(* One stream has one program at a time.                                     *)
OneStream(S) ==
  /\ \A r \in S : r.at \in Nat
  /\ \A r, q \in S : r.at = q.at => r = q

LEMMA StartsSorted ==
  ASSUME NEW S, OneStream(S), IsFiniteSet(S)
  PROVE  Enumerates(SortedByStart(S), S, Earlier(S))
<1> DEFINE R == Earlier(S)
           n == Cardinality(S)
           Before(x) == {y \in S : y.at < x.at}
           At(i) == CHOOSE x \in S : Cardinality(Before(x)) = i - 1
           s == [i \in 1..n |-> At(i)]
<1>1. \A x \in S : EarlierIn(S, R, x) = Before(x)
  BY DEF EarlierIn, Earlier
<1>2. StrictOrderOn(S, R)
  BY DEF StrictOrderOn, Earlier, OneStream
<1> HIDE DEF R
<1>3. n \in Nat /\ \A i \in 1..n : \E x \in S : Cardinality(EarlierIn(S, R, x)) = i - 1
  BY <1>2, PlacesTaken
<1>4. SortedByStart(S) = s
  BY DEF SortedByStart, Sorted
<1> HIDE DEF Before
<1>5. \A i \in 1..n : At(i) \in S /\ Cardinality(Before(At(i))) = i - 1
  BY <1>1, <1>3
<1> HIDE DEF At, n
<1>6. s \in [1..n -> S] /\ \A i \in 1..n : Cardinality(EarlierIn(S, R, s[i])) = i - 1
  BY <1>1, <1>5
<1> HIDE DEF s
<1>7. ByPlace(S, R, n, s)
  BY <1>6 DEF ByPlace, n
<1>8. /\ \A i, j \in 1..n : i < j <=> <<s[i], s[j]>> \in R
      /\ \A x \in S : \E i \in 1..n : s[i] = x
  BY <1>2, <1>7, SortedSet
<1>9. s \in Seq(S) /\ Len(s) = n
  BY <1>3, <1>6
<1> QED BY <1>4, <1>6, <1>8, <1>9 DEF R, Enumerates, OrderedBy, Occurs

(* Later months have later times.                                            *)
LEMMA MonthsRise ==
  ASSUME NEW a \in Nat, NEW b \in Nat, MonthOf(a) < MonthOf(b)
  PROVE  a < b
<1>1. PICK D \in Nat \ {0} : D = DaySeconds * MonthDays
  <2>1. PICK d \in Nat \ {0} : d = DaySeconds
    BY QueryAssumption
  <2>2. PICK e \in Nat \ {0} : e = MonthDays
    BY QueryAssumption
  <2>3. d * e \in Nat \ {0}
    OBVIOUS
  <2> QED BY <2>1, <2>2, <2>3
<1>2. PICK m \in Nat : \E r \in 0..D - 1 : m = a \div D /\ r = a % D /\ a = m * D + r
  BY DayOf
<1>3. PICK n \in Nat : \E r \in 0..D - 1 : n = b \div D /\ r = b % D /\ b = n * D + r
  BY DayOf
<1>4. PICK s \in 0..D - 1 : a = m * D + s
  BY <1>2
<1>5. PICK t \in 0..D - 1 : b = n * D + t
  BY <1>3
<1>6. MonthOf(a) = m /\ MonthOf(b) = n
  BY <1>1, <1>2, <1>3 DEF MonthOf
<1>7. ~(m * D + s >= n * D + t)
  <2>1. m * D + s >= n * D + t <=> (m > n \/ (m = n /\ s >= t))
    BY DayOrder
  <2> QED BY <1>6, <2>1
<1> QED BY <1>4, <1>5, <1>7

StreamRows(stream) == {r \in Rows : r.stream = stream}

RowsOf(stream, month) == {r \in Rows : r.stream = stream /\ MonthOf(r.at) = month}

PresentMonths(stream) ==
  {MonthOf(p.at) : p \in {q \in PresentPaths : q.stream = stream}}

LEMMA MonthLists ==
  ASSUME StoredInv, ready, NEW stream \in Streams
  PROVE  /\ Enumerates(Months(stream).items, PresentMonths(stream), Smaller(PresentMonths(stream)))
         /\ PresentMonths(stream) \subseteq Nat
         /\ \A month \in Nat :
              Enumerates(ProgramsOf(stream, month).items, RowsOf(stream, month),
                         Earlier(RowsOf(stream, month)))
<1>1. Invalid \notin Streams /\ Invalid \notin Nat
  BY QueryAssumption
<1>2. PresentMonths(stream) \in SUBSET Nat /\ IsFiniteSet(PresentMonths(stream))
  <2>1. \A p \in Path : p.at \in Nat
    BY ArchiveAssumption DEF Path
  <2>2. \A p \in Path : MonthOf(p.at) \in Nat
    <3> SUFFICES ASSUME NEW p \in Path PROVE MonthOf(p.at) \in Nat
      OBVIOUS
    <3>1. PICK D \in Nat \ {0} : D = DaySeconds * MonthDays
      <4>1. PICK d \in Nat \ {0} : d = DaySeconds
        BY QueryAssumption
      <4>2. PICK e \in Nat \ {0} : e = MonthDays
        BY QueryAssumption
      <4>3. d * e \in Nat \ {0}
        OBVIOUS
      <4> QED BY <4>1, <4>2, <4>3
    <3>2. PICK n \in Nat : n = p.at
      BY <2>1
    <3>3. n \div D \in Nat
      OBVIOUS
    <3> QED BY <3>1, <3>2, <3>3 DEF MonthOf
  <2>3. PICK Q : Q = {q \in PresentPaths : q.stream = stream}
    OBVIOUS
  <2>4. IsFiniteSet(Q)
    <3>1. Q \subseteq UsedPaths
      BY <2>3 DEF PresentPaths, UsedPaths, Present
    <3> QED BY <3>1, FS_Subset DEF StoredInv
  <2>5. PICK P : P = {MonthOf(p.at) : p \in Q}
    OBVIOUS
  <2>6. IsFiniteSet(P)
    <3> DEFINE f == [p \in Q |-> MonthOf(p.at)]
    <3>1. f \in Surjection(Q, P)
      BY <2>5 DEF Surjection
    <3> HIDE DEF f
    <3> QED BY <2>4, <3>1, FS_Surjection
  <2>7. PresentMonths(stream) = P
    BY <2>3, <2>5 DEF PresentMonths
  <2>8. P \in SUBSET Nat
    BY <2>2, <2>3, <2>5 DEF PresentPaths
  <2> QED BY <2>6, <2>7, <2>8
<1>3. Months(stream).items = SortedNumbers(PresentMonths(stream))
  <2>1. Invalid \notin {stream}
    BY <1>1
  <2>2. Months(stream) = Reply(200, SortedNumbers(PresentMonths(stream)))
    BY <2>1 DEF Months, ListReply, SortedNumbers, PresentMonths
  <2> QED BY <2>2 DEF Reply
<1>4. ASSUME NEW month \in Nat
      PROVE  Enumerates(ProgramsOf(stream, month).items, RowsOf(stream, month),
                        Earlier(RowsOf(stream, month)))
  <2>1. ProgramsOf(stream, month) = Reply(200, SortedByStart(RowsOf(stream, month)))
    <3>1. Invalid \notin {stream, month}
      BY <1>1
    <3> QED BY <3>1 DEF ProgramsOf, ListReply, ListPrograms, SortedByStart, RowsOf
  <2>2. ProgramsOf(stream, month).items = SortedByStart(RowsOf(stream, month))
    BY <2>1 DEF Reply
  <2>3. RowsOf(stream, month) \subseteq Rows
    BY DEF RowsOf
  <2>4. IsFiniteSet(RowsOf(stream, month))
    BY <2>3, RowsOrder
  <2>5. OneStream(RowsOf(stream, month))
    <3>1. \A r \in Rows : r \in Recordings /\ r.at \in Nat
      BY RowsOrder
    <3>2. \A r, q \in Recordings : r.stream = q.stream /\ r.at = q.at => r = q
      BY DEF Recordings
    <3> QED BY <3>1, <3>2 DEF OneStream, RowsOf
  <2> QED BY <2>2, <2>4, <2>5, StartsSorted
<1> QED BY <1>2, <1>3, <1>4, NumbersSorted

LEMMA FlattenSeqJoins == \A lists : Seqs!FlattenSeq(lists) = Flattened(lists)
BY DEF Seqs!FlattenSeq, Flattened, Joins

LEMMA StreamListed ==
  ASSUME StoredInv, ready, NEW stream \in Streams
  PROVE  Listed(stream)
<1>1. PICK months : months = Months(stream).items
  OBVIOUS
<1>2. PICK lists : lists = [k \in DOMAIN months |-> ProgramsOf(stream, months[k]).items]
  OBVIOUS
<1>3. PICK all : all = Seqs!FlattenSeq(lists)
  OBVIOUS
<1>4. PICK P \in SUBSET Nat : P = PresentMonths(stream)
  BY MonthLists
<1>5. PICK T : T = StreamRows(stream)
  OBVIOUS
<1>6. months \in Seq(P) /\ OrderedBy(months, Smaller(P)) /\ \A m : Occurs(m, months) <=> m \in P
  BY <1>1, <1>4, MonthLists DEF Enumerates
<1>7. PICK n \in Nat : n = Len(months)
  BY <1>6
<1>8. DOMAIN months = 1..n /\ \A k \in 1..n : months[k] \in P /\ months[k] \in Nat
  <2>1. months \in Seq(P)
    BY <1>6
  <2>2. DOMAIN months = 1..n
    BY <1>7, <2>1
  <2>3. ASSUME NEW k \in 1..n PROVE months[k] \in P
    BY <1>7, <2>1, <2>3
  <2> QED BY <1>4, <2>2, <2>3
<1>9. ASSUME NEW k \in 1..n
      PROVE  /\ lists[k] \in Seq(RowsOf(stream, months[k]))
             /\ OrderedBy(lists[k], Earlier(RowsOf(stream, months[k])))
             /\ \A r : Occurs(r, lists[k]) <=> r \in RowsOf(stream, months[k])
  <2>1. lists[k] = ProgramsOf(stream, months[k]).items
    BY <1>2, <1>8
  <2>2. PICK month \in Nat : month = months[k]
    BY <1>8
  <2>3. Enumerates(ProgramsOf(stream, month).items, RowsOf(stream, month),
                   Earlier(RowsOf(stream, month)))
    BY MonthLists
  <2> QED BY <2>1, <2>2, <2>3 DEF Enumerates
<1>10. \A month : RowsOf(stream, month) \subseteq T /\ \A r \in RowsOf(stream, month) : MonthOf(r.at) = month
  BY <1>5 DEF RowsOf, StreamRows
<1>11. \A r \in T : r \in Rows /\ r.at \in Nat /\ r.stream = stream
  BY <1>5, RowsOrder DEF StreamRows
<1>12. lists \in Seq(Seq(T)) /\ Len(lists) = n
  <2>1. ASSUME NEW k \in 1..n PROVE lists[k] \in Seq(T)
    BY <1>9, <1>10
  <2>2. DOMAIN lists = 1..n /\ lists \in [1..n -> Seq(T)]
    BY <1>2, <1>8, <2>1
  <2> QED BY <2>2
<1>13. PICK R : R = Earlier(T)
  OBVIOUS
<1>14. OrderedLists(lists, R)
  <2>1. ASSUME NEW k \in 1..n PROVE OrderedBy(lists[k], R)
    BY <1>9, <1>10, <1>13 DEF OrderedBy, Earlier
  <2>2. ASSUME NEW k \in 1..n, NEW l \in 1..n, k < l, NEW x, NEW y,
               Occurs(x, lists[k]), Occurs(y, lists[l])
        PROVE  <<x, y>> \in R
    <3>1. x \in RowsOf(stream, months[k]) /\ y \in RowsOf(stream, months[l])
      BY <1>9, <2>2
    <3>2. MonthOf(x.at) = months[k] /\ MonthOf(y.at) = months[l] /\ x \in T /\ y \in T
      BY <1>10, <3>1
    <3>3. months[k] < months[l]
      BY <1>6, <1>7, <2>2 DEF OrderedBy, Smaller
    <3>4. x.at < y.at
      BY <1>11, <3>2, <3>3, MonthsRise
    <3> QED BY <1>13, <3>2, <3>4 DEF Earlier
  <2> QED BY <1>12, <2>1, <2>2 DEF OrderedLists
<1>15. all = Flattened(lists)
  BY <1>3, FlattenSeqJoins
<1>16. all \in Seq(T)
  BY <1>12, <1>15, FlattenedType
<1>17. OrderedBy(all, R) /\ \A r : Occurs(r, all) <=> \E k \in 1..n : Occurs(r, lists[k])
  <2>1. JoinsLists(lists, R)
    BY <1>12, FlattenedOrder
  <2> QED BY <1>12, <1>14, <1>15, <2>1 DEF JoinsLists
<1>18. DOMAIN all = 1..Len(all) /\ \A r : r \in Items(all) <=> Occurs(r, all)
  BY <1>16 DEF Items, Occurs
<1>19. Items(all) \subseteq T
  BY <1>9, <1>10, <1>17, <1>18
<1>20. \A i, j \in DOMAIN all : i < j => all[i].at < all[j].at
  BY <1>13, <1>17, <1>18 DEF OrderedBy, Earlier
<1>21. ASSUME NEW r \in T, NEW p \in PresentPaths, p.stream = stream, MonthOf(p.at) = MonthOf(r.at)
       PROVE  r \in Items(all)
  <2>1. MonthOf(r.at) \in P
    BY <1>4, <1>21 DEF PresentMonths
  <2>2. PICK k \in 1..n : months[k] = MonthOf(r.at)
    BY <1>6, <1>7, <2>1 DEF Occurs
  <2>3. r \in RowsOf(stream, months[k])
    BY <1>11, <2>2 DEF RowsOf
  <2> QED BY <1>9, <1>17, <1>18, <2>3
<1>22. T = {r \in Rows : r.stream = stream}
  BY <1>5 DEF StreamRows
<1> QED BY <1>1, <1>2, <1>3, <1>19, <1>20, <1>21, <1>22, Zenon DEF Listed

-----------------------------------------------------------------------------
(* What is stored decides every answer.                                      *)
LEMMA StoredExact ==
  ASSUME StoredInv
  PROVE  StatementsExact
<1>1. ASSUME NEW req \in Requests
      PROVE  LET reply == Respond(req)
             IN  IF ~ready THEN reply.status = 503
                 ELSE /\ (reply.status = 200) <=> Acceptable(req)
                      /\ Acceptable(req) => Answers(reply.items, req)
  <2>1. CASE ~ready
    BY <2>1 DEF Respond, Reply
  <2>2. CASE ready /\ Acceptable(req)
    <3>1. ~BadRequest(req)
      BY <2>2, Accepted
    <3>2. Respond(req).status = 200 /\ Respond(req).items = ItemsOf(req)
      BY <2>2, <3>1 DEF Respond, Reply
    <3> QED BY <2>2, <3>2, SearchAnswers
  <2>3. CASE ready /\ ~Acceptable(req)
    <3>1. BadRequest(req)
      BY <2>3, Accepted
    <3>2. Respond(req).status = 400
      BY <2>3, <3>1 DEF Respond, Reply
    <3> QED BY <2>3, <3>2
  <2> QED BY <2>1, <2>2, <2>3
<1>2. ASSUME ready, NEW stream \in Streams PROVE Listed(stream)
  BY <1>2, StreamListed
<1> QED BY <1>1, <1>2 DEF StatementsExact

(* In every state of the database, whatever the writer has done, a search is *)
(* refused exactly when an expression has an empty term or its fields        *)
(* contradict one another, and otherwise answers with the newest programs    *)
(* that it asks for and their first matching lines; the months of a stream   *)
(* list what is indexed of it (text.rs:34-95, query.rs:132-409,              *)
(* query_service.rs:230-468).                                                *)
THEOREM StatementsCorrect == QuerySpec => []StatementsExact
<1>1. RawInv => StatementsExact
  BY StoredExact DEF RawInv
<1> QED BY <1>1, RawInvInit, RawInvNext, PTL DEF QuerySpec
=============================================================================
