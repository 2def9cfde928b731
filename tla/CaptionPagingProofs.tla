------------------------- MODULE CaptionPagingProofs -------------------------
(* Proofs that a client which pages through a recording misses nothing, for  *)
(* every archive, every number of captions and every size of a page.         *)
EXTENDS CaptionPaging, SearchIndexProofs, DataLemmas

-----------------------------------------------------------------------------
(* The inductive invariant.                                                  *)

(* A program has an id of its own.                                           *)
IdsUnique ==
  /\ \A r \in Recordings : ids[r] = Null <=> programs[r] = Null
  /\ \A r, q \in Recordings : ids[r] # Null /\ ids[r] = ids[q] => r = q
  /\ \E n \in Nat : UsedIds \subseteq 1..n

Increasing(lines) ==
  \A i, j \in DOMAIN lines : i < j => lines[i].line_no < lines[j].line_no

Elements(lines) == {lines[i] : i \in DOMAIN lines}

(* The client has every caption before the line it will ask for, and the     *)
(* lines from there on are all that a later pass can add to.                 *)
ReadSoFar ==
  LET r == session.recording
  IN  /\ session.from - 1 <= indexed[programs[r].path].lines
      /\ Elements(session.lines) = {c \in captions[r] : c.line_no < session.from}

SessionSound ==
  session # Null /\ ~disturbed =>
    /\ programs[session.recording] # Null
    /\ Increasing(session.lines)
    /\ IF session.more THEN ReadSoFar ELSE Elements(session.lines) = atLastRead

PageSound ==
  page # Null =>
    /\ session # Null /\ session.more
    /\ ~disturbed => page.id = ids[session.recording]

PagingInv ==
  /\ IndexTypeOK /\ OwnerConsistent /\ NoFalseShrink /\ CaptionsNumbered
  /\ IdsUnique /\ PagingTypeOK /\ SessionSound /\ PageSound

-----------------------------------------------------------------------------
(* ORDER BY line_no.                                                         *)

(* Rows that have different line numbers are put in the order of those.      *)
LEMMA SortedRows ==
  ASSUME NEW m \in Nat, NEW S \in SUBSET CaptionRow, \A c \in S : c.line_no <= m,
         \A c, d \in S : c.line_no = d.line_no => c = d
  PROVE  \E n \in Nat : /\ Sorted(S, ByLine) \in [1..n -> S]
                        /\ Increasing(Sorted(S, ByLine))
                        /\ Elements(Sorted(S, ByLine)) = S
<1> DEFINE R == {e \in S \X S : ByLine(e[1], e[2])}
           n == Cardinality(S)
           Before(x) == {y \in S : ByLine(y, x)}
           At(i) == CHOOSE x \in S : Cardinality(Before(x)) = i - 1
           s == [i \in 1..n |-> At(i)]
<1>1. \A c \in S : c.line_no \in 1..m
  BY DEF CaptionRow
<1>2. IsFiniteSet(S)
  <2> DEFINE f == [c \in S |-> c.line_no]
  <2>1. f \in [S -> 1..m] /\ \A x, y \in S : f[x] = f[y] => x = y
    BY <1>1
  <2> HIDE DEF f
  <2> QED BY <2>1, NumberedFinite
<1>3. \A x, y \in S : <<x, y>> \in R <=> x.line_no < y.line_no
  BY DEF ByLine
<1>4. \A x \in S : EarlierIn(S, R, x) = Before(x)
  BY DEF EarlierIn
<1> HIDE DEF R
<1>5. StrictOrderOn(S, R)
  BY <1>1, <1>3 DEF StrictOrderOn
<1>6. n \in Nat /\ \A i \in 1..n : \E x \in S : Cardinality(EarlierIn(S, R, x)) = i - 1
  BY <1>2, <1>5, PlacesTaken
<1>7. Sorted(S, ByLine) = s
  BY DEF Sorted
<1> HIDE DEF Before
<1>8. \A i \in 1..n : At(i) \in S /\ Cardinality(Before(At(i))) = i - 1
  BY <1>4, <1>6
<1> HIDE DEF At, n
<1>9. s \in [1..n -> S] /\ \A i \in 1..n : Cardinality(EarlierIn(S, R, s[i])) = i - 1
  BY <1>4, <1>8
<1> HIDE DEF s
<1>10. /\ \A i, j \in 1..n : i < j <=> <<s[i], s[j]>> \in R
       /\ {s[i] : i \in 1..n} = S
  <2>1. ByPlace(S, R, n, s)
    BY <1>9 DEF ByPlace, n
  <2> QED BY <1>2, <1>5, <2>1, SortedSet
<1> QED BY <1>3, <1>6, <1>7, <1>9, <1>10 DEF Increasing, Elements

-----------------------------------------------------------------------------
(* What a step of the writer does to the captions of a program.              *)

LEMMA MoveExtends ==
  ASSUME IndexTypeOK, IndexTypeOK', OwnerConsistent, NoFalseShrink, CaptionsNumbered, IndexMove,
         NEW r \in Recordings
  PROVE  Gone(r) \/ Extended(r)
<1>1. CASE UNCHANGED dbVars
  BY <1>1, NothingExtended DEF dbVars
<1>2. CASE CleanupDeleted
  BY <1>2, CleanupExtends
<1>3. CASE IngestCommit /\ ~(UNCHANGED dbVars)
  <2> DEFINE p == tx.path
  <2>1. p \in Path /\ Present(p) /\ tx.size <= Size(files[p]) /\ tx.size \in Nat
    BY <1>3 DEF IngestCommit, IndexTypeOK, NoFalseShrink
  <2>2. CASE MarkCollisionLoser(p)
    BY <2>1, <2>2, CollisionExtends
  <2>3. CASE MarkShrunk(p, tx.size)
    <3>1. programs' = programs /\ captions' = captions /\ indexed[p] \in IndexedRow
      BY <2>1, <2>3 DEF MarkShrunk, IndexTypeOK
    <3>2. \A q \in Path : indexed'[q].lines = indexed[q].lines
      BY <2>1, <2>3, <3>1 DEF MarkShrunk, IndexTypeOK, IndexedRow
    <3> QED BY <3>1, <3>2, NothingExtended
  <2>4. CASE IndexNewLines(p, tx.size)
    BY <2>1, <2>4, NewLinesExtends
  <2> QED BY <1>3, <2>2, <2>3, <2>4 DEF IngestCommit, SkipSettled, SkipUnchanged
<1> QED BY <1>1, <1>2, <1>3 DEF IndexMove, IngestStat

LEMMA WriterExtends ==
  ASSUME IndexTypeOK, IndexTypeOK', OwnerConsistent, NoFalseShrink, CaptionsNumbered, WriterStep,
         NEW r \in Recordings
  PROVE  Gone(r) \/ Extended(r)
<1>1. CASE IndexMove
  BY <1>1, MoveExtends
<1>2. CASE ArchiveStep
  <2>1. UNCHANGED dbVars
    BY <1>2, ArchiveStepType DEF IndexTypeOK
  <2> QED BY <2>1, NothingExtended DEF dbVars
<1> QED BY <1>1, <1>2 DEF WriterStep, ArchiveStep

(* The client does not write.                                                *)
LEMMA PagingIndex == [PagingNext]_pagingVars => [IndexNext]_indexVars
BY DEF PagingNext, pagingVars, WriterStep, IndexMove, IndexNext, IndexStep, ArchiveStep,
   ReaderStep, OpenSession, SelectProgram, SelectCaptions, CloseSession, writerVars

LEMMA NumberedNext ==
  ASSUME IndexTypeOK, IndexTypeOK', OwnerConsistent, NoFalseShrink, CaptionsNumbered, WriterStep
  PROVE  CaptionsNumbered'
<1>1. OwnerConsistent'
  BY PagingIndex, OwnerStep DEF PagingNext
<1> QED BY <1>1, WriterExtends, NumberedExtended

-----------------------------------------------------------------------------
(* The ids of the programs.                                                  *)

(* A step of the writer makes one program at most.                           *)
LEMMA OneNewProgram ==
  ASSUME IndexTypeOK, WriterStep
  PROVE  \E one : \A r \in Recordings :
           programs[r] = Null /\ programs'[r] # Null => r = one
<1>1. CASE UNCHANGED programs
  BY <1>1
<1>2. CASE CleanupDeleted
  BY <1>2 DEF CleanupDeleted
<1>3. CASE IngestCommit /\ ~(UNCHANGED programs)
  <2>1. tx.path \in Path /\ IndexTail(tx.path)
    BY <1>3 DEF IngestCommit, IndexTypeOK, SkipSettled, MarkCollisionLoser, MarkShrunk,
       SkipUnchanged, IndexNewLines, dbVars
  <2>2. \A r \in Recordings : r # Recording(tx.path) => programs'[r] = programs[r]
    BY <2>1, IndexTailOne
  <2> QED BY <2>2
<1>4. CASE ArchiveStep
  BY <1>1, <1>4, ArchiveStepType DEF IndexTypeOK, dbVars
<1> QED BY <1>1, <1>2, <1>3, <1>4 DEF WriterStep, IndexMove, IngestStat, ArchiveStep, dbVars

LEMMA NextIdFresh ==
  ASSUME NEW n \in Nat, UsedIds \subseteq 1..n
  PROVE  /\ NextId \in 1..n + 1
         /\ \A i \in UsedIds : i < NextId
<1>1. CASE UsedIds = {}
  BY <1>1 DEF NextId
<1>2. CASE UsedIds # {}
  <2>1. NextId = 1 + LastOf(UsedIds)
    BY <1>2 DEF NextId, LastOf
  <2>2. PICK m \in UsedIds : m = LastOf(UsedIds) /\ \A j \in UsedIds : j <= m
    BY <1>2, LastOfType
  <2>3. m \in 1..n /\ \A j \in UsedIds : j \in 1..n
    OBVIOUS
  <2> QED BY <2>1, <2>2, <2>3
<1> QED BY <1>1, <1>2

LEMMA IdsNext ==
  IndexTypeOK /\ IdsUnique /\ ids \in [Recordings -> (Nat \ {0}) \cup {Null}] /\ WriterStep =>
    IdsUnique' /\ ids' \in [Recordings -> (Nat \ {0}) \cup {Null}]
<1> SUFFICES ASSUME IndexTypeOK, IdsUnique, ids \in [Recordings -> (Nat \ {0}) \cup {Null}],
                    WriterStep
             PROVE  IdsUnique' /\ ids' \in [Recordings -> (Nat \ {0}) \cup {Null}]
  OBVIOUS
<1>1. PICK n \in Nat : UsedIds \subseteq 1..n
  BY DEF IdsUnique
<1>2. PICK next \in 1..n + 1 : next = NextId /\ \A i \in UsedIds : i < next
  BY <1>1, NextIdFresh
<1>3. PICK one : \A r \in Recordings : programs[r] = Null /\ programs'[r] # Null => r = one
  BY OneNewProgram
<1>4. ids' = [r \in Recordings |-> IF programs'[r] = Null THEN Null
                                   ELSE IF programs[r] = Null THEN next ELSE ids[r]]
  BY <1>2 DEF WriterStep, AssignIds
<1>5. \A r \in Recordings : ids[r] # Null => ids[r] \in UsedIds /\ ids[r] \in 1..n
  BY <1>1 DEF UsedIds
<1>6. next \in Nat /\ next # Null /\ next # 0
  BY IdAssumption
<1>7. \A r \in Recordings : ids'[r] = Null <=> programs'[r] = Null
  BY <1>4, <1>6 DEF IdsUnique
<1>8. ASSUME NEW r \in Recordings, NEW q \in Recordings, ids'[r] # Null, ids'[r] = ids'[q]
      PROVE  r = q
  <2>1. \A o \in Recordings : ids[o] # next
    <3> SUFFICES ASSUME NEW o \in Recordings, ids[o] = next PROVE FALSE
      OBVIOUS
    <3>1. next \in UsedIds
      BY <1>5, <1>6
    <3>2. next < next /\ next \in Int
      BY <1>2, <3>1
    <3> QED BY <3>2
  <2> QED BY <1>3, <1>4, <1>7, <1>8, <2>1 DEF IdsUnique
<1>9. UsedIds' \subseteq 1..n + 1
  <2>1. ASSUME NEW r \in Recordings, ids'[r] # Null PROVE ids'[r] \in 1..n + 1
    <3>1. ids'[r] = next \/ (ids'[r] = ids[r] /\ ids[r] # Null)
      BY <1>4, <1>7, <2>1 DEF IdsUnique
    <3> QED BY <1>5, <3>1
  <2> QED BY <2>1 DEF UsedIds
<1>10. IdsUnique'
  BY <1>7, <1>8, <1>9 DEF IdsUnique
<1>11. ids' \in [Recordings -> (Nat \ {0}) \cup {Null}]
  BY <1>4, <1>6
<1> QED BY <1>10, <1>11

-----------------------------------------------------------------------------
(* The session of a client.                                                  *)

LEMMA SessionFields ==
  ASSUME PagingTypeOK, session # Null
  PROVE  /\ session \in Session /\ session.recording \in Recordings
         /\ session.from \in Nat \ {0} /\ session.lines \in Seq(CaptionRow)
         /\ session.more \in BOOLEAN
BY DEF PagingTypeOK, Session

LEMMA WriterSession ==
  ASSUME PagingInv, IndexTypeOK', WriterStep
  PROVE  SessionSound' /\ PageSound'
<1> USE DEF PagingInv
<1>1. UNCHANGED <<page, session, atLastRead>>
      /\ disturbed' = (disturbed \/ (session # Null /\ Replaced(session.recording)))
  BY DEF WriterStep
<1>2. CASE session # Null /\ ~disturbed'
  <2>1. PICK r \in Recordings : r = session.recording
    BY <1>2, SessionFields
  <2>2. ~disturbed /\ programs[r] # Null /\ programs'[r] # Null
        /\ programs'[r].path = programs[r].path
    BY <1>1, <1>2, <2>1 DEF SessionSound, Replaced
  <2>3. PICK new \in SUBSET CaptionRow : ExtendedBy(r, new)
    BY <2>2, WriterExtends DEF Gone, Extended
  <2>4. Same(r)
    BY <2>2 DEF Same
  <2>5. ids'[r] = ids[r]
    BY <2>2 DEF WriterStep, AssignIds
  <2>6. SessionSound'
    <3>1. CASE ~session.more
      BY <1>1, <2>1, <2>2, <3>1 DEF SessionSound
    <3>2. CASE session.more
      <4>1. PICK m \in Nat : m = indexed[programs[r].path].lines
        BY <2>2 DEF OwnerConsistent, IndexTypeOK, ProgramRow, IndexedRow
      <4>2. PICK n \in Nat : n = indexed'[programs[r].path].lines
        <5>1. WriterStep => [IndexNext]_indexVars
          BY PagingIndex DEF PagingNext
        <5>2. OwnerConsistent'
          BY <5>1, OwnerStep
        <5> QED BY <2>2, <5>2 DEF OwnerConsistent, IndexTypeOK, ProgramRow, IndexedRow
      <4>3. captions'[r] = captions[r] \cup new /\ m <= n /\ \A c \in new : m < c.line_no
        BY <2>2, <2>3, <2>4, <4>1, <4>2 DEF ExtendedBy
      <4>4. PICK from \in Nat : from = session.from
        BY <1>2, SessionFields
      <4>5. /\ from - 1 <= m
            /\ Elements(session.lines) = {c \in captions[r] : c.line_no < from}
        BY <1>2, <2>1, <2>2, <3>2, <4>1, <4>4 DEF SessionSound, ReadSoFar
      <4>6. \A c \in new : c.line_no \in Nat /\ ~(c.line_no < from)
        BY <4>3, <4>5 DEF CaptionRow
      <4>7. {c \in captions'[r] : c.line_no < from} = {c \in captions[r] : c.line_no < from}
        BY <4>3, <4>6
      <4>8. ReadSoFar'
        BY <1>1, <2>1, <2>2, <4>2, <4>3, <4>4, <4>5, <4>7 DEF ReadSoFar
      <4> QED BY <1>1, <1>2, <2>1, <2>2, <3>2, <4>8 DEF SessionSound
    <3> QED BY <3>1, <3>2
  <2> QED BY <1>1, <1>2, <2>1, <2>2, <2>5, <2>6 DEF PageSound
<1>3. CASE session = Null \/ disturbed'
  BY <1>1, <1>3 DEF SessionSound, PageSound
<1> QED BY <1>2, <1>3

(* The captions that a page is taken from are those of one recording.        *)
LEMMA RowsOfId ==
  ASSUME PagingInv, NEW id \in Nat \ {0}, NEW from \in Nat \ {0}
  PROVE  LET S == CaptionLinesFrom(id, from)
         IN  /\ S \in SUBSET CaptionRow
             /\ \E m \in Nat : \A c \in S : c.line_no <= m
             /\ \A c, d \in S : c.line_no = d.line_no => c = d
             /\ \A r \in Recordings :
                  ids[r] = id => S = {c \in captions[r] : c.line_no >= from}
<1> USE DEF PagingInv
<1>1. CASE \A r \in Recordings : ids[r] # id
  <2>1. CaptionLinesFrom(id, from) = {}
    BY <1>1 DEF CaptionLinesFrom
  <2> QED BY <1>1, <2>1
<1>2. CASE \E r \in Recordings : ids[r] = id
  <2>1. PICK r \in Recordings : ids[r] = id
    BY <1>2
  <2>2. id # Null
    BY IdAssumption
  <2>3. \A q \in Recordings : ids[q] = id => q = r
    BY <2>1, <2>2 DEF IdsUnique
  <2>4. CaptionLinesFrom(id, from) = {c \in captions[r] : c.line_no >= from}
    BY <2>1, <2>3 DEF CaptionLinesFrom
  <2>5. PICK m \in Nat : m = indexed[programs[r].path].lines
    <3>1. programs[r] # Null
      BY <2>1, <2>2 DEF IdsUnique
    <3> QED BY <3>1 DEF OwnerConsistent, IndexTypeOK, ProgramRow, IndexedRow
  <2>6. \A c \in captions[r] : /\ c \in CaptionRow /\ c.line_no <= m
                               /\ \A d \in captions[r] : c.line_no = d.line_no => c = d
    BY <2>5 DEF CaptionsNumbered, IndexTypeOK
  <2> HIDE DEF PagingInv
  <2> QED BY <2>3, <2>4, <2>6
<1> QED BY <1>1, <1>2

LEMMA FirstRows ==
  ASSUME NEW X, NEW s \in Seq(X), NEW n \in Nat
  PROVE  /\ First(s, n) \in Seq(X)
         /\ Len(First(s, n)) = IF Len(s) < n THEN Len(s) ELSE n
         /\ \A i \in 1..Len(First(s, n)) : i \in 1..Len(s) /\ First(s, n)[i] = s[i]
<1>1. PICK k \in 0..Len(s) : k = IF Len(s) < n THEN Len(s) ELSE n
  BY LenProperties
<1>2. First(s, n) = SubSeq(s, 1, k)
  BY <1>1 DEF First
<1> QED BY <1>1, <1>2

(* One page.                                                                 *)
LEMMA PageRows ==
  ASSUME PagingInv, page # Null
  PROVE  LET S == CaptionLinesFrom(page.id, session.from)
             rows == Sorted(S, ByLine)
             lines == First(rows, Limit)
             more == Len(First(rows, Limit + 1)) > Limit
         IN  /\ lines \in Seq(CaptionRow) /\ Increasing(lines)
             /\ Elements(lines) \subseteq S
             /\ ~more => Elements(lines) = S
             /\ more => /\ Len(lines) = Limit
                        /\ \A c \in S : c.line_no <= lines[Limit].line_no => c \in Elements(lines)
<1> DEFINE S == CaptionLinesFrom(page.id, session.from)
           rows == Sorted(S, ByLine)
           lines == First(rows, Limit)
           more == Len(First(rows, Limit + 1)) > Limit
<1>1. page.id \in Nat \ {0} /\ session.from \in Nat \ {0}
  BY SessionFields DEF PagingInv, PagingTypeOK, PageSound, Page
<1>2. PICK m \in Nat : /\ S \in SUBSET CaptionRow /\ \A c \in S : c.line_no <= m
                       /\ \A c, d \in S : c.line_no = d.line_no => c = d
  BY <1>1, RowsOfId
<1>3. Limit \in Nat /\ Limit # 0
  BY PagingAssumption
<1> HIDE DEF S
<1>4. PICK n \in Nat : rows \in [1..n -> S] /\ Increasing(rows) /\ Elements(rows) = S
  BY <1>2, SortedRows
<1> HIDE DEF rows
<1>5. rows \in Seq(S) /\ Len(rows) = n
  BY <1>4
<1>6. /\ lines \in Seq(S)
      /\ Len(lines) = IF n < Limit THEN n ELSE Limit
      /\ \A i \in 1..Len(lines) : i \in 1..n /\ lines[i] = rows[i]
  BY <1>3, <1>5, FirstRows
<1>7. more <=> n > Limit
  <2>1. Len(First(rows, Limit + 1)) = IF n < Limit + 1 THEN n ELSE Limit + 1
    BY <1>3, <1>5, FirstRows
  <2> QED BY <1>3, <2>1
<1> HIDE DEF lines, more
<1>8. lines \in Seq(CaptionRow)
  BY <1>2, <1>6
<1>9. PICK k \in Nat : k = Len(lines) /\ DOMAIN lines = 1..k
  BY <1>6, LenProperties
<1>10. DOMAIN rows = 1..n
  BY <1>4
<1>11. Increasing(lines)
  BY <1>4, <1>6, <1>9, <1>10 DEF Increasing
<1>12. Elements(lines) \subseteq S
  BY <1>4, <1>6, <1>9 DEF Elements
<1>13. ASSUME ~more PROVE Elements(lines) = S
  <2>1. k = n
    BY <1>3, <1>6, <1>7, <1>9, <1>13
  <2> QED BY <1>4, <1>6, <1>9, <1>10, <2>1 DEF Elements
<1>14. ASSUME more
       PROVE  /\ Len(lines) = Limit
              /\ \A c \in S : c.line_no <= lines[Limit].line_no => c \in Elements(lines)
  <2>1. k = Limit /\ Limit \in 1..n
    BY <1>3, <1>6, <1>7, <1>9, <1>14
  <2>2. ASSUME NEW c \in S, c.line_no <= lines[Limit].line_no PROVE c \in Elements(lines)
    <3>1. PICK i \in 1..n : c = rows[i]
      BY <1>4, <1>10 DEF Elements
    <3>2. Limit < i => rows[Limit].line_no < rows[i].line_no
      BY <1>4, <1>10, <2>1 DEF Increasing
    <3>3. rows[Limit].line_no \in Nat /\ rows[i].line_no \in Nat /\ lines[Limit] = rows[Limit]
      BY <1>2, <1>4, <1>6, <1>9, <2>1 DEF CaptionRow
    <3>4. i \in 1..Limit
      BY <1>3, <2>2, <3>1, <3>2, <3>3
    <3> QED BY <1>6, <1>9, <2>1, <3>1, <3>4 DEF Elements
  <2> QED BY <1>9, <2>1, <2>2
<1> QED BY <1>8, <1>11, <1>12, <1>13, <1>14 DEF S, rows, lines, more

LEMMA ElementsConcat ==
  ASSUME NEW s \in Seq(CaptionRow), NEW t \in Seq(CaptionRow)
  PROVE  /\ s \o t \in Seq(CaptionRow)
         /\ Elements(s \o t) = Elements(s) \cup Elements(t)
         /\ (/\ Increasing(s) /\ Increasing(t)
             /\ \A c \in Elements(s), d \in Elements(t) : c.line_no < d.line_no)
            => Increasing(s \o t)
<1>1. PICK m \in Nat, n \in Nat : m = Len(s) /\ n = Len(t)
  BY LenProperties
<1>2. PICK u \in Seq(CaptionRow) : u = s \o t
  BY ConcatProperties
<1>3. /\ DOMAIN u = 1..m + n /\ DOMAIN s = 1..m /\ DOMAIN t = 1..n
      /\ \A i \in 1..m : u[i] = s[i]
      /\ \A i \in 1..n : u[m + i] = t[i]
  BY <1>1, <1>2
<1>4. \A i \in 1..m + n : i \in 1..m \/ (i - m \in 1..n /\ u[i] = t[i - m])
  <2> SUFFICES ASSUME NEW i \in 1..m + n, i \notin 1..m
               PROVE  i - m \in 1..n /\ u[i] = t[i - m]
    OBVIOUS
  <2>1. PICK j \in 1..n : j = i - m /\ m + j = i
    OBVIOUS
  <2> QED BY <1>3, <2>1
<1>5. Elements(u) = Elements(s) \cup Elements(t)
  <2>1. \A c \in Elements(u) : c \in Elements(s) \cup Elements(t)
    BY <1>3, <1>4 DEF Elements
  <2>2. \A c \in Elements(s) : c \in Elements(u)
    BY <1>3 DEF Elements
  <2>3. ASSUME NEW c \in Elements(t) PROVE c \in Elements(u)
    <3>1. PICK i \in 1..n : c = t[i]
      BY <1>3, <2>3 DEF Elements
    <3>2. m + i \in 1..m + n
      OBVIOUS
    <3> QED BY <1>3, <3>1, <3>2 DEF Elements
  <2> QED BY <2>1, <2>2, <2>3
<1>6. ASSUME Increasing(s), Increasing(t),
             \A c \in Elements(s), d \in Elements(t) : c.line_no < d.line_no
      PROVE  Increasing(u)
  <2> SUFFICES ASSUME NEW i \in 1..m + n, NEW j \in 1..m + n, i < j
               PROVE  u[i].line_no < u[j].line_no
    BY <1>3 DEF Increasing
  <2>1. CASE j \in 1..m
    <3>1. i \in 1..m
      BY <2>1
    <3> QED BY <1>3, <1>6, <2>1, <3>1 DEF Increasing
  <2>2. CASE i \in 1..m /\ j \notin 1..m
    BY <1>3, <1>4, <1>6, <2>2 DEF Elements
  <2>3. CASE i \notin 1..m
    <3>1. PICK k \in 1..n : k = i - m /\ u[i] = t[k]
      BY <1>4, <2>3
    <3>2. PICK l \in 1..n : l = j - m /\ u[j] = t[l]
      BY <1>4, <2>3
    <3>3. k < l /\ k \in DOMAIN t /\ l \in DOMAIN t
      BY <1>3, <3>1, <3>2
    <3>4. t[k].line_no < t[l].line_no
      BY <1>6, <3>3 DEF Increasing
    <3> QED BY <3>1, <3>2, <3>4
  <2> QED BY <2>1, <2>2, <2>3
<1> QED BY <1>2, <1>5, <1>6

LEMMA SelectCaptionsSound ==
  ASSUME PagingInv, SelectCaptions
  PROVE  PagingTypeOK' /\ SessionSound' /\ PageSound'
<1> DEFINE S == CaptionLinesFrom(page.id, session.from)
           lines == First(Sorted(S, ByLine), Limit)
           more == Len(First(Sorted(S, ByLine), Limit + 1)) > Limit
           x == session
<1>1. /\ page # Null /\ page' = Null /\ UNCHANGED <<writerVars, disturbed>>
      /\ session' = [x EXCEPT !.lines = @ \o lines, !.more = more,
                              !.from = IF more THEN NextStart(lines) ELSE @]
      /\ atLastRead' = captions[x.recording]
  BY DEF SelectCaptions
<1>2. /\ x # Null /\ x \in Session /\ x.recording \in Recordings /\ x.more
      /\ x.from \in Nat \ {0} /\ x.lines \in Seq(CaptionRow)
  BY <1>1, SessionFields DEF PagingInv, PageSound
<1>3. PICK from \in Nat \ {0} : from = x.from
  BY <1>2
<1>4. /\ lines \in Seq(CaptionRow) /\ Increasing(lines)
      /\ Elements(lines) \subseteq S
      /\ ~more => Elements(lines) = S
      /\ more => /\ Len(lines) = Limit
                 /\ \A c \in S : c.line_no <= lines[Limit].line_no => c \in Elements(lines)
      /\ more \in BOOLEAN
  BY <1>1, PageRows
<1> HIDE DEF lines, more, S
<1>5. PICK next \in Nat \ {0} : next = IF more THEN NextStart(lines) ELSE from
  <2>1. CASE more
    <3>1. Limit \in 1..Len(lines)
      BY <1>4, <2>1, PagingAssumption
    <3>2. lines[Limit] \in CaptionRow
      BY <1>4, <3>1, ElementOfSeq
    <3>3. NextStart(lines) = lines[Limit].line_no + 1
      BY <1>4, <2>1 DEF NextStart
    <3> QED BY <2>1, <3>2, <3>3 DEF CaptionRow
  <2>2. CASE ~more
    BY <2>2
  <2> QED BY <2>1, <2>2
<1>6. PICK all \in Seq(CaptionRow) : all = x.lines \o lines
  BY <1>2, <1>4, ElementsConcat
<1>7. /\ session' \in Session /\ session'.recording = x.recording /\ session'.lines = all
      /\ session'.more = more /\ session'.from = next
  BY <1>1, <1>2, <1>3, <1>4, <1>5, <1>6 DEF Session
<1>8. session' # Null
  BY <1>7, PagingAssumption
<1>9. PagingTypeOK'
  BY <1>1, <1>2, <1>7 DEF PagingInv, PagingTypeOK, IndexTypeOK, writerVars
<1>10. ASSUME ~disturbed
       PROVE  /\ programs[x.recording] # Null /\ Increasing(all)
              /\ IF more
                   THEN /\ next - 1 <= indexed[programs[x.recording].path].lines
                        /\ Elements(all) = {c \in captions[x.recording] : c.line_no < next}
                   ELSE Elements(all) = captions[x.recording]
  <2> DEFINE C == captions[x.recording]
  <2>1. /\ programs[x.recording] # Null /\ Increasing(x.lines)
        /\ Elements(x.lines) = {c \in C : c.line_no < from}
        /\ page.id = ids[x.recording]
    BY <1>1, <1>2, <1>3, <1>10 DEF PagingInv, SessionSound, ReadSoFar, PageSound
  <2>2. S = {c \in C : c.line_no >= from}
    <3>1. page.id \in Nat \ {0}
      BY <1>1 DEF PagingInv, PagingTypeOK, Page
    <3>2. CaptionLinesFrom(page.id, from) = {c \in C : c.line_no >= from}
      BY <1>2, <1>3, <2>1, <3>1, RowsOfId
    <3> QED BY <1>3, <3>2 DEF S
  <2>3. \A c \in C : c.line_no \in Nat /\ c.line_no <= indexed[programs[x.recording].path].lines
    BY <1>2 DEF PagingInv, CaptionsNumbered, IndexTypeOK, CaptionRow
  <2> HIDE DEF C
  <2>4. \A c \in Elements(x.lines), d \in Elements(lines) : c.line_no < d.line_no
    <3>1. \A c \in Elements(x.lines) : c \in C /\ c.line_no < from
      BY <2>1
    <3>2. \A d \in Elements(lines) : d \in C /\ d.line_no >= from
      BY <1>4, <2>2
    <3> QED BY <2>3, <3>1, <3>2
  <2>5. Increasing(all) /\ Elements(all) = Elements(x.lines) \cup Elements(lines)
    BY <1>2, <1>4, <1>6, <2>1, <2>4, ElementsConcat
  <2>6. CASE ~more
    <3>1. \A c \in C : c.line_no < from \/ c.line_no >= from
      BY <2>3
    <3>2. {c \in C : c.line_no < from} \cup S = C
      BY <2>2, <3>1
    <3> QED BY <1>4, <2>1, <2>5, <2>6, <3>2 DEF C
  <2>7. CASE more
    <3>1. Limit \in 1..Len(lines)
      BY <1>4, <2>7, PagingAssumption
    <3>2. PICK l \in CaptionRow : l = lines[Limit]
      BY <1>4, <3>1, ElementOfSeq
    <3>3. next = l.line_no + 1 /\ l.line_no \in Nat
      BY <1>4, <1>5, <2>7, <3>2 DEF NextStart, CaptionRow
    <3>4. l \in Elements(lines)
      BY <1>4, <3>1, <3>2 DEF Elements
    <3>5. l \in C /\ l.line_no >= from
      BY <1>4, <2>2, <3>4
    <3>6. \A c \in Elements(lines) : c \in C /\ c.line_no < next
      <4> SUFFICES ASSUME NEW c \in Elements(lines) PROVE c \in C /\ c.line_no < next
        OBVIOUS
      <4>1. c \in C
        BY <1>4, <2>2
      <4>2. PICK i \in 1..Limit : c = lines[i]
        BY <1>4, <2>7, LenProperties DEF Elements
      <4>3. i = Limit \/ c.line_no < l.line_no
        BY <1>4, <3>1, <3>2, <4>2 DEF Increasing
      <4> QED BY <2>3, <3>2, <3>3, <4>1, <4>2, <4>3
    <3>7. \A c \in C : c.line_no < next => c.line_no < from \/ c \in Elements(lines)
      BY <1>4, <2>2, <2>3, <2>7, <3>2, <3>3
    <3>8. \A c \in C : c.line_no < from => c.line_no < next
      BY <2>3, <3>3, <3>5
    <3>9. Elements(all) = {c \in C : c.line_no < next}
      BY <2>1, <2>5, <3>6, <3>7, <3>8
    <3>10. next - 1 <= indexed[programs[x.recording].path].lines
      BY <2>3, <3>3, <3>5
    <3> QED BY <2>1, <2>5, <2>7, <3>9, <3>10 DEF C
  <2> QED BY <2>6, <2>7
<1>11. SessionSound' /\ PageSound'
  <2>1. ASSUME ~disturbed' PROVE ~disturbed
    BY <1>1, <2>1
  <2>2. programs' = programs /\ indexed' = indexed /\ captions' = captions
    BY <1>1 DEF writerVars, indexVars
  <2> QED BY <1>1, <1>7, <1>8, <1>10, <2>1, <2>2 DEF SessionSound, ReadSoFar, PageSound
<1> QED BY <1>9, <1>11

-----------------------------------------------------------------------------
LEMMA PagingInvInit == PagingInit => PagingInv
<1> SUFFICES ASSUME PagingInit PROVE PagingInv
  OBVIOUS
<1>1. IndexInit /\ ids = [r \in Recordings |-> Null]
  BY DEF PagingInit, WriterInit
<1>2. IndexTypeOK
  BY <1>1, IndexTypeInit
<1>3. OwnerConsistent /\ NoFalseShrink /\ CaptionsNumbered
  BY <1>1 DEF IndexInit, OwnerConsistent, NoFalseShrink, CaptionsNumbered
<1>4. UsedIds \subseteq 1..0
  BY <1>1 DEF UsedIds
<1>5. IdsUnique
  BY <1>1, <1>4 DEF IdsUnique, IndexInit
<1>6. PagingTypeOK /\ SessionSound /\ PageSound
  BY <1>1 DEF PagingInit, PagingTypeOK, SessionSound, PageSound
<1> QED BY <1>2, <1>3, <1>5, <1>6 DEF PagingInv

LEMMA PagingInvStep == PagingInv /\ [PagingNext]_pagingVars => PagingInv'
<1> SUFFICES ASSUME PagingInv, [PagingNext]_pagingVars PROVE PagingInv'
  OBVIOUS
<1>1. IndexTypeOK' /\ OwnerConsistent' /\ NoFalseShrink'
  BY PagingIndex, IndexTypeStep, OwnerStep, NoFalseShrinkStep DEF PagingInv
<1>2. CASE WriterStep
  <2>1. CaptionsNumbered'
    BY <1>1, <1>2, NumberedNext DEF PagingInv
  <2>2. IdsUnique' /\ ids' \in [Recordings -> (Nat \ {0}) \cup {Null}]
    BY <1>2, IdsNext DEF PagingInv, PagingTypeOK
  <2>3. PagingTypeOK'
    BY <1>2, <2>2 DEF PagingInv, PagingTypeOK, WriterStep
  <2>4. SessionSound' /\ PageSound'
    BY <1>1, <1>2, WriterSession
  <2> QED BY <1>1, <2>1, <2>2, <2>3, <2>4 DEF PagingInv
<1>3. ASSUME UNCHANGED writerVars PROVE CaptionsNumbered' /\ IdsUnique'
  BY <1>3 DEF PagingInv, writerVars, indexVars, CaptionsNumbered, IdsUnique, UsedIds
<1>4. ASSUME NEW r \in Recordings, OpenSession(r) PROVE PagingInv'
  <2> DEFINE new == [recording |-> r, from |-> 1, lines |-> <<>>, more |-> TRUE]
  <2>1. /\ session = Null /\ session' = new /\ programs[r] # Null /\ page = Null
        /\ UNCHANGED <<writerVars, page, atLastRead>> /\ disturbed' = FALSE
    BY <1>4 DEF OpenSession, PagingInv, PageSound
  <2>2. new \in Session
    BY DEF Session
  <2>3. PagingTypeOK'
    BY <2>1, <2>2 DEF PagingInv, PagingTypeOK, writerVars
  <2>4. /\ session'.recording = r /\ session'.from = 1 /\ session'.lines = <<>>
        /\ session'.more = TRUE
    BY <2>1
  <2>5. /\ programs' = programs /\ indexed' = indexed /\ captions' = captions
    BY <2>1 DEF writerVars, indexVars
  <2>6. 0 <= indexed[programs[r].path].lines /\ \A c \in captions[r] : ~(c.line_no < 1)
    <3>1. indexed[programs[r].path].lines \in Nat
      BY <2>1 DEF PagingInv, OwnerConsistent, IndexTypeOK, ProgramRow, IndexedRow
    <3> QED BY <3>1 DEF PagingInv, IndexTypeOK, CaptionRow
  <2>7. Increasing(<<>>) /\ Elements(<<>>) = {}
    BY DEF Increasing, Elements
  <2> HIDE DEF new
  <2>8. ReadSoFar'
    BY <2>4, <2>5, <2>6, <2>7 DEF ReadSoFar
  <2>9. SessionSound' /\ PageSound'
    BY <2>1, <2>4, <2>5, <2>7, <2>8 DEF SessionSound, PageSound
  <2> QED BY <1>1, <1>3, <2>1, <2>3, <2>9 DEF PagingInv
<1>5. CASE SelectProgram
  <2>1. UNCHANGED <<writerVars, atLastRead, disturbed>> /\ session # Null /\ session.more
        /\ page = Null
    BY <1>5 DEF SelectProgram
  <2>2. PICK r \in Recordings : r = session.recording
    BY <2>1, SessionFields DEF PagingInv
  <2>3. /\ programs' = programs /\ indexed' = indexed /\ captions' = captions /\ ids' = ids
    BY <2>1 DEF writerVars, indexVars
  <2>4. CASE programs[r] = Null
    <3>1. page' = Null /\ session' = [session EXCEPT !.more = FALSE]
      BY <1>5, <2>1, <2>2, <2>4 DEF SelectProgram
    <3>2. session' \in Session
      BY <2>1, <3>1, SessionFields DEF PagingInv, Session
    <3>3. disturbed
      BY <2>1, <2>2, <2>4 DEF PagingInv, SessionSound
    <3>4. PagingTypeOK'
      BY <2>1, <2>3, <3>1, <3>2 DEF PagingInv, PagingTypeOK
    <3> QED BY <1>1, <1>3, <2>1, <3>1, <3>3, <3>4 DEF PagingInv, SessionSound, PageSound
  <2>5. CASE programs[r] # Null
    <3>1. page' = [id |-> ids[r], path |-> programs[r].path] /\ session' = session
      BY <1>5, <2>2, <2>5 DEF SelectProgram
    <3>2. ids[r] \in Nat \ {0} /\ programs[r].path \in Path
      BY <2>5 DEF PagingInv, PagingTypeOK, IdsUnique, IndexTypeOK, ProgramRow
    <3>3. PagingTypeOK'
      BY <2>1, <2>3, <3>1, <3>2 DEF PagingInv, PagingTypeOK, Page
    <3>4. SessionSound'
      BY <2>1, <2>3, <3>1 DEF PagingInv, SessionSound, ReadSoFar
    <3>5. PageSound'
      BY <2>1, <2>2, <2>3, <3>1 DEF PageSound
    <3> QED BY <1>1, <1>3, <2>1, <3>3, <3>4, <3>5 DEF PagingInv
  <2> QED BY <2>4, <2>5
<1>6. CASE SelectCaptions
  <2>1. UNCHANGED writerVars
    BY <1>6 DEF SelectCaptions
  <2> QED BY <1>1, <1>3, <1>6, <2>1, SelectCaptionsSound DEF PagingInv
<1>7. CASE CloseSession
  BY <1>1, <1>3, <1>7 DEF CloseSession, PagingInv, PagingTypeOK, SessionSound, PageSound,
     writerVars
<1>8. CASE UNCHANGED pagingVars
  <2>1. UNCHANGED <<writerVars, readerVars>>
    BY <1>8 DEF pagingVars
  <2> QED BY <1>1, <1>3, <2>1 DEF PagingInv, PagingTypeOK, SessionSound, PageSound, ReadSoFar,
     readerVars, writerVars, indexVars
<1> QED BY <1>2, <1>4, <1>5, <1>6, <1>7, <1>8 DEF PagingNext, ReaderStep

LEMMA PagingInvCorrect == PagingSpec => []PagingInv
BY PagingInvInit, PagingInvStep, PTL DEF PagingSpec

(* The session, the request under way and the ids keep their types: a page   *)
(* that is not the last has rows to continue from.                           *)
THEOREM PagingTypeCorrect == PagingSpec => []PagingTypeOK
<1>1. PagingInv => PagingTypeOK
  BY DEF PagingInv
<1> QED BY <1>1, PagingInvCorrect, PTL

(* However the indexer's commits fall between the two statements of a page   *)
(* and between pages, a client that follows next_start_line to the end has   *)
(* every caption once and in order, as long as the program keeps its file    *)
(* (query.rs:437-500, query_service.rs:505-515).                             *)
THEOREM PagesCompleteCorrect == PagingSpec => []PagesComplete
<1>1. PagingInv => PagesComplete
  BY DEF PagingInv, SessionSound, PagesComplete, Elements, Increasing
<1> QED BY <1>1, PagingInvCorrect, PTL
=============================================================================
