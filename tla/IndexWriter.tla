---------------------------- MODULE IndexWriter -----------------------------
(* What the queries need of the writer and of SQL: SearchIndex with the      *)
(* numeric ids of the program rows, the indexer's steps while a request is   *)
(* under way (a crash or a rebuild ends every request), ORDER BY and LIMIT.  *)
(*                                                                           *)
(* programs.id is an INTEGER PRIMARY KEY: a new row takes the number after   *)
(* the largest one in use.                                                   *)
EXTENDS SearchIndex

ASSUME IdAssumption == Null \notin Nat

VARIABLE ids  \* programs.id of each recording

writerVars == <<indexVars, ids>>

WriterInit == IndexInit /\ ids = [r \in Recordings |-> Null]

UsedIds == {ids[r] : r \in Recordings} \ {Null}

(* Slip: ids from 0.                                                         *)
NextIdFromZero == Cardinality(UsedIds)

NextId == 1 + (IF UsedIds = {} THEN 0 ELSE CHOOSE i \in UsedIds : \A j \in UsedIds : j <= i)

AssignIds ==
  ids' = [r \in Recordings |->
            IF programs'[r] = Null THEN Null
            ELSE IF programs[r] = Null THEN NextId
            ELSE ids[r]]

IndexMove == (\E p \in Path : IngestStat(p)) \/ IngestCommit \/ CleanupDeleted

(* The rows of a set in the order that Before gives.                         *)
Sorted(S, Before(_, _)) ==
  [i \in 1..Cardinality(S) |->
     CHOOSE x \in S : Cardinality({y \in S : Before(y, x)}) = i - 1]

(* LIMIT n                                                                   *)
First(s, n) == SubSeq(s, 1, IF Len(s) < n THEN Len(s) ELSE n)

ByLine(c, d) == c.line_no < d.line_no
=============================================================================
