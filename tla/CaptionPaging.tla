---------------------------- MODULE CaptionPaging ---------------------------
(* A client pages through the captions of a recording (get_program_captions, *)
(* query_service.rs) while the indexer writes: every page is read by two     *)
(* statements of their own (get_caption_page, search_db/query.rs), and the   *)
(* writer may commit between them and between pages.                         *)
EXTENDS IndexWriter

CONSTANT Limit    \* captions per page

Page == [id : Nat \ {0}, path : Path]

Session == [recording : Recordings, from : Nat \ {0}, lines : Seq(CaptionRow), more : BOOLEAN]

ASSUME PagingAssumption ==
  /\ Limit \in Nat \ {0}
  /\ Null \notin Page \cup Session

VARIABLES
  page,     \* the request under way: the program its first statement found
  session,  \* the client: recording, next line, captions so far
  atLastRead, \* history: captions of the recording at the session's last read
  disturbed \* history: its program was replaced or deleted meanwhile

readerVars == <<page, session, atLastRead, disturbed>>
pagingVars == <<writerVars, readerVars>>

PagingInit ==
  /\ WriterInit
  /\ page = Null /\ session = Null /\ atLastRead = {} /\ disturbed = FALSE

-----------------------------------------------------------------------------
(* The writer.                                                               *)

Replaced(r) ==
  programs[r] # Null /\ (programs'[r] = Null \/ programs'[r].path # programs[r].path)

WriterStep ==
  /\ \/ IndexMove
     \/ \E p \in Path : CreateFile(p) \/ RemoveFile(p) \/ WriteText(p) \/ \E line \in Lines : WriteNewline(p, line)
  /\ AssignIds
  /\ disturbed' = (disturbed \/ (session # Null /\ Replaced(session.recording)))
  /\ UNCHANGED <<page, session, atLastRead>>

-----------------------------------------------------------------------------
(* The reader.                                                               *)

OpenSession(r) ==
  /\ session = Null /\ programs[r] # Null
  /\ session' = [recording |-> r, from |-> 1, lines |-> <<>>, more |-> TRUE]
  /\ disturbed' = FALSE
  /\ UNCHANGED <<writerVars, page, atLastRead>>

(* SELECT id, ... FROM programs: fixes the id, in a transaction of its own.  *)
SelectProgram ==
  /\ session # Null /\ session.more /\ page = Null
  /\ IF programs[session.recording] = Null
       THEN page' = page /\ session' = [session EXCEPT !.more = FALSE]
       ELSE /\ page' = [id |-> ids[session.recording],
                        path |-> programs[session.recording].path]
            /\ session' = session
  /\ UNCHANGED <<writerVars, atLastRead, disturbed>>

(* The captions that the id has now, from line_no on.                        *)
CaptionLinesFrom(id, from) ==
  UNION {{c \in captions[r] : c.line_no >= from} : r \in {q \in Recordings : ids[q] = id}}

(* Slip: the extra row is taken for one that was returned.                   *)
NextStartAfterExtra(lines) == lines[Len(lines)].line_no + 2

(* next_start_line                                                           *)
NextStart(lines) == lines[Len(lines)].line_no + 1

(* LIMIT limit + 1, the extra row only tells that there is more.             *)
SelectCaptions ==
  LET rows == Sorted(CaptionLinesFrom(page.id, session.from), ByLine)
      lines == First(rows, Limit)
      more == Len(First(rows, Limit + 1)) > Limit
  IN  /\ page # Null
      /\ session' = [session EXCEPT !.lines = @ \o lines, !.more = more,
                                    !.from = IF more THEN NextStart(lines) ELSE @]
      /\ atLastRead' = captions[session.recording]
      /\ page' = Null
      /\ UNCHANGED <<writerVars, disturbed>>

CloseSession ==
  /\ session # Null /\ page = Null
  /\ session' = Null /\ atLastRead' = {} /\ disturbed' = FALSE
  /\ UNCHANGED <<writerVars, page>>

ReaderStep ==
  \/ \E r \in Recordings : OpenSession(r)
  \/ SelectProgram
  \/ SelectCaptions
  \/ CloseSession

PagingNext == WriterStep \/ ReaderStep

PagingSpec == PagingInit /\ [][PagingNext]_pagingVars

-----------------------------------------------------------------------------
PagingTypeOK ==
  /\ ids \in [Recordings -> (Nat \ {0}) \cup {Null}]
  /\ page \in Page \cup {Null}
  /\ session \in Session \cup {Null}
  /\ atLastRead \subseteq CaptionRow
  /\ disturbed \in BOOLEAN

(* While its program stays, a client that follows next_start_line has read,  *)
(* when it is told that there is no more, exactly the captions that were     *)
(* indexed at its last request, in order, each once - although the file grew *)
(* and was indexed between its pages (query.rs:437-500,                      *)
(* query_service.rs:505-515).                                                *)
PagesComplete ==
  (session # Null /\ ~session.more /\ page = Null /\ ~disturbed) =>
    /\ {session.lines[i] : i \in DOMAIN session.lines} = atLastRead
    /\ \A i, j \in DOMAIN session.lines :
         i < j => session.lines[i].line_no < session.lines[j].line_no

(* "Returns one program and a bounded page of its caption lines"             *)
(* (query.rs:436): the program a response describes and its lines come from  *)
(* one file.                                                                 *)
PageOfItsProgram ==
  [][page # Null /\ page' = Null /\ CaptionLinesFrom(page.id, session.from) # {} =>
       \E r \in Recordings :
         ids[r] = page.id /\ programs[r].path = page.path]_pagingVars
=============================================================================
