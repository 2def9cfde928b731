--------------------------- MODULE ArchiveQueries ---------------------------
(* The query service (query_service.rs) and its statements                   *)
(* (search_db/query.rs), answered while the writer works: search, the        *)
(* program list and the raw file of a recording.                             *)
(*                                                                           *)
(* A statement sees one committed state.  A search by `q` is two statements, *)
(* a raw request a statement and three file operations; the writer, the      *)
(* recorder and the collector may step between any two of them.              *)
EXTENDS IndexWriter, SearchExpressions
LOCAL INSTANCE Functions

CONSTANTS
  Columns,       \* searched columns of a line: title and description, or text
  Genres,        \* genre pairs <<level1, level2>> of an EIT line
  Requests,      \* searches that clients make
  DaySeconds,    \* seconds per day
  MonthDays,     \* days per month
  MaxLimit,      \* MAX_SEARCH_LIMIT
  MaxInnerHits,  \* MAX_INNER_HITS
  MaxExpression, \* MAX_SEARCH_EXPRESSION_CHARS, in tokens
  Invalid,       \* a stream, bound or genre that does not parse
  ChunkLines,    \* lines that one read of a file returns at most
  Recorded,      \* bound: files that the recorder creates
  MaxRemoved,    \* bound: files removed
  MaxWritten     \* bound: lines in the whole archive

(* What a request may give, when it gives it; at: Null for a date alone.     *)
Bound == [day : Nat, at : 0..(DaySeconds - 1) \cup {Null}]
Genre == [level1 : Nat, level2 : Nat \cup {Null}]

Request ==
  [q : Seq(Token), program_q : Seq(Token), line_q : Seq(Token),
   stream : Streams \cup {Null, Invalid},
   from : Bound \cup {Null, Invalid}, to : Bound \cup {Null, Invalid},
   genre : Genre \cup {Null, Invalid}, limit : Int, inner_hits : Int]

ASSUME QueryAssumption ==
  /\ Columns \in [Lines -> Seq(Seq(Letters))]
  /\ Genres \in [Lines -> SUBSET ((0..15) \X (0..15))]
  /\ {DaySeconds, MonthDays, MaxLimit, MaxInnerHits, ChunkLines} \subseteq Nat \ {0}
  /\ {MaxExpression, MaxRemoved, MaxWritten} \subseteq Nat /\ Recorded \subseteq Path
  /\ Requests \subseteq Request
  /\ Invalid \notin Streams \cup Nat \cup Bound \cup Genre \cup {Null}
  /\ Null \notin Streams \cup Bound \cup Genre \cup Lines \cup Requests \cup Seq(Lines)

(* The normalised columns that are stored with a line; the expressions.      *)
Stored == [line \in Lines |-> SearchText(Columns[line])]

Parsed ==
  [tokens \in UNION {{req.q, req.program_q, req.line_q} : req \in Requests} |-> Parse(tokens)]

VARIABLES
  described,    \* the EIT line that each row's title and genres came from
  caption_fts,  \* the rows that the full-text index of the captions holds
  program_fts,  \* and that of the titles and descriptions
  ready,        \* search_db_ready
  request,      \* the request under way
  lasting       \* history: recordings that matched it ever since, by column

storedVars == <<writerVars, described, caption_fts, program_fts>>
queryVars == <<storedVars, ready, request, lasting>>

Nothing == [captions |-> {}, metadata |-> {}]

QueryInit ==
  /\ WriterInit
  /\ described = [r \in Recordings |-> Null]
  /\ caption_fts = {} /\ program_fts = {}
  /\ ready = FALSE /\ request = Null /\ lasting = Nothing

Reply(status, items) == [status |-> status, items |-> items]

-----------------------------------------------------------------------------
(* The statements.  A row is a caption with its program.                     *)

Newer(a, b) ==
  \/ a.recording.at > b.recording.at
  \/ a.recording.at = b.recording.at /\ a.id > b.id

(* PROGRAM_FILTER_SQL                                                        *)
Passes(filter, r) ==
  /\ filter.stream \in {Null, r.stream}
  /\ filter.from # Null => r.at >= filter.from
  /\ filter.to # Null => r.at <= filter.to
  /\ filter.genre # Null =>
       \E g \in Genres[described[r]] :
         g[1] = filter.genre.level1 /\ filter.genre.level2 \in {Null, g[2]}

(* programs and caption_lines, with the columns that their triggers read.    *)
Rows == {r \in Recordings : programs[r] # Null}

ProgramRows == {[program |-> r, text |-> described[r]] : r \in Rows}

CaptionRows ==
  UNION {{[program |-> r, line_no |-> c.line_no, text |-> c.text] : c \in captions[r]} :
           r \in Recordings}

(* Both indexes store no text of their own: a match gives a rowid, and the   *)
(* statement joins the row that has it now.                                  *)
MatchedPrograms(expression) ==
  {x.program : x \in {y \in program_fts : MatchesRow(expression, Stored[y.text])}} \cap Rows

MatchedLines(expression, within, filter) ==
  LET matched == {[program |-> x.program, line_no |-> x.line_no] :
                    x \in {y \in caption_fts : MatchesRow(expression, Stored[y.text])}}
  IN  {[recording |-> x.program, id |-> ids[x.program], line_no |-> x.line_no] :
         x \in {y \in CaptionRows :
                  /\ [program |-> y.program, line_no |-> y.line_no] \in matched
                  /\ y.program \in within
                  /\ Passes(filter, y.program)}}

(* Slip: RANK, which counts rows, for DENSE_RANK.                            *)
RankOfRows(rows, row) == 1 + Cardinality({x \in rows : Newer(x, row)})

(* DENSE_RANK() OVER (ORDER BY recording_started_at DESC, id DESC)           *)
ProgramRank(rows, row) ==
  1 + Cardinality({[id |-> x.id, at |-> x.recording.at] : x \in {y \in rows : Newer(y, row)}})

(* ROW_NUMBER() OVER (PARTITION BY id ORDER BY line_no)                      *)
HitRank(rows, row) == Cardinality({x \in rows : x.id = row.id /\ ByLine(x, row)}) + 1

Ranked(rows, limit, inner_hits) ==
  LET kept == {x \in rows : ProgramRank(rows, x) <= limit /\ HitRank(rows, x) <= inner_hits}
  IN  Sorted(kept, LAMBDA x, y : Newer(x, y) \/ (x.id = y.id /\ ByLine(x, y)))

Item(row, hits) == [recording |-> row.recording, id |-> row.id, hits |-> hits]

(* Neighbouring rows of one program become one item.                         *)
AddRow(items, row) ==
  IF items # <<>> /\ items[Len(items)].id = row.id
    THEN [items EXCEPT ![Len(items)].hits = Append(@, row.line_no)]
    ELSE Append(items, Item(row, <<row.line_no>>))

GroupRows(rows) == Seqs!FoldLeft(AddRow, <<>>, rows)

SearchCaptions(expression, s) ==
  GroupRows(Ranked(MatchedLines(expression, Rows, s.filter), s.limit, s.inner_hits))

SearchCombined(program_expression, line_expression, s) ==
  GroupRows(Ranked(
    MatchedLines(line_expression, MatchedPrograms(program_expression), s.filter),
    s.limit, s.inner_hits))

SearchProgramMetadata(expression, s) ==
  LET rows == {[recording |-> r, id |-> ids[r]] :
                 r \in {q \in MatchedPrograms(expression) : Passes(s.filter, q)}}
      newest == First(Sorted(rows, Newer), s.limit)
  IN  [i \in DOMAIN newest |-> Item(newest[i], <<>>)]

Items(s) == {s[i] : i \in DOMAIN s}

(* Slip: the merge is cut before it is sorted.                              *)
MergedUnsorted(by_line, by_program, limit) ==
  LET seen == {x.id : x \in Items(by_line)}
      cut == First(by_line \o SelectSeq(by_program, LAMBDA x : x.id \notin seen), limit)
  IN  Sorted(Items(cut), Newer)

(* search_general after its two statements.                                  *)
Merged(by_line, by_program, limit) ==
  LET seen == {x.id : x \in Items(by_line)}
  IN  First(Sorted(Items(by_line) \cup {x \in Items(by_program) : x.id \notin seen}, Newer),
            limit)

MonthOf(at) == at \div (DaySeconds * MonthDays)

ListPrograms(stream, month) ==
  Sorted({r \in Rows : r.stream = stream /\ MonthOf(r.at) = month},
         LAMBDA r, q : r.at < q.at)

-----------------------------------------------------------------------------
(* A search request: three expressions as tokens, empty when absent or       *)
(* blank, the filter as given, and the two limits.                           *)

Clamp(n, low, high) == IF n < low THEN low ELSE IF n > high THEN high ELSE n

ExpandFrom(b) ==
  IF b = Null THEN Null
  ELSE b.day * DaySeconds + (IF b.at = Null THEN 0 ELSE b.at)

ExpandTo(b) ==
  IF b = Null THEN Null
  ELSE b.day * DaySeconds + (IF b.at = Null THEN DaySeconds - 1 ELSE b.at)

Search(req) ==
  [filter |-> [stream |-> req.stream, from |-> ExpandFrom(req.from),
               to |-> ExpandTo(req.to), genre |-> req.genre],
   limit |-> Clamp(req.limit, 1, MaxLimit),
   inner_hits |-> Clamp(req.inner_hits, 1, MaxInnerHits)]

(* parse_genre_filter                                                        *)
BadGenre(genre) ==
  /\ genre # Null
  /\ \/ genre = Invalid
     \/ genre.level1 > 15
     \/ genre.level2 # Null /\ genre.level2 > 15

BadFilter(req) ==
  \/ Invalid \in {req.stream, req.from, req.to}
  \/ BadGenre(req.genre)
  \/ /\ Null \notin {req.from, req.to}
     /\ ExpandFrom(req.from) > ExpandTo(req.to)

Given(req) == {f \in {"q", "program_q", "line_q"} : req[f] # <<>>}

(* SearchMode::resolve                                                       *)
BadExpression(req) ==
  \/ \E f \in {"q", "program_q", "line_q"} : Len(req[f]) > MaxExpression
  \/ Given(req) = {}
  \/ "q" \in Given(req) /\ Given(req) # {"q"}
  \/ \E f \in Given(req) : ~Parsed[req[f]].ok

BadRequest(req) == BadFilter(req) \/ BadExpression(req)

ByLineOf(req) == SearchCaptions(Parsed[req.q], Search(req))

ByProgramOf(req) == SearchProgramMetadata(Parsed[req.q], Search(req))

(* The answer when no commit comes between the statements.                   *)
ItemsOf(req) ==
  CASE Given(req) = {"q"} -> Merged(ByLineOf(req), ByProgramOf(req), Search(req).limit)
    [] Given(req) = {"program_q"} -> SearchProgramMetadata(Parsed[req.program_q], Search(req))
    [] Given(req) = {"line_q"} -> SearchCaptions(Parsed[req.line_q], Search(req))
    [] OTHER -> SearchCombined(Parsed[req.program_q], Parsed[req.line_q], Search(req))

Respond(req) ==
  IF ~ready THEN Reply(503, <<>>)
  ELSE IF BadRequest(req) THEN Reply(400, <<>>)
  ELSE Reply(200, ItemsOf(req))

(* GET /api/months and /api/programs.  Invalid: a name that is empty, `.`,   *)
(* `..` or not its own sanitised form, or a month that is not one.           *)
ListReply(names, items) ==
  IF ~ready THEN Reply(503, <<>>)
  ELSE IF Invalid \in names THEN Reply(400, <<>>)
  ELSE Reply(200, items)

(* From the directories: a month lasts while it has a file.                  *)
Months(stream) ==
  LET present == {MonthOf(p.at) : p \in {q \in PresentPaths : q.stream = stream}}
  IN  ListReply({stream}, Sorted(present, LAMBDA m, n : m < n))

ProgramsOf(stream, month) == ListReply({stream, month}, ListPrograms(stream, month))

-----------------------------------------------------------------------------
(* The writer.                                                               *)

OpenDatabase ==
  /\ ~ready
  /\ ready' = TRUE
  /\ UNCHANGED <<storedVars, request, lasting>>

RemovedPaths == {p \in Path : files[p].state = "removed"}

Written == FoldFunction(LAMBDA f, n : Len(f.lines) + n, 0, files)

(* A file begins with an EIT (ArchiveStore), and comes with it at once: an   *)
(* empty one has no program row.                                             *)
StartFile(p, line) ==
  /\ files[p].state = "unused" /\ IsEit(line)
  /\ files' = [files EXCEPT ![p] = WithNewline(Created, line)]
  /\ UNCHANGED <<dbVars, tx>>

(* A line at once: no query looks at a file between its text and newline.    *)
AppendLine(p, line) ==
  /\ files[p].state = "open"
  /\ Len(files[p].lines) < MaxLines
  /\ files' = [files EXCEPT ![p] = WithNewline(WithText(@), line)]
  /\ UNCHANGED <<dbVars, tx>>

(* The outcomes that change a row, stat and commit at once: a file that grew *)
(* between them is skipped, or read as it is at the commit.                  *)
IngestFile(p) ==
  /\ Present(p)
  /\ MarkCollisionLoser(p) \/ IndexNewLines(p, Size(files[p]))
  /\ UNCHANGED <<files, tx>>

(* Title, description and genres are replaced with the row's EIT.            *)
Describe ==
  described' = [r \in Recordings |->
    IF programs'[r] = Null THEN Null
    ELSE IF programs'[r] = programs[r] THEN described[r]
    ELSE files[programs'[r].path].lines[programs'[r].eit]]

(* The triggers of the schema: a row that goes or changes is deleted from    *)
(* the index with its old text, a new or changed one is inserted.            *)
Triggered(fts, old, new) == (fts \ (old \ new)) \cup (new \ old)

CaptionTriggers == caption_fts' = Triggered(caption_fts, CaptionRows, CaptionRows')

ProgramTriggers == program_fts' = Triggered(program_fts, ProgramRows, ProgramRows')

(* A file removed while it is read stays readable through its handle.        *)
KeepHandle ==
  request' =
    IF request # Null /\ request.kind = "raw" /\ request.stage = "reading"
         /\ Present(request.path) /\ files'[request.path].state = "removed"
      THEN [request EXCEPT !.unlinked = files[request.path].lines]
      ELSE request

CaptionMatches(req) == {x.recording : x \in
  MatchedLines(Parsed[req.q], Rows, Search(req).filter)}

MetadataMatches(req) ==
  {r \in MatchedPrograms(Parsed[req.q]) : Passes(Search(req).filter, r)}

StillMatching ==
  lasting' = IF request = Null \/ request.kind # "search" THEN lasting
             ELSE [captions |-> lasting.captions \cap CaptionMatches(request.search)',
                   metadata |-> lasting.metadata \cap MetadataMatches(request.search)']

WriterStep ==
  /\ \/ ready /\ (CleanupDeleted \/ \E p \in Path : IngestFile(p))
     \/ /\ Written < MaxWritten
        /\ \E p \in Recorded, line \in Lines : StartFile(p, line) \/ AppendLine(p, line)
     \/ Cardinality(RemovedPaths) < MaxRemoved /\ \E p \in Path : RemoveFile(p)
  /\ AssignIds
  /\ Describe
  /\ CaptionTriggers
  /\ ProgramTriggers
  /\ KeepHandle
  /\ StillMatching
  /\ UNCHANGED ready

-----------------------------------------------------------------------------
(* A search by `q`.                                                          *)

SearchFirst(req) ==
  /\ request = Null /\ ready
  /\ ~BadRequest(req) /\ Given(req) = {"q"}
  /\ request' = [kind |-> "search", search |-> req, by_line |-> ByLineOf(req)]
  /\ lasting' = [captions |-> CaptionMatches(req), metadata |-> MetadataMatches(req)]
  /\ UNCHANGED <<storedVars, ready>>

SearchItems ==
  Merged(request.by_line, ByProgramOf(request.search), Search(request.search).limit)

(* Answers with SearchItems.                                                 *)
SearchSecond ==
  /\ request # Null /\ request.kind = "search"
  /\ request' = Null /\ lasting' = Nothing
  /\ UNCHANGED <<storedVars, ready>>

-----------------------------------------------------------------------------
(* GET /api/programs/{stream}/{recording_started_at}: find_indexed_program,  *)
(* symlink_metadata, open, then chunks until a read returns nothing.         *)
(* shown (history): what the index had of the recording at the first step.   *)

Asking(stage) == request # Null /\ request.kind = "raw" /\ request.stage = stage

RawFind(r) ==
  /\ request = Null /\ ready /\ programs[r] # Null
  /\ request' = [kind |-> "raw", stage |-> "found", path |-> programs[r].path,
                 body |-> <<>>, unlinked |-> Null, shown |-> captions[r]]
  /\ UNCHANGED <<storedVars, ready, lasting>>

RawStat ==
  /\ Asking("found") /\ Present(request.path)
  /\ request' = [request EXCEPT !.stage = "checked"]
  /\ UNCHANGED <<storedVars, ready, lasting>>

RawOpen ==
  /\ Asking("checked") /\ Present(request.path)
  /\ request' = [request EXCEPT !.stage = "reading"]
  /\ UNCHANGED <<storedVars, ready, lasting>>

(* NotFound from the stat or from the open: status 404.                      *)
RawGone ==
  /\ Asking("found") \/ Asking("checked")
  /\ ~Present(request.path)
  /\ request' = Null
  /\ UNCHANGED <<storedVars, ready, lasting>>

(* Slip: every chunk opens the path again.                                   *)
ContentByPath == files[request.path].lines

(* The file behind the open handle.                                          *)
Content == IF request.unlinked = Null THEN files[request.path].lines ELSE request.unlinked

RawRead ==
  /\ Asking("reading")
  /\ Len(request.body) < Len(Content)
  /\ request' = [request EXCEPT !.body = First(Content, Len(@) + ChunkLines)]
  /\ UNCHANGED <<storedVars, ready, lasting>>

(* Answers with the body.                                                    *)
RawEnd ==
  /\ Asking("reading")
  /\ Len(request.body) >= Len(Content)
  /\ request' = Null
  /\ UNCHANGED <<storedVars, ready, lasting>>

QueryNext ==
  \/ OpenDatabase
  \/ WriterStep
  \/ \E req \in Requests : SearchFirst(req)
  \/ SearchSecond
  \/ \E r \in Recordings : RawFind(r)
  \/ RawStat
  \/ RawOpen
  \/ RawGone
  \/ RawRead
  \/ RawEnd

QuerySpec == QueryInit /\ [][QueryNext]_queryVars

-----------------------------------------------------------------------------
(* What a search means, without a parser, ranks or a merge.                  *)

AskedLines ==
  [tokens \in DOMAIN Parsed |-> {line \in Lines : Asks(tokens, Columns[line])}]

TitleAsks(tokens, r) == described[r] \in AskedLines[tokens]

Hits(tokens, r) == {c \in captions[r] : c.text \in AskedLines[tokens]}

HitsOf(req, r) ==
  IF "q" \in Given(req) THEN Hits(req.q, r)
  ELSE IF "line_q" \in Given(req) THEN Hits(req.line_q, r) ELSE {}

Wanted(req, r) ==
  CASE "q" \in Given(req) -> TitleAsks(req.q, r) \/ Hits(req.q, r) # {}
    [] OTHER -> /\ "program_q" \in Given(req) => TitleAsks(req.program_q, r)
                /\ "line_q" \in Given(req) => Hits(req.line_q, r) # {}

InRange(req, r) ==
  LET day == r.at \div DaySeconds
      second == r.at % DaySeconds
      NotBefore(b) == day > b.day \/ (day = b.day /\ (b.at = Null \/ second >= b.at))
      NotAfter(b) == day < b.day \/ (day = b.day /\ (b.at = Null \/ second <= b.at))
  IN  /\ req.from # Null => NotBefore(req.from)
      /\ req.to # Null => NotAfter(req.to)

Answers(items, req) ==
  LET asked == {r \in Rows : /\ Wanted(req, r) /\ InRange(req, r)
                             /\ req.stream \in {Null, r.stream}
                             /\ req.genre # Null => Passes(Search(req).filter, r)}
      NewerRow(r, q) == r.at > q.at \/ (r.at = q.at /\ ids[r] > ids[q])
      newest == {r \in asked : Cardinality({q \in asked : NewerRow(q, r)}) < Search(req).limit}
      FirstHits(r) == {c \in HitsOf(req, r) :
        Cardinality({d \in HitsOf(req, r) : ByLine(d, c)}) < Search(req).inner_hits}
  IN  /\ {items[i].recording : i \in DOMAIN items} = newest
      /\ \A i, j \in DOMAIN items :
           i < j => NewerRow(items[i].recording, items[j].recording)
      /\ \A i \in DOMAIN items :
           /\ Items(items[i].hits) = {c.line_no : c \in FirstHits(items[i].recording)}
           /\ \A k, l \in DOMAIN items[i].hits : k < l => items[i].hits[k] < items[i].hits[l]

Acceptable(req) ==
  /\ Given(req) \in {{"q"}, {"program_q"}, {"line_q"}, {"program_q", "line_q"}}
  /\ \A f \in Given(req) : Len(req[f]) <= MaxExpression /\ WellFormed(req[f])
  /\ Invalid \notin {req.stream, req.from, req.to, req.genre}
  /\ req.genre # Null => {req.genre.level1, req.genre.level2} \subseteq (0..15) \cup {Null}
  /\ Null \notin {req.from, req.to} => ExpandFrom(req.from) <= ExpandTo(req.to)

(* From month to month a client finds every indexed program, oldest first,   *)
(* except those of a month whose last file is gone.                          *)
Listed(stream) ==
  LET months == Months(stream).items
      all == Seqs!FlattenSeq([k \in DOMAIN months |-> ProgramsOf(stream, months[k]).items])
      lost == {r \in Rows : r.stream = stream} \ Items(all)
  IN  /\ Items(all) \subseteq {r \in Rows : r.stream = stream}
      /\ \A i, j \in DOMAIN all : i < j => all[i].at < all[j].at
      /\ \A r \in lost, p \in PresentPaths :
           p.stream = stream => MonthOf(p.at) # MonthOf(r.at)

(* In every state of the database a search returns, newest first, the        *)
(* `limit` newest programs that its expressions and filter ask for, with     *)
(* the first `inner_hits` matching lines of each, and is refused exactly     *)
(* when an expression has an empty term or the fields contradict one another *)
(* (text.rs:34-95, query.rs:132-409, query_service.rs:230-468), and the      *)
(* months of a stream list what is indexed of it.  Triggers of the schema    *)
(* keep both full-text indexes (20260713000000_search_schema.sql:164-202).   *)
StatementsExact ==
  request = Null =>
    /\ \A req \in Requests :
         LET reply == Respond(req)
         IN  IF ~ready THEN reply.status = 503
             ELSE /\ (reply.status = 200) <=> Acceptable(req)
                  /\ Acceptable(req) => Answers(reply.items, req)
    /\ ready => \A stream \in Streams : Listed(stream)

(* The id of a program that the first statement found now is another's.      *)
Renumbered ==
  \E x \in Items(request.by_line), r \in Rows : ids[r] = x.id /\ r # x.recording

(* A search by `q` reads captions and metadata in two statements, and the    *)
(* writer may commit between them.  Its answer still is in order and within  *)
(* the limit; a program that kept matching in one of the two ever since is   *)
(* in it unless newer ones fill it - for a match by title only while no new  *)
(* program took the id of one that was found and deleted - and a program     *)
(* that was found by its captions keeps its hits (query.rs:351-390).         *)
GeneralComplete ==
  [][SearchSecond =>
       LET items == SearchItems
           limit == Search(request.search).limit
           NewerThan(item, r) ==
             \/ item.recording.at > r.at
             \/ item.recording.at = r.at /\ item.id > ids[r]
       IN  /\ Len(items) <= limit
           /\ \A i, j \in DOMAIN items : i < j => Newer(items[i], items[j])
           /\ \A r \in lasting.captions \cup (IF Renumbered THEN {} ELSE lasting.metadata) :
                \/ \E i \in DOMAIN items : items[i].recording = r
                \/ Len(items) = limit /\ \A i \in DOMAIN items : NewerThan(items[i], r)
           /\ \A i \in DOMAIN items :
                \A x \in Items(request.by_line) : x.id = items[i].id => items[i] = x
    ]_queryVars

(* A client that goes from a program in the index to its raw file finds each *)
(* indexed caption at its line number, although the file grows, loses the    *)
(* recording to another file or is removed while it is read                  *)
(* (query_service.rs:350-384, archive.rs:456-483, server.rs:337-357).        *)
RawShowsIndexed ==
  [][RawEnd =>
       \A c \in request.shown :
         c.line_no <= Len(request.body) /\ request.body[c.line_no] = c.text
    ]_queryVars
=============================================================================
