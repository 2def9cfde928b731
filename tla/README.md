# aribcap-db in TLA+

aribcap-db records ARIB captions.  It keeps one HTTP connection per stream open
to a tuner, writes the JSON lines it receives to an archive of JSONL files (one
file per broadcast programme), indexes those files incrementally into SQLite,
removes expired files, and serves live lines and searches over HTTP and MCP.

This directory models the path of a line - from the upstream connection to the
archive, to the live readers, to the search index and from there to the answers
of queries - and the processes that do this work, and checks and proves that
nothing is lost, mixed up or shown wrongly on the way.

    tlc -config MCArchiveMaintenance.cfg MCArchiveMaintenance.tla
    tlapm ArchiveMaintenanceProofs.tla

## 1. Inventory of the system

| Component (source) | State | Operations | What makes it correct |
|---|---|---|---|
| Archive recorder (`archive.rs`) | per stream the active file and its programme key; `dirty_paths`: path -> generation; both under one mutex | `handle_line`, `deactivate_stream`, `dirty_paths`, `clear_dirty_path_if_unchanged`, `active_paths` | a file holds whole lines of one programme; no line is lost between an EIT and the next; every append is announced to the indexer |
| Search indexer (`search_db/ingest.rs`, `record.rs`, `db.rs`, the schema) | `programs`, `caption_lines`, `indexed_files` with an offset | `ingest_file` (stat, open, one transaction), `cleanup_deleted`, rebuild | the index equals what the indexed part of each file says, however indexing is split into passes; files of one second do not corrupt each other's rows |
| Archive maintenance (`search_db/indexer.rs`, `gc_expired` in `archive.rs`) | connection, `search_db_ready`, `cleanup_pending`, time of the next collection | full scan, dirty pass, cleanup, garbage collection, shutdown pass | every line is indexed eventually; a file being recorded is not removed; rows of removed files go |
| Service supervisor (`serve.rs`) | the ingest, HTTP and maintenance tasks, two shutdown signals | start, restart after a failure or panic, ordered shutdown, bounded drain | ingest stops before maintenance makes its last pass; a service that is told to stop ends |
| Upstream tail (`tail.rs`, `stream.rs`) | connection, bounded queue of lines, `LineBuffer` | connect, read, split into lines, reconnect after 15 s, abort with a timeout | one consumer per stream; lines of one connection do not meet the state of the next |
| Live broadcast (`live.rs`, `server.rs`) | a broadcast channel of 256 lines per stream, the open responses | publish, subscribe, lag, shutdown | a reader gets the lines in order, loses only the oldest to lag, and ends at shutdown |
| Search queries (`search_db/query.rs`, `query_service.rs`, `server.rs`) | a pool of read-only connections | search, months, programmes, raw file, caption pages | an answer is what was asked for, whatever the writer does meanwhile |
| Search expressions (`search_db/text.rs`) | none | parse, normalise, make an FTS5 query | the parser accepts and the index finds what the expression means |
| HTTP listeners (`serve.rs`, `server.rs`) | sockets, the lock file of a Unix socket path, blocking calls under way | lock, probe a stale socket, unlink, bind, serve, drain | the listener that serves is the one that clients reach; what another program has at the path when it is probed is not removed |
| Data directory lock (`search_db/lock.rs`) | a lock file | take, fail at once | one writer per data directory |
| `aribcap-tail` (`render.rs`) | none | print lines | no control character reaches the terminal; enough of a line is shown |
| MCP server, configuration, command line, docs generators | none that changes over time | | |

Interactions.  The recorder and the maintenance task run in different tasks and
share the files on disk and the mutex-protected store.  The recorder writes a
file while the indexer reads it, without any lock on the file.  The store mutex
is released while a new archive file is created and given its first line, and
the indexer takes it once to copy the dirty table and again to clear each mark.
Garbage collection copies the set of active paths and then walks the
directories.  The supervisor joins the ingest tasks before it tells the
maintenance task to stop.  A line is published to the live readers before it is
archived.  Queries read the database and, for a raw request, the files, without
any lock against the writer; a search and a caption page are two statements
each.  Processes meet at two lock files: that of a data directory, which a
service and `search-rebuild` take, and that of a Unix socket path.

Hard behaviours, all listed with their lines under `hazards` in `PROJECT.json`:

* a line appended between the indexer's read and the clearing of its mark;
* a size taken by a stat and used after the file grew;
* a pass that ends between a line's text and its newline, or between an EIT and
  the captions that follow it;
* two files of one stream and one second, which compete for one programme row;
* a crash that leaves an unterminated line or a file shorter than its offset;
* a programme change while a connection is down;
* a collection that runs while a file is being created; one cut short by
  shutdown or by an error;
* panics and failures of the maintenance task, and its last pass;
* chunks of a response that end inside a character or a CRLF; live readers that
  lag, and a shutdown while lines wait for them;
* an HTTP task that panics and is restarted while its old listener still holds
  the socket; two processes that find one stale socket; a removal that is run
  after the attempt it belongs to was dropped with its lock;
* statements of one request with commits of the indexer between them; ranks and
  limits at their boundaries; full-text indexes kept by triggers;
* a file that is removed, or loses its recording, while it is being served.

## 2. The modules

    ArchiveFiles          paths, files on disk
      |-- ArchiveStore        the recorder                   (archive.rs)
      |-- SearchIndex         database, ingest transactions  (search_db/ingest.rs)
      |     `-- IndexWriter       programs.id, the writer as queries see it
      |           |-- CaptionPaging   a client that pages through captions
      |           `-- ArchiveQueries  search, lists and raw files
      |                 |             (search_db/query.rs, query_service.rs)
      |                 `-- SearchExpressions     (search_db/text.rs)
      `-- ArchiveMaintenance = ArchiveStore + SearchIndex + the maintenance task
                                and the process              (indexer.rs, serve.rs)
    TailPipeline          supervisors, queues and retries of the upstream
                          connections                        (tail.rs, serve.rs)
    LiveStream            bytes to lines to live responses   (stream.rs, live.rs,
                                                              server.rs)
      `-- LiveFeed            abstract: what a reader is promised
    ServeProcesses        supervisors, listeners, locks      (serve.rs, lock.rs)
      `-- ExclusiveAccess     abstract: one user at a time
    TerminalLines         what aribcap-tail prints           (render.rs)
    <module>Proofs        theorems about SearchIndex, ArchiveMaintenance (with
                          ArchiveStore), TailPipeline, LiveStream,
                          ServeProcesses, CaptionPaging and ArchiveQueries
                          (with SearchExpressions)
    DataLemmas            lemmas about numbers, sets and sequences
    MC<module>            TLC instances

Three refinements are checked and proved: `ArchiveMaintenance` implements
`IndexSpec` (a subset of its variables), `LiveStream` implements `LiveFeed` and
`ServeProcesses` implements `ExclusiveAccess` (by refinement mappings).

`PROJECT.json` maps each definition to the lines it translates.

**ArchiveFiles.**  A path is a record of stream, second, title and suffix: the
month directory is a function of the second.  `PathLess` is the order of the
path strings within one recording second; a suffixed name `x.1.jsonl` sorts
*before* `x.jsonl`.  A file is a sequence of complete lines and a flag for text
without its newline.  A size in bytes is two units per line (text, newline), so
it distinguishes exactly the offsets at which the code can stop.  A removed
path is not created again: its name holds the second of its creation, which has
passed when retention is longer than one `handle_line` call.

**ArchiveStore.**  `rec[s]` is the consumer of stream `s` and where it is in
`handle_line`.  `Receive` takes a line and, like the code, the time before the
lock.  The guards of the next steps are the branches of `append_active`:
`SkipInvalidJson`, `SkipNoProgram`, `AppendText`/`AppendNewline` (two writes
under the mutex) or `StartProgram` (mutex released), `OpenArchiveFile`,
`WriteFirstText`, `WriteFirstNewline`, `ReplaceActive` (mutex again).
`HandlerFails` is an error of any open or write: it ends the connection.
`Connect` is `deactivate_stream`.  `since` is a history variable, the lines the
active file ought to hold.

**SearchIndex.**  `IngestStat` records a file's size as the transaction does;
`IngestCommit` is the rest, in the order of the code's early returns:
`SkipSettled`, `MarkCollisionLoser`, `MarkShrunk`, `SkipUnchanged`,
`IndexNewLines`.  The file is read as it is at the commit, so it may have grown
since the stat.  `IndexTail` is the loop over the new lines folded into sets:
the first EIT of the tail creates the programme or takes it over, the last EIT
gives its columns, and captions count once a programme is known.  A programme
row keeps its id while it exists, so the pair (stream, second), unique in the
schema, stands for the id.  `IngestRollback` is any failure of a transaction.
`ArchiveStep` is the most general archive: any recorder or collector, and a
power loss that leaves a prefix of a file, because archive files are not synced.
`IndexSpec` is thereby also the abstract specification of everything the rest
of the system may do to the index.

**ArchiveMaintenance.**  `mpc` follows `run_archive_maintenance`: `apply`
(open), `scan`, `snapshot`, `dirty`, `clear`, `cleanup`, `sleep`, `gc_due`,
`gc_snapshot`, `gc_walk`, `gc_cleanup`, `stopped`.  `phase` tells which of the
three calls of `apply_search_changes` is running.  A directory walk yields each
file present at its start and may yield or miss later ones (`todo`, `known`).
Failures are actions of their own: the database (`DatabaseUnavailable`), a
directory entry (`ScanWalkFails`), one file (`ScanIngestFails`,
`DirtyIngestFails`), cleanup, collection, a panic of the task, the end of the
process with or without lost data, and `CommitsLost`: with `synchronous=NORMAL`
a power failure may undo committed transactions, in the extreme all of them,
and the next process opens an older database than the archive it finds.  A
rebuild that is killed leaves the same state.  Shutdown drops a collection at an
await (`GcCancelled`), but the `remove_file` it waited for runs on a thread for
blocking calls all the same: `late` is that file, and `LateRemove` removes it
at some point of the last pass.  It does so between transactions: a pass that
has a file open reads it whether or not its name is gone, so a removal during
one is as good as a removal before its stat or after its commit.  The process
ends after the calls it has begun, since the runtime waits for them; a process
that is killed may have run them or not, as before.  `failed` is a history variable: paths whose
last attempt failed, which the code logs and does not retry by itself.

**TailPipeline.**  What `ArchiveStore` takes for granted about its input.  One
task per stream runs the producer (`pc`: connect, reading, sleeping) and the
consumer (`hand`) in turn, because the two are branches of one `select!` and
the handler does not await; `delay` is the supervisor's wait after a failed
attempt.  `driver` is `drive_tasks` and the retry loop around it.  An abort
takes hold only between polls, so an abandoned task may go on for the lines in
its queue: each stream has two slots, and the next attempt uses the other one.
Time is a set of count-down timers; `stalled` counts how long the task has had
work to do.  Lines are numbers within a connection (modulo `Period`, more than
can be under way), and become `stale` when the stream is deactivated.

**LiveStream.**  One stream, from bytes to responses.  `PushChunk` appends a
piece of the text that the upstream sends, of any length, and gives the lines
that it completes; a rest that is too long ends the connection, and the
complete lines of that chunk are lost with it (`End` and `Begin` are the place of
a line's newline and of its first byte).  `HandleLine` publishes a line
and then archives it; if that fails the connection ends.  `buffer` and `tail`
are tokio's broadcast channel, `response[r]` a response of `live_stream`: `check`
is the top of its loop, where shutdown is looked at, `select` the wait for a line
or for `shutdown.changed()`.  `LiveFeed` is what a reader is promised, without
connections, chunks or a channel; a lag is one `Withhold` step there.

**ServeProcesses.**  Several processes of `run()` and `search-rebuild`.  `phase`
is where `run()` is in its selects and joins, `ingest`, `maintenance` and `http`
are its tasks.  A listener goes `lock`, `inspect`, `connect`, `remove`, `bind`,
`serving`: each is one system call of `bind_unix_listener`, and other processes
step in between.  An aborted listener lives until its task is dropped, so that a
restarted one may meet it: two slots.  `path` is what the socket path names, a
socket being dead when its listener is gone.  `Killed` and `Vanish` release the
locks and leave the socket file, as the kernel does.

Three things in it outlive what they belong to.

* *Blocking calls.*  The socket lock is taken in `spawn_blocking` and
  `tokio::fs::remove_file` is one too.  `call` is the call that a listener has
  made; `StopsWaiting` (the select of `run_http_server_once`) and
  `AbortedDropped` drop the attempt and its lock, never its call.  `LateLock`
  then takes the lock for nobody, until `LateUnlock` closes the file, and
  `LateRemove` removes whatever the path names by then.
* *Writes.*  `abort_and_join` gives up after its timeout, and a panic of the
  ingest task detaches its stream tasks; a collection may leave a removal.
  `left` is the set of services with such a write under way (`MayLeave`); it
  ends when it likes (`LeftEnds`) or with the process, before or after `run()`
  has returned and dropped the lock of the data directory.
* *Other programs.*  They do not know the lock file.  `StrangerComes` puts one,
  or a file, at the path at any moment, also between a probe and the removal
  that follows it; `StrangerStops` takes it away and leaves a dead socket.  They
  do not remove a socket that is in use.

`decided` is a history variable: the attempts whose look at the path, or whose
decision to remove, is older than what is there now.  `OldRemoval` is the end of
such a removal.

**IndexWriter, CaptionPaging.**  `IndexWriter` is `SearchIndex` with the numeric
`programs.id` and the steps the writer may take while a request is under way
(a crash or a rebuild ends every request).  `SelectProgram` and `SelectCaptions`
are the two statements of a page, each a read of its own; `NextStart` is
`next_start_line`.  The writer may step between any two statements.

**ArchiveQueries.**  `Respond(req)` is the answer to a search in the present
state, as the code computes it: validation in its order, the match in the
full-text index, the join, the filter, `DENSE_RANK` and `ROW_NUMBER`, the limits,
the grouping of neighbouring rows and the merge.  A search by `q` is also two
actions, `SearchFirst` and `SearchSecond`, and a raw request six, with the
writer, the recorder and the collector in between.  `caption_fts` and
`program_fts` are the external-content indexes, kept by the triggers.  Times are
numbers, a day `DaySeconds` of them: bounds of a date alone are expanded as
`expand_to_bound` does.  The second half of the module says what an answer
should be without any of that machinery.

**SearchExpressions.**  The token loop of `parse_search_expression` with its
state, normalisation character by character, phrases over single characters,
and `Asks`, the meaning of an expression in terms of the operators between its
words.

**TerminalLines.**  `normal_body`, `normalize_inline_text`, `truncate_to_width`
and `minimum_body_budget`, and the two predicates `KeepsWords` and `ShowsEnough`.
They are pure; assumptions of `MCTailPipeline` evaluate them on every text of up
to five or six characters of five or three kinds, with widths 0, 1 and 2.

## 3. Runs

| Run | Instance | What it shows |
|---|---|---|
| `archive_store` | 2 streams (symmetric), 2 programmes of one title, 3 suffixes, 2 seconds, 3 received lines, 1 fault | `OneProgramPerFile`, `ActiveFileComplete`, `HandlesOwned` through reconnects, failed opens and writes, a crash |
| `search_index` | 2 colliding files of 3 lines (EIT or caption) | `OwnerConsistent`, `NoFalseShrink`, `CaptionsExact`, and the action properties `ProgramsPersist`, `CaptionsPersist`, over any archive |
| `maintenance` | 1 stream, 2 programmes with 2 titles in one second, 2 lines, 1 fault | `NoLineForgotten`, `ShutdownFlushes`; the composition implements `IndexSpec` |
| `retention` | 1 stream, 3 seconds, retention 2, a call of up to 1 second, 1 fault, fairness | `ActiveNeverCollected`, `StaleRowsOwed`, `EventuallyIndexed`, `StaleRowsGo` |
| `tail_pipeline` | 2 streams, of which one sends a line per connection and the other any number, queue and chunks of 2 lines, 1 failure or panic, delays 3/2/2 (reconnect, abort, retry), stall 1, fairness | `ConnectQuiet`, `OneHandler`, `HandledInOrder`, `Reconnects`, `ShutdownCompletes`; and `TerminalLines` |
| `live_stream` | 2 readers, a channel of 2 lines, lines of up to 3 bytes, 2 texts of 7 bytes cut anywhere, 2 connections, fairness | `LinesExact`, `OneLineAfterShutdown`, `CatchesUp`; implements `LiveFeed` |
| `serve_processes` | 2 services on one socket path, a rebuild on the directory of one, 2 starts, a stale socket or nothing at the path, 1 fault of one service or 1 stranger, fairness | `SocketOwned`, `OthersKept`, `SocketServed`, `ShutdownCompletes`; implements `ExclusiveAccess` |
| `queries` | 3 files of 2 seconds, of which two collide, 3 lines at a time, 1 removal, 16 requests, limits 2 and 2, chunks of 2 lines | `StatementsExact`, `GeneralComplete`, `RawShowsIndexed`; the parser on every expression of up to 5 tokens |
| `caption_paging` | 1 file of up to 7 lines, 2 captions per page | `PagesComplete`, while the file grows and is removed |
| `collision_winner` | as `maintenance`, no fault | violated: see findings |
| `duplicate_alone` | 2 programmes, 2 seconds, retention 1 | violated: see findings |
| `page_torn` | 2 colliding files of 2 lines | violated: see findings |

The larger runs take one to three minutes.  Deadlock is checked in every run
but `tail_pipeline`, which ends when ingest has stopped, `live_stream`, which
ends when the upstream and the clients have gone, and `serve_processes`, which
ends when the bound on starts is reached; in the composition a stopped process
can always be restarted.

**Why the bounds are enough.**  Each hazard needs a small number of things.  A
collision needs two files of one second, and a takeover needs a pass before the
first EIT, one between the EIT and a caption, and one after: three lines.  A
mixed file needs two programmes; a second handle needs two streams and a
reconnect.  A lost mark needs one write during one pass.  Collection against
recording needs a second in which the file is created, a later second in which
the cut-off is taken and one more for a stall.  `MaxFaults = 1` puts one failure
at every step; hazards of two failures are not covered by TLC.  `MaxLines`,
`MaxHeard`, `MaxFaults`, `Suffixes` and `Seconds` only stop the environment:
no action of the recorder or the task is guarded by one of them, except that a
behaviour in which `create_new` would need more suffixes than `Suffixes` has
stops there.  With suffixes 0..2 and three lines that does not happen in
`archive_store`; in the other runs two files of one second have two titles.

The delays of `tail_pipeline` stand in the relation `InTime`, which with one
more bound is `BacklogBounds` and evaluated by TLC: a full queue is handled
within the reconnect delay (256 lines in 15 s), an abandoned attempt ends before
the next one begins, and yet an attempt can outlast the abort timeout.  The
first two are assumptions about the disk that the code does not enforce: with a
slower one, lines of the old connection are handled after the stream was
deactivated.  With two places in the queue and chunks of up to two lines, a
chunk of two meets a queue that is empty, has one place or is full, and lines
wait behind each other in both; the second stream needs only to be there, to be
disturbed by the first or to disturb it.

In `live_stream` a channel of two lines overflows with three.  A line may have
three bytes: a two-byte character and its CR wait in the buffer for their
newline, so that a CRLF may be cut in two and still be whole (`LinesExact`); the
texts also cut the character, leave half of one, a CR inside a line, an empty
line, and a line of four bytes, one over the limit.  In `serve_processes` a race for
a stale socket needs one process that died and one that binds, or an aborted
listener and its successor; `MaxStarts = 2` gives either, also a service and a
rebuild of one directory.  A late removal needs an attempt that is dropped at its
`remove` and one other that binds: a stale socket at first, a shutdown and a
second service.  A stranger between probe and removal needs nothing else.
`MaxFaults` counts faults and strangers together, and only one service has
faults: what two failures do together is left to the proofs, in which nothing
is bounded.  `queries` needs two programmes to rank and to exceed a
limit, a second EIT to change a row, two captions of one programme to rank
hits, and a file that loses its recording to another.

**Fairness** (`FairSpec` of `ArchiveMaintenance`).  Weak fairness of each stream's `HandleStep` and of
`MaintenanceStep`.  `handle_line` is synchronous and waits only for the store
mutex, which is held for a bounded piece of code; the maintenance task waits
only for a timer and for I/O, and the supervisor starts it again when it
panics.  Nothing is assumed of the upstream, of the clock, of shutdown and
restart, or of the absence of faults (which are finite in number).  Weak
fairness of the whole task, rather than of each action, is enough because its
passes end: each pass works on a copied set.  In `TailPipeline`, time passes,
the driver and each task that can run are weakly fair (the runtime polls what it
has woken) and a handler returns; the upstream, shutdown and faults are free.  In
`LiveStream` only the responses are fair: a client takes what it is given; the
upstream may stop and shutdown need not come.  In `ServeProcesses` each step of
`run()`, of its tasks and of a listener is fair, since each is polled or timed;
that a blocking call is run belongs to it.  Clients are not fair (a connection
may never close, which is what the drain timeout is for), nor are signals,
kills, other programs and the writes that tasks left behind.

### Findings

Three statements of the repository do not hold of the code.

* `collision_winner`: the comment at `ingest.rs:129-131` and a test promise that
  of two files of one second the lexicographically greater path keeps the
  programme.  The comparison is made only for a path that has no
  `indexed_files` row.  A file whose first pass ran before its EIT line was
  complete has one, and takes the programme from a greater path when its EIT
  arrives.
* `duplicate_alone`: a row marked `duplicate` is skipped for good.  The winner
  may be collected in a collection that keeps the duplicate (it was active when
  the collection began); what remains is a file that is on disk and not
  searchable, although the schema says another file has the recording.
* `page_torn`: "Returns one program and a bounded page of its caption lines"
  (`query.rs:436`) is done with two statements and no transaction.  A takeover
  committed between them yields the title and times of one file with the
  captions of the other.  (The id of a deleted programme may also be given to a
  new one, but not before the next pass.)  `PagesComplete` is what holds: as
  long as the programme stays, a client that follows `next_start_line` gets
  every caption once.

Caveats that are not among the runs.  "Active files are never removed"
(`archive.rs:573`) rests on the retention, not on the set of active paths, for a
file that becomes active during the walk, because that set is copied before it.
`ActiveNeverCollected` therefore assumes a retention longer than one
`handle_line` call; with `retention = "0s"`, which the configuration accepts, it
does not hold.

"The returned `LockedUnixListener` holds the lock for its entire lifetime"
(`serve.rs:436`), and the attempt holds it before, but the removal of a stale
socket is not tied to either: an attempt that is dropped while `remove_file`
waits for its thread (the select of `serve.rs:508-510` at shutdown, or an abort)
frees the lock, and the removal is run afterwards.  A successor that has found
the same stale socket, removed it and bound may lose its own socket to it, and
serves where no client finds it.  `SocketOwned` says that this is the only way
to lose it, and `SocketServed` counts such a listener, which cannot notice.  In
the same way a program that does not use the lock file and binds between the
probe and the removal loses its socket (`serve.rs:474-483`), and a file made
between the look and the removal goes: `OthersKept` speaks of what was there
when the attempt looked.

"Hold the data-directory lock for the lifetime of `run`" (`serve.rs:49`) is what
the code does, and `DirectorySpec` shows that this covers every task `run()`
waits for and what they leave behind until it returns.  A stream task that
outlasted `ABORT_JOIN_TIMEOUT` (`tail.rs:339-347`) or was detached by a panic of
`ingest_loop` (`serve.rs:83-88`, `146-156`), or a removal begun by a dropped
collection (`archive.rs:582`), may still be in a write when the lock is gone,
until the process ends; `DirectorySpec` does not speak of that time.

"Prefer them when a program appears in both result sets" (`query.rs:363-364`):
`search_general` takes equal ids for one programme, but its two statements are
not in a transaction and ids are used again.  A programme found by its captions
may be deleted, and a new one inserted with its id, before the titles are read:
the answer then holds the deleted programme and lacks the new one, and because
the new one took a place within the limit of the second statement, another
programme that matches by its title may be missing too.  `GeneralComplete`
allows for exactly this (`Renumbered`), and for matches by title only.

And one gap of a search by `q`: a programme whose title matches when the captions
are read, and whose captions alone match when the titles are read, is in neither
result.  `GeneralComplete` promises a programme that keeps matching in one of the
two.

## 4. Proofs

TLC checks small instances; the theorems below hold for every number of
streams, files, lines, processes, readers, connections, faults and bounds.

| Module | Theorem | Statement |
|---|---|---|
| `SearchIndexProofs` | `IndexTypeCorrect` | `IndexSpec => []IndexTypeOK` |
| | `OwnerCorrect` | `IndexSpec => []OwnerConsistent` |
| | `NoFalseShrinkCorrect` | `IndexSpec => []NoFalseShrink` |
| | `CaptionsExactCorrect` | `IndexSpec => []CaptionsExact` |
| | `ProgramsPersistCorrect`, `CaptionsPersistCorrect` | `IndexSpec => ProgramsPersist`, `IndexSpec => CaptionsPersist` |
| `ArchiveMaintenanceProofs` | `StoreTypeCorrect`, `OneProgramCorrect`, `ActiveFileCorrect`, `HandlesOwnedCorrect` | `StoreSpec => []` of `StoreTypeOK`, `OneProgramPerFile`, `ActiveFileComplete`, `HandlesOwned` |
| | `TypeCorrect` | `Spec => []TypeOK` |
| | `ArchiveImplementsIndex` | `Spec => IndexSpec` |
| | `IndexOfArchive`, `IndexOfArchivePersists`, `RecorderUndisturbed` | what is proved of `IndexSpec` and `StoreSpec` holds of the composition |
| | `StaleRowsCorrect` | `Spec => []StaleRowsOwed` |
| | `ActiveNeverCollectedCorrect` | `MaxStall < Retention` implies `Spec => []ActiveNeverCollected` |
| | `NoLineForgottenCorrect`, `ShutdownFlushesCorrect` | `Spec => []NoLineForgotten`, `Spec => []ShutdownFlushes` |
| `ServeProcessesProofs` | `ProcessTypeCorrect` | `Spec => []ProcessTypeOK` |
| | `SocketOwnedCorrect`, `OthersKeptCorrect` | `Spec => SocketOwned`, `Spec => OthersKept` |
| | `DirectoryExclusive` | `Spec => DirectorySpec` (implements `ExclusiveAccess`) |
| `LiveStreamProofs` | `StreamTypeCorrect`, `LinesExactCorrect`, `OneLineCorrect` | `Spec => []` of `StreamTypeOK`, `LinesExact`, `OneLineAfterShutdown` |
| | `FeedImplemented` | `Spec => FeedSpec` (implements `LiveFeed`) |
| `TailPipelineProofs` | `TailTypeCorrect` | `Spec => []TailTypeOK` |
| | `OneHandlerCorrect`, `ConnectQuietCorrect`, `HandledInOrderCorrect` | `InTime` implies `Spec => []OneHandler`, `Spec => ConnectQuiet`, `Spec => HandledInOrder` |
| `CaptionPagingProofs` | `PagingTypeCorrect`, `PagesCompleteCorrect` | `PagingSpec => []PagingTypeOK`, `PagingSpec => []PagesComplete` |
| `ArchiveQueriesProofs` | `StatementsCorrect` | `QuerySpec => []StatementsExact` |
| | `SearchesComplete`, `RawShows` | `QuerySpec => GeneralComplete`, `QuerySpec => RawShowsIndexed` |
| | `ParserSound` | for every expression: `Parse` accepts it if and only if it is `WellFormed`, and then matches what it `Asks` |

`DataLemmas` holds lemmas only: induction, and what it gives about sets of
numbers, sorting, the first members of an order, folds and joined sequences.

### Assumptions

Each module states what it assumes of its constants in one `ASSUME`, which TLC
evaluates in every run: numbers are naturals, lines have a kind and a
programme, and `Null` is none of the values it stands beside.  Two theorems have
a hypothesis of their own, because the code does not enforce it:

* `MaxStall < Retention` (`ActiveNeverCollectedCorrect`): a `handle_line` call
  takes less time than files are kept.  The set of protected paths is copied
  before the walk, so that a file which becomes active meanwhile is kept by its
  name alone, and its name holds the time before the call.
* `InTime` (the three theorems of `TailPipelineProofs`): a full queue is handled
  within the reconnect delay, and with the line in hand within the abort timeout
  and the retry interval.  With a slower disk the statements are false, as
  section 3 says of the delays; the types need neither.

### The arguments

**The index** (`SearchIndexProofs`).  `OwnerConsistent` needs the types;
`CaptionsExact` needs that the offset lies within the file (`NoFalseShrink`) and
that a linked row owns its recording.  Each theorem uses those already proved as
facts about a state and its successor; the conjunction is the inductive
invariant.  `SamePrefix` says that equal prefixes of two files have equal EITs
and captions, which settles every append; `LaterEits` and `LaterCaptions` split
a file at the old offset; `ExactIndexTail` is the heart: after an incremental
pass the captions kept and those added are together those of the whole indexed
prefix.

**The recorder** (`ArchiveMaintenanceProofs`).  `StoreInv` says for each stream what
its file and its history variable `since` hold at each step of the handler
(`LineAccounted`), which paths are known, and that each open file has an owner.
It is a conjunction over streams, and lemma `OtherStreams` says that a step of
one leaves the conjuncts of the others alone, since every path bears its
stream's name.  Neither `OneProgramPerFile` nor `ActiveFileComplete` is inductive
without the partial states of the handler in between.

**The composition** (`ArchiveMaintenanceProofs`).  `CoreInv` joins `StoreInv`, the
types and `TaskShape`, what the task's program counter implies.  `StepRefines`
then maps each step to a step of `IndexSpec` or a stutter, which needs for
instance that a collector never runs inside a transaction and that a new file's
path was never used.  `NoLineForgotten` is inductive only together with
`OwedInv`: a snapshot of the dirty table is not ahead of the table
(`MarksKnown`), a stat under an unchanged mark covers every line (`StatFresh`,
`ClearFresh`, the latter also of a file that a late removal takes before its
mark is cleared), and the last pass works from marks nobody changes (`LastPass`).
`LateAside` says that the file of a late removal is not being recorded, because
recording is over by then.  For the collector, `SafeFromCollector`
relates the clock, the time in a file's name and the cut-off; for the rows, a collection that removed a file is followed
by a cleanup however it ends.

**Processes** (`ServeProcessesProofs`).  Two invariants over locks.  `DirInv`: where
a process writes it holds its directory's lock; its tasks end before the lock
goes, and what they leave behind is there only until the process ends.
`SocketInv`: from its look to the end of its service a listener holds the lock of
the socket path, so that of these processes nobody else steps between the probe
and the removal.  That alone does not say what a removal does that comes after
its lock: `SocketInv` adds that wherever such a call, or a removal of one's own,
would meet a listener that serves, a live stranger or a file, it was decided
before (`decided`).  `PathStep` lists the four steps that change what is at the
path, and both theorems follow by cases of it.  `DirectoryExclusive` maps the
processes that may write to the set of users of `ExclusiveAccess`.

**The live route** (`LiveStreamProofs`).  `StreamInv` says that the lines given
and the rest in the buffer are those of the bytes brought (`UpstreamInv`), and
that the channel is the end of what was sent (`ChannelInv`).  The first is
preserved because cutting a text at any byte does not change its lines
(`LinesOfChunks`); that they are the lines of the decoded text is
`SplitThenDecode`: no newline hides inside a character.  Both are proved by
induction over the text.  `FeedImplemented` maps a response to its position and
what it has given.

**The upstream tail** (`TailPipelineProofs`).  `TailInv` bounds the work that a
task has left by the time it has left: `Drained` says that what waits when a
connection ends is handled before the delay is over, `Leaves` that an abandoned
attempt ends before the next, and `Ordered` that the queue and the chunk are the
next lines of the connection, modulo `Period`.  Each tick of the clock takes
from both sides, which is where `InTime` enters.

**Paging** (`CaptionPagingProofs`).  `PagingInv` says what a session has read, all
captions before `next_start_line` (`ReadSoFar`), and why a later pass cannot add
one there: captions are numbered within the indexed lines of their file
(`CaptionsNumbered`), and a pass adds beyond them (`TailExtends`).  That a page is
taken from one recording needs ids to be unique (`IdsUnique`), and the order of
its rows is a counting argument about `Sorted`.

**The queries** (`ArchiveQueriesProofs`).  `StoredInv` is what the writer keeps of
all that the statements read: the types and `OwnerConsistent`, ids that are
unique and given to rows only, captions that are the lines of their file
(`FileShows`), and full-text indexes that hold the rows of their tables and no
others, which is what the triggers are for.  On it rest three theorems.

* `RawShows`: `RawSound` carries `FileShows` from the programme that was found to
  the open handle, past appends, takeovers and the removal of the file, and says
  that the body is a prefix of what the handle reads.
* `SearchesComplete`: `SearchSound` says of each programme that still matches that
  the first statement found it or that newer ones fill its limit (`Carried`),
  whatever was committed since; the merge of two such lists is again one
  (`CaptionsCovered`, `MetadataCovered`).
* `StatementsCorrect`: in a state of `StoredInv` every request is answered as it
  should be, so no further invariant is needed.  `Accepted` is the validation
  against `Acceptable`, `FilterPasses` the expanded bounds against days and
  seconds, `TitlesMatched` and `HitsMatched` the joins with the indexes.  A list
  is described by `Lists`: newest first, and its programmes are those with fewer
  than `limit` newer ones (`TopIn`).  `DENSE_RANK` over rows counts programmes
  (`RankOfProgram`), `ROW_NUMBER` counts hits (`HitsRanked`), grouping keeps both
  (`GroupedRows`), and the merge of the first `limit` of two sets holds the first
  `limit` of their union (`TopUnion`, `MergedLists`).  `StreamListed` joins the
  months of a stream.

`ParserSound` is an induction over the tokens.  `Reading` says what the parser's
state means after i of them: the clauses and terms it holds are those between
the operators seen so far, and `parts` is the text since the last one.  A cut at
an operator, or at the end, adds one term and with `OR` one clause (`SpansGrow`,
`CutRead`).

Induction over data.  The induction theorems of the library take a predicate as
an operator parameter, which the provers cannot instantiate.  `DataLemmas` proves
induction over the naturals and over sequences with a *set* in its place, from
the well-foundedness of finite sets under inclusion, and which ranks the members
of a set have.  What `FlattenSeq` gives for an appended sequence, and that
`FoldLeft`, a recursive function on sets of places, goes through a sequence from
left to right (`SubsetRecursion`, `PrefixesFold`), is proved there once, for the
lines of `LiveStream` and for the rows, tokens and months of `ArchiveQueries`.

What the proofs found out about the models: `Decode` had two `CASE` arms that
overlapped (TLC took the first, the logic leaves the choice open), and is now an
`IF`; `CompleteLines` was written with a sort, and is now written with the place
of each newline (`Begin`, `End`), about which one can reason; the relation
between the delays in `MCTailPipeline` was an assumption of that instance and is
now the definition `InTime`; and several modules did not say that `Null` differs
from the values it stands beside.  `GeneralComplete` had promised a place to
every programme that keeps matching; the attempt to prove it met the renumbered
id above, which no run had reached, and the promise now leaves it out.

### Only model-checked

* Liveness: `EventuallyIndexed`, `StaleRowsGo`, `Reconnects`, `CatchesUp`,
  `SocketServed` and both `ShutdownCompletes`.  The prover has no rule for
  fairness or `ENABLED`.
* The formatting of terminal lines: assumptions of `MCTailPipeline`, evaluated on
  every short input.

Every invariant and every action property that a run checks, and the three
refinements, are proved.

## 5. What is left out

Abstractions of the modelled components:

* `size_bytes`, `mtime`, `last_error`, counters and logging; month directories
  and their removal (a failed open stands for losing that race);
* the hour between collections: a collection may be due after any pass;
* queries run beside the writer of `SearchIndex` (`CaptionPaging`,
  `ArchiveQueries`), not beside the whole composition: it implements
  `IndexSpec`, so the writer they see may do whatever it does, crashes and
  rebuilds apart, which end every request;
* `ArchiveStore` and `ArchiveMaintenance` have one consumer per stream, which
  handles a connection's lines before the next connection, and join it without
  a timeout.  `TailPipeline` shows on what that rests; a handler that outlasts
  the abort timeout at shutdown escapes `ShutdownFlushes`;
* `TailPipeline` has no bytes: the limit of `LineBuffer` is one reason for
  `StreamEnds`, which then loses the lines of the chunk (`LiveStream` has the
  bytes); `tail_targets`, used by `aribcap-tail`, is left out;
* `CommitsLost` loses every commit; a loss of the last few only is not modelled.
  `PowerLoss` shortens the archive to a prefix (no zero-filled tails), and one
  file at a time;
* `LiveStream` sends whole texts from a small set, and a reader is in one
  response at a time; streams are independent and one is modelled;
* `ServeProcesses` has one Unix socket per service; TCP listeners, which have
  neither a lock nor a stale socket, are left out;
* `ArchiveQueries`: database errors, the connection pool and its timeouts, the
  list of streams, the encoding of responses; NFKC is taken character by
  character; a month directory is listed while it has a file (the code removes
  an empty one at the end of the collection); within the bounds no caption line
  is replaced by one with another text, so that the delete trigger of captions
  is exercised only by deletions;
* `TerminalLines`: the width of a text is the sum of its characters' widths;
  labels, colours and the mark `[番組]` are left out;
* a panic of the maintenance task during shutdown.

Components not modelled: MCP (a transport over the query service), configuration
and command line (read once at start), logging and the documentation
generators, none of which has state that changes over time.

## 6. Plan

The components with behaviour over time are modelled, and every safety property
that a run checks is proved.  What could follow:

1. `TerminalLines` for texts of every length: `truncate_to_width` and the body
   budget are folds, for which `DataLemmas` now has what is needed.
2. A loss of the last few commits only, between `CommitsLost` and none.
3. `tail_targets`, the producer of `aribcap-tail` without supervisors.
