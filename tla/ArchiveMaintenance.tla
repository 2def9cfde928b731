------------------------- MODULE ArchiveMaintenance -------------------------
(* run_archive_maintenance (search_db/indexer.rs) beside the recorder: one   *)
(* task that keeps the search database in step with the archive and removes  *)
(* expired files, and the process around both (serve.rs): start, shutdown,   *)
(* a panic of the task, the death of the process.                            *)
EXTENDS ArchiveStore, SearchIndex

CONSTANT Retention    \* in seconds

ASSUME RetentionAssumption == Retention \in Nat

VARIABLES
  mpc,              \* where the maintenance task is
  phase,            \* "startup", "steady" or "shutdown"
  conn,             \* the search connection is open and the first scan is over
  ready,            \* search_db_ready
  cleanup_pending,
  todo,             \* paths a directory walk has still to yield
  known,            \* paths the full scan found at its start or has yielded
  snapshot,         \* the pass's copy of dirty, 0 once handled
  cur,              \* the path just ingested, its dirty mark not yet cleared
  protected,        \* active_paths when garbage collection began
  cutoff,
  stopping,         \* "no", "ingest" or "maintenance": which part was told to stop
  late,             \* the file whose removal was dropped with its collection, or Null
  failed            \* history: paths whose last attempt at indexing failed

passVars == <<todo, known, snapshot, cur, protected, cutoff>>
taskVars == <<mpc, phase, conn, ready, cleanup_pending, passVars, failed>>
recorderVars == <<clock, active, dirty, rec, onair, since, heard, faults>>
vars == <<files, recorderVars, dbVars, tx, taskVars, stopping, late>>

NoSnapshot == [p \in Path |-> 0]

ActivePaths == {active[s].path : s \in {t \in Streams : active[t] # Null}}

TaskInit ==
  /\ mpc = "apply" /\ phase = "startup"
  /\ conn = FALSE /\ ready = FALSE /\ cleanup_pending = TRUE
  /\ todo = {} /\ known = {} /\ snapshot = NoSnapshot /\ cur = Null
  /\ protected = {} /\ cutoff = 0
  /\ failed = {}

Init ==
  /\ StoreInit
  /\ IndexInit
  /\ TaskInit
  /\ stopping = "no" /\ late = Null

Fault == faults < MaxFaults /\ faults' = faults + 1

mostRecorderVars == <<clock, active, rec, onair, since, heard>>

-----------------------------------------------------------------------------
(* apply_search_changes: open and scan once, then the dirty paths, then the  *)
(* rows of removed files.                                                    *)

(* readiness is published before the scan *)
OpenDatabase ==
  /\ mpc = "apply" /\ ~conn
  /\ mpc' = "scan" /\ ready' = TRUE
  /\ todo' = PresentPaths /\ known' = PresentPaths
  /\ UNCHANGED <<files, recorderVars, dbVars, tx, phase, conn, cleanup_pending,
                 snapshot, cur, protected, cutoff, stopping, late, failed>>

AfterPass ==
  CASE phase = "startup"  -> "sleep"
    [] phase = "steady"   -> "gc_due"
    [] phase = "shutdown" -> "stopped"

DatabaseUnavailable ==
  /\ mpc = "apply" /\ ~conn
  /\ Fault
  /\ mpc' = AfterPass /\ ready' = FALSE
  /\ failed' = PresentPaths
  /\ UNCHANGED <<files, mostRecorderVars, dirty, dbVars, tx,
                 phase, conn, cleanup_pending, passVars, stopping, late>>

ReuseConnection ==
  /\ mpc = "apply" /\ conn
  /\ mpc' = "snapshot"
  /\ UNCHANGED <<files, recorderVars, dbVars, tx, phase, conn, ready,
                 cleanup_pending, passVars, stopping, late, failed>>

(* The walk may or may not see a file created after it began.                *)
ScanStat(p) ==
  /\ mpc = "scan"
  /\ p \in todo \/ p \notin known
  /\ IngestStat(p)
  /\ todo' = todo \ {p} /\ known' = known \cup {p}
  /\ UNCHANGED <<recorderVars, mpc, phase, conn, ready, cleanup_pending,
                 snapshot, cur, protected, cutoff, stopping, late, failed>>

ScanCommit ==
  /\ mpc = "scan"
  /\ IngestCommit
  /\ failed' = failed \ {tx.path}
  /\ UNCHANGED <<recorderVars, mpc, phase, conn, ready, cleanup_pending,
                 passVars, stopping, late>>

ScanIngestFails ==
  /\ mpc = "scan"
  /\ IngestRollback
  /\ Fault
  /\ failed' = failed \cup {tx.path}
  /\ UNCHANGED <<mostRecorderVars, dirty, mpc, phase, conn, ready, cleanup_pending,
                 passVars, stopping, late>>

(* A directory or an entry cannot be read: the walk goes on without it.      *)
ScanWalkFails(p) ==
  /\ mpc = "scan" /\ tx = Null /\ p \in todo
  /\ Fault
  /\ todo' = todo \ {p}
  /\ failed' = failed \cup {p}
  /\ UNCHANGED <<files, mostRecorderVars, dirty, dbVars, tx, mpc, phase, conn, ready,
                 cleanup_pending, known, snapshot, cur, protected, cutoff, stopping, late>>

ScanEnd ==
  /\ mpc = "scan" /\ tx = Null /\ todo = {}
  /\ mpc' = "snapshot" /\ conn' = TRUE /\ known' = {}
  /\ UNCHANGED <<files, recorderVars, dbVars, tx, phase, ready, cleanup_pending,
                 todo, snapshot, cur, protected, cutoff, stopping, late, failed>>

SnapshotDirtyPaths ==
  /\ mpc = "snapshot" /\ LockFree
  /\ snapshot' = dirty
  /\ mpc' = "dirty"
  /\ UNCHANGED <<files, recorderVars, dbVars, tx, phase, conn, ready,
                 cleanup_pending, todo, known, cur, protected, cutoff, stopping, late, failed>>

(* Slip: the current generation is subtracted.                               *)
HandledBySubtraction(p) == snapshot' = [snapshot EXCEPT ![p] = @ - dirty[p]]

Handled(p) == snapshot' = [snapshot EXCEPT ![p] = 0]

DirtyStat(p) ==
  /\ mpc = "dirty" /\ snapshot[p] # 0
  /\ IngestStat(p)
  /\ UNCHANGED <<recorderVars, taskVars, stopping, late>>

(* The stat of a removed file fails; its mark stays.                         *)
DirtyMissing(p) ==
  /\ mpc = "dirty" /\ tx = Null /\ snapshot[p] # 0 /\ ~Present(p)
  /\ Handled(p)
  /\ UNCHANGED <<files, recorderVars, dbVars, tx, mpc, phase, conn, ready,
                 cleanup_pending, todo, known, cur, protected, cutoff, stopping, late, failed>>

DirtyCommit ==
  /\ mpc = "dirty"
  /\ IngestCommit
  /\ mpc' = "clear" /\ cur' = tx.path
  /\ failed' = failed \ {tx.path}
  /\ UNCHANGED <<recorderVars, phase, conn, ready, cleanup_pending,
                 todo, known, snapshot, protected, cutoff, stopping, late>>

DirtyIngestFails ==
  /\ mpc = "dirty"
  /\ IngestRollback
  /\ Fault
  /\ Handled(tx.path)
  /\ failed' = failed \cup {tx.path}
  /\ UNCHANGED <<mostRecorderVars, dirty, mpc, phase, conn, ready, cleanup_pending,
                 todo, known, cur, protected, cutoff, stopping, late>>

(* Slip: the mark is cleared whatever was written meanwhile.                 *)
ClearedAlways(p) == 0

ClearedIfUnchanged(p) == IF dirty[p] = snapshot[p] THEN 0 ELSE dirty[p]

ClearDirtyPathIfUnchanged ==
  /\ mpc = "clear" /\ LockFree
  /\ dirty' = [dirty EXCEPT ![cur] = ClearedIfUnchanged(cur)]
  /\ Handled(cur)
  /\ cur' = Null /\ mpc' = "dirty"
  /\ UNCHANGED <<files, mostRecorderVars, faults, dbVars, tx, phase, conn, ready,
                 cleanup_pending, todo, known, protected, cutoff, stopping, late, failed>>

DirtyEnd ==
  /\ mpc = "dirty" /\ tx = Null /\ snapshot = NoSnapshot
  /\ mpc' = "cleanup"
  /\ UNCHANGED <<files, recorderVars, dbVars, tx, phase, conn, ready,
                 cleanup_pending, passVars, stopping, late, failed>>

AfterCleanup == IF mpc = "cleanup" THEN AfterPass ELSE "sleep"

(* apply_search_cleanup, in the pass and after garbage collection            *)
SearchCleanup ==
  /\ mpc \in {"cleanup", "gc_cleanup"}
  /\ IF cleanup_pending THEN CleanupDeleted ELSE UNCHANGED <<files, dbVars, tx>>
  /\ cleanup_pending' = FALSE
  /\ mpc' = AfterCleanup
  /\ UNCHANGED <<recorderVars, phase, conn, ready, passVars, stopping, late, failed>>

(* Slip: the request is dropped with the failed attempt.                     *)
CleanupFailsForGood ==
  /\ mpc \in {"cleanup", "gc_cleanup"} /\ cleanup_pending
  /\ Fault
  /\ mpc' = AfterCleanup /\ cleanup_pending' = FALSE
  /\ UNCHANGED <<files, mostRecorderVars, dirty, dbVars, tx, phase, conn, ready,
                 passVars, stopping, late, failed>>

CleanupFails ==
  /\ mpc \in {"cleanup", "gc_cleanup"} /\ cleanup_pending
  /\ Fault
  /\ mpc' = AfterCleanup
  /\ UNCHANGED <<files, mostRecorderVars, dirty, dbVars, tx, phase, conn, ready,
                 cleanup_pending, passVars, stopping, late, failed>>

-----------------------------------------------------------------------------
(* The loop: sleep, pass, and garbage collection when due.                   *)

BeginPass(ph) ==
  /\ phase' = ph /\ mpc' = "apply"
  /\ UNCHANGED <<files, recorderVars, dbVars, tx, conn, ready, cleanup_pending,
                 known, snapshot, cur, stopping, failed>>

Wake ==
  /\ mpc = "sleep"
  /\ BeginPass("steady")
  /\ UNCHANGED <<todo, protected, cutoff, late>>

ShutdownObserved ==
  /\ mpc = "sleep" /\ stopping = "maintenance"
  /\ BeginPass("shutdown")
  /\ UNCHANGED <<todo, protected, cutoff, late>>

GcNotDue ==
  /\ mpc = "gc_due"
  /\ mpc' = "sleep"
  /\ UNCHANGED <<files, recorderVars, dbVars, tx, phase, conn, ready,
                 cleanup_pending, passVars, stopping, late, failed>>

GcStart ==
  /\ mpc = "gc_due"
  /\ mpc' = "gc_snapshot" /\ cutoff' = clock - Retention
  /\ UNCHANGED <<files, recorderVars, dbVars, tx, phase, conn, ready, cleanup_pending,
                 todo, known, snapshot, cur, protected, stopping, late, failed>>

GcSnapshot ==
  /\ mpc = "gc_snapshot" /\ LockFree
  /\ mpc' = "gc_walk" /\ protected' = ActivePaths /\ todo' = PresentPaths
  /\ UNCHANGED <<files, recorderVars, dbVars, tx, phase, conn, ready, cleanup_pending,
                 known, snapshot, cur, cutoff, stopping, late, failed>>

(* Slip: the active files are not looked at.                                 *)
CollectableAny(p) == Present(p) /\ p.at <= cutoff

(* The cut-off instant lies within the second `cutoff`; a name holds the     *)
(* whole second, which comes before that instant.                            *)
Collectable(p) == Present(p) /\ p.at <= cutoff /\ p \notin protected

GcRemove(p) ==
  /\ mpc = "gc_walk"
  /\ Collectable(p)
  /\ RemoveFile(p)
  /\ UNCHANGED <<recorderVars, taskVars, stopping, late>>

(* Slip: cleanup is left to the next process.                                *)
GcFinishedQuietly ==
  /\ mpc' = (IF conn THEN "gc_cleanup" ELSE "sleep")
  /\ todo' = {} /\ protected' = {} /\ cutoff' = 0
  /\ UNCHANGED <<files, mostRecorderVars, dirty, dbVars, tx, phase, conn, ready,
                 cleanup_pending, known, snapshot, cur, stopping, late, failed>>

GcFinished ==
  /\ mpc' = (IF conn THEN "gc_cleanup" ELSE "sleep")
  /\ cleanup_pending' = TRUE
  /\ todo' = {} /\ protected' = {} /\ cutoff' = 0
  /\ UNCHANGED <<files, mostRecorderVars, dirty, dbVars, tx, phase, conn, ready,
                 known, snapshot, cur, stopping, late, failed>>

GcEnd ==
  /\ mpc = "gc_walk"
  /\ \A p \in todo : ~Collectable(p)
  /\ GcFinished
  /\ UNCHANGED faults

(* The first error of the walk or of a removal ends the collection.          *)
GcFails ==
  /\ mpc = "gc_walk"
  /\ Fault
  /\ GcFinished

(* Shutdown drops the collection where it is; cleanup_pending is not set.    *)
(* The call that removes a file runs on another thread and outlives the drop. *)
GcCancelled ==
  /\ mpc \in {"gc_snapshot", "gc_walk"} /\ stopping = "maintenance"
  /\ BeginPass("shutdown")
  /\ late' \in {Null} \cup {p \in Path : mpc = "gc_walk" /\ Collectable(p)}
  /\ todo' = {} /\ protected' = {} /\ cutoff' = 0

(* A pass reads a file it has open whether or not its name is gone, so the   *)
(* removal is as good as one before or after the path's transaction.         *)
LateRemove ==
  /\ late # Null
  /\ RemoveFile(late)
  /\ late' = Null
  /\ UNCHANGED <<recorderVars, taskVars, stopping>>

-----------------------------------------------------------------------------
(* The process: serve.rs stops the ingest tasks, joins them, and only then   *)
(* tells the maintenance task to stop.                                       *)

SignalShutdown ==
  /\ stopping = "no"
  /\ stopping' = "ingest"
  /\ UNCHANGED <<files, recorderVars, dbVars, tx, taskVars, late>>

(* Slip: both parts are told to stop at once.                                *)
IngestNotJoined ==
  /\ stopping = "ingest"
  /\ stopping' = "maintenance"
  /\ UNCHANGED <<files, recorderVars, dbVars, tx, taskVars, late>>

IngestJoined ==
  /\ stopping = "ingest"
  /\ \A s \in Streams : ~Handling(s)
  /\ stopping' = "maintenance"
  /\ UNCHANGED <<files, recorderVars, dbVars, tx, taskVars, late>>

NewTask ==
  /\ mpc' = "apply" /\ phase' = "startup"
  /\ conn' = FALSE /\ cleanup_pending' = TRUE
  /\ todo' = {} /\ known' = {} /\ snapshot' = NoSnapshot /\ cur' = Null
  /\ protected' = {} /\ cutoff' = 0

(* A process ends once the calls it has begun are over, and drops the rest.  *)
NewProcess ==
  /\ LoseStore
  /\ NewTask /\ ready' = FALSE /\ failed' = {}
  /\ stopping' = "no" /\ late' = Null
  /\ UNCHANGED <<clock, onair, heard>>

(* serve.rs starts the task again with the same store.                       *)
MaintenancePanics ==
  /\ stopping = "no" /\ mpc # "stopped"
  /\ Fault
  /\ NewTask
  /\ tx' = Null
  /\ UNCHANGED <<files, mostRecorderVars, dirty, dbVars, ready, stopping, late, failed>>

ProcessDies ==
  /\ Fault
  /\ NewProcess
  /\ \/ \E p \in Path, n \in 0..MaxLines, cut \in BOOLEAN : PowerLoss(p, n, cut)
     \/ PresentPaths = {} /\ tx' = Null /\ UNCHANGED <<files, dbVars>>

Restart ==
  /\ mpc = "stopped"
  /\ NewProcess
  /\ files' = [p \in Path |-> Closed(files[p])]
  /\ UNCHANGED <<dbVars, tx, faults>>

(* Before a process opens the database, commits may be gone, here all of     *)
(* them: a power failure undoes what WAL has not synced, and a search-rebuild *)
(* may have been killed after it deleted the files.                          *)
CommitsLost ==
  /\ mpc = "apply" /\ phase = "startup" /\ ~ready
  /\ DeleteDatabase
  /\ UNCHANGED <<recorderVars, taskVars, stopping, late>>

-----------------------------------------------------------------------------
RecorderStops == stopping # "no"

Recorder ==
  /\ \/ Tick
     \/ \E s \in Streams :
          \/ HandleStep(s)
          \/ Disconnect(s)
          \/ ProgramChangesUnheard(s)
          \/ ~RecorderStops /\ (Connect(s) \/ \E line \in Lines : Receive(s, line))
  /\ UNCHANGED <<dbVars, tx, taskVars, stopping, late>>

MaintenanceStep ==
  \/ OpenDatabase
  \/ ReuseConnection
  \/ \E p \in Path : ScanStat(p)
  \/ ScanCommit
  \/ ScanEnd
  \/ SnapshotDirtyPaths
  \/ \E p \in Path : DirtyStat(p)
  \/ \E p \in Path : DirtyMissing(p)
  \/ DirtyCommit
  \/ ClearDirtyPathIfUnchanged
  \/ DirtyEnd
  \/ SearchCleanup
  \/ Wake
  \/ ShutdownObserved
  \/ GcNotDue
  \/ GcStart
  \/ GcSnapshot
  \/ \E p \in Path : GcRemove(p)
  \/ GcEnd
  \/ GcCancelled

MaintenanceFault ==
  \/ DatabaseUnavailable
  \/ ScanIngestFails
  \/ \E p \in Path : ScanWalkFails(p)
  \/ DirtyIngestFails
  \/ CleanupFails
  \/ GcFails
  \/ MaintenancePanics
  \/ ProcessDies
  \/ CommitsLost

Next ==
  \/ Recorder
  \/ MaintenanceStep
  \/ MaintenanceFault
  \/ SignalShutdown
  \/ IngestJoined
  \/ LateRemove
  \/ Restart

Spec == Init /\ [][Next]_vars

(* The tasks run while the process lives: handle_line never waits but for    *)
(* the store mutex, and the maintenance task waits only for timers and I/O.  *)
(* Upstream, shutdown, restart and every fault are left free.                *)
Fairness ==
  /\ \A s \in Streams : WF_vars(HandleStep(s) /\ UNCHANGED <<dbVars, tx, taskVars, stopping, late>>)
  /\ WF_vars(MaintenanceStep)

FairSpec == Spec /\ Fairness

-----------------------------------------------------------------------------
TypeOK ==
  /\ StoreTypeOK
  /\ IndexTypeOK
  /\ mpc \in {"apply", "scan", "snapshot", "dirty", "clear", "cleanup", "sleep", "gc_due",
              "gc_snapshot", "gc_walk", "gc_cleanup", "stopped"}
  /\ phase \in {"startup", "steady", "shutdown"}
  /\ {conn, ready, cleanup_pending} \subseteq BOOLEAN
  /\ todo \subseteq Path /\ known \subseteq Path /\ protected \subseteq Path
  /\ failed \subseteq Path
  /\ snapshot \in [Path -> Nat]
  /\ cur \in Path \cup {Null}
  /\ cutoff \in Int
  /\ stopping \in {"no", "ingest", "maintenance"}
  /\ late \in Path \cup {Null}

(* Every complete line is in the index, or its file is settled (duplicate,   *)
(* error).                                                                   *)
Covered(p) ==
  indexed[p] # Null /\
    (indexed[p].status # "ok" \/ indexed[p].lines >= Len(files[p].lines))

Registering(p) == \E s \in Streams : rec[s].pc = "first_line" /\ rec[s].path = p

ScanToCome(p) ==
  ~conn /\ (mpc = "scan" => p \in todo \/ (tx # Null /\ tx.path = p))

(* No line is forgotten.  A complete line that is not indexed is still owed  *)
(* to someone: its path is dirty, or about to be registered, or ahead of the *)
(* full scan, or its last attempt failed.  The generation compared under the *)
(* mutex is what keeps a line written between the read of a file and the     *)
(* clearing of its mark (archive.rs:91-106, indexer.rs:38-48).               *)
NoLineForgotten ==
  \A p \in Path :
    Present(p) /\ files[p].lines # <<>> /\ ~Covered(p) =>
      dirty[p] # 0 \/ Registering(p) \/ ScanToCome(p) \/ p \in failed

(* The file a stream is recording is never collected, provided one           *)
(* handle_line call takes less time than the retention (archive.rs:573,      *)
(* 601-630): GC compares names with a cut-off and a set of active paths that *)
(* were both taken earlier.                                                  *)
ActiveNeverCollected ==
  \A s \in Streams :
    /\ active[s] # Null => Present(active[s].path)
    /\ rec[s].path # Null /\ Handling(s) => Present(rec[s].path)

(* A row without a file is about to be cleaned up.  Only a collection that   *)
(* shutdown cancels leaves rows behind, for the next process                 *)
(* (indexer.rs:122, 149-167).                                                *)
StaleRowsOwed ==
  \A p \in Path : indexed[p] # Null /\ ~Present(p) =>
    cleanup_pending \/ mpc = "gc_walk" \/ phase = "shutdown"

(* "Before exiting, the task makes one final attempt to index pending        *)
(* changes" (indexer.rs:108): nothing archived is left for the next process, *)
(* because ingest is joined before the task is told to stop                  *)
(* (serve.rs:140-160).                                                       *)
ShutdownFlushes ==
  mpc = "stopped" =>
    \A p \in Path : Present(p) /\ files[p].lines # <<>> => Covered(p) \/ p \in failed

(* Lines reach the index: every line of a file on disk is eventually indexed *)
(* or its file removed or settled, unless an attempt failed or the process   *)
(* stops.                                                                    *)
EventuallyIndexed ==
  \A p \in Path :
    []<>(\/ Covered(p) \/ ~Present(p) \/ files[p].lines = <<>>
         \/ p \in failed \/ mpc = "stopped")

(* Rows of removed files do not stay: the program disappears from search.    *)
StaleRowsGo ==
  \A p \in Path : []<>(indexed[p] = Null \/ Present(p) \/ mpc = "stopped")

(* "Marks `path` `duplicate` [...] if `path` loses the collision, i.e. if    *)
(* `path` is lexicographically smaller than the path already on file"        *)
(* (ingest.rs:129-131): a recording never passes to a smaller path.          *)
CollisionWinnerGreatest ==
  [][\A r \in Recordings : programs[r] # Null /\ programs'[r] # Null =>
       ~PathLess(programs'[r].path, programs[r].path)]_vars

(* "duplicate: another file has the same stream and recording_started_at"    *)
(* (migrations:138), between passes.                                         *)
DuplicateHasOther ==
  mpc = "sleep" =>
    \A p \in Path :
      files[p].state = "closed" /\ indexed[p] # Null /\ indexed[p].status = "duplicate" =>
        \E q \in Path \ {p} : Recording(q) = Recording(p) /\ Present(q)
=============================================================================
