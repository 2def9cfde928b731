--------------------------- MODULE ServeProcesses ---------------------------
(* Processes of aribcap-db that meet on one machine: run() of serve.rs with  *)
(* its supervised tasks, the Unix socket listener it binds, and              *)
(* search-rebuild (run_rebuild).  Each takes the lock of its data directory; *)
(* the services are configured with one socket path, which has a lock of its *)
(* own.  What ingest and maintenance do is in the other modules: here they   *)
(* are tasks that run or have ended.                                         *)
(*                                                                           *)
(* A listener that was aborted lives until its task is dropped, so a process *)
(* has two slots for listeners; <<p, k>> is the one in slot k.  What a task  *)
(* gives to the threads for blocking calls is run whether or not the task is *)
(* still there: the call to take the socket lock, the removal of a socket.   *)
EXTENDS Integers, FiniteSets

CONSTANTS
  Services,      \* processes of aribcap-db serve
  Rebuilders,    \* processes of aribcap-db search-rebuild
  DataDir,       \* the data directory of each
  Found,         \* what may be at the socket path at first
  Strangers,     \* what others may bring there
  MaxStarts,     \* bound: processes started in all
  Faulty,        \* bound: the processes that have panics, kills, errors, late
                 \* tasks and stuck clients
  MaxFaults,     \* bound: how many of them in all, and comings of strangers
  Null

(* What the socket path names when it is not a listener of these processes:  *)
(* nothing, a regular file, a listener of another program or its dead socket.*)
Absent == <<"absent">>
File == <<"file">>
Stranger == <<"stranger">>
Stale == <<"stale">>

Processes == Services \cup Rebuilders
Dirs == {DataDir[p] : p \in Processes}
Listeners == Services \X {0, 1}

ASSUME ProcessAssumption ==
  /\ DataDir \in [Processes -> Dirs]
  /\ Services \cap Rebuilders = {}
  /\ Null \notin Processes /\ Null \notin Listeners
  /\ Found \subseteq {Absent, File, Stranger, Stale} /\ Strangers \subseteq {File, Stranger}
  /\ MaxStarts \in Nat /\ MaxFaults \in Nat /\ Faulty \subseteq Processes

VARIABLES
  phase,        \* where run() is
  shutdown,     \* shutdown_tx of each service
  ingest, maintenance, http,   \* the tasks of run()
  slot,         \* the slot of the listener that belongs to http
  left,         \* services with a write under way that no task of run() awaits
  listener,     \* what a listener's task does
  call,         \* the blocking call it made, until that has run
  aborted,      \* listeners whose task was aborted
  data_lock,    \* the process that holds the lock of a data directory
  socket_lock,  \* the listener that holds the lock of the socket path
  path,         \* what the socket path names
  decided,      \* history: attempts that looked before what is at the path came
  starts, faults

taskVars == <<ingest, maintenance, http, left>>
processVars == <<phase, shutdown, taskVars>>
socketVars == <<socket_lock, path, decided>>
listenerVars == <<slot, listener, call, aborted, socketVars>>
bounds == <<starts, faults>>
vars == <<processVars, listenerVars, data_lock, bounds>>

Init ==
  /\ phase = [p \in Processes |-> "down"]
  /\ shutdown = [p \in Services |-> FALSE]
  /\ ingest = [p \in Services |-> "off"]
  /\ maintenance = [p \in Services |-> "off"]
  /\ http = [p \in Services |-> "off"]
  /\ slot = [p \in Services |-> 0]
  /\ left = {}
  /\ listener = [id \in Listeners |-> "none"]
  /\ call = [id \in Listeners |-> "none"]
  /\ aborted = {} /\ decided = {}
  /\ data_lock = [d \in Dirs |-> Null]
  /\ socket_lock = Null
  /\ path \in Found
  /\ starts = 0 /\ faults = 0

Fault(p) ==
  /\ p \in Faulty /\ faults < MaxFaults
  /\ faults' = faults + 1 /\ UNCHANGED starts

-----------------------------------------------------------------------------
(* acquire_data_dir_lock, by a service and by a rebuild                      *)

(* Slip: the lock file is the same for every data directory.                 *)
TakesOnlyLock(p) == data_lock[DataDir[p]] = Null /\ data_lock' = [d \in Dirs |-> p]

TakesDataLock(p) ==
  data_lock[DataDir[p]] = Null /\ data_lock' = [data_lock EXCEPT ![DataDir[p]] = p]

(* A process that finds the lock held ends at once.                          *)
Start(p) ==
  /\ phase[p] = "down" /\ starts < MaxStarts
  /\ starts' = starts + 1
  /\ UNCHANGED faults
  /\ \/ /\ TakesDataLock(p)
        /\ phase' = [phase EXCEPT ![p] = IF p \in Services THEN "dry_run" ELSE "rebuild"]
        /\ ingest' = [q \in Services |-> IF q = p THEN "running" ELSE ingest[q]]
        /\ UNCHANGED <<shutdown, maintenance, http, left>>
     \/ /\ data_lock[DataDir[p]] # Null
        /\ UNCHANGED <<processVars, data_lock>>
  /\ UNCHANGED listenerVars

RebuildEnds(p) ==
  /\ phase[p] = "rebuild"
  /\ phase' = [phase EXCEPT ![p] = "down"]
  /\ data_lock' = [data_lock EXCEPT ![DataDir[p]] = Null]
  /\ UNCHANGED <<shutdown, taskVars, listenerVars, bounds>>

-----------------------------------------------------------------------------
(* run()                                                                     *)

Phase(p, from, to) == phase[p] = from /\ phase' = [phase EXCEPT ![p] = to]

Task(task, p, state) == task' = [task EXCEPT ![p] = state]

(* A listener begins an attempt to bind: the lock is taken by a call.        *)
Attempts(id) ==
  /\ listener' = [listener EXCEPT ![id] = "lock"]
  /\ call' = [call EXCEPT ![id] = "lock"]

(* The first select: the dry run, a signal, or the end of ingest.            *)
DryRunEnds(p) ==
  /\ Phase(p, "dry_run", "running")
  /\ Task(maintenance, p, "running") /\ Task(http, p, "running")
  /\ Attempts(<<p, slot[p]>>)
  /\ UNCHANGED <<shutdown, ingest, left, slot, aborted, socketVars, data_lock, bounds>>

SignalShutdown(p) ==
  /\ \/ Phase(p, "dry_run", "stopping_ingest")
     \/ Phase(p, "running", "draining")
  /\ shutdown' = [shutdown EXCEPT ![p] = TRUE]
  /\ UNCHANGED <<taskVars, listenerVars, data_lock, bounds>>

(* A write goes on that a task which has ended would have awaited.  Bound:   *)
(* of a process that has faults.                                             *)
MayLeave(p) == left' = left \/ (p \in Faulty /\ left' = left \cup {p})

(* Its stream tasks are detached, not aborted.                               *)
IngestPanics(p) ==
  /\ ingest[p] = "running" /\ phase[p] \in {"dry_run", "running"} /\ ~shutdown[p]
  /\ Fault(p)
  /\ Task(ingest, p, "ended") /\ MayLeave(p)
  /\ UNCHANGED <<phase, shutdown, maintenance, http, listenerVars, data_lock>>

(* The lock is dropped as run() returns.                                     *)
Returns(p, from) ==
  /\ Phase(p, from, "exiting")
  /\ data_lock' = [data_lock EXCEPT ![DataDir[p]] = Null]

IngestExit(p) ==
  /\ ingest[p] = "ended"
  /\ shutdown' = [shutdown EXCEPT ![p] = TRUE]
  /\ \/ Returns(p, "dry_run")
     \/ Phase(p, "running", "draining") /\ UNCHANGED data_lock
  /\ UNCHANGED <<taskVars, listenerVars, bounds>>

(* A stream task that has not ended ABORT_JOIN_TIMEOUT after its abort is    *)
(* left behind.                                                              *)
IngestStops(p) ==
  /\ shutdown[p] /\ ingest[p] = "running"
  /\ Task(ingest, p, "ended") /\ MayLeave(p)
  /\ UNCHANGED <<phase, shutdown, maintenance, http, listenerVars, data_lock, bounds>>

StoppedEarly(p) ==
  /\ ingest[p] = "ended"
  /\ Returns(p, "stopping_ingest")
  /\ UNCHANGED <<shutdown, taskVars, listenerVars, bounds>>

(* maintenance_task ends by a panic only, and is spawned again.              *)
MaintenancePanics(p) ==
  /\ maintenance[p] = "running"
  /\ Fault(p)
  /\ Task(maintenance, p, "panicked")
  /\ UNCHANGED <<phase, shutdown, ingest, http, left, listenerVars, data_lock>>

MaintenanceRestarts(p) ==
  /\ phase[p] = "running" /\ maintenance[p] = "panicked"
  /\ Task(maintenance, p, "running")
  /\ UNCHANGED <<phase, shutdown, ingest, http, left, listenerVars, data_lock, bounds>>

(* http_task: its JoinSet is dropped with it, which aborts the listener.     *)
(* Bound: the listener of an earlier panic is gone, and its calls.           *)
HttpPanics(p) ==
  /\ http[p] = "running"
  /\ listener[<<p, 1 - slot[p]>>] = "none" /\ call[<<p, 1 - slot[p]>>] = "none"
  /\ Fault(p)
  /\ Task(http, p, "panicked")
  /\ aborted' = aborted \cup {<<p, slot[p]>>}
  /\ UNCHANGED <<phase, shutdown, ingest, maintenance, left, slot, listener, call, socketVars,
                 data_lock>>

HttpRestarts(p) ==
  /\ phase[p] = "running" /\ http[p] = "panicked"
  /\ Task(http, p, "running")
  /\ slot' = [slot EXCEPT ![p] = 1 - @]
  /\ Attempts(<<p, 1 - slot[p]>>)
  /\ UNCHANGED <<phase, shutdown, ingest, maintenance, left, aborted, socketVars, data_lock,
                 bounds>>

(* join! of ingest and http_task, the latter with HTTP_SHUTDOWN_TIMEOUT      *)
HttpDrained(p) ==
  /\ shutdown[p] /\ http[p] = "running" /\ listener[<<p, slot[p]>>] = "none"
  /\ Task(http, p, "ended")
  /\ UNCHANGED <<phase, shutdown, ingest, maintenance, left, listenerVars, data_lock, bounds>>

(* Slip: the join has no timeout.                                            *)
WaitsForClients(p) == FALSE /\ UNCHANGED vars

HttpTimesOut(p) ==
  /\ phase[p] = "draining" /\ http[p] = "running"
  /\ Task(http, p, "ended")
  /\ aborted' = aborted \cup ({<<p, slot[p]>>} \cap {id \in Listeners : listener[id] # "none"})
  /\ UNCHANGED <<phase, shutdown, ingest, maintenance, left, slot, listener, call, socketVars,
                 data_lock, bounds>>

(* maintenance_shutdown_tx                                                   *)
TellMaintenance(p) ==
  /\ ingest[p] = "ended" /\ http[p] \in {"ended", "panicked"}
  /\ Phase(p, "draining", "flushing")
  /\ UNCHANGED <<shutdown, taskVars, listenerVars, data_lock, bounds>>

(* The removal of an expired file, dropped with its collection, is left.     *)
MaintenanceStops(p) ==
  /\ phase[p] = "flushing" /\ maintenance[p] = "running"
  /\ Task(maintenance, p, "ended") /\ MayLeave(p)
  /\ UNCHANGED <<phase, shutdown, ingest, http, listenerVars, data_lock, bounds>>

(* Slip: maintenance is told to stop and not joined.                         *)
ReturnsAtOnce(p) ==
  /\ Returns(p, "flushing")
  /\ UNCHANGED <<shutdown, taskVars, listenerVars, bounds>>

RunReturns(p) ==
  /\ maintenance[p] # "running"
  /\ Returns(p, "flushing")
  /\ UNCHANGED <<shutdown, taskVars, listenerVars, bounds>>

(* What was left behind is over at last.                                     *)
LeftEnds(p) ==
  /\ p \in left
  /\ left' = left \ {p}
  /\ UNCHANGED <<phase, shutdown, ingest, maintenance, http, listenerVars, data_lock, bounds>>

(* The end of a process, of itself or by a kill, frees what it holds.  The   *)
(* socket's file and the lock files stay.                                    *)
Vanish(p) ==
  /\ phase' = [phase EXCEPT ![p] = "down"]
  /\ data_lock' = [data_lock EXCEPT ![DataDir[p]] = IF @ = p THEN Null ELSE @]
  /\ shutdown' = [q \in Services |-> q # p /\ shutdown[q]]
  /\ ingest' = [q \in Services |-> IF q = p THEN "off" ELSE ingest[q]]
  /\ maintenance' = [q \in Services |-> IF q = p THEN "off" ELSE maintenance[q]]
  /\ http' = [q \in Services |-> IF q = p THEN "off" ELSE http[q]]
  /\ left' = left \ {p}
  /\ listener' = [id \in Listeners |-> IF id[1] = p THEN "none" ELSE listener[id]]
  /\ call' = [id \in Listeners |-> IF id[1] = p THEN "none" ELSE call[id]]
  /\ aborted' = {id \in aborted : id[1] # p} /\ decided' = {id \in decided : id[1] # p}
  /\ socket_lock' = IF socket_lock \in {p} \X {0, 1} THEN Null ELSE socket_lock
  /\ UNCHANGED <<slot, path>>

ProcessEnds(p) == phase[p] = "exiting" /\ Vanish(p) /\ UNCHANGED bounds

Killed(p) == phase[p] # "down" /\ Fault(p) /\ Vanish(p)

-----------------------------------------------------------------------------
(* run_listener: retry_until_shutdown around run_http_server_once, which     *)
(* binds with bind_unix_listener.  At "lock" and "remove" the task waits for *)
(* its call.  An aborted task is dropped at the await it is at; a step it is *)
(* in the middle of counts as one before the abort.                          *)

At(id, pc) == listener[id] = pc

Go(id, pc) == listener' = [listener EXCEPT ![id] = pc]

Calls(id, c) == call' = [call EXCEPT ![id] = c]

Unlocked(id) == IF socket_lock = id THEN Null ELSE socket_lock

Live(name) == name = Stranger \/ (name \in Listeners /\ listener[name] = "serving")

Removals == {id \in Listeners : call[id] = "unlink"}

listenerRest == <<processVars, slot, aborted, data_lock, bounds>>

AttemptFails(id) == Go(id, "sleep") /\ Calls(id, "none") /\ socket_lock' = Unlocked(id)

(* Slip: there is no lock file.                                              *)
LockNothing(id) ==
  /\ At(id, "lock")
  /\ Go(id, "inspect") /\ Calls(id, "none")
  /\ UNCHANGED <<socketVars, listenerRest>>

(* try_lock: WouldBlock ends the attempt.                                    *)
Lock(id) ==
  /\ At(id, "lock")
  /\ IF socket_lock = Null THEN socket_lock' = id /\ Go(id, "inspect") /\ Calls(id, "none")
                           ELSE AttemptFails(id)
  /\ UNCHANGED <<path, decided, listenerRest>>

(* The call of an attempt that was dropped takes the lock as well; the file  *)
(* is closed with its result, which nobody awaits.                           *)
LateLock(id) ==
  /\ At(id, "none") /\ call[id] = "lock"
  /\ Calls(id, "none")
  /\ socket_lock' = IF socket_lock = Null THEN id ELSE socket_lock
  /\ UNCHANGED <<listener, path, decided, listenerRest>>

LateUnlock(id) ==
  /\ At(id, "none") /\ socket_lock = id
  /\ socket_lock' = Null
  /\ UNCHANGED <<listener, call, path, decided, listenerRest>>

(* symlink_metadata: only a socket is ever removed.                          *)
Inspect(id) ==
  /\ At(id, "inspect")
  /\ CASE path = Absent -> Go(id, "bind") /\ UNCHANGED <<call, socket_lock>>
       [] path = File -> AttemptFails(id)
       [] OTHER -> Go(id, "connect") /\ UNCHANGED <<call, socket_lock>>
  /\ decided' = decided \ {id}
  /\ UNCHANGED <<path, listenerRest>>

DecidesToRemove(id) ==
  Go(id, "remove") /\ Calls(id, "unlink") /\ UNCHANGED socket_lock

(* Slip: a socket that is there is taken for a stale one.                    *)
ConnectNowhere(id) ==
  /\ At(id, "connect")
  /\ DecidesToRemove(id)
  /\ UNCHANGED <<path, decided, listenerRest>>

(* A listener answers, there is nothing left to connect to, or the           *)
(* connection is refused; by a file that has come since, some systems refuse *)
(* it too.                                                                   *)
Connect(id) ==
  /\ At(id, "connect")
  /\ \/ (Live(path) \/ path \in {Absent, File}) /\ AttemptFails(id)
     \/ ~Live(path) /\ path # Absent /\ DecidesToRemove(id)
  /\ UNCHANGED <<path, decided, listenerRest>>

Unlink(id) == path' = Absent /\ decided' = decided \ {id}

(* remove_file takes away what is there now.                                 *)
Remove(id) ==
  /\ At(id, "remove")
  /\ Unlink(id)
  /\ IF path = Absent THEN AttemptFails(id)
     ELSE Go(id, "bind") /\ Calls(id, "none") /\ UNCHANGED socket_lock
  /\ UNCHANGED listenerRest

(* So does the call of an attempt that was dropped and has no lock any more. *)
LateRemove(id) ==
  /\ At(id, "none") /\ call[id] = "unlink"
  /\ Unlink(id)
  /\ Calls(id, "none")
  /\ UNCHANGED <<listener, socket_lock, listenerRest>>

(* bind fails where there is a file.                                         *)
Bind(id) ==
  /\ At(id, "bind")
  /\ IF path = Absent
       THEN path' = id /\ decided' = Removals /\ Go(id, "serving") /\ UNCHANGED <<call, socket_lock>>
       ELSE AttemptFails(id) /\ UNCHANGED <<path, decided>>
  /\ UNCHANGED listenerRest

BindSteps == {"lock", "inspect", "connect", "remove", "bind"}

(* One of the calls returns an error.                                        *)
BindFails(id) ==
  /\ listener[id] \in BindSteps
  /\ Fault(id[1])
  /\ AttemptFails(id)
  /\ UNCHANGED <<path, decided, processVars, slot, aborted, data_lock>>

(* axum::serve returned without a shutdown.                                  *)
ServerFails(id) ==
  /\ At(id, "serving")
  /\ Fault(id[1])
  /\ AttemptFails(id)
  /\ UNCHANGED <<path, decided, processVars, slot, aborted, data_lock>>

(* A panic of the listener's task drops the listener; run_http_listeners     *)
(* starts the task again.  A task that waits for a removal does not panic.   *)
ListenerPanics(id) ==
  /\ listener[id] \notin {"none", "remove"} /\ http[id[1]] = "running"
  /\ Fault(id[1])
  /\ IF shutdown[id[1]] THEN Go(id, "none") /\ Calls(id, "none") ELSE Attempts(id)
  /\ socket_lock' = Unlocked(id)
  /\ UNCHANGED <<path, decided, processVars, slot, aborted, data_lock>>

(* RETRY_INTERVAL                                                            *)
RetryElapses(id) ==
  /\ At(id, "sleep")
  /\ Attempts(id)
  /\ UNCHANGED <<socketVars, listenerRest>>

(* The select drops the attempt and with it the lock, not its call.          *)
StopsWaiting(id) ==
  /\ shutdown[id[1]] /\ listener[id] \in BindSteps \cup {"sleep"}
  /\ Go(id, "none") /\ socket_lock' = Unlocked(id)
  /\ UNCHANGED <<call, path, decided, listenerRest>>

(* The graceful shutdown of axum::serve drops the listener and waits for the *)
(* connections; "stuck": one of them has a client that takes nothing.        *)
(* Bound: of a process that has faults.                                      *)
GracefulShutdown(id) ==
  /\ shutdown[id[1]] /\ At(id, "serving")
  /\ Go(id, "closing") \/ (id[1] \in Faulty /\ Go(id, "stuck"))
  /\ socket_lock' = Unlocked(id)
  /\ UNCHANGED <<call, path, decided, listenerRest>>

Closed(id) == At(id, "closing") /\ Go(id, "none") /\ UNCHANGED <<call, socketVars, listenerRest>>

(* Slip: the listener of an http_task that panicked goes on.                 *)
NeverDropped(id) == FALSE /\ UNCHANGED vars

(* The abort takes hold, of the task and not of its call.                    *)
AbortedDropped(id) ==
  /\ id \in aborted
  /\ aborted' = aborted \ {id}
  /\ Go(id, "none") /\ socket_lock' = Unlocked(id)
  /\ UNCHANGED <<call, path, decided, processVars, slot, data_lock, bounds>>

-----------------------------------------------------------------------------
(* Others at the socket path, who know nothing of its lock file.             *)

(* A program binds, over a dead socket or where there is none, or somebody   *)
(* makes a file.  A probe of the socket finds the program; only the look     *)
(* before it finds that a file is none.  Bound: counted with the faults.     *)
StrangerComes ==
  /\ path # File /\ ~Live(path) /\ faults < MaxFaults
  /\ faults' = faults + 1
  /\ path' \in Strangers
  /\ decided' = Removals \cup {id \in Listeners : path' = File /\ At(id, "connect")}
  /\ UNCHANGED <<processVars, slot, listener, call, aborted, socket_lock, data_lock, starts>>

(* The program ends, or somebody removes the file.                           *)
StrangerStops ==
  /\ path \in {Stranger, File}
  /\ path' = IF path = Stranger THEN Stale ELSE Absent
  /\ UNCHANGED <<socket_lock, decided, listener, call, listenerRest>>

-----------------------------------------------------------------------------
RunStep(p) ==
  \/ DryRunEnds(p) \/ IngestExit(p) \/ StoppedEarly(p) \/ MaintenanceRestarts(p)
  \/ HttpRestarts(p) \/ HttpTimesOut(p) \/ TellMaintenance(p) \/ RunReturns(p)
  \/ ProcessEnds(p)

TaskStep(p) == IngestStops(p) \/ MaintenanceStops(p) \/ HttpDrained(p)

AttemptStep(id) ==
  \/ Lock(id) \/ Inspect(id) \/ Connect(id) \/ Remove(id) \/ Bind(id)
  \/ RetryElapses(id) \/ StopsWaiting(id) \/ GracefulShutdown(id) \/ Closed(id)

LateStep(id) == AbortedDropped(id) \/ LateLock(id) \/ LateUnlock(id) \/ LateRemove(id)

ListenerStep(id) == (id \notin aborted /\ AttemptStep(id)) \/ LateStep(id)

Next ==
  \/ \E p \in Processes : Start(p) \/ Killed(p)
  \/ \E p \in Rebuilders : RebuildEnds(p)
  \/ \E p \in Services :
        \/ RunStep(p) \/ TaskStep(p) \/ SignalShutdown(p)
        \/ IngestPanics(p) \/ MaintenancePanics(p) \/ HttpPanics(p) \/ LeftEnds(p)
  \/ \E id \in Listeners : ListenerStep(id)
  \/ \E id \in Listeners \ aborted : BindFails(id) \/ ServerFails(id) \/ ListenerPanics(id)
  \/ StrangerComes \/ StrangerStops

Spec == Init /\ [][Next]_vars

(* Tasks are polled, blocking calls are run, timeouts elapse, ingest and     *)
(* maintenance stop when told (TailPipeline, ArchiveMaintenance), a rebuild  *)
(* ends.  Nobody needs to start, stop or kill a process, nor a stuck client  *)
(* to read, nor a write that was left behind to end.                         *)
Fairness ==
  /\ \A p \in Services : WF_vars(RunStep(p) \/ TaskStep(p))
  /\ \A p \in Rebuilders : WF_vars(RebuildEnds(p))
  /\ \A id \in Listeners : WF_vars(ListenerStep(id))

FairSpec == Spec /\ Fairness

-----------------------------------------------------------------------------
ProcessTypeOK ==
  /\ phase \in [Processes -> {"down", "dry_run", "stopping_ingest", "running", "draining",
                              "flushing", "exiting", "rebuild"}]
  /\ shutdown \in [Services -> BOOLEAN]
  /\ ingest \in [Services -> {"off", "running", "ended"}]
  /\ maintenance \in [Services -> {"off", "running", "panicked", "ended"}]
  /\ http \in [Services -> {"off", "running", "panicked", "ended"}]
  /\ slot \in [Services -> {0, 1}]
  /\ left \in SUBSET Services
  /\ listener \in [Listeners -> BindSteps \cup {"none", "sleep", "serving", "closing", "stuck"}]
  /\ call \in [Listeners -> {"none", "lock", "unlink"}]
  /\ aborted \in SUBSET Listeners /\ decided \in SUBSET Listeners
  /\ data_lock \in [Dirs -> Processes \cup {Null}]
  /\ \A d \in Dirs : data_lock[d] # Null => DataDir[data_lock[d]] = d
  /\ socket_lock \in Listeners \cup {Null}
  /\ path \in Listeners \cup {Absent, File, Stranger, Stale}
  /\ starts \in 0..MaxStarts /\ faults \in 0..MaxFaults

(* A removal that was decided before what is at the path came is run.        *)
OldRemoval(id) ==
  id \in decided /\ call[id] = "unlink" /\ call'[id] = "none" /\ path' = Absent

KeepsSocket ==
  \A id \in Listeners : listener'[id] = "serving" =>
    /\ \A other \in Listeners \ {id} : listener'[other] # "serving"
    /\ \/ path' = id
       \/ /\ At(id, "serving")
          /\ path # id \/ \E x \in Listeners : At(x, "none") /\ OldRemoval(x)

(* A listener that serves is the only one and the one clients reach: its     *)
(* socket is at the path when it begins and stays there, in whatever order   *)
(* the probes, removals and binds of several processes come (serve.rs:438-   *)
(* 498; the test bind_unix_listener_race_does_not_orphan_the_winning_        *)
(* listener).  One thing takes it away: the remove_file of an attempt that   *)
(* was dropped with its lock (serve.rs:482, 508-510), decided on before.     *)
SocketOwned == [][KeepsSocket]_vars

KeepsOthers ==
  path \in {File, Stranger} =>
    \/ path' = path
    \/ UNCHANGED <<listener, call>>
    \/ \E id \in Listeners : OldRemoval(id)

(* A listener of another program, or a file that is no socket, that is there *)
(* when an attempt to bind looks stays at the path until its owner takes it  *)
(* away (serve.rs:462-484; the tests bind_unix_listener_refuses_regular_file *)
(* and _refuses_socket_in_use).  Others ignore the lock file: what came      *)
(* after the look may go with the removal.                                   *)
OthersKept == [][KeepsOthers]_vars

(* What is in the data directory has one writer until run() returns: a       *)
(* rebuild, and the ingest and maintenance of a service with the writes they *)
(* leave behind, never run at a time, through shutdowns that are cut short,  *)
(* tasks that panic and processes that are killed (serve.rs:49-51, 133-174,  *)
(* lock.rs:19-52, indexer.rs:181-206).  What is still left behind then (a    *)
(* stream task that outlasts its abort or was detached, a removal, tail.rs:  *)
(* 339-347, serve.rs:83-88, archive.rs:582) runs without the lock and is not *)
(* counted.                                                                  *)
Writes(p) ==
  IF p \in Services
    THEN ingest[p] = "running" \/ maintenance[p] = "running" \/ (p \in left /\ phase[p] # "exiting")
    ELSE phase[p] = "rebuild"

Directory == INSTANCE ExclusiveAccess WITH
  Resources <- Dirs, Users <- Processes,
  inside <- [d \in Dirs |-> {p \in Processes : DataDir[p] = d /\ Writes(p)}]

DirectorySpec == Directory!Spec

(* A service that runs serves its socket sooner or later, whatever was left  *)
(* at the path by a kill, a predecessor that drains, or an HTTP task that    *)
(* panicked; unless another program or process keeps it (serve.rs:278-330,   *)
(* 389-407, 438-550).  One whose socket an old removal took away still       *)
(* counts: it does not find out.                                             *)
Serves(p) == \E k \in {0, 1} : listener[<<p, k>>] = "serving" /\ <<p, k>> \notin aborted

SocketServed ==
  []<>(\/ \E p \in Services : Serves(p)
       \/ \A p \in Services : phase[p] # "running"
       \/ path \in {File, Stranger})

(* A service that is told to stop ends, whatever its clients and its tasks   *)
(* do (serve.rs:135-154, 676-693).  Its watch channel ends with it.          *)
ShutdownCompletes == \A p \in Services : []<>(~shutdown[p])
=============================================================================
