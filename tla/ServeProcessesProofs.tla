------------------------- MODULE ServeProcessesProofs -------------------------
(* Proofs about the processes that meet on one machine, for any number of    *)
(* services, rebuilds, data directories, starts and faults.  Two locks carry *)
(* the argument: a process that writes holds the lock of its directory, and  *)
(* a listener between its probe and the end of its service holds the lock of *)
(* the socket path.  What outlives a lock has to be older than what it may   *)
(* damage: a removal is decided while the lock is held.                      *)
EXTENDS ServeProcesses, TLAPS

(* Where a process has the lock of its directory.                            *)
Locking == {"dry_run", "stopping_ingest", "running", "draining", "flushing", "rebuild"}

(* The tasks that write end before the lock goes.                            *)
DirInv ==
  /\ \A p \in Processes : phase[p] \in Locking => data_lock[DataDir[p]] = p
  /\ \A p \in Services :
       /\ ingest[p] = "running" =>
            phase[p] \in {"dry_run", "stopping_ingest", "running", "draining"}
       /\ maintenance[p] = "running" => phase[p] \in {"running", "draining", "flushing"}
       /\ p \in left => phase[p] \in Locking \cup {"exiting"}

(* Where a listener has the lock of the socket path.                         *)
Owning == {"inspect", "connect", "remove", "bind", "serving"}

(* A removal that may still come is known to be old where it would do harm.  *)
SocketInv ==
  /\ \A id \in Listeners : listener[id] \in Owning => socket_lock = id
  /\ \A id \in Listeners : call[id] = "unlink" => listener[id] \in {"remove", "none"}
  /\ \A id \in Listeners : listener[id] = "remove" => call[id] = "unlink"
  /\ \A id \in Listeners : call[id] = "unlink" /\ (Live(path) \/ path = File) => id \in decided
  /\ \A id \in Listeners : listener[id] = "connect" /\ path = File => id \in decided

-----------------------------------------------------------------------------
(* Types.                                                                    *)

LEMMA ListenerIds ==
  /\ \A p \in Services, k \in {0, 1} : <<p, k>> \in Listeners
  /\ \A id \in Listeners : id[1] \in Services
  /\ \A p \in Services : p \in Processes /\ DataDir[p] \in Dirs
  /\ \A p \in Rebuilders : p \in Processes
  /\ \A p \in Processes : DataDir[p] \in Dirs
BY ProcessAssumption DEF Listeners, Processes, Dirs

LEMMA OtherNames ==
  \A id \in Listeners : id \notin {Absent, File, Stranger, Stale}
BY DEF Listeners, Absent, File, Stranger, Stale

LEMMA FaultCount ==
  ASSUME faults \in 0..MaxFaults, NEW p, Fault(p)
  PROVE  faults' \in 0..MaxFaults /\ UNCHANGED starts
BY ProcessAssumption DEF Fault

ListenerPcs == BindSteps \cup {"none", "sleep", "serving", "closing", "stuck"}

CallKinds == {"none", "lock", "unlink"}

(* The steps of a listener, and of what it left behind.                      *)
OwnStep(id) == ListenerStep(id) \/ BindFails(id) \/ ServerFails(id) \/ ListenerPanics(id)

LEMMA Unmoved ==
  ASSUME ProcessTypeOK, NEW id \in Listeners
  PROVE  /\ listener[id] \in ListenerPcs /\ (listener' = listener => Go(id, listener[id]))
         /\ call[id] \in CallKinds /\ (call' = call => Calls(id, call[id]))
BY DEF ProcessTypeOK, ListenerPcs, CallKinds, Go, Calls

(* A step of one listener sets its state and its call, frees or takes the    *)
(* socket lock, and leaves the processes alone.                              *)
LEMMA ListenerType ==
  ASSUME ProcessTypeOK, NEW id \in Listeners, NEW pc \in ListenerPcs, Go(id, pc),
         NEW c \in CallKinds, Calls(id, c),
         socket_lock' \in {socket_lock, id, Null}, path' \in {path, id, Absent},
         aborted' \in SUBSET Listeners, decided' \in SUBSET Listeners, faults' \in 0..MaxFaults,
         UNCHANGED <<processVars, slot, data_lock, starts>>
  PROVE  ProcessTypeOK'
<1>1. listener' \in [Listeners -> ListenerPcs] /\ call' \in [Listeners -> CallKinds]
  BY DEF ProcessTypeOK, Go, Calls, ListenerPcs, CallKinds
<1>2. socket_lock' \in Listeners \cup {Null} /\ path' \in Listeners \cup {Absent, File, Stranger, Stale}
  BY DEF ProcessTypeOK
<1> QED
  BY <1>1, <1>2 DEF ProcessTypeOK, ListenerPcs, CallKinds, processVars, taskVars

LEMMA ListenerEffect ==
  ASSUME ProcessTypeOK, NEW id \in Listeners, OwnStep(id)
  PROVE  /\ \E pc \in ListenerPcs : Go(id, pc)
         /\ \E c \in CallKinds : Calls(id, c)
         /\ socket_lock' \in {socket_lock, id, Null} /\ path' \in {path, id, Absent}
         /\ aborted' \in SUBSET Listeners /\ decided' \in SUBSET Listeners
         /\ faults' \in 0..MaxFaults
         /\ UNCHANGED <<processVars, slot, data_lock, starts>>
<1> USE Unmoved DEF BindSteps, AttemptFails, Unlocked, listenerRest, bounds, At
<1>1. faults \in 0..MaxFaults /\ aborted \in SUBSET Listeners /\ decided \in SUBSET Listeners
  BY DEF ProcessTypeOK
<1>2. BindSteps \cup {"none", "sleep", "serving", "closing", "stuck"} \subseteq ListenerPcs
      /\ {"none", "lock", "unlink"} \subseteq CallKinds
  BY DEF ListenerPcs, CallKinds
<1>3. CASE Lock(id) \/ LateLock(id) \/ LateUnlock(id)
  BY <1>1, <1>2, <1>3 DEF Lock, LateLock, LateUnlock
<1>4. CASE Inspect(id)
  BY <1>1, <1>2, <1>4 DEF Inspect
<1>5. CASE Connect(id)
  BY <1>1, <1>2, <1>5 DEF Connect, DecidesToRemove
<1>6. CASE Remove(id) \/ LateRemove(id)
  BY <1>1, <1>2, <1>6 DEF Remove, LateRemove, Unlink
<1>7. CASE Bind(id)
  BY <1>1, <1>2, <1>7 DEF Bind, Removals
<1>8. CASE RetryElapses(id) \/ StopsWaiting(id) \/ GracefulShutdown(id) \/ Closed(id) \/ AbortedDropped(id)
  BY <1>1, <1>2, <1>8 DEF RetryElapses, StopsWaiting, GracefulShutdown, Closed, AbortedDropped,
     Attempts, Go, Calls, socketVars
<1>9. CASE BindFails(id) \/ ServerFails(id) \/ ListenerPanics(id)
  BY <1>1, <1>2, <1>9, FaultCount DEF BindFails, ServerFails, ListenerPanics, Attempts, Go, Calls
<1> QED
  BY <1>3, <1>4, <1>5, <1>6, <1>7, <1>8, <1>9 DEF OwnStep, ListenerStep, AttemptStep, LateStep

LEMMA VanishType ==
  ASSUME ProcessTypeOK, NEW p \in Processes, Vanish(p), starts' = starts, faults' \in 0..MaxFaults
  PROVE  ProcessTypeOK'
<1>1. phase' \in [Processes -> {"down", "dry_run", "stopping_ingest", "running", "draining",
                                "flushing", "exiting", "rebuild"}]
  BY DEF Vanish, ProcessTypeOK
<1>2. data_lock' \in [Dirs -> Processes \cup {Null}]
  BY DEF Vanish, ProcessTypeOK
<1>3. /\ shutdown' \in [Services -> BOOLEAN]
      /\ ingest' \in [Services -> {"off", "running", "ended"}]
      /\ maintenance' \in [Services -> {"off", "running", "panicked", "ended"}]
      /\ http' \in [Services -> {"off", "running", "panicked", "ended"}]
  BY DEF Vanish, ProcessTypeOK
<1>4. listener' \in [Listeners -> BindSteps \cup {"none", "sleep", "serving", "closing", "stuck"}]
  BY DEF Vanish, ProcessTypeOK
<1>5. /\ aborted' \in SUBSET Listeners /\ decided' \in SUBSET Listeners /\ left' \in SUBSET Services
      /\ socket_lock' \in Listeners \cup {Null} /\ call' \in [Listeners -> {"none", "lock", "unlink"}]
  BY DEF Vanish, ProcessTypeOK
<1>6. \A d \in Dirs : data_lock'[d] # Null => DataDir[data_lock'[d]] = d
  BY ListenerIds DEF Vanish, ProcessTypeOK
<1> QED
  BY <1>1, <1>2, <1>3, <1>4, <1>5, <1>6 DEF Vanish, ProcessTypeOK

LEMMA RunType ==
  ASSUME ProcessTypeOK, NEW p \in Services,
         \/ RunStep(p) \/ TaskStep(p) \/ SignalShutdown(p)
         \/ IngestPanics(p) \/ MaintenancePanics(p) \/ HttpPanics(p) \/ LeftEnds(p)
  PROVE  ProcessTypeOK'
<1> USE DEF ProcessTypeOK, Phase, Task, MayLeave, taskVars, processVars, listenerVars, socketVars,
            bounds
<1>1. p \in Processes /\ <<p, slot[p]>> \in Listeners /\ <<p, 1 - slot[p]>> \in Listeners
  BY ListenerIds
<1>2. CASE DryRunEnds(p)
  BY <1>1, <1>2 DEF DryRunEnds, Attempts, BindSteps
<1>3. CASE IngestExit(p) \/ StoppedEarly(p) \/ RunReturns(p)
  <2>1. \A from : Returns(p, from) =>
          /\ data_lock' \in [Dirs -> Processes \cup {Null}]
          /\ \A d \in Dirs : data_lock'[d] # Null => DataDir[data_lock'[d]] = d
    BY <1>1 DEF Returns
  <2> QED BY <1>1, <1>3, <2>1 DEF IngestExit, StoppedEarly, RunReturns, Returns
<1>4. CASE MaintenanceRestarts(p) \/ TellMaintenance(p) \/ TaskStep(p) \/ SignalShutdown(p) \/ LeftEnds(p)
  BY <1>1, <1>4, ZenonT(60) DEF MaintenanceRestarts, TellMaintenance, TaskStep, IngestStops, MaintenanceStops,
                    HttpDrained, SignalShutdown, LeftEnds
<1>5. CASE HttpRestarts(p)
  <2>1. slot' \in [Services -> {0, 1}]
    <3>1. 1 - slot[p] \in {0, 1}
      OBVIOUS
    <3> QED BY <1>5, <3>1 DEF HttpRestarts
  <2>2. /\ listener' \in [Listeners -> BindSteps \cup {"none", "sleep", "serving", "closing", "stuck"}]
        /\ call' \in [Listeners -> {"none", "lock", "unlink"}]
    BY <1>1, <1>5 DEF HttpRestarts, Attempts, BindSteps
  <2> QED BY <1>1, <1>5, <2>1, <2>2 DEF HttpRestarts
<1>6. CASE HttpTimesOut(p)
  BY <1>1, <1>6 DEF HttpTimesOut
<1>7. CASE ProcessEnds(p)
  BY <1>1, <1>7, VanishType DEF ProcessEnds
<1>8. CASE IngestPanics(p) \/ MaintenancePanics(p) \/ HttpPanics(p)
  <2>1. faults' \in 0..MaxFaults /\ UNCHANGED starts
    BY <1>8, FaultCount DEF IngestPanics, MaintenancePanics, HttpPanics
  <2> QED BY <1>1, <1>8, <2>1 DEF IngestPanics, MaintenancePanics, HttpPanics
<1> QED
  BY <1>2, <1>3, <1>4, <1>5, <1>6, <1>7, <1>8 DEF RunStep

LEMMA ProcessTypeStep == ProcessTypeOK /\ [Next]_vars => ProcessTypeOK'
<1> SUFFICES ASSUME ProcessTypeOK, [Next]_vars PROVE ProcessTypeOK'
  OBVIOUS
<1>1. ASSUME NEW p \in Processes, Start(p) PROVE ProcessTypeOK'
  <2>1. DataDir[p] \in Dirs /\ starts' \in 0..MaxStarts /\ UNCHANGED <<faults, listenerVars>>
    BY <1>1, ListenerIds, ProcessAssumption DEF Start, ProcessTypeOK
  <2>2. CASE UNCHANGED <<processVars, data_lock>>
    BY <2>1, <2>2 DEF ProcessTypeOK, processVars, taskVars, listenerVars, socketVars
  <2>3. CASE ~UNCHANGED <<processVars, data_lock>>
    <3>1. /\ data_lock' = [data_lock EXCEPT ![DataDir[p]] = p]
          /\ phase' = [phase EXCEPT ![p] = IF p \in Services THEN "dry_run" ELSE "rebuild"]
          /\ ingest' = [q \in Services |-> IF q = p THEN "running" ELSE ingest[q]]
          /\ UNCHANGED <<shutdown, maintenance, http, left>>
      BY <1>1, <2>3 DEF Start, TakesDataLock
    <3>2. ingest' \in [Services -> {"off", "running", "ended"}]
      BY <3>1 DEF ProcessTypeOK
    <3>3. /\ data_lock' \in [Dirs -> Processes \cup {Null}]
          /\ \A d \in Dirs : data_lock'[d] # Null => DataDir[data_lock'[d]] = d
      BY <2>1, <3>1 DEF ProcessTypeOK
    <3> QED BY <2>1, <3>1, <3>2, <3>3 DEF ProcessTypeOK, listenerVars, socketVars
  <2> QED BY <2>2, <2>3
<1>2. ASSUME NEW p \in Processes, Killed(p) PROVE ProcessTypeOK'
  BY <1>2, VanishType, FaultCount DEF Killed, ProcessTypeOK
<1>3. ASSUME NEW p \in Rebuilders, RebuildEnds(p) PROVE ProcessTypeOK'
  <2>1. /\ data_lock' \in [Dirs -> Processes \cup {Null}]
        /\ \A d \in Dirs : data_lock'[d] # Null => DataDir[data_lock'[d]] = d
    BY <1>3, ListenerIds DEF RebuildEnds, ProcessTypeOK
  <2> QED
    BY <1>3, <2>1, ListenerIds DEF RebuildEnds, ProcessTypeOK, taskVars, listenerVars, socketVars, bounds
<1>4. ASSUME NEW id \in Listeners, OwnStep(id) PROVE ProcessTypeOK'
  BY <1>4, ListenerEffect, ListenerType
<1>5. CASE StrangerComes \/ StrangerStops
  <2>1. faults' \in 0..MaxFaults /\ decided' \in SUBSET Listeners
    BY <1>5, ProcessAssumption DEF StrangerComes, StrangerStops, ProcessTypeOK, Removals, listenerRest,
       bounds
  <2> QED
    BY <1>5, <2>1, ProcessAssumption DEF StrangerComes, StrangerStops, ProcessTypeOK, listenerRest,
       processVars, taskVars, bounds
<1>6. CASE UNCHANGED vars
  BY <1>6 DEF vars, ProcessTypeOK, listenerVars, socketVars, processVars, taskVars, bounds
<1> QED
  BY <1>1, <1>2, <1>3, <1>4, <1>5, <1>6, RunType DEF Next, OwnStep

(* The phases, tasks, listeners and locks of all processes keep their types. *)
THEOREM ProcessTypeCorrect == Spec => []ProcessTypeOK
<1>1. Init => ProcessTypeOK
  BY ProcessAssumption DEF Init, ProcessTypeOK
<1> QED BY <1>1, ProcessTypeStep, PTL DEF Spec

-----------------------------------------------------------------------------
(* The socket.                                                               *)

LEMMA NullIsNoListener == \A id \in Listeners : id # Null
BY ProcessAssumption

(* What a step of a listener does to the lock of the socket path, to what is *)
(* there and to the removals under way.                                      *)
LEMMA ListenerSocket ==
  ASSUME ProcessTypeOK, SocketInv, NEW id \in Listeners, OwnStep(id)
  PROVE  /\ socket_lock' # socket_lock => socket_lock \in {id, Null}
         /\ listener'[id] \in Owning => socket_lock' = id
         /\ call'[id] = "unlink" => listener'[id] \in {"remove", "none"}
         /\ listener'[id] = "remove" => call'[id] = "unlink"
         /\ \/ /\ path' = path /\ decided \ {id} \subseteq decided'
               /\ listener'[id] = "serving" => listener[id] = "serving"
               /\ call'[id] = "unlink" /\ (Live(path) \/ path = File) => id \in decided'
               /\ listener'[id] = "connect" /\ path = File => id \in decided'
            \/ path' = Absent /\ id \in Removals /\ call'[id] = "none"
               /\ listener[id] \in {"remove", "none"} /\ listener'[id] # "serving"
            \/ path = Absent /\ path' = id /\ decided' = Removals /\ call' = call
               /\ listener[id] = "bind" /\ listener'[id] = "serving"
<1> USE DEF AttemptFails, Unlocked, listenerRest, At, Owning, Removals
<1>1. /\ \A pc : Go(id, pc) => listener'[id] = pc
      /\ \A c : Calls(id, c) => call'[id] = c
      /\ Attempts(id) => listener'[id] = "lock" /\ call'[id] = "lock"
  BY DEF Go, Calls, Attempts, ProcessTypeOK
<1>2. /\ listener[id] \in Owning => socket_lock = id
      /\ call[id] = "unlink" => listener[id] \in {"remove", "none"}
      /\ listener[id] = "remove" => call[id] = "unlink"
      /\ call[id] = "unlink" /\ (Live(path) \/ path = File) => id \in decided
      /\ listener[id] = "connect" /\ path = File => id \in decided
  BY DEF SocketInv
<1>3. CASE Lock(id) \/ LateLock(id) \/ LateUnlock(id)
  BY <1>1, <1>2, <1>3 DEF Lock, LateLock, LateUnlock
<1>4. CASE Inspect(id)
  BY <1>1, <1>2, <1>4 DEF Inspect
<1>5. CASE Connect(id)
  BY <1>1, <1>2, <1>5 DEF Connect, DecidesToRemove
<1>6. CASE Remove(id) \/ LateRemove(id)
  BY <1>1, <1>2, <1>6 DEF Remove, LateRemove, Unlink
<1>7. CASE Bind(id)
  BY <1>1, <1>2, <1>7 DEF Bind
<1>8. CASE RetryElapses(id) \/ StopsWaiting(id) \/ GracefulShutdown(id) \/ Closed(id) \/ AbortedDropped(id)
  BY <1>1, <1>2, <1>8 DEF RetryElapses, StopsWaiting, GracefulShutdown, Closed, AbortedDropped,
     socketVars
<1>9. CASE BindFails(id) \/ ServerFails(id) \/ ListenerPanics(id)
  BY <1>1, <1>2, <1>9 DEF BindFails, ServerFails, ListenerPanics
<1> QED
  BY <1>3, <1>4, <1>5, <1>6, <1>7, <1>8, <1>9 DEF OwnStep, ListenerStep, AttemptStep, LateStep

LEMMA OthersUnmoved ==
  ASSUME ProcessTypeOK, NEW id \in Listeners, OwnStep(id)
  PROVE  \A x \in Listeners \ {id} : listener'[x] = listener[x] /\ call'[x] = call[x]
BY ListenerEffect DEF Go, Calls, ProcessTypeOK

LEMMA SocketOfListener ==
  ASSUME ProcessTypeOK, SocketInv, NEW id \in Listeners, OwnStep(id)
  PROVE  SocketInv'
<1> DEFINE Kept == /\ path' = path /\ decided \ {id} \subseteq decided'
                   /\ listener'[id] = "serving" => listener[id] = "serving"
                   /\ call'[id] = "unlink" /\ (Live(path) \/ path = File) => id \in decided'
                   /\ listener'[id] = "connect" /\ path = File => id \in decided'
           Freed == path' = Absent
           Taken == path' = id /\ decided' = Removals /\ call' = call
<1>1. /\ socket_lock' # socket_lock => socket_lock \in {id, Null}
      /\ listener'[id] \in Owning => socket_lock' = id
      /\ call'[id] = "unlink" => listener'[id] \in {"remove", "none"}
      /\ listener'[id] = "remove" => call'[id] = "unlink"
      /\ Kept \/ Freed \/ Taken
  BY ListenerSocket
<1>2. \A x \in Listeners \ {id} : listener'[x] = listener[x] /\ call'[x] = call[x]
  BY OthersUnmoved
<1>3. ASSUME NEW x \in Listeners
      PROVE  /\ listener'[x] \in Owning => socket_lock' = x
             /\ call'[x] = "unlink" => listener'[x] \in {"remove", "none"}
             /\ listener'[x] = "remove" => call'[x] = "unlink"
  BY <1>1, <1>2, NullIsNoListener DEF SocketInv
<1>4. ASSUME NEW x \in Listeners
      PROVE  /\ call'[x] = "unlink" /\ (Live(path)' \/ path' = File) => x \in decided'
             /\ listener'[x] = "connect" /\ path' = File => x \in decided'
  <2>1. CASE Kept
    <3>1. Live(path)' => Live(path)
      BY <1>2, <2>1 DEF Live
    <3>2. CASE x = id
      BY <2>1, <3>1, <3>2
    <3>3. CASE x # id
      BY <1>2, <2>1, <3>1, <3>3 DEF SocketInv
    <3> QED BY <3>2, <3>3
  <2>2. CASE Freed
    BY <2>2, OtherNames DEF Live, Absent, File, Stranger
  <2>3. CASE Taken
    BY <2>3, OtherNames DEF Removals
  <2> QED BY <1>1, <2>1, <2>2, <2>3
<1> QED BY <1>3, <1>4 DEF SocketInv, Live

LEMMA SocketOfVanish ==
  ASSUME ProcessTypeOK, SocketInv, NEW p \in Processes, Vanish(p)
  PROVE  SocketInv'
<1>1. /\ \A id \in Listeners : listener'[id] = IF id[1] = p THEN "none" ELSE listener[id]
      /\ \A id \in Listeners : call'[id] = IF id[1] = p THEN "none" ELSE call[id]
      /\ socket_lock' = (IF socket_lock \in {p} \X {0, 1} THEN Null ELSE socket_lock)
      /\ path' = path /\ decided' = {id \in decided : id[1] # p}
  BY DEF Vanish
<1>2. \A id \in Listeners : id[1] # p => id \notin {p} \X {0, 1}
  OBVIOUS
<1>3. \A id \in Listeners : listener'[id] # "none" \/ call'[id] # "none" =>
        id[1] # p /\ listener[id] = listener'[id] /\ call[id] = call'[id]
  BY <1>1
<1>4. Live(path)' => Live(path)
  BY <1>1 DEF Live
<1>5. ASSUME NEW id \in Listeners
      PROVE  /\ listener'[id] \in Owning => socket_lock' = id
             /\ call'[id] = "unlink" => listener'[id] \in {"remove", "none"}
             /\ listener'[id] = "remove" => call'[id] = "unlink"
  BY <1>1, <1>2, <1>3 DEF SocketInv, Owning
<1>6. ASSUME NEW id \in Listeners
      PROVE  /\ call'[id] = "unlink" /\ (Live(path)' \/ path' = File) => id \in decided'
             /\ listener'[id] = "connect" /\ path' = File => id \in decided'
  BY <1>1, <1>3, <1>4 DEF SocketInv
<1> QED BY <1>5, <1>6 DEF SocketInv, Live

(* The steps of run() begin attempts to bind at most.                        *)
LEMMA SocketOfRun ==
  ASSUME ProcessTypeOK, NEW p \in Services,
         \/ RunStep(p) \/ TaskStep(p) \/ SignalShutdown(p)
         \/ IngestPanics(p) \/ MaintenancePanics(p) \/ HttpPanics(p) \/ LeftEnds(p),
         ~ProcessEnds(p)
  PROVE  /\ UNCHANGED <<socket_lock, path, decided>>
         /\ UNCHANGED <<listener, call>> \/ \E id \in Listeners : Attempts(id)
<1>1. p \in Services /\ slot[p] \in {0, 1} /\ 1 - slot[p] \in {0, 1}
  BY DEF ProcessTypeOK
<1>2. CASE DryRunEnds(p) \/ HttpRestarts(p)
  BY <1>1, <1>2, ListenerIds DEF DryRunEnds, HttpRestarts, socketVars
<1>3. CASE \/ IngestExit(p) \/ StoppedEarly(p) \/ MaintenanceRestarts(p) \/ HttpTimesOut(p)
           \/ TellMaintenance(p) \/ RunReturns(p) \/ TaskStep(p) \/ SignalShutdown(p)
           \/ IngestPanics(p) \/ MaintenancePanics(p) \/ HttpPanics(p) \/ LeftEnds(p)
  BY <1>3 DEF IngestExit, StoppedEarly, MaintenanceRestarts, HttpTimesOut, TellMaintenance,
     RunReturns, TaskStep, IngestStops, MaintenanceStops, HttpDrained, SignalShutdown, IngestPanics,
     MaintenancePanics, HttpPanics, LeftEnds, listenerVars, socketVars
<1> QED BY <1>2, <1>3 DEF RunStep

LEMMA SocketStep == ProcessTypeOK /\ SocketInv /\ [Next]_vars => SocketInv'
<1> SUFFICES ASSUME ProcessTypeOK, SocketInv, [Next]_vars PROVE SocketInv'
  OBVIOUS
<1>1. UNCHANGED <<listener, call, socket_lock, path, decided>> => SocketInv'
  BY DEF SocketInv, Live
<1>2. ASSUME NEW id \in Listeners, Attempts(id), UNCHANGED <<socket_lock, path, decided>>
      PROVE  SocketInv'
  <2>1. \A x \in Listeners : \/ listener'[x] = listener[x] /\ call'[x] = call[x]
                             \/ listener'[x] = "lock" /\ call'[x] = "lock"
    BY <1>2 DEF Attempts, ProcessTypeOK
  <2>2. Live(path)' => Live(path)
    BY <1>2, <2>1 DEF Live
  <2> QED BY <1>2, <2>1, <2>2 DEF SocketInv, Owning, Live
<1>3. ASSUME NEW p \in Processes, Start(p) PROVE SocketInv'
  BY <1>1, <1>3 DEF Start, listenerVars, socketVars
<1>4. ASSUME NEW p \in Processes, Killed(p) PROVE SocketInv'
  BY <1>4, SocketOfVanish DEF Killed
<1>5. ASSUME NEW p \in Rebuilders, RebuildEnds(p) PROVE SocketInv'
  BY <1>1, <1>5 DEF RebuildEnds, listenerVars, socketVars
<1>6. ASSUME NEW p \in Services,
             \/ RunStep(p) \/ TaskStep(p) \/ SignalShutdown(p)
             \/ IngestPanics(p) \/ MaintenancePanics(p) \/ HttpPanics(p) \/ LeftEnds(p)
      PROVE  SocketInv'
  <2>1. CASE ProcessEnds(p)
    BY <2>1, ListenerIds, SocketOfVanish DEF ProcessEnds
  <2>2. CASE ~ProcessEnds(p)
    BY <1>1, <1>2, <1>6, <2>2, SocketOfRun
  <2> QED BY <2>1, <2>2
<1>7. CASE StrangerComes
  <2>1. /\ UNCHANGED <<listener, call, socket_lock>>
        /\ decided' = Removals \cup {id \in Listeners : path' = File /\ At(id, "connect")}
    BY <1>7 DEF StrangerComes
  <2> QED BY <2>1 DEF SocketInv, Removals, At
<1>8. CASE StrangerStops
  <2>1. UNCHANGED <<listener, call, socket_lock>> /\ path' \in {Absent, Stale}
    BY <1>8 DEF StrangerStops
  <2>2. ~Live(path)' /\ path' # File
    BY <2>1, OtherNames DEF Live, Absent, Stale, Stranger, File
  <2> QED BY <2>1, <2>2 DEF SocketInv, Live
<1>9. CASE UNCHANGED vars
  BY <1>1, <1>9 DEF vars, listenerVars, socketVars
<1> QED
  BY <1>3, <1>4, <1>5, <1>6, <1>7, <1>8, <1>9, SocketOfListener DEF Next, OwnStep

LEMMA SocketCorrect == Spec => []SocketInv
<1>1. Init => SocketInv
  BY DEF Init, SocketInv, Owning
<1> QED BY <1>1, SocketStep, ProcessTypeCorrect, PTL DEF Spec

(* The steps that change what is at the path: a removal, a bind, strangers.  *)
LEMMA PathStep ==
  ASSUME ProcessTypeOK, SocketInv, [Next]_vars
  PROVE  \/ /\ path' = path
            /\ \A x \in Listeners : listener'[x] = "serving" => listener[x] = "serving"
         \/ \E id \in Listeners :
              /\ OwnStep(id) /\ path' = Absent /\ id \in Removals /\ call'[id] = "none"
              /\ listener[id] \in {"remove", "none"} /\ listener'[id] # "serving"
         \/ \E id \in Listeners :
              /\ OwnStep(id) /\ path = Absent /\ path' = id
              /\ listener[id] = "bind" /\ listener'[id] = "serving"
         \/ StrangerComes \/ StrangerStops
<1> DEFINE Still == /\ path' = path
                    /\ \A x \in Listeners : listener'[x] = "serving" => listener[x] = "serving"
<1>1. \A id \in Listeners : Attempts(id) /\ path' = path => Still
  BY DEF Attempts, ProcessTypeOK
<1>2. \A p \in Processes : Vanish(p) => Still
  BY DEF Vanish
<1>3. UNCHANGED <<listener, path>> => Still
  OBVIOUS
<1>4. ASSUME NEW p \in Processes, Start(p) \/ Killed(p) PROVE Still
  BY <1>2, <1>3, <1>4 DEF Start, Killed, listenerVars, socketVars
<1>5. ASSUME NEW p \in Rebuilders, RebuildEnds(p) PROVE Still
  BY <1>3, <1>5 DEF RebuildEnds, listenerVars, socketVars
<1>6. ASSUME NEW p \in Services,
             \/ RunStep(p) \/ TaskStep(p) \/ SignalShutdown(p)
             \/ IngestPanics(p) \/ MaintenancePanics(p) \/ HttpPanics(p) \/ LeftEnds(p)
      PROVE  Still
  <2>1. CASE ProcessEnds(p)
    BY <1>2, <2>1, ListenerIds DEF ProcessEnds
  <2>2. CASE ~ProcessEnds(p)
    BY <1>1, <1>3, <1>6, <2>2, SocketOfRun
  <2> QED BY <2>1, <2>2
<1>7. ASSUME NEW id \in Listeners, OwnStep(id)
      PROVE  \/ Still
             \/ /\ OwnStep(id) /\ path' = Absent /\ id \in Removals /\ call'[id] = "none"
                /\ listener[id] \in {"remove", "none"} /\ listener'[id] # "serving"
             \/ /\ OwnStep(id) /\ path = Absent /\ path' = id
                /\ listener[id] = "bind" /\ listener'[id] = "serving"
  BY <1>7, ListenerSocket, OthersUnmoved
<1>8. CASE UNCHANGED vars
  BY <1>3, <1>8 DEF vars, listenerVars, socketVars
<1> QED
  BY <1>4, <1>5, <1>6, <1>7, <1>8 DEF Next, OwnStep

(* A listener that serves is alone, and its socket stays at the path from    *)
(* bind on: who probes, removes or binds meanwhile would need the lock it    *)
(* holds, but for a removal decided before by an attempt that was dropped    *)
(* (serve.rs:438-498, 508-510).                                              *)
THEOREM SocketOwnedCorrect == Spec => SocketOwned
<1>1. ProcessTypeOK /\ SocketInv /\ SocketInv' /\ [Next]_vars => KeepsSocket
  <2> SUFFICES ASSUME ProcessTypeOK, SocketInv, SocketInv', [Next]_vars,
                      NEW id \in Listeners, listener'[id] = "serving"
               PROVE  /\ \A other \in Listeners \ {id} : listener'[other] # "serving"
                      /\ \/ path' = id
                         \/ /\ At(id, "serving")
                            /\ path # id \/ \E x \in Listeners : At(x, "none") /\ OldRemoval(x)
    BY DEF KeepsSocket
  <2>1. \A other \in Listeners : listener'[other] = "serving" => other = id
    BY DEF SocketInv, Owning
  <2>2. CASE \E x \in Listeners :
               /\ OwnStep(x) /\ path' = Absent /\ x \in Removals /\ call'[x] = "none"
               /\ listener[x] \in {"remove", "none"} /\ listener'[x] # "serving"
    <3>1. PICK x \in Listeners :
               /\ OwnStep(x) /\ path' = Absent /\ x \in Removals /\ call'[x] = "none"
               /\ listener[x] \in {"remove", "none"} /\ listener'[x] # "serving"
      BY <2>2
    <3>2. listener[id] = "serving" /\ x # id
      BY <3>1, OthersUnmoved
    <3>3. listener[x] = "none"
      BY <3>1, <3>2, NullIsNoListener DEF SocketInv, Owning
    <3>4. path = id => OldRemoval(x)
      BY <3>1, <3>2 DEF SocketInv, Live, Removals, OldRemoval
    <3> QED BY <2>1, <3>1, <3>2, <3>3, <3>4 DEF At
  <2>3. CASE \E x \in Listeners :
               /\ OwnStep(x) /\ path = Absent /\ path' = x
               /\ listener[x] = "bind" /\ listener'[x] = "serving"
    BY <2>1, <2>3
  <2>4. CASE StrangerComes \/ StrangerStops
    <3>1. listener' = listener /\ path # id
      BY <2>4, OtherNames DEF StrangerComes, StrangerStops, Live
    <3> QED BY <2>1, <3>1 DEF At
  <2>5. CASE /\ path' = path
             /\ \A x \in Listeners : listener'[x] = "serving" => listener[x] = "serving"
    BY <2>1, <2>5 DEF At
  <2> QED BY <2>2, <2>3, <2>4, <2>5, PathStep
<1> QED BY <1>1, SocketCorrect, ProcessTypeCorrect, PTL DEF Spec, SocketOwned

(* What is not ours at the socket path goes by its owner's doing, or by a    *)
(* removal decided before it came (serve.rs:462-484).                        *)
THEOREM OthersKeptCorrect == Spec => OthersKept
<1>1. ProcessTypeOK /\ SocketInv /\ [Next]_vars => KeepsOthers
  <2> SUFFICES ASSUME ProcessTypeOK, SocketInv, [Next]_vars, path \in {File, Stranger}
               PROVE  \/ path' = path
                      \/ UNCHANGED <<listener, call>>
                      \/ \E id \in Listeners : OldRemoval(id)
    BY DEF KeepsOthers
  <2>1. CASE \E x \in Listeners :
               /\ OwnStep(x) /\ path' = Absent /\ x \in Removals /\ call'[x] = "none"
               /\ listener[x] \in {"remove", "none"} /\ listener'[x] # "serving"
    BY <2>1 DEF SocketInv, Live, Removals, OldRemoval
  <2>2. path # Absent
    BY DEF Absent, File, Stranger
  <2>3. CASE StrangerComes \/ StrangerStops
    BY <2>3 DEF StrangerComes, StrangerStops
  <2> QED BY <2>1, <2>2, <2>3, PathStep
<1> QED BY <1>1, SocketCorrect, ProcessTypeCorrect, PTL DEF Spec, OthersKept

-----------------------------------------------------------------------------
(* The data directory.                                                       *)

IngestPhases == {"dry_run", "stopping_ingest", "running", "draining"}
MaintenancePhases == {"running", "draining", "flushing"}

LEMMA NullIsNoProcess == \A p \in Processes : p # Null
BY ProcessAssumption

(* What a process does to its phase and its tasks, and to the lock of its    *)
(* directory if that was free or its own, is no matter for the others.       *)
LEMMA DirOfProcess ==
  ASSUME ProcessTypeOK, DirInv, NEW p \in Processes,
         \A q \in Processes \ {p} : phase'[q] = phase[q],
         \A q \in Services \ {p} : /\ ingest'[q] = ingest[q] /\ maintenance'[q] = maintenance[q]
                                   /\ (q \in left') <=> (q \in left),
         \/ UNCHANGED data_lock
         \/ /\ data_lock[DataDir[p]] \in {Null, p}
            /\ \A d \in Dirs \ {DataDir[p]} : data_lock'[d] = data_lock[d],
         phase'[p] \in Locking => data_lock'[DataDir[p]] = p,
         p \in Services => /\ ingest'[p] = "running" => phase'[p] \in IngestPhases
                           /\ maintenance'[p] = "running" => phase'[p] \in MaintenancePhases
                           /\ p \in left' => phase'[p] \in Locking \cup {"exiting"}
  PROVE  DirInv'
<1>1. ASSUME NEW q \in Processes \ {p}, phase'[q] \in Locking
      PROVE  data_lock'[DataDir[q]] = q
  <2>1. data_lock[DataDir[q]] = q /\ q # Null /\ DataDir[q] \in Dirs
    BY <1>1, NullIsNoProcess, ListenerIds DEF DirInv
  <2> QED BY <2>1
<1>2. ASSUME NEW q \in Services
      PROVE  /\ ingest'[q] = "running" => phase'[q] \in IngestPhases
             /\ maintenance'[q] = "running" => phase'[q] \in MaintenancePhases
             /\ q \in left' => phase'[q] \in Locking \cup {"exiting"}
  <2>1. CASE q = p
    BY <2>1
  <2>2. CASE q # p
    <3>1. /\ phase'[q] = phase[q] /\ ingest'[q] = ingest[q] /\ maintenance'[q] = maintenance[q]
          /\ (q \in left') <=> (q \in left)
      BY <1>2, <2>2, ListenerIds
    <3> QED BY <3>1 DEF DirInv, IngestPhases, MaintenancePhases
  <2> QED BY <2>1, <2>2
<1> QED BY <1>1, <1>2 DEF DirInv, IngestPhases, MaintenancePhases

(* Nothing here touches the phases, the two tasks and the directory locks.   *)
LEMMA ListenersElsewhere ==
  ASSUME NEW id \in Listeners, OwnStep(id)
  PROVE  UNCHANGED <<phase, ingest, maintenance, left, data_lock>>
BY DEF OwnStep, ListenerStep, AttemptStep, LateStep, LateLock, LateUnlock, LateRemove, Lock, Inspect,
   Connect, Remove, Bind, RetryElapses, StopsWaiting, GracefulShutdown, Closed, AbortedDropped,
   BindFails, ServerFails, ListenerPanics, listenerRest, processVars, taskVars

LEMMA HttpElsewhere ==
  ASSUME NEW p \in Services,
         HttpRestarts(p) \/ HttpTimesOut(p) \/ HttpDrained(p) \/ HttpPanics(p)
  PROVE  UNCHANGED <<phase, ingest, maintenance, left, data_lock>>
BY DEF HttpRestarts, HttpTimesOut, HttpDrained, HttpPanics, listenerVars

(* A process other than the one that steps keeps its phase, its tasks and    *)
(* what they left behind.                                                    *)
OthersAlone(p) ==
  /\ \A q \in Processes \ {p} : phase'[q] = phase[q]
  /\ \A q \in Services \ {p} : /\ ingest'[q] = ingest[q] /\ maintenance'[q] = maintenance[q]
                               /\ (q \in left') <=> (q \in left)

LEMMA VanishDir ==
  ASSUME ProcessTypeOK, DirInv, NEW p \in Processes, Vanish(p)
  PROVE  DirInv' /\ OthersAlone(p)
<1>1. OthersAlone(p)
  BY DEF Vanish, OthersAlone, ProcessTypeOK
<1>2. /\ phase'[p] = "down"
      /\ p \in Services => ingest'[p] = "off" /\ maintenance'[p] = "off"
      /\ p \notin left'
  BY DEF Vanish, ProcessTypeOK
<1>3. \/ UNCHANGED data_lock
      \/ /\ data_lock[DataDir[p]] \in {Null, p}
         /\ \A d \in Dirs \ {DataDir[p]} : data_lock'[d] = data_lock[d]
  BY ListenerIds DEF Vanish, ProcessTypeOK
<1> QED
  BY <1>1, <1>2, <1>3, DirOfProcess DEF OthersAlone, Locking

(* The steps of run().                                                       *)
LEMMA RunDir ==
  ASSUME ProcessTypeOK, DirInv, NEW p \in Services,
         \/ RunStep(p) \/ TaskStep(p) \/ SignalShutdown(p)
         \/ IngestPanics(p) \/ MaintenancePanics(p) \/ HttpPanics(p) \/ LeftEnds(p)
  PROVE  DirInv' /\ OthersAlone(p)
<1> USE DEF ProcessTypeOK, Phase, Task, MayLeave, taskVars, IngestPhases, MaintenancePhases, Locking,
            OthersAlone
<1>1. p \in Processes /\ DataDir[p] \in Dirs
  BY ListenerIds
<1>2. /\ phase[p] \in Locking => data_lock[DataDir[p]] = p
      /\ ingest[p] = "running" => phase[p] \in IngestPhases
      /\ maintenance[p] = "running" => phase[p] \in MaintenancePhases
      /\ p \in left => phase[p] \in Locking \cup {"exiting"}
  BY <1>1 DEF DirInv
<1>3. CASE \/ DryRunEnds(p) \/ SignalShutdown(p) \/ TellMaintenance(p)
           \/ (IngestExit(p) /\ UNCHANGED data_lock)
  <2>1. /\ OthersAlone(p) /\ UNCHANGED data_lock
        /\ phase[p] \in Locking /\ phase'[p] \in Locking
        /\ ingest'[p] = "running" => phase'[p] \in IngestPhases
        /\ maintenance'[p] = "running" => phase'[p] \in MaintenancePhases
        /\ p \in left' => phase'[p] \in Locking \cup {"exiting"}
    <3>1. CASE DryRunEnds(p) \/ SignalShutdown(p) \/ TellMaintenance(p)
      BY <1>1, <1>2, <3>1 DEF DryRunEnds, SignalShutdown, TellMaintenance
    <3>2. CASE IngestExit(p) /\ UNCHANGED data_lock
      <4>1. ~Returns(p, "dry_run")
        BY <1>1, <1>2, <3>2, NullIsNoProcess DEF Returns
      <4> QED BY <1>1, <1>2, <3>2, <4>1 DEF IngestExit
    <3> QED BY <1>3, <3>1, <3>2
  <2> QED BY <1>1, <1>2, <2>1, DirOfProcess
<1>4. CASE \/ (IngestExit(p) /\ ~UNCHANGED data_lock) \/ StoppedEarly(p) \/ RunReturns(p)
  <2>1. /\ OthersAlone(p)
        /\ phase[p] \in Locking /\ phase'[p] = "exiting"
        /\ ingest'[p] # "running" /\ maintenance'[p] # "running"
        /\ \A d \in Dirs \ {DataDir[p]} : data_lock'[d] = data_lock[d]
    BY <1>1, <1>2, <1>4 DEF StoppedEarly, RunReturns, IngestExit, Returns
  <2> QED BY <1>1, <1>2, <2>1, DirOfProcess
<1>5. CASE \/ MaintenanceRestarts(p) \/ IngestStops(p) \/ MaintenanceStops(p)
           \/ IngestPanics(p) \/ MaintenancePanics(p) \/ LeftEnds(p)
  <2>1. /\ OthersAlone(p) /\ UNCHANGED <<phase, data_lock>>
        /\ ingest'[p] = "running" => phase'[p] \in IngestPhases
        /\ maintenance'[p] = "running" => phase'[p] \in MaintenancePhases
        /\ p \in left' => phase'[p] \in Locking \cup {"exiting"}
    BY <1>1, <1>2, <1>5 DEF MaintenanceRestarts, IngestStops, MaintenanceStops, IngestPanics,
       MaintenancePanics, LeftEnds
  <2> QED BY <1>1, <1>2, <2>1, DirOfProcess
<1>6. CASE HttpRestarts(p) \/ HttpTimesOut(p) \/ HttpDrained(p) \/ HttpPanics(p)
  BY <1>6, HttpElsewhere DEF DirInv
<1>7. CASE ProcessEnds(p)
  BY <1>1, <1>7, VanishDir DEF ProcessEnds
<1> QED
  BY <1>3, <1>4, <1>5, <1>6, <1>7 DEF RunStep, TaskStep

LEMMA StartDir ==
  ASSUME ProcessTypeOK, DirInv, NEW p \in Processes, Start(p)
  PROVE  DirInv' /\ OthersAlone(p)
<1>1. DataDir[p] \in Dirs /\ phase[p] = "down"
  BY ListenerIds DEF Start
<1>2. CASE UNCHANGED <<processVars, data_lock>>
  BY <1>2 DEF DirInv, processVars, taskVars, OthersAlone
<1>3. CASE ~UNCHANGED <<processVars, data_lock>>
  <2>1. /\ data_lock[DataDir[p]] = Null /\ data_lock' = [data_lock EXCEPT ![DataDir[p]] = p]
        /\ phase' = [phase EXCEPT ![p] = IF p \in Services THEN "dry_run" ELSE "rebuild"]
        /\ ingest' = [q \in Services |-> IF q = p THEN "running" ELSE ingest[q]]
        /\ UNCHANGED <<shutdown, maintenance, http, left>>
    BY <1>3 DEF Start, TakesDataLock
  <2>2. OthersAlone(p)
    BY <2>1 DEF OthersAlone, ProcessTypeOK
  <2>3. /\ data_lock'[DataDir[p]] = p
        /\ \A d \in Dirs \ {DataDir[p]} : data_lock'[d] = data_lock[d]
    BY <1>1, <2>1 DEF ProcessTypeOK
  <2>4. p \in Services => phase'[p] = "dry_run" /\ maintenance'[p] # "running"
        /\ p \notin left'
    BY <1>1, <2>1 DEF ProcessTypeOK, DirInv, Locking
  <2> QED
    BY <2>1, <2>2, <2>3, <2>4, DirOfProcess DEF OthersAlone, IngestPhases
<1> QED BY <1>2, <1>3

LEMMA RebuildDir ==
  ASSUME ProcessTypeOK, DirInv, NEW p \in Rebuilders, RebuildEnds(p)
  PROVE  DirInv' /\ OthersAlone(p)
<1>1. p \in Processes /\ DataDir[p] \in Dirs /\ p \notin Services /\ data_lock[DataDir[p]] = p
  BY ListenerIds, ProcessAssumption DEF RebuildEnds, DirInv, Locking
<1>2. /\ OthersAlone(p) /\ phase'[p] = "down" /\ left' = left
      /\ \A d \in Dirs \ {DataDir[p]} : data_lock'[d] = data_lock[d]
  BY <1>1 DEF RebuildEnds, OthersAlone, ProcessTypeOK, taskVars
<1> QED BY <1>1, <1>2, DirOfProcess DEF OthersAlone, Locking

LEMMA DirStep ==
  ASSUME ProcessTypeOK, DirInv, [Next]_vars
  PROVE  /\ DirInv'
         /\ UNCHANGED <<phase, ingest, maintenance, left>> \/ \E p \in Processes : OthersAlone(p)
<1>1. ASSUME NEW p \in Processes, Start(p) \/ Killed(p)
      PROVE  DirInv' /\ OthersAlone(p)
  BY <1>1, StartDir, VanishDir DEF Killed
<1>2. ASSUME NEW p \in Rebuilders, RebuildEnds(p)
      PROVE  DirInv' /\ p \in Processes /\ OthersAlone(p)
  BY <1>2, RebuildDir, ListenerIds
<1>3. ASSUME NEW p \in Services,
             \/ RunStep(p) \/ TaskStep(p) \/ SignalShutdown(p)
             \/ IngestPanics(p) \/ MaintenancePanics(p) \/ HttpPanics(p) \/ LeftEnds(p)
      PROVE  DirInv' /\ p \in Processes /\ OthersAlone(p)
  BY <1>3, RunDir, ListenerIds
<1>4. ASSUME NEW id \in Listeners, OwnStep(id)
      PROVE  DirInv' /\ UNCHANGED <<phase, ingest, maintenance, left>>
  BY <1>4, ListenersElsewhere DEF DirInv
<1>5. CASE StrangerComes \/ StrangerStops \/ UNCHANGED vars
  BY <1>5 DEF StrangerComes, StrangerStops, listenerRest, vars, processVars, taskVars, DirInv
<1> QED BY <1>1, <1>2, <1>3, <1>4, <1>5 DEF Next, OwnStep

LEMMA DirCorrect == Spec => []DirInv
<1>1. Init => DirInv
  BY DEF Init, DirInv, Locking, Processes
<1>2. ProcessTypeOK /\ DirInv /\ [Next]_vars => DirInv'
  BY DirStep
<1> QED BY <1>1, <1>2, ProcessTypeCorrect, PTL DEF Spec

(* Who writes has the lock of its directory.                                 *)
LEMMA WriterLocks ==
  ASSUME DirInv, NEW p \in Processes, Writes(p)
  PROVE  data_lock[DataDir[p]] = p
BY DEF DirInv, Writes, Locking, Processes

LEMMA WriterLocksNext ==
  ASSUME DirInv', NEW p \in Processes, Writes(p)'
  PROVE  data_lock'[DataDir[p]] = p
BY DEF DirInv, Writes, Locking, Processes

Inside == [d \in Dirs |-> {p \in Processes : DataDir[p] = d /\ Writes(p)}]

(* One process may begin or end to write, and finds or leaves nobody else.   *)
LEMMA WriterStep ==
  ASSUME DirInv, DirInv', NEW p \in Processes,
         \A q \in Processes \ {p} : Writes(q)' = Writes(q)
  PROVE  \/ UNCHANGED Inside
         \/ Directory!Enter(DataDir[p], p)
         \/ Directory!Leave(DataDir[p], p)
<1> DEFINE d == DataDir[p]
<1>1. d \in Dirs
  BY ListenerIds
<1>2. \A e \in Dirs \ {d} : Inside'[e] = Inside[e]
  BY DEF Inside
<1>3. \A q \in Processes \ {p} : DataDir[q] = d /\ (Writes(p) \/ Writes(p)') => ~Writes(q)
  <2>1. ASSUME NEW q \in Processes \ {p}, DataDir[q] = d, Writes(q)
        PROVE  ~Writes(p) /\ ~Writes(p)'
    <3>1. Writes(q)'
      BY <2>1
    <3>2. data_lock[d] = q /\ data_lock'[d] = q
      BY <2>1, <3>1, WriterLocks, WriterLocksNext
    <3> QED BY <2>1, <3>2, WriterLocks, WriterLocksNext
  <2> QED BY <2>1
<1>4. CASE Writes(p)' = Writes(p)
  BY <1>4 DEF Inside
<1>5. CASE ~Writes(p) /\ Writes(p)'
  <2>1. Inside[d] = {} /\ Inside'[d] = {p}
    BY <1>1, <1>3, <1>5 DEF Inside
  <2>2. Inside' = [Inside EXCEPT ![d] = {p}]
    BY <1>1, <1>2, <2>1 DEF Inside
  <2> QED BY <2>1, <2>2 DEF Directory!Enter, Inside
<1>6. CASE Writes(p) /\ ~Writes(p)'
  <2>1. p \in Inside[d] /\ Inside'[d] = {}
    BY <1>1, <1>3, <1>6 DEF Inside
  <2>2. Inside' = [Inside EXCEPT ![d] = {}]
    BY <1>1, <1>2, <2>1 DEF Inside
  <2> QED BY <2>1, <2>2 DEF Directory!Leave, Inside
<1> QED
  <2>1. Writes(p) \in BOOLEAN /\ Writes(p)' \in BOOLEAN
    BY DEF Writes
  <2> QED BY <1>4, <1>5, <1>6, <2>1

(* A data directory has one writer at a time, the writes counted that tasks  *)
(* leave behind before run() returns, and it is free again after a writer    *)
(* that ended in whatever way (serve.rs:133-174, lock.rs:19-52, indexer.rs:  *)
(* 181-206).                                                                 *)
THEOREM DirectoryExclusive == Spec => DirectorySpec
<1>1. Init => Directory!Init
  BY DEF Init, Directory!Init, Writes, Processes
<1>2. ProcessTypeOK /\ DirInv /\ DirInv' /\ [Next]_vars => [Directory!Next]_Inside
  <2> SUFFICES ASSUME ProcessTypeOK, DirInv, DirInv', [Next]_vars
               PROVE  Directory!Next \/ UNCHANGED Inside
    OBVIOUS
  <2>1. CASE UNCHANGED <<phase, ingest, maintenance, left>>
    BY <2>1 DEF Inside, Writes
  <2>2. ASSUME NEW p \in Processes, OthersAlone(p)
        PROVE  Directory!Next \/ UNCHANGED Inside
    <3>1. \A q \in Processes \ {p} : Writes(q)' = Writes(q)
      BY <2>2 DEF OthersAlone, Writes
    <3>2. DataDir[p] \in Dirs
      BY ListenerIds
    <3> QED BY <3>1, <3>2, WriterStep DEF Directory!Next
  <2> QED BY <2>1, <2>2, DirStep
<1>3. [Directory!Next]_Inside => [Directory!Next]_([d \in Dirs |-> {p \in Processes : DataDir[p] = d /\ Writes(p)}])
  BY DEF Inside
<1> QED BY <1>1, <1>2, <1>3, ProcessTypeCorrect, DirCorrect, PTL DEF Spec, DirectorySpec, Directory!Spec
=============================================================================
