---------------------------- MODULE TailPipeline ----------------------------
(* tail.rs as the service uses it (tail_targets_isolated under ingest_loop): *)
(* one supervisor task per stream, which runs the producer and the consumer  *)
(* of the stream in turn, and a driver that aborts and restarts them all.    *)
(*                                                                           *)
(* ArchiveStore takes for granted what this module is about: a stream is     *)
(* deactivated only between lines, and its lines come one at a time.         *)
(*                                                                           *)
(* A task of an attempt that was abandoned may still be inside its handler   *)
(* when the next attempt begins, so a stream has two task slots.             *)
EXTENDS Integers, Sequences

CONSTANTS
  Streams,
  Capacity,        \* LINE_CHANNEL_CAPACITY
  ReconnectDelay,  \* RECONNECT_DELAY
  AbortTimeout,    \* ABORT_JOIN_TIMEOUT
  RetryInterval,   \* RETRY_INTERVAL of ingest_loop
  MaxStall,        \* time in which a waiting line is taken and handled
  MaxChunk,        \* bound: lines completed by one chunk of the response
  MaxLines,        \* bound: lines of a connection, none from Period + MaxChunk on
  MaxFaults,       \* bound: handlers that fail or panic
  Null

ASSUME TailAssumption ==
  /\ {ReconnectDelay, AbortTimeout, RetryInterval, MaxStall, MaxFaults} \subseteq Nat
  /\ {Capacity, MaxChunk} \subseteq Nat \ {0}
  /\ MaxLines \in [Streams -> Nat]

VARIABLES
  task,      \* task[s][k]: the supervisor of stream s in slot k
  slot,      \* the slot of the attempt under way
  driver,    \* drive_tasks and the retry loop around it
  driver_timer,
  shutdown,
  produced,  \* lines read since the stream was last deactivated, modulo Period
  handled,   \* lines given to the handler since then, modulo Period
  faults

vars == <<task, slot, driver, driver_timer, shutdown, produced, handled, faults>>

Slots == {0, 1}

(* More than the lines that can be under way at once.                        *)
Period == Capacity + MaxChunk + 2

(* stale: the stream has been deactivated since the line was read.           *)
Line == [no : 0..(Period - 1), stale : BOOLEAN]

(* connect, reading, sleeping: the producer.  delay: the supervisor waits    *)
(* after an attempt.  hand: the consumer; "next" is the end of a line within *)
(* one poll of the task, "idle" between polls.                               *)
Attempt == [pc |-> "connect", timer |-> 0, chunk |-> <<>>, queue |-> <<>>,
            hand |-> "idle", line |-> Null, stalled |-> 0, aborted |-> FALSE]
Gone == [Attempt EXCEPT !.pc = "gone"]

Init ==
  /\ task = [s \in Streams |-> [k \in Slots |-> IF k = 0 THEN Attempt ELSE Gone]]
  /\ slot = 0
  /\ driver = "driving" /\ driver_timer = 0
  /\ shutdown = FALSE
  /\ produced = [s \in Streams |-> 0]
  /\ handled = [s \in Streams |-> 0]
  /\ faults = 0

-----------------------------------------------------------------------------
(* One task.  The handler does not await, so the producer moves only between *)
(* polls in which a handler ran.                                             *)

Busy(t) == t.hand # "idle" \/ t.queue # <<>> \/ t.aborted

Settled(t) == IF Busy(t) THEN t ELSE [t EXCEPT !.stalled = 0]

Becomes(s, k, t) == task' = [task EXCEPT ![s][k] = Settled(t)]

Fault == faults < MaxFaults /\ faults' = faults + 1

ProducerRuns(s, k, pc) ==
  /\ task[s][k].pc = pc
  /\ task[s][k].hand = "idle" /\ ~task[s][k].aborted

driverVars == <<slot, driver, driver_timer, shutdown>>
countVars == <<produced, handled, faults>>

Outdated(lines) == [i \in DOMAIN lines |-> [lines[i] EXCEPT !.stale = TRUE]]

(* on_connect: deactivate_stream, then the request is sent.                  *)
Connect(s, k) ==
  /\ ProducerRuns(s, k, "connect")
  /\ task' = [task EXCEPT ![s] = [j \in Slots |->
        [task[s][j] EXCEPT !.pc = IF j = k THEN "reading" ELSE @,
                           !.queue = Outdated(@), !.chunk = Outdated(@)]]]
  /\ produced' = [produced EXCEPT ![s] = 0]
  /\ handled' = [handled EXCEPT ![s] = 0]
  /\ UNCHANGED <<driverVars, faults>>

(* A chunk of the response completes n lines.                                *)
ReadChunk(s, k, n) ==
  /\ ProducerRuns(s, k, "reading") /\ task[s][k].chunk = <<>>
  /\ produced[s] + n <= MaxLines[s]
  /\ LET new == [i \in 1..n |->
                   [no |-> (produced[s] + i - 1) % Period, stale |-> FALSE]]
     IN  Becomes(s, k, [task[s][k] EXCEPT !.chunk = new])
  /\ produced' = [produced EXCEPT ![s] = (@ + n) % Period]
  /\ UNCHANGED <<driverVars, handled, faults>>

(* Slip: a line that finds the queue full is dropped.                        *)
TrySend(s, k) ==
  LET t == task[s][k]
  IN  /\ ProducerRuns(s, k, "reading") /\ t.chunk # <<>>
      /\ Becomes(s, k, [t EXCEPT !.chunk = Tail(@), !.queue =
            IF Len(@) < Capacity THEN Append(@, Head(t.chunk)) ELSE @])
      /\ UNCHANGED <<driverVars, countVars>>

(* Slip: the channel is unbounded.                                           *)
SendUnbounded(s, k) ==
  LET t == task[s][k]
  IN  /\ ProducerRuns(s, k, "reading") /\ t.chunk # <<>>
      /\ Becomes(s, k, [t EXCEPT !.chunk = Tail(@), !.queue = Append(@, Head(t.chunk))])
      /\ UNCHANGED <<driverVars, countVars>>

(* tx.send waits for room.                                                   *)
Send(s, k) ==
  LET t == task[s][k]
  IN  /\ ProducerRuns(s, k, "reading") /\ t.chunk # <<>>
      /\ Len(t.queue) < Capacity
      /\ Becomes(s, k, [t EXCEPT !.chunk = Tail(@), !.queue = Append(@, Head(t.chunk))])
      /\ UNCHANGED <<driverVars, countVars>>

(* Slip: no delay.                                                           *)
StreamEndsNoDelay(s, k) ==
  /\ ProducerRuns(s, k, "reading") /\ task[s][k].chunk = <<>>
  /\ Becomes(s, k, [task[s][k] EXCEPT !.pc = "sleeping"])
  /\ UNCHANGED <<driverVars, countVars>>

(* The request failed, the response ended, or a line was too long.           *)
StreamEnds(s, k) ==
  /\ ProducerRuns(s, k, "reading") /\ task[s][k].chunk = <<>>
  /\ Becomes(s, k, [task[s][k] EXCEPT !.pc = "sleeping", !.timer = ReconnectDelay])
  /\ UNCHANGED <<driverVars, countVars>>

(* sleep in pump_stream, or in supervise_target                              *)
DelayElapses(s, k) ==
  /\ ProducerRuns(s, k, "sleeping") \/ ProducerRuns(s, k, "delay")
  /\ task[s][k].timer = 0
  /\ Becomes(s, k, [task[s][k] EXCEPT !.pc = "connect"])
  /\ UNCHANGED <<driverVars, countVars>>

(* An abort takes hold between polls: the lines that are waiting may still   *)
(* be handled in the poll under way.                                         *)
Receive(s, k) ==
  LET t == task[s][k]
  IN  /\ t.queue # <<>>
      /\ t.hand = "next" \/ (t.hand = "idle" /\ ~t.aborted)
      /\ Becomes(s, k, [t EXCEPT !.hand = "handling", !.line = Head(t.queue),
                                 !.queue = Tail(@)])
      /\ handled' = [handled EXCEPT ![s] = (@ + 1) % Period]
      /\ UNCHANGED <<driverVars, produced, faults>>

HandlerReturns(s, k) ==
  /\ task[s][k].hand = "handling"
  /\ Becomes(s, k, [task[s][k] EXCEPT !.hand = "next", !.line = Null, !.stalled = 0])
  /\ UNCHANGED <<driverVars, countVars>>

(* The queue is empty, or the poll has used its budget.                      *)
Yield(s, k) ==
  /\ task[s][k].hand = "next"
  /\ Becomes(s, k, [task[s][k] EXCEPT !.hand = "idle"])
  /\ UNCHANGED <<driverVars, countVars>>

(* Slip: the supervisor ends with its attempt.                               *)
HandlerFailsForGood(s, k) ==
  /\ task[s][k].hand = "handling"
  /\ Fault
  /\ Becomes(s, k, [Attempt EXCEPT !.pc = "idle", !.aborted = task[s][k].aborted])
  /\ UNCHANGED <<driverVars, produced, handled>>

(* The attempt ends: producer, connection and waiting lines are dropped.     *)
HandlerFails(s, k) ==
  /\ task[s][k].hand = "handling"
  /\ Fault
  /\ Becomes(s, k, [Attempt EXCEPT !.pc = "delay", !.timer = ReconnectDelay,
                                   !.aborted = task[s][k].aborted])
  /\ UNCHANGED <<driverVars, produced, handled>>

HandlerPanics(s, k) ==
  /\ task[s][k].hand = "handling"
  /\ Fault
  /\ task' = [task EXCEPT ![s][k] = Gone]
  /\ UNCHANGED <<driverVars, produced, handled>>

AbortTakesHold(s, k) ==
  /\ task[s][k].aborted /\ task[s][k].hand = "idle"
  /\ task' = [task EXCEPT ![s][k] = Gone]
  /\ UNCHANGED <<driverVars, countVars>>

-----------------------------------------------------------------------------
(* drive_tasks, run_ingest_once, retry_until_shutdown                        *)

AllGone == \A s \in Streams : task[s][slot].pc = "gone"

SignalShutdown ==
  /\ ~shutdown
  /\ shutdown' = TRUE
  /\ UNCHANGED <<task, slot, driver, driver_timer, countVars>>

(* Slip: the tasks are not aborted.                                          *)
AbortNone == task

AbortAll ==
  [s \in Streams |-> [task[s] EXCEPT ![slot].aborted = task[s][slot].pc # "gone"]]

AbortAndJoin ==
  /\ driver = "driving"
  /\ shutdown \/ \E s \in Streams : task[s][slot].pc = "gone"
  /\ task' = AbortAll
  /\ driver' = "joining" /\ driver_timer' = AbortTimeout
  /\ UNCHANGED <<slot, shutdown, countVars>>

(* All tasks have ended, or the timeout has.                                 *)
Joined ==
  /\ driver = "joining"
  /\ AllGone \/ driver_timer = 0
  /\ IF shutdown THEN driver' = "stopped" /\ driver_timer' = 0
                 ELSE driver' = "retry" /\ driver_timer' = RetryInterval
  /\ UNCHANGED <<task, slot, shutdown, countVars>>

RetryCancelled ==
  /\ driver = "retry" /\ shutdown
  /\ driver' = "stopped" /\ driver_timer' = 0
  /\ UNCHANGED <<task, slot, shutdown, countVars>>

NextAttempt ==
  /\ slot' = 1 - slot
  /\ task' = [s \in Streams |-> [task[s] EXCEPT ![1 - slot] = Attempt]]
  /\ driver' = "driving"
  /\ UNCHANGED <<driver_timer, shutdown, countVars>>

(* Slip: the next attempt follows at once.                                   *)
RetryAtOnce == driver = "retry" /\ ~shutdown /\ NextAttempt

Retry == driver = "retry" /\ ~shutdown /\ driver_timer = 0 /\ NextAttempt

-----------------------------------------------------------------------------
Less(n) == IF n = 0 THEN 0 ELSE n - 1

(* Time passes.  No line waits longer than MaxStall for its turn at the      *)
(* handler and the handler's return.                                         *)
Tick ==
  /\ \A s \in Streams, k \in Slots :
        Busy(task[s][k]) => task[s][k].stalled < MaxStall
  /\ task' = [s \in Streams |-> [k \in Slots |->
        [task[s][k] EXCEPT !.timer = Less(@),
                           !.stalled = IF Busy(task[s][k]) THEN @ + 1 ELSE 0]]]
  /\ driver_timer' = Less(driver_timer)
  /\ task' # task \/ driver_timer' # driver_timer
  /\ UNCHANGED <<slot, driver, shutdown, countVars>>

ProducerStep(s, k) == Connect(s, k) \/ Send(s, k) \/ DelayElapses(s, k)

ConsumerStep(s, k) ==
  Receive(s, k) \/ HandlerReturns(s, k) \/ Yield(s, k) \/ AbortTakesHold(s, k)

UpstreamStep(s, k) == StreamEnds(s, k) \/ \E n \in 1..MaxChunk : ReadChunk(s, k, n)

DriverStep == AbortAndJoin \/ Joined \/ RetryCancelled \/ Retry

Next ==
  \/ Tick
  \/ SignalShutdown
  \/ DriverStep
  \/ \E s \in Streams, k \in Slots :
        \/ ProducerStep(s, k)
        \/ ConsumerStep(s, k)
        \/ UpstreamStep(s, k)
        \/ HandlerFails(s, k)
        \/ HandlerPanics(s, k)

Spec == Init /\ [][Next]_vars

(* Time passes, tasks that can run are polled, a handler returns.  Upstream, *)
(* shutdown and faults are left free.                                        *)
Fairness ==
  /\ WF_vars(Tick)
  /\ WF_vars(DriverStep)
  /\ \A s \in Streams, k \in Slots :
        WF_vars(ProducerStep(s, k)) /\ WF_vars(ConsumerStep(s, k))

FairSpec == Spec /\ Fairness

-----------------------------------------------------------------------------
FieldTypesOK ==
  /\ task \in [Streams -> [Slots ->
       [pc : {"connect", "reading", "sleeping", "delay", "gone"},
        timer : 0..ReconnectDelay, chunk : Seq(Line), queue : Seq(Line),
        hand : {"idle", "handling", "next"}, line : Line \cup {Null},
        stalled : 0..MaxStall, aborted : BOOLEAN]]]
  /\ slot \in Slots
  /\ driver \in {"driving", "joining", "retry", "stopped"}
  /\ driver_timer \in Nat
  /\ shutdown \in BOOLEAN
  /\ produced \in [Streams -> 0..(Period - 1)] /\ handled \in [Streams -> 0..(Period - 1)]
  /\ faults \in 0..MaxFaults

QueuesFit == \A s \in Streams, k \in Slots : Len(task[s][k].queue) <= Capacity

TailTypeOK == FieldTypesOK /\ QueuesFit

(* A backlog is handled before the stream is connected again, an abandoned   *)
(* attempt ends before the next one begins.                                  *)
InTime ==
  /\ Capacity * MaxStall < ReconnectDelay
  /\ (Capacity + 1) * MaxStall < AbortTimeout + RetryInterval

Quiet(s, k) ==
  task[s][k].hand = "idle" /\ (task[s][k].aborted \/ task[s][k].queue = <<>>)

(* A stream is deactivated only when no line of it waits or is being         *)
(* handled, in this attempt or in an abandoned one.  Nothing in the code     *)
(* says so: it rests on the delays, provided a full queue is handled within  *)
(* RECONNECT_DELAY and an abandoned one before the next attempt              *)
(* (tail.rs:309-334, 339-347, serve.rs:552-579).  ArchiveStore's Connect is  *)
(* a single step because of it.                                              *)
ConnectQuiet ==
  [][\A s \in Streams :
       (\E k \in Slots : task[s][k].pc = "connect" /\ task'[s][k].pc = "reading")
         => \A k \in Slots : Quiet(s, k)]_vars

(* Two tasks of one stream never handle lines at a time, although shutdown   *)
(* and retry go on without a task that did not stop in time.                 *)
OneHandler ==
  \A s \in Streams : ~ \A k \in Slots : task[s][k].hand # "idle"

(* Lines reach the handler in the order of the connection, each once and     *)
(* without a gap, whatever the queue's backpressure, and none from before    *)
(* the stream was deactivated (tail.rs:147-161, 252-265).                    *)
HandledInOrder ==
  [][\A s \in Streams, k \in Slots :
       (task[s][k].hand # "handling" /\ task'[s][k].hand = "handling") =>
         task'[s][k].line = [no |-> handled[s], stale |-> FALSE]]_vars

(* A stream that lost its connection connects again, after a failure of the  *)
(* upstream, of its handler or of another stream's task (tail.rs:163-199,    *)
(* 309-334, serve.rs:552-579).                                               *)
Reconnects == \A s \in Streams : []<>(shutdown \/ task[s][slot].pc = "reading")

(* Shutdown ends however much the upstream sends, and no task is left behind *)
(* for good (tail.rs:107-139, 339-347).                                      *)
ShutdownCompletes ==
  shutdown ~> (driver = "stopped" /\ \A s \in Streams, k \in Slots : task[s][k].pc = "gone")
=============================================================================
