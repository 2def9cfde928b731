-------------------------- MODULE TailPipelineProofs --------------------------
(* Proofs about the supervision of the streams, for any number of streams,   *)
(* any capacity and any delays.                                              *)
EXTENDS TailPipeline, SequenceTheorems, TLAPS

(* Lines that wait in a task or are with its handler, and the time they take *)
(* at most.                                                                  *)
Work(t) == Len(t.queue) + (IF t.hand = "handling" THEN 1 ELSE 0)

Span(n) == n * MaxStall

(* The queue fits, and a poll that handles lines has made room.              *)
Fits(t) ==
  /\ Len(t.queue) <= Capacity /\ Len(t.chunk) <= MaxChunk
  /\ t.hand # "idle" => Len(t.queue) < Capacity

Empty(t) == t.queue = <<>> /\ t.chunk = <<>> /\ t.hand = "idle"

(* What waits when the connection ends is handled before the delay is over.  *)
Drained(t) ==
  /\ t.pc \in {"connect", "delay"} => Empty(t)
  /\ t.pc = "gone" => Empty(t) /\ ~t.aborted
  /\ t.pc = "sleeping" =>
       /\ t.chunk = <<>>
       /\ Work(t) > 0 => Span(Work(t)) - t.stalled < t.timer

(* An attempt under way is not aborted; one that was given up ends before    *)
(* the next begins.                                                          *)
TimeLeft == IF driver = "joining" THEN driver_timer + RetryInterval ELSE driver_timer

Leaves(t, at, left) ==
  /\ at = "driving" => ~t.aborted
  /\ at # "driving" => t.aborted \/ t.pc = "gone"
  /\ (at \in {"joining", "retry"} /\ t.hand # "idle") =>
       Span(Work(t) + 1) - t.stalled < left

(* The lines that wait are the next ones of the connection.                  *)
Numbered(lines, first) ==
  \A i \in 1..Len(lines) : lines[i] = [no |-> (first + (i - 1)) % Period, stale |-> FALSE]

Ordered(t, first, end) ==
  /\ Numbered(t.queue, first) /\ Numbered(t.chunk, first + Len(t.queue))
  /\ t.pc = "reading" => end = (first + (Len(t.queue) + Len(t.chunk))) % Period

(* A task of an earlier attempt handles nothing any more.                    *)
Over(t) == t.hand = "idle" /\ (t.aborted \/ (t.pc = "gone" /\ t.queue = <<>>))

Good(t, at, left, first, end) ==
  Fits(t) /\ Drained(t) /\ Leaves(t, at, left) /\ Ordered(t, first, end)

CurrentInv(s) == Good(task[s][slot], driver, TimeLeft, handled[s], produced[s])

TailInv ==
  /\ FieldTypesOK
  /\ \A s \in Streams : CurrentInv(s) /\ Over(task[s][1 - slot])

Task == [pc : {"connect", "reading", "sleeping", "delay", "gone"},
         timer : 0..ReconnectDelay, chunk : Seq(Line), queue : Seq(Line),
         hand : {"idle", "handling", "next"}, line : Line \cup {Null},
         stalled : 0..MaxStall, aborted : BOOLEAN]

-----------------------------------------------------------------------------
(* Numbers and times.                                                        *)

LEMMA Bounds ==
  /\ ReconnectDelay \in Nat /\ AbortTimeout \in Nat /\ RetryInterval \in Nat
  /\ MaxStall \in Nat /\ MaxFaults \in Nat
  /\ Capacity \in Nat /\ Capacity >= 1 /\ MaxChunk \in Nat /\ MaxChunk >= 1
  /\ Period \in Nat /\ Period = Capacity + MaxChunk + 2
BY TailAssumption DEF Period

LEMMA SpanIs ==
  /\ Span(0) = 0 /\ Span(1) = MaxStall
  /\ \A n \in Nat : Span(n) \in Nat /\ Span(n + 1) = Span(n) + MaxStall
  /\ \A m \in Nat, n \in Nat : m <= n => Span(m) <= Span(n)
<1>1. MaxStall \in Nat
  BY Bounds
<1>2. \A n \in Nat : n * MaxStall \in Nat /\ (n + 1) * MaxStall = n * MaxStall + MaxStall
  BY <1>1
<1>3. ASSUME NEW m \in Nat, NEW n \in Nat, m <= n PROVE m * MaxStall <= n * MaxStall
  <2>1. PICK d \in Nat : n = m + d
    BY <1>3
  <2>2. (m + d) * MaxStall = m * MaxStall + d * MaxStall
    BY <1>1
  <2>3. d * MaxStall \in Nat /\ m * MaxStall \in Nat
    BY <1>1
  <2> QED BY <2>1, <2>2, <2>3
<1> QED BY <1>1, <1>2, <1>3 DEF Span

LEMMA Wraps ==
  ASSUME NEW n \in Nat, n < Period + Period
  PROVE  n % Period = IF n < Period THEN n ELSE n - Period
<1>1. PICK p \in Nat : p = Period /\ p > 0
  BY Bounds
<1>2. n % p = IF n < p THEN n ELSE n - p
  BY <1>1
<1> QED BY <1>1, <1>2

-----------------------------------------------------------------------------
(* Tasks.                                                                    *)

LEMMA TaskFields ==
  ASSUME NEW t \in Task
  PROVE  /\ t.pc \in {"connect", "reading", "sleeping", "delay", "gone"}
         /\ t.timer \in 0..ReconnectDelay /\ t.timer \in Nat
         /\ t.chunk \in Seq(Line) /\ t.queue \in Seq(Line)
         /\ t.hand \in {"idle", "handling", "next"} /\ t.line \in Line \cup {Null}
         /\ t.stalled \in 0..MaxStall /\ t.stalled \in Nat /\ t.stalled <= MaxStall
         /\ t.aborted \in BOOLEAN
         /\ Len(t.queue) \in Nat /\ Len(t.chunk) \in Nat /\ Work(t) \in Nat
<1>1. /\ t.pc \in {"connect", "reading", "sleeping", "delay", "gone"}
      /\ t.timer \in 0..ReconnectDelay
      /\ t.chunk \in Seq(Line) /\ t.queue \in Seq(Line)
      /\ t.hand \in {"idle", "handling", "next"} /\ t.line \in Line \cup {Null}
      /\ t.stalled \in 0..MaxStall
      /\ t.aborted \in BOOLEAN
  BY DEF Task
<1>2. Len(t.queue) \in Nat /\ Len(t.chunk) \in Nat
  BY <1>1
<1>3. t.timer \in Nat /\ t.stalled \in Nat /\ t.stalled <= MaxStall
  BY <1>1, Bounds
<1>4. Work(t) \in Nat
  <2>1. CASE t.hand = "handling"
    BY <1>2, <2>1 DEF Work
  <2>2. CASE t.hand # "handling"
    BY <1>2, <2>2 DEF Work
  <2> QED BY <2>1, <2>2
<1> QED BY <1>1, <1>2, <1>3, <1>4

LEMMA MakeTask ==
  ASSUME NEW pc \in {"connect", "reading", "sleeping", "delay", "gone"},
         NEW timer \in 0..ReconnectDelay, NEW chunk \in Seq(Line), NEW queue \in Seq(Line),
         NEW hand \in {"idle", "handling", "next"}, NEW line \in Line \cup {Null},
         NEW stalled \in 0..MaxStall, NEW aborted \in BOOLEAN
  PROVE  [pc |-> pc, timer |-> timer, chunk |-> chunk, queue |-> queue,
          hand |-> hand, line |-> line, stalled |-> stalled, aborted |-> aborted] \in Task
BY DEF Task

LEMMA Fresh ==
  /\ Attempt \in Task /\ Gone \in Task
  /\ Empty(Attempt) /\ Empty(Gone) /\ ~Attempt.aborted /\ ~Gone.aborted
  /\ Attempt.pc = "connect" /\ Gone.pc = "gone"
  /\ Attempt.stalled = 0 /\ Gone.stalled = 0
<1>1. <<>> \in Seq(Line) /\ 0 \in 0..ReconnectDelay /\ 0 \in 0..MaxStall
  BY Bounds
<1>2. Attempt \in Task
  BY <1>1 DEF Attempt, Task
<1>3. Gone \in Task
  BY <1>1 DEF Attempt, Gone, Task
<1> QED BY <1>2, <1>3 DEF Attempt, Gone, Empty

(* A task that is empty is good, whatever came before.                       *)
LEMMA EmptyGood ==
  ASSUME NEW t \in Task, Empty(t), t.pc # "reading", t.pc = "gone" => ~t.aborted,
         NEW at, at = "driving" => ~t.aborted, at # "driving" => t.aborted \/ t.pc = "gone",
         NEW left, NEW first, NEW end
  PROVE  Good(t, at, left, first, end)
<1>1. Len(t.queue) = 0 /\ Len(t.chunk) = 0 /\ Work(t) = 0
  BY DEF Empty, Work
<1>2. Fits(t)
  BY <1>1, Bounds DEF Fits, Empty
<1>3. Drained(t)
  BY <1>1 DEF Drained, Empty
<1>4. Leaves(t, at, left)
  BY DEF Leaves, Empty
<1>5. Ordered(t, first, end)
  BY <1>1 DEF Ordered, Numbered
<1> QED BY <1>2, <1>3, <1>4, <1>5 DEF Good

LEMMA SettledGood ==
  ASSUME NEW t \in Task, NEW at, NEW left, NEW first, NEW end, Good(t, at, left, first, end)
  PROVE  Settled(t) \in Task /\ Good(Settled(t), at, left, first, end)
<1>1. CASE Busy(t)
  BY <1>1 DEF Settled
<1>2. CASE ~Busy(t)
  <2>1. PICK u : u = [t EXCEPT !.stalled = 0]
    OBVIOUS
  <2>2. Settled(t) = u
    BY <1>2, <2>1 DEF Settled
  <2>3. /\ u.pc = t.pc /\ u.timer = t.timer /\ u.chunk = t.chunk /\ u.queue = t.queue
        /\ u.hand = t.hand /\ u.aborted = t.aborted
    BY <2>1 DEF Task
  <2>4. u \in Task
    <3>1. 0 \in 0..MaxStall
      BY Bounds
    <3> QED BY <2>1, <3>1 DEF Task
  <2>5. t.hand = "idle" /\ t.queue = <<>> /\ ~t.aborted
    BY <1>2 DEF Busy
  <2>6. Work(u) = Work(t) /\ Work(t) = 0
    BY <2>3, <2>5 DEF Work
  <2>7. Fits(u)
    BY <2>3 DEF Good, Fits
  <2>8. Drained(u)
    BY <2>3, <2>6 DEF Good, Drained, Empty
  <2>9. Leaves(u, at, left)
    BY <2>3, <2>5 DEF Good, Leaves
  <2>10. Ordered(u, first, end)
    BY <2>3 DEF Good, Ordered
  <2> QED BY <2>2, <2>4, <2>7, <2>8, <2>9, <2>10 DEF Good
<1> QED BY <1>1, <1>2

-----------------------------------------------------------------------------
(* One task moves.                                                           *)

LEMMA OneTask ==
  ASSUME FieldTypesOK, NEW s \in Streams, NEW k \in Slots, NEW t \in Task,
         task' = [task EXCEPT ![s][k] = t]
  PROVE  /\ task' \in [Streams -> [Slots -> Task]]
         /\ task'[s][k] = t
         /\ \A j \in Slots : j # k => task'[s][j] = task[s][j]
         /\ \A q \in Streams : q # s => task'[q] = task[q]
<1>1. task \in [Streams -> [Slots -> Task]]
  BY DEF FieldTypesOK, Task
<1> QED BY <1>1

LEMMA SlotsAre ==
  ASSUME FieldTypesOK
  PROVE  /\ slot \in Slots /\ 1 - slot \in Slots /\ slot # 1 - slot /\ slot \in Int
         /\ \A k \in Slots : k = slot \/ k = 1 - slot
         /\ 1 - (1 - slot) = slot
BY DEF FieldTypesOK, Slots

(* The task of the attempt under way moves on.                               *)
LEMMA CurrentMoves ==
  ASSUME TailInv, NEW s \in Streams, NEW t \in Task,
         task' = [task EXCEPT ![s][slot] = t],
         UNCHANGED driverVars, faults' \in 0..MaxFaults,
         NEW p \in 0..(Period - 1), produced' = [produced EXCEPT ![s] = p],
         NEW h \in 0..(Period - 1), handled' = [handled EXCEPT ![s] = h],
         Good(t, driver, TimeLeft, h, p)
  PROVE  TailInv'
<1>1. FieldTypesOK /\ slot \in Slots /\ 1 - slot \in Slots /\ slot # 1 - slot
  BY SlotsAre DEF TailInv
<1>2. /\ slot' = slot /\ driver' = driver /\ driver_timer' = driver_timer
      /\ shutdown' = shutdown /\ TimeLeft' = TimeLeft
  BY DEF driverVars, TimeLeft
<1>3. /\ task' \in [Streams -> [Slots -> Task]]
      /\ task'[s][slot] = t /\ task'[s][1 - slot] = task[s][1 - slot]
      /\ \A q \in Streams : q # s => task'[q] = task[q]
  BY <1>1, OneTask, ZenonT(60)
<1>4. /\ produced' \in [Streams -> 0..(Period - 1)] /\ handled' \in [Streams -> 0..(Period - 1)]
      /\ produced'[s] = p /\ handled'[s] = h
      /\ \A q \in Streams : q # s => produced'[q] = produced[q] /\ handled'[q] = handled[q]
  BY <1>1 DEF FieldTypesOK
<1>5. FieldTypesOK'
  BY <1>1, <1>2, <1>3, <1>4 DEF FieldTypesOK, Task
<1>6. ASSUME NEW q \in Streams
      PROVE  /\ Good(task'[q][slot'], driver', TimeLeft', handled'[q], produced'[q])
             /\ Over(task'[q][1 - slot'])
  <2>1. CASE q = s
    BY <1>2, <1>3, <1>4, <2>1 DEF TailInv
  <2>2. CASE q # s
    BY <1>2, <1>3, <1>4, <2>2 DEF TailInv, CurrentInv
  <2> QED BY <2>1, <2>2
<1> QED BY <1>5, <1>6 DEF TailInv, CurrentInv, Good, Fits, Drained, Empty, Leaves, Ordered, Over,
        Work, Numbered

LEMMA CurrentBecomes ==
  ASSUME TailInv, NEW s \in Streams, NEW t \in Task, Becomes(s, slot, t),
         UNCHANGED driverVars, faults' \in 0..MaxFaults,
         NEW p \in 0..(Period - 1), produced' = [produced EXCEPT ![s] = p],
         NEW h \in 0..(Period - 1), handled' = [handled EXCEPT ![s] = h],
         Good(t, driver, TimeLeft, h, p)
  PROVE  TailInv'
<1>1. PICK u \in Task : u = Settled(t) /\ Good(u, driver, TimeLeft, h, p)
  BY SettledGood
<1>2. task' = [task EXCEPT ![s][slot] = u]
  BY <1>1 DEF Becomes
<1> QED BY <1>1, <1>2, CurrentMoves

(* When nothing is counted.                                                  *)
LEMMA CurrentKeepsCount ==
  ASSUME TailInv, NEW s \in Streams, NEW t \in Task, Becomes(s, slot, t),
         UNCHANGED <<driverVars, produced, handled>>, faults' \in 0..MaxFaults,
         Good(t, driver, TimeLeft, handled[s], produced[s])
  PROVE  TailInv'
<1>1. PICK p \in 0..(Period - 1), h \in 0..(Period - 1) : p = produced[s] /\ h = handled[s]
  BY DEF TailInv, FieldTypesOK
<1>2. produced' = [produced EXCEPT ![s] = p] /\ handled' = [handled EXCEPT ![s] = h]
  BY <1>1 DEF TailInv, FieldTypesOK
<1> QED BY <1>1, <1>2, CurrentBecomes

(* Only a task of the attempt under way does anything but end.               *)
LEMMA OnlyCurrent ==
  ASSUME TailInv, NEW s \in Streams, NEW k \in Slots,
         \/ ProducerStep(s, k) \/ UpstreamStep(s, k)
         \/ Receive(s, k) \/ HandlerReturns(s, k) \/ Yield(s, k)
         \/ HandlerFails(s, k) \/ HandlerPanics(s, k)
  PROVE  k = slot
<1>1. ~Over(task[s][k])
  BY DEF ProducerStep, UpstreamStep, Connect, Send, DelayElapses, StreamEnds, ReadChunk,
         ProducerRuns, Receive, HandlerReturns, Yield, HandlerFails, HandlerPanics, Over
<1>2. Over(task[s][1 - slot]) /\ (k = slot \/ k = 1 - slot)
  BY SlotsAre DEF TailInv
<1> QED BY <1>1, <1>2

(* What is known of the current task, by its name.                           *)
LEMMA Current ==
  ASSUME TailInv, NEW s \in Streams
  PROVE  /\ task[s][slot] \in Task /\ task[s][1 - slot] \in Task
         /\ Good(task[s][slot], driver, TimeLeft, handled[s], produced[s])
         /\ Over(task[s][1 - slot])
         /\ produced[s] \in 0..(Period - 1) /\ handled[s] \in 0..(Period - 1)
BY SlotsAre DEF TailInv, CurrentInv, FieldTypesOK, Task

-----------------------------------------------------------------------------
(* The producer.                                                             *)

LEMMA StreamEndsStep ==
  ASSUME TailInv, NEW s \in Streams, StreamEnds(s, slot),
         Capacity * MaxStall < ReconnectDelay
  PROVE  TailInv'
<1>1. PICK t \in Task : t = task[s][slot] /\ Good(t, driver, TimeLeft, handled[s], produced[s])
  BY Current
<1>2. t.pc = "reading" /\ t.hand = "idle" /\ ~t.aborted /\ t.chunk = <<>>
  BY <1>1 DEF StreamEnds, ProducerRuns
<1>3. PICK u : u = [t EXCEPT !.pc = "sleeping", !.timer = ReconnectDelay]
  OBVIOUS
<1>4. /\ u.pc = "sleeping" /\ u.timer = ReconnectDelay /\ u.chunk = t.chunk /\ u.queue = t.queue
      /\ u.hand = t.hand /\ u.aborted = t.aborted /\ u.stalled = t.stalled
  BY <1>3 DEF Task
<1>5. u \in Task
  <2>1. ReconnectDelay \in 0..ReconnectDelay
    BY Bounds
  <2> QED BY <1>3, <2>1 DEF Task
<1>6. Work(u) = Len(t.queue) /\ Work(u) \in Nat /\ Work(u) <= Capacity
  BY <1>1, <1>2, <1>4, TaskFields DEF Work, Good, Fits
<1>7. Span(Work(u)) - t.stalled < ReconnectDelay
  <2>1. Span(Work(u)) \in Nat /\ Span(Work(u)) <= Span(Capacity) /\ Span(Capacity) \in Nat
    BY <1>6, SpanIs, Bounds
  <2>2. Span(Capacity) < ReconnectDelay
    BY DEF Span
  <2> QED BY <2>1, <2>2, TaskFields, Bounds
<1>8. Fits(u) /\ Drained(u)
  BY <1>1, <1>2, <1>4, <1>7 DEF Good, Fits, Drained
<1>9. Leaves(u, driver, TimeLeft) /\ Ordered(u, handled[s], produced[s])
  BY <1>1, <1>2, <1>4 DEF Good, Leaves, Ordered
<1>10. /\ Becomes(s, slot, u) /\ UNCHANGED <<driverVars, produced, handled>>
       /\ faults' \in 0..MaxFaults
  BY <1>1, <1>3 DEF StreamEnds, countVars, TailInv, FieldTypesOK
<1> QED BY <1>5, <1>8, <1>9, <1>10, CurrentKeepsCount DEF Good

LEMMA DelayElapsesStep ==
  ASSUME TailInv, NEW s \in Streams, DelayElapses(s, slot)
  PROVE  TailInv'
<1>1. PICK t \in Task : t = task[s][slot] /\ Good(t, driver, TimeLeft, handled[s], produced[s])
  BY Current
<1>2. t.pc \in {"sleeping", "delay"} /\ t.hand = "idle" /\ ~t.aborted /\ t.timer = 0
  BY <1>1 DEF DelayElapses, ProducerRuns
<1>3. Empty(t)
  <2>1. CASE t.pc = "delay"
    BY <1>1, <2>1 DEF Good, Drained
  <2>2. CASE t.pc = "sleeping"
    <3>1. t.chunk = <<>> /\ Work(t) \in Nat /\ Work(t) = Len(t.queue)
      BY <1>1, <1>2, <2>2, TaskFields DEF Good, Drained, Work
    <3>2. Work(t) = 0
      <4>1. SUFFICES ASSUME Work(t) >= 1 PROVE FALSE
        BY <3>1
      <4>2. Span(Work(t)) - t.stalled < 0
        BY <1>1, <1>2, <2>2, <3>1, <4>1 DEF Good, Drained
      <4>3. Span(1) = MaxStall /\ Span(1) <= Span(Work(t)) /\ Span(Work(t)) \in Nat
        BY <3>1, <4>1, SpanIs
      <4> QED BY <4>2, <4>3, TaskFields, Bounds
    <3>3. t.queue = <<>>
      <4>1. t.queue \in Seq(Line)
        BY TaskFields
      <4>2. Len(t.queue) = 0
        BY <3>1, <3>2
      <4> QED BY <4>1, <4>2, EmptySeq
    <3> QED BY <1>2, <3>1, <3>3 DEF Empty
  <2> QED BY <1>2, <2>1, <2>2
<1>4. PICK u : u = [t EXCEPT !.pc = "connect"]
  OBVIOUS
<1>5. /\ u.pc = "connect" /\ u.chunk = t.chunk /\ u.queue = t.queue
      /\ u.hand = t.hand /\ u.aborted = t.aborted
  BY <1>4 DEF Task
<1>6. u \in Task
  BY <1>4 DEF Task
<1>7. driver = "driving"
  BY <1>1, <1>2 DEF Good, Leaves
<1>8. Good(u, driver, TimeLeft, handled[s], produced[s])
  BY <1>2, <1>3, <1>5, <1>6, <1>7, EmptyGood DEF Empty
<1>9. /\ Becomes(s, slot, u) /\ UNCHANGED <<driverVars, produced, handled>>
      /\ faults' \in 0..MaxFaults
  BY <1>1, <1>4 DEF DelayElapses, countVars, TailInv, FieldTypesOK
<1> QED BY <1>6, <1>8, <1>9, CurrentKeepsCount

(* The lines of a chunk, numbered after those that wait.                     *)
LEMMA NumbersGoOn ==
  ASSUME NEW first \in 0..(Period - 1), NEW m \in Nat, NEW i \in Nat, m + i < Period
  PROVE  (((first + m) % Period) + i) % Period = (first + (m + i)) % Period
<1>1. PICK p \in Nat : p = Period
  BY Bounds
<1>2. \A n \in Nat : n < p + p => n % p = IF n < p THEN n ELSE n - p
  BY <1>1, Wraps
<1>3. first \in Nat /\ first < p
  BY <1>1
<1>4. PICK r \in Nat : r = (first + m) % p /\ r = IF first + m < p THEN first + m ELSE first + m - p
  BY <1>1, <1>2, <1>3
<1>5. r + i < p + p /\ (r + i) % p = IF r + i < p THEN r + i ELSE r + i - p
  BY <1>1, <1>2, <1>3, <1>4
<1>6. (first + (m + i)) % p = IF first + (m + i) < p THEN first + (m + i) ELSE first + (m + i) - p
  BY <1>1, <1>2, <1>3
<1>7. (r + i) % p = (first + (m + i)) % p
  BY <1>1, <1>3, <1>4, <1>5, <1>6
<1> QED BY <1>1, <1>4, <1>7

LEMMA ModRange == \A n \in Nat : n % Period \in 0..(Period - 1) /\ n % Period \in Nat
BY Bounds

LEMMA ReadChunkStep ==
  ASSUME TailInv, NEW s \in Streams, NEW n \in 1..MaxChunk, ReadChunk(s, slot, n)
  PROVE  TailInv'
<1>1. PICK t \in Task : t = task[s][slot] /\ Good(t, driver, TimeLeft, handled[s], produced[s])
  BY Current
<1>2. t.pc = "reading" /\ t.hand = "idle" /\ ~t.aborted /\ t.chunk = <<>>
  BY <1>1 DEF ReadChunk, ProducerRuns
<1>3. PICK h \in 0..(Period - 1), p \in 0..(Period - 1) : h = handled[s] /\ p = produced[s]
  BY Current
<1>4. PICK m \in Nat : m = Len(t.queue) /\ m <= Capacity
  BY <1>1, TaskFields DEF Good, Fits
<1>5. p = (h + m) % Period
  BY <1>1, <1>2, <1>3, <1>4 DEF Good, Ordered
<1>6. PICK new : new = [i \in 1..n |-> [no |-> (p + i - 1) % Period, stale |-> FALSE]]
  OBVIOUS
<1>7. n \in Nat /\ n <= MaxChunk /\ \A i \in 1..n : i - 1 \in Nat /\ m + (i - 1) < Period
  BY <1>4, Bounds
<1>8. \A i \in 1..n : new[i] = [no |-> ((h + m) + (i - 1)) % Period, stale |-> FALSE]
  <2>1. SUFFICES ASSUME NEW i \in 1..n
                 PROVE  (p + i - 1) % Period = ((h + m) + (i - 1)) % Period
    BY <1>6
  <2>2. (((h + m) % Period) + (i - 1)) % Period = (h + (m + (i - 1))) % Period
    BY <1>7, NumbersGoOn
  <2>3. p + i - 1 = p + (i - 1) /\ (h + m) + (i - 1) = h + (m + (i - 1))
    OBVIOUS
  <2> QED BY <1>5, <2>2, <2>3
<1>9. new \in Seq(Line) /\ Len(new) = n
  <2> DEFINE Number(i) == [no |-> (p + i - 1) % Period, stale |-> FALSE]
  <2>1. \A i \in 1..n : [no |-> (p + i - 1) % Period, stale |-> FALSE] \in Line
    <3>1. SUFFICES ASSUME NEW i \in 1..n PROVE (p + i - 1) % Period \in 0..(Period - 1)
      BY DEF Line
    <3>2. PICK x \in Nat : x = p + i - 1
      BY Bounds
    <3>3. x % Period \in 0..(Period - 1)
      BY ModRange
    <3> QED BY <3>2, <3>3, Zenon
  <2>2. new = [i \in 1..n |-> Number(i)] /\ \A i \in 1..n : Number(i) \in Line
    BY <1>6, <2>1
  <2> HIDE DEF Number
  <2> QED BY <1>7, <2>2
<1>10. PICK u : u = [t EXCEPT !.chunk = new]
  OBVIOUS
<1>11. /\ u.pc = t.pc /\ u.timer = t.timer /\ u.chunk = new /\ u.queue = t.queue
       /\ u.hand = t.hand /\ u.aborted = t.aborted /\ u.stalled = t.stalled
  BY <1>10 DEF Task
<1>12. u \in Task
  BY <1>9, <1>10 DEF Task
<1>13. PICK e \in 0..(Period - 1) : e = (p + n) % Period /\ e = (h + (m + n)) % Period
  <2>1. (p + n) % Period \in 0..(Period - 1)
    BY <1>7, ModRange
  <2>2. (((h + m) % Period) + n) % Period = (h + (m + n)) % Period
    <3>1. m + n < Period
      BY <1>4, <1>7, Bounds
    <3> QED BY <1>7, <3>1, NumbersGoOn
  <2> QED BY <1>5, <2>1, <2>2
<1>14. Fits(u) /\ Drained(u)
  BY <1>1, <1>2, <1>7, <1>9, <1>11 DEF Good, Fits, Drained
<1>15. Leaves(u, driver, TimeLeft)
  BY <1>1, <1>2, <1>11 DEF Good, Leaves
<1>16. Ordered(u, h, e)
  <2>1. Numbered(t.queue, h)
    BY <1>1, <1>3 DEF Good, Ordered
  <2>2. Numbered(new, h + m)
    BY <1>8, <1>9 DEF Numbered
  <2> QED BY <1>4, <1>9, <1>11, <1>13, <2>1, <2>2 DEF Ordered
<1>17. /\ Becomes(s, slot, u) /\ UNCHANGED driverVars
       /\ faults' \in 0..MaxFaults
       /\ produced' = [produced EXCEPT ![s] = e]
       /\ handled' = [handled EXCEPT ![s] = h]
  <2>1. Becomes(s, slot, [t EXCEPT !.chunk = new])
    BY <1>1, <1>3, <1>6 DEF ReadChunk
  <2>2. produced' = [produced EXCEPT ![s] = (p + n) % Period]
    BY <1>3 DEF ReadChunk
  <2>3. handled' = handled /\ faults' = faults /\ UNCHANGED driverVars
    BY DEF ReadChunk
  <2> QED BY <1>3, <1>10, <1>13, <2>1, <2>2, <2>3 DEF TailInv, FieldTypesOK
<1> QED BY <1>12, <1>14, <1>15, <1>16, <1>17, CurrentBecomes DEF Good

LEMMA SendStep ==
  ASSUME TailInv, NEW s \in Streams, Send(s, slot)
  PROVE  TailInv'
<1>1. PICK t \in Task : t = task[s][slot] /\ Good(t, driver, TimeLeft, handled[s], produced[s])
  BY Current
<1>2. /\ t.pc = "reading" /\ t.hand = "idle" /\ ~t.aborted /\ t.chunk # <<>>
      /\ Len(t.queue) < Capacity
  BY <1>1 DEF Send, ProducerRuns
<1>3. PICK h \in Nat, p \in Nat : h = handled[s] /\ p = produced[s]
  BY Current, Bounds
<1>4. PICK queue \in Seq(Line), chunk \in Seq(Line), m \in Nat, n \in Nat :
        /\ queue = t.queue /\ chunk = t.chunk /\ m = Len(queue) /\ n = Len(chunk) /\ n >= 1
  <2>1. t.queue \in Seq(Line) /\ t.chunk \in Seq(Line)
    BY TaskFields
  <2>2. Len(t.chunk) >= 1
    BY <1>2, <2>1
  <2> QED BY <2>1, <2>2
<1>5. PICK queue2 \in Seq(Line), chunk2 \in Seq(Line) :
        queue2 = Append(queue, Head(chunk)) /\ chunk2 = Tail(chunk)
  <2>1. Head(chunk) \in Line /\ Tail(chunk) \in Seq(Line)
    BY <1>4
  <2>2. Append(queue, Head(chunk)) \in Seq(Line)
    BY <2>1, AppendProperties
  <2> QED BY <2>1, <2>2
<1>6. /\ Len(queue2) = m + 1 /\ Len(chunk2) = n - 1 /\ queue2[m + 1] = chunk[1]
      /\ \A i \in 1..m : queue2[i] = queue[i]
      /\ \A i \in 1..(n - 1) : chunk2[i] = chunk[i + 1]
  BY <1>4, <1>5
<1>7. /\ \A i \in 1..m : queue[i] = [no |-> (h + (i - 1)) % Period, stale |-> FALSE]
      /\ \A i \in 1..n : chunk[i] = [no |-> ((h + m) + (i - 1)) % Period, stale |-> FALSE]
  BY <1>1, <1>3, <1>4 DEF Good, Ordered, Numbered
<1>8. Numbered(queue2, h)
  <2>1. \A i \in 1..(m + 1) : i \in 1..m \/ i = m + 1
    OBVIOUS
  <2>2. queue2[m + 1] = [no |-> (h + ((m + 1) - 1)) % Period, stale |-> FALSE]
    <3>1. (h + m) + (1 - 1) = h + ((m + 1) - 1) /\ 1 \in 1..n
      BY <1>4
    <3> QED BY <1>6, <1>7, <3>1
  <2> QED BY <1>6, <1>7, <2>1, <2>2 DEF Numbered
<1>9. Numbered(chunk2, h + (m + 1))
  <2>1. ASSUME NEW i \in 1..(n - 1)
        PROVE  chunk2[i] = [no |-> ((h + (m + 1)) + (i - 1)) % Period, stale |-> FALSE]
    <3>1. i + 1 \in 1..n /\ (h + m) + ((i + 1) - 1) = (h + (m + 1)) + (i - 1)
      OBVIOUS
    <3> QED BY <1>6, <1>7, <3>1
  <2> QED BY <1>6, <2>1 DEF Numbered
<1>10. PICK u : u = [t EXCEPT !.chunk = Tail(@), !.queue = Append(@, Head(t.chunk))]
  OBVIOUS
<1>11. /\ u.pc = t.pc /\ u.timer = t.timer /\ u.chunk = chunk2 /\ u.queue = queue2
       /\ u.hand = t.hand /\ u.aborted = t.aborted /\ u.stalled = t.stalled
  BY <1>4, <1>5, <1>10 DEF Task
<1>12. u \in Task
  <2>1. u = [t EXCEPT !.chunk = chunk2, !.queue = queue2]
    BY <1>4, <1>5, <1>10 DEF Task
  <2> QED BY <2>1 DEF Task
<1>13. Fits(u)
  <2>1. Fits(t) /\ m + 1 <= Capacity
    BY <1>1, <1>2, <1>4, Bounds DEF Good
  <2>2. Len(u.queue) = m + 1 /\ Len(u.chunk) = n - 1
    BY <1>6, <1>11
  <2> QED BY <1>2, <1>4, <1>11, <2>1, <2>2, Bounds DEF Fits
<1>14. Drained(u)
  BY <1>2, <1>11 DEF Drained
<1>15. Leaves(u, driver, TimeLeft)
  BY <1>1, <1>2, <1>11 DEF Good, Leaves
<1>16. Ordered(u, h, p)
  <2>1. p = (h + (m + n)) % Period
    BY <1>1, <1>2, <1>3, <1>4 DEF Good, Ordered
  <2>2. m + n = (m + 1) + (n - 1)
    OBVIOUS
  <2> QED BY <1>6, <1>8, <1>9, <1>11, <2>1, <2>2 DEF Ordered
<1>17. /\ Becomes(s, slot, u) /\ UNCHANGED <<driverVars, produced, handled>>
       /\ faults' \in 0..MaxFaults
  BY <1>1, <1>10 DEF Send, countVars, TailInv, FieldTypesOK
<1> QED BY <1>3, <1>12, <1>13, <1>14, <1>15, <1>16, <1>17, CurrentKeepsCount DEF Good

-----------------------------------------------------------------------------
(* Connecting: all lines of the stream that wait anywhere are outdated.      *)

LEMMA OutdatedType ==
  ASSUME NEW lines \in Seq(Line)
  PROVE  Outdated(lines) \in Seq(Line) /\ (lines = <<>> => Outdated(lines) = <<>>)
<1>1. PICK n \in Nat : n = Len(lines) /\ DOMAIN lines = 1..n
  OBVIOUS
<1>2. \A i \in 1..n : [lines[i] EXCEPT !.stale = TRUE] \in Line
  <2>1. \A l \in Line : [l EXCEPT !.stale = TRUE] \in Line
    BY DEF Line
  <2> QED BY <1>1, <2>1
<1> DEFINE Old(i) == [lines[i] EXCEPT !.stale = TRUE]
<1>3. Outdated(lines) = [i \in 1..n |-> Old(i)] /\ \A i \in 1..n : Old(i) \in Line
  BY <1>1, <1>2 DEF Outdated
<1> HIDE DEF Old
<1>4. Outdated(lines) \in Seq(Line)
  BY <1>3
<1>5. lines = <<>> => Len(Outdated(lines)) = 0
  BY <1>1, <1>3
<1> QED BY <1>4, <1>5, EmptySeq

LEMMA ConnectStep ==
  ASSUME TailInv, NEW s \in Streams, Connect(s, slot)
  PROVE  TailInv'
<1> DEFINE New(j) == [task[s][j] EXCEPT !.pc = IF j = slot THEN "reading" ELSE @,
                                        !.queue = Outdated(@), !.chunk = Outdated(@)]
<1>1. PICK t \in Task : t = task[s][slot] /\ Good(t, driver, TimeLeft, handled[s], produced[s])
  BY Current
<1>2. PICK o \in Task : o = task[s][1 - slot] /\ Over(o)
  BY Current
<1>3. t.pc = "connect" /\ t.hand = "idle" /\ ~t.aborted /\ Empty(t) /\ driver = "driving"
  BY <1>1 DEF Connect, ProducerRuns, Good, Drained, Leaves
<1>4. PICK queue \in Seq(Line), chunk \in Seq(Line) :
        /\ queue = Outdated(o.queue) /\ chunk = Outdated(o.chunk)
        /\ o.queue = <<>> => queue = <<>>
  BY TaskFields, OutdatedType
<1>5. PICK u : u = [t EXCEPT !.pc = "reading", !.queue = <<>>, !.chunk = <<>>]
  OBVIOUS
<1>6. PICK v : v = [o EXCEPT !.queue = queue, !.chunk = chunk]
  OBVIOUS
<1>7. u \in Task /\ v \in Task
  <2>1. <<>> \in Seq(Line)
    OBVIOUS
  <2> QED BY <1>5, <1>6, <2>1 DEF Task
<1>8. /\ u.pc = "reading" /\ u.queue = <<>> /\ u.chunk = <<>>
      /\ u.hand = "idle" /\ ~u.aborted
  BY <1>3, <1>5 DEF Task
<1>9. v.pc = o.pc /\ v.queue = queue /\ v.hand = o.hand /\ v.aborted = o.aborted
  BY <1>6 DEF Task
<1>10. /\ slot \in Slots /\ 1 - slot \in Slots /\ slot # 1 - slot
       /\ \A k \in Slots : k = slot \/ k = 1 - slot
  BY SlotsAre DEF TailInv
<1>11. New(slot) = u /\ New(1 - slot) = v
  <2>1. Outdated(t.queue) = <<>> /\ Outdated(t.chunk) = <<>>
    BY <1>3, TaskFields, OutdatedType DEF Empty
  <2>2. New(slot) = u
    BY <1>1, <1>5, <2>1
  <2>3. New(1 - slot) = [o EXCEPT !.pc = o.pc, !.queue = queue, !.chunk = chunk]
    BY <1>2, <1>4, <1>10
  <2>4. [o EXCEPT !.pc = o.pc, !.queue = queue, !.chunk = chunk] = v
    BY <1>6 DEF Task
  <2> QED BY <2>2, <2>3, <2>4
<1> HIDE DEF New
<1>12. task' = [task EXCEPT ![s] = [j \in Slots |-> New(j)]]
  BY DEF Connect, New
<1>13. /\ task' \in [Streams -> [Slots -> Task]]
       /\ task'[s][slot] = u /\ task'[s][1 - slot] = v
       /\ \A q \in Streams : q # s => task'[q] = task[q]
  <2>1. task \in [Streams -> [Slots -> Task]]
    BY DEF TailInv, FieldTypesOK, Task
  <2>2. [j \in Slots |-> New(j)] \in [Slots -> Task]
    BY <1>7, <1>10, <1>11
  <2> QED BY <1>10, <1>11, <1>12, <2>1, <2>2
<1>14. /\ UNCHANGED <<driverVars, faults>>
       /\ produced' = [produced EXCEPT ![s] = 0] /\ handled' = [handled EXCEPT ![s] = 0]
  BY DEF Connect
<1>15. /\ slot' = slot /\ driver' = driver /\ driver_timer' = driver_timer
       /\ shutdown' = shutdown /\ TimeLeft' = TimeLeft /\ faults' = faults
  BY <1>14 DEF driverVars, TimeLeft
<1>16. /\ produced' \in [Streams -> 0..(Period - 1)] /\ handled' \in [Streams -> 0..(Period - 1)]
       /\ produced'[s] = 0 /\ handled'[s] = 0
       /\ \A q \in Streams : q # s => produced'[q] = produced[q] /\ handled'[q] = handled[q]
  <2>1. 0 \in 0..(Period - 1)
    BY Bounds
  <2> QED BY <1>14, <2>1 DEF TailInv, FieldTypesOK
<1>17. FieldTypesOK'
  BY <1>13, <1>15, <1>16 DEF TailInv, FieldTypesOK, Task
<1>18. Good(u, driver, TimeLeft, 0, 0)
  <2>1. Len(<<>>) = 0 /\ 0 % Period = 0
    BY Bounds
  <2>2. Fits(u) /\ Drained(u)
    BY <1>8, <2>1, Bounds DEF Fits, Drained
  <2>3. Leaves(u, driver, TimeLeft)
    BY <1>3, <1>8 DEF Leaves
  <2>4. Ordered(u, 0, 0)
    BY <1>8, <2>1 DEF Ordered, Numbered
  <2> QED BY <2>2, <2>3, <2>4 DEF Good
<1>19. Over(v)
  BY <1>2, <1>4, <1>9 DEF Over
<1>20. ASSUME NEW q \in Streams
       PROVE  /\ Good(task'[q][slot'], driver', TimeLeft', handled'[q], produced'[q])
              /\ Over(task'[q][1 - slot'])
  <2>1. CASE q = s
    BY <1>13, <1>15, <1>16, <1>18, <1>19, <2>1
  <2>2. CASE q # s
    BY <1>13, <1>15, <1>16, <2>2 DEF TailInv, CurrentInv
  <2> QED BY <2>1, <2>2
<1> QED BY <1>17, <1>20 DEF TailInv, CurrentInv, Good, Fits, Drained, Empty, Leaves, Ordered, Over,
        Work, Numbered

-----------------------------------------------------------------------------
(* The consumer.                                                             *)

(* A handler takes the next line of the connection.                          *)
LEMMA ReceiveStep ==
  ASSUME TailInv, NEW s \in Streams, Receive(s, slot)
  PROVE  /\ TailInv'
         /\ task'[s][slot].line = [no |-> handled[s], stale |-> FALSE]
<1>1. PICK t \in Task : t = task[s][slot] /\ Good(t, driver, TimeLeft, handled[s], produced[s])
  BY Current
<1>2. t.queue # <<>> /\ t.hand \in {"next", "idle"} /\ (t.hand = "idle" => ~t.aborted)
  BY <1>1 DEF Receive
<1>3. PICK h \in 0..(Period - 1), p \in 0..(Period - 1) : h = handled[s] /\ p = produced[s]
  BY Current
<1>4. PICK queue \in Seq(Line), m \in Nat, n \in Nat :
        queue = t.queue /\ m = Len(queue) /\ n = Len(t.chunk) /\ m >= 1
  <2>1. t.queue \in Seq(Line) /\ Len(t.chunk) \in Nat
    BY TaskFields
  <2>2. Len(t.queue) >= 1
    BY <1>2, <2>1
  <2> QED BY <2>1, <2>2
<1>5. PICK queue2 \in Seq(Line) : queue2 = Tail(queue)
  <2>1. queue # <<>>
    BY <1>2, <1>4
  <2>2. Tail(queue) \in Seq(Line)
    BY <2>1, HeadTailProperties
  <2> QED BY <2>2
<1>6. Len(queue2) = m - 1 /\ \A i \in 1..(m - 1) : queue2[i] = queue[i + 1]
  BY <1>4, <1>5
<1>7. PICK h2 \in 0..(Period - 1) : h2 = (h + 1) % Period
  BY ModRange
<1>8. m <= Capacity /\ n <= MaxChunk /\ m + n + 1 < Period /\ Period \in Nat
  <2>1. m <= Capacity /\ n <= MaxChunk
    BY <1>1, <1>4 DEF Good, Fits
  <2> QED BY <2>1, Bounds
<1>9. \A i \in Nat : 1 + i < Period => (h2 + i) % Period = (h + (1 + i)) % Period
  BY <1>7, NumbersGoOn
<1>10. /\ \A i \in 1..m : queue[i] = [no |-> (h + (i - 1)) % Period, stale |-> FALSE]
       /\ \A i \in 1..n : t.chunk[i] = [no |-> ((h + m) + (i - 1)) % Period, stale |-> FALSE]
  BY <1>1, <1>3, <1>4 DEF Good, Ordered, Numbered
<1>11. Numbered(queue2, h2)
  <2>1. ASSUME NEW i \in 1..(m - 1)
        PROVE  queue2[i] = [no |-> (h2 + (i - 1)) % Period, stale |-> FALSE]
    <3>1. PICK j \in Nat : j = i - 1 /\ 1 + j < Period
      BY <1>8
    <3>2. (h2 + j) % Period = (h + (1 + j)) % Period
      BY <1>9, <3>1
    <3>3. 1 + j = (i + 1) - 1 /\ i + 1 \in 1..m
      BY <3>1
    <3> QED BY <1>6, <1>10, <3>1, <3>2, <3>3
  <2> QED BY <1>6, <2>1 DEF Numbered
<1>12. Numbered(t.chunk, h2 + (m - 1))
  <2>1. ASSUME NEW i \in 1..n
        PROVE  t.chunk[i] = [no |-> ((h2 + (m - 1)) + (i - 1)) % Period, stale |-> FALSE]
    <3>6. i <= n /\ i >= 1
      OBVIOUS
    <3>4. m >= 1 /\ m + n + 1 < Period
      BY <1>4, <1>8
    <3>5. (m - 1) + (i - 1) \in Nat /\ 1 + ((m - 1) + (i - 1)) < Period
      BY <1>8, <3>4, <3>6
    <3>1. PICK j \in Nat : j = (m - 1) + (i - 1) /\ 1 + j < Period
      BY <3>5
    <3>2. (h2 + j) % Period = (h + (1 + j)) % Period
      BY <1>9, <3>1
    <3>3. (h2 + (m - 1)) + (i - 1) = h2 + j /\ (h + m) + (i - 1) = h + (1 + j)
      BY <3>1
    <3> QED BY <1>10, <3>2, <3>3
  <2> QED BY <1>4, <2>1 DEF Numbered
<1>13. Head(queue) = [no |-> h, stale |-> FALSE] /\ Head(queue) \in Line
  <2>1. 1 \in 1..m /\ h + (1 - 1) = h
    BY <1>4
  <2>2. h % Period = h
    <3>1. h \in Nat /\ h < Period /\ h < Period + Period
      BY Bounds
    <3> QED BY <3>1, Wraps
  <2>3. queue[1] = [no |-> h, stale |-> FALSE]
    BY <1>10, <2>1, <2>2
  <2> QED BY <1>4, <2>3
<1>14. PICK u : u = [t EXCEPT !.hand = "handling", !.line = Head(t.queue), !.queue = Tail(@)]
  OBVIOUS
<1>15. /\ u.pc = t.pc /\ u.timer = t.timer /\ u.chunk = t.chunk /\ u.queue = queue2
       /\ u.hand = "handling" /\ u.aborted = t.aborted /\ u.stalled = t.stalled
       /\ u.line = Head(queue)
  BY <1>4, <1>5, <1>14 DEF Task
<1>16. u \in Task
  <2>1. u = [t EXCEPT !.hand = "handling", !.line = Head(queue), !.queue = queue2]
    BY <1>4, <1>5, <1>14 DEF Task
  <2> QED BY <1>13, <2>1 DEF Task
<1>17. Work(u) = m /\ Work(t) = m
  <2>1. Work(u) = (m - 1) + 1
    BY <1>6, <1>15 DEF Work
  <2>2. Work(t) = m + 0
    BY <1>2, <1>4 DEF Work
  <2> QED BY <2>1, <2>2
<1>18. Fits(u)
  <2>1. m - 1 < Capacity /\ m - 1 <= Capacity
    BY <1>8, Bounds
  <2> QED BY <1>4, <1>6, <1>8, <1>15, <2>1 DEF Fits
<1>19. t.pc \in {"reading", "sleeping"}
  BY <1>1, <1>2, TaskFields DEF Good, Drained, Empty
<1>20. Drained(u)
  BY <1>1, <1>15, <1>17, <1>19 DEF Good, Drained
<1>21. Leaves(u, driver, TimeLeft)
  <2>1. t.hand = "idle" => driver = "driving"
    BY <1>1, <1>2, <1>19 DEF Good, Leaves
  <2> QED BY <1>1, <1>2, <1>15, <1>17, <2>1 DEF Good, Leaves
<1>22. Ordered(u, h2, p)
  <2>1. t.pc = "reading" => p = (h + (m + n)) % Period
    BY <1>1, <1>3, <1>4 DEF Good, Ordered
  <2>2. (h2 + ((m - 1) + n)) % Period = (h + (m + n)) % Period
    <3>1. PICK j \in Nat : j = (m - 1) + n /\ 1 + j < Period /\ 1 + j = m + n
      <4>1. m >= 1 /\ m + n + 1 < Period
        BY <1>4, <1>8
      <4>2. (m - 1) + n \in Nat /\ 1 + ((m - 1) + n) < Period
        BY <1>8, <4>1
      <4> QED BY <4>2
    <3> QED BY <1>9, <3>1
  <2> QED BY <1>4, <1>6, <1>11, <1>12, <1>15, <2>1, <2>2 DEF Ordered
<1>23. /\ Becomes(s, slot, u) /\ UNCHANGED driverVars /\ faults' \in 0..MaxFaults
       /\ produced' = [produced EXCEPT ![s] = p]
       /\ handled' = [handled EXCEPT ![s] = h2]
  <2>1. Becomes(s, slot, u)
    BY <1>1, <1>14 DEF Receive
  <2>2. handled' = [handled EXCEPT ![s] = h2]
    BY <1>3, <1>7 DEF Receive
  <2>3. produced' = produced /\ faults' = faults /\ UNCHANGED driverVars
    BY DEF Receive
  <2> QED BY <1>3, <2>1, <2>2, <2>3 DEF TailInv, FieldTypesOK
<1>24. TailInv'
  BY <1>16, <1>18, <1>20, <1>21, <1>22, <1>23, CurrentBecomes DEF Good
<1>25. task'[s][slot] = u
  <2>1. Settled(u) = u
    BY <1>15 DEF Settled, Busy
  <2> QED BY <1>16, <1>23, <2>1, OneTask, SlotsAre DEF Becomes, TailInv
<1> QED BY <1>3, <1>13, <1>15, <1>24, <1>25

LEMMA HandlerReturnsStep ==
  ASSUME TailInv, NEW s \in Streams, HandlerReturns(s, slot)
  PROVE  TailInv'
<1>1. PICK t \in Task : t = task[s][slot] /\ Good(t, driver, TimeLeft, handled[s], produced[s])
  BY Current
<1>2. t.hand = "handling"
  BY <1>1 DEF HandlerReturns
<1>3. PICK u : u = [t EXCEPT !.hand = "next", !.line = Null, !.stalled = 0]
  OBVIOUS
<1>4. /\ u.pc = t.pc /\ u.timer = t.timer /\ u.chunk = t.chunk /\ u.queue = t.queue
      /\ u.hand = "next" /\ u.aborted = t.aborted /\ u.stalled = 0
  BY <1>3 DEF Task
<1>5. u \in Task
  <2>1. 0 \in 0..MaxStall
    BY Bounds
  <2> QED BY <1>3, <2>1 DEF Task
<1>6. PICK w \in Nat : w = Work(u) /\ Work(t) = w + 1
  <2>1. Work(u) = Len(t.queue) + 0 /\ Work(t) = Len(t.queue) + 1
    BY <1>2, <1>4 DEF Work
  <2> QED BY <2>1, TaskFields
<1>7. /\ Span(w + 1) = Span(w) + MaxStall /\ Span(w) \in Nat
      /\ Span(w + 1 + 1) = Span(w + 1) + MaxStall
  <2>1. PICK v \in Nat : v = w + 1
    OBVIOUS
  <2>2. Span(v + 1) = Span(v) + MaxStall /\ Span(w + 1) = Span(w) + MaxStall /\ Span(w) \in Nat
    BY SpanIs
  <2> QED BY <2>1, <2>2
<1>8. t.stalled \in Nat /\ t.stalled <= MaxStall /\ MaxStall \in Nat
  BY TaskFields, Bounds
<1>9. Fits(u)
  BY <1>1, <1>2, <1>4 DEF Good, Fits
<1>10. t.pc \in {"reading", "sleeping"}
  BY <1>1, <1>2, TaskFields DEF Good, Drained, Empty
<1>11. Drained(u)
  <2>1. CASE t.pc = "sleeping"
    <3>1. t.chunk = <<>> /\ Span(w + 1) - t.stalled < t.timer
      BY <1>1, <1>6, <2>1 DEF Good, Drained
    <3>2. Span(w) - 0 < t.timer
      BY <1>7, <1>8, <3>1, TaskFields
    <3> QED BY <1>4, <1>6, <2>1, <3>1, <3>2 DEF Drained
  <2>2. CASE t.pc = "reading"
    BY <1>4, <2>2 DEF Drained
  <2> QED BY <1>10, <2>1, <2>2
<1>12. Leaves(u, driver, TimeLeft)
  <2>1. ASSUME driver \in {"joining", "retry"}
        PROVE  Span(w + 1) - 0 < TimeLeft
    <3>1. Span(w + 1 + 1) - t.stalled < TimeLeft
      BY <1>1, <1>2, <1>6, <2>1 DEF Good, Leaves
    <3>2. TimeLeft \in Nat
      BY Bounds DEF TimeLeft, TailInv, FieldTypesOK
    <3> QED BY <1>7, <1>8, <3>1, <3>2
  <2> QED BY <1>1, <1>2, <1>4, <1>6, <2>1 DEF Good, Leaves
<1>13. Ordered(u, handled[s], produced[s])
  BY <1>1, <1>4 DEF Good, Ordered
<1>14. /\ Becomes(s, slot, u) /\ UNCHANGED <<driverVars, produced, handled>>
       /\ faults' \in 0..MaxFaults
  BY <1>1, <1>3 DEF HandlerReturns, countVars, TailInv, FieldTypesOK
<1> QED BY <1>5, <1>9, <1>11, <1>12, <1>13, <1>14, CurrentKeepsCount DEF Good

LEMMA YieldStep ==
  ASSUME TailInv, NEW s \in Streams, Yield(s, slot)
  PROVE  TailInv'
<1>1. PICK t \in Task : t = task[s][slot] /\ Good(t, driver, TimeLeft, handled[s], produced[s])
  BY Current
<1>2. t.hand = "next"
  BY <1>1 DEF Yield
<1>3. PICK u \in Task : u = [t EXCEPT !.hand = "idle"]
  BY DEF Task
<1>4. /\ u.pc = t.pc /\ u.timer = t.timer /\ u.chunk = t.chunk /\ u.queue = t.queue
      /\ u.hand = "idle" /\ u.aborted = t.aborted /\ u.stalled = t.stalled
  BY <1>3 DEF Task
<1>5. Work(u) = Work(t)
  BY <1>2, <1>4 DEF Work
<1>6. t.pc \in {"reading", "sleeping"}
  BY <1>1, <1>2, TaskFields DEF Good, Drained, Empty
<1>7. Fits(u) /\ Drained(u)
  BY <1>1, <1>4, <1>5, <1>6 DEF Good, Fits, Drained
<1>8. Leaves(u, driver, TimeLeft) /\ Ordered(u, handled[s], produced[s])
  BY <1>1, <1>4 DEF Good, Leaves, Ordered
<1>9. /\ Becomes(s, slot, u) /\ UNCHANGED <<driverVars, produced, handled>>
      /\ faults' \in 0..MaxFaults
  BY <1>1, <1>3 DEF Yield, countVars, TailInv, FieldTypesOK
<1> QED BY <1>7, <1>8, <1>9, CurrentKeepsCount DEF Good

LEMMA FaultType == TailInv /\ Fault => faults' \in 0..MaxFaults
BY Bounds DEF TailInv, FieldTypesOK, Fault

LEMMA HandlerFailsStep ==
  ASSUME TailInv, NEW s \in Streams, HandlerFails(s, slot)
  PROVE  TailInv'
<1>1. PICK t \in Task : t = task[s][slot] /\ Good(t, driver, TimeLeft, handled[s], produced[s])
  BY Current
<1>2. PICK u : u = [Attempt EXCEPT !.pc = "delay", !.timer = ReconnectDelay,
                                   !.aborted = t.aborted]
  OBVIOUS
<1>3. /\ u.pc = "delay" /\ u.chunk = <<>> /\ u.queue = <<>>
      /\ u.hand = "idle" /\ u.aborted = t.aborted
  BY <1>2 DEF Attempt
<1>4. u \in Task
  <2>1. ReconnectDelay \in 0..ReconnectDelay /\ t.aborted \in BOOLEAN
    BY Bounds, TaskFields
  <2> QED BY <1>2, <2>1, Fresh DEF Task
<1>5. Good(u, driver, TimeLeft, handled[s], produced[s])
  <2>1. t.pc # "gone"
    BY <1>1 DEF HandlerFails, Good, Drained, Empty
  <2>2. (driver = "driving" => ~u.aborted) /\ (driver # "driving" => u.aborted)
    BY <1>1, <1>3, <2>1 DEF Good, Leaves
  <2> QED BY <1>3, <1>4, <2>2, EmptyGood DEF Empty
<1>6. /\ Becomes(s, slot, u) /\ UNCHANGED <<driverVars, produced, handled>>
      /\ faults' \in 0..MaxFaults
  BY <1>1, <1>2, FaultType DEF HandlerFails
<1> QED BY <1>4, <1>5, <1>6, CurrentKeepsCount

LEMMA CurrentGone ==
  ASSUME TailInv, NEW s \in Streams, task' = [task EXCEPT ![s][slot] = Gone],
         UNCHANGED <<driverVars, produced, handled>>, faults' \in 0..MaxFaults
  PROVE  TailInv'
<1>1. PICK u \in Task : u = Gone /\ Empty(u) /\ ~u.aborted /\ u.pc = "gone"
  BY Fresh
<1>2. Good(u, driver, TimeLeft, handled[s], produced[s])
  BY <1>1, EmptyGood
<1>3. PICK p \in 0..(Period - 1), h \in 0..(Period - 1) : p = produced[s] /\ h = handled[s]
  BY Current
<1>4. produced' = [produced EXCEPT ![s] = p] /\ handled' = [handled EXCEPT ![s] = h]
  BY <1>3 DEF TailInv, FieldTypesOK
<1> QED BY <1>1, <1>2, <1>3, <1>4, CurrentMoves

LEMMA AbortTakesHoldStep ==
  ASSUME TailInv, NEW s \in Streams, NEW k \in Slots, AbortTakesHold(s, k)
  PROVE  TailInv'
<1>1. /\ task' = [task EXCEPT ![s][k] = Gone] /\ UNCHANGED <<driverVars, produced, handled>>
      /\ faults' = faults
  BY DEF AbortTakesHold, countVars
<1>2. CASE k = slot
  BY <1>1, <1>2, Fresh, CurrentGone DEF TailInv, FieldTypesOK
<1>3. CASE k = 1 - slot
  <2>1. PICK u \in Task : u = Gone /\ Over(u)
    BY Fresh DEF Over, Empty
  <2>2. /\ task' \in [Streams -> [Slots -> Task]]
        /\ task'[s][k] = u /\ task'[s][slot] = task[s][slot]
        /\ \A q \in Streams : q # s => task'[q] = task[q]
    <3>1. task' = [task EXCEPT ![s][k] = u]
      BY <1>1, <2>1
    <3>2. FieldTypesOK /\ slot \in Slots /\ slot # k
      BY <1>3, SlotsAre DEF TailInv
    <3> QED BY <3>1, <3>2, OneTask, ZenonT(60)
  <2>3. /\ slot' = slot /\ driver' = driver /\ driver_timer' = driver_timer
        /\ shutdown' = shutdown /\ TimeLeft' = TimeLeft
        /\ produced' = produced /\ handled' = handled
    BY <1>1 DEF driverVars, TimeLeft
  <2>4. FieldTypesOK'
    BY <1>1, <2>2, <2>3 DEF TailInv, FieldTypesOK, Task
  <2>5. ASSUME NEW q \in Streams
        PROVE  /\ Good(task'[q][slot'], driver', TimeLeft', handled'[q], produced'[q])
               /\ Over(task'[q][1 - slot'])
    <3>1. CASE q = s
      BY <1>3, <2>1, <2>2, <2>3, <3>1 DEF TailInv, CurrentInv
    <3>2. CASE q # s
      BY <2>2, <2>3, <3>2 DEF TailInv, CurrentInv
    <3> QED BY <3>1, <3>2
  <2> QED BY <2>4, <2>5 DEF TailInv, CurrentInv, Good, Fits, Drained, Empty, Leaves, Ordered, Over,
          Work, Numbered
<1> QED BY <1>2, <1>3, SlotsAre DEF TailInv

-----------------------------------------------------------------------------
(* The driver.                                                               *)

(* A poll that handles lines has work for Capacity + 1 turns at most, the    *)
(* end of the poll included, and for one at least.                           *)
LEMMA WorkBounds ==
  ASSUME NEW t \in Task, Fits(t), t.hand # "idle"
  PROVE  /\ Span(Work(t) + 1) - t.stalled <= Span(Capacity + 1)
         /\ Span(Work(t) + 1) - t.stalled >= 0
<1>1. PICK q \in Nat : q = Len(t.queue) /\ q < Capacity
  BY TaskFields DEF Fits
<1>2. PICK w \in Nat : w = Work(t)
  BY TaskFields
<1>3. w <= Capacity
  <2>1. CASE t.hand = "handling"
    BY <1>1, <1>2, <2>1, Bounds DEF Work
  <2>2. CASE t.hand # "handling"
    BY <1>1, <1>2, <2>2, Bounds DEF Work
  <2> QED BY <2>1, <2>2
<1>4. PICK m \in Nat, n \in Nat : m = w + 1 /\ n = Capacity + 1 /\ 1 <= m /\ m <= n
  BY <1>3, Bounds
<1>5. Span(1) = MaxStall /\ Span(1) <= Span(m) /\ Span(m) <= Span(n) /\ Span(m) \in Nat
      /\ Span(n) \in Nat
  BY <1>4, SpanIs
<1> QED BY <1>2, <1>4, <1>5, TaskFields, Bounds

(* Nothing but the driver and its clock change.                              *)
LEMMA DriverMoves ==
  ASSUME TailInv, UNCHANGED <<task, slot, countVars>>,
         driver' \in {"driving", "joining", "retry", "stopped"}, driver_timer' \in Nat,
         shutdown' \in BOOLEAN,
         NEW left, left = TimeLeft',
         \A s \in Streams : Leaves(task[s][slot], driver', left)
  PROVE  TailInv'
<1>1. FieldTypesOK'
  BY DEF TailInv, FieldTypesOK, countVars
<1>2. ASSUME NEW s \in Streams
      PROVE  /\ Good(task'[s][slot'], driver', TimeLeft', handled'[s], produced'[s])
             /\ Over(task'[s][1 - slot'])
  BY <1>2 DEF TailInv, CurrentInv, Good, countVars
<1> QED BY <1>1, <1>2 DEF TailInv, CurrentInv, Good, Fits, Drained, Empty, Leaves, Ordered, Over,
        Work, Numbered

LEMMA AbortAndJoinStep ==
  ASSUME TailInv, AbortAndJoin, (Capacity + 1) * MaxStall < AbortTimeout + RetryInterval
  PROVE  TailInv'
<1>1. /\ driver = "driving" /\ driver' = "joining" /\ driver_timer' = AbortTimeout
      /\ slot' = slot /\ shutdown' = shutdown
      /\ produced' = produced /\ handled' = handled /\ faults' = faults
  BY DEF AbortAndJoin, countVars
<1>2. TimeLeft' = AbortTimeout + RetryInterval
  BY <1>1 DEF TimeLeft
<1>3. PICK b : b = [s \in Streams |-> task[s][slot].pc # "gone"]
  OBVIOUS
<1>4. task' = [s \in Streams |-> [task[s] EXCEPT ![slot] = [task[s][slot] EXCEPT !.aborted = b[s]]]]
  BY <1>3 DEF AbortAndJoin, AbortAll, TailInv, FieldTypesOK
<1>5. ASSUME NEW s \in Streams
      PROVE  /\ task'[s] \in [Slots -> Task]
             /\ Good(task'[s][slot], "joining", AbortTimeout + RetryInterval, handled[s], produced[s])
             /\ Over(task'[s][1 - slot])
  <2>1. PICK t \in Task : t = task[s][slot] /\ Good(t, driver, TimeLeft, handled[s], produced[s])
    BY Current
  <2>2. b[s] = (t.pc # "gone") /\ b[s] \in BOOLEAN
    BY <1>3, <2>1
  <2>3. PICK u \in Task : u = [t EXCEPT !.aborted = b[s]]
    BY <2>2 DEF Task
  <2>4. /\ u.pc = t.pc /\ u.timer = t.timer /\ u.chunk = t.chunk /\ u.queue = t.queue
        /\ u.hand = t.hand /\ u.aborted = b[s] /\ u.stalled = t.stalled
    BY <2>3 DEF Task
  <2>5. Work(u) = Work(t)
    BY <2>4 DEF Work
  <2>6. Fits(u)
    BY <2>1, <2>4 DEF Good, Fits
  <2>7. Drained(u)
    BY <2>1, <2>2, <2>4, <2>5 DEF Good, Drained, Empty
  <2>8. Leaves(u, "joining", AbortTimeout + RetryInterval)
    <3>1. u.hand # "idle" => Span(Work(u) + 1) - u.stalled < AbortTimeout + RetryInterval
      <4>1. SUFFICES ASSUME u.hand # "idle"
                     PROVE  Span(Work(u) + 1) - u.stalled < AbortTimeout + RetryInterval
        OBVIOUS
      <4>2. Span(Work(u) + 1) - u.stalled <= Span(Capacity + 1)
        BY <2>6, <4>1, WorkBounds
      <4>3. Span(Capacity + 1) < AbortTimeout + RetryInterval
        BY DEF Span
      <4>4. Span(Work(u) + 1) \in Nat /\ Span(Capacity + 1) \in Nat /\ u.stalled \in Nat
        <5>1. PICK m \in Nat, n \in Nat : m = Work(u) + 1 /\ n = Capacity + 1
          BY TaskFields, Bounds
        <5> QED BY <5>1, SpanIs, TaskFields
      <4> QED BY <4>2, <4>3, <4>4, Bounds
    <3> QED BY <2>2, <2>4, <3>1 DEF Leaves
  <2>9. Ordered(u, handled[s], produced[s])
    BY <2>1, <2>4 DEF Good, Ordered
  <2>10. /\ task'[s] \in [Slots -> Task]
         /\ task'[s][slot] = u /\ task'[s][1 - slot] = task[s][1 - slot]
    <3>1. task'[s] = [task[s] EXCEPT ![slot] = u]
      BY <1>4, <2>1, <2>3
    <3>2. task[s] \in [Slots -> Task]
      BY DEF TailInv, FieldTypesOK, Task
    <3> QED BY <3>1, <3>2, SlotsAre DEF TailInv
  <2> QED BY <2>6, <2>7, <2>8, <2>9, <2>10 DEF Good, TailInv
<1>6. task' \in [Streams -> [Slots -> Task]]
  BY <1>4, <1>5
<1>7. FieldTypesOK'
  BY <1>1, <1>6, Bounds DEF TailInv, FieldTypesOK, Task
<1>8. ASSUME NEW s \in Streams
      PROVE  /\ Good(task'[s][slot'], driver', TimeLeft', handled'[s], produced'[s])
             /\ Over(task'[s][1 - slot'])
  BY <1>1, <1>2, <1>5
<1> QED BY <1>7, <1>8 DEF TailInv, CurrentInv, Good, Fits, Drained, Empty, Leaves, Ordered, Over,
        Work, Numbered

LEMMA JoinedStep ==
  ASSUME TailInv, Joined \/ RetryCancelled
  PROVE  TailInv'
<1>1. UNCHANGED <<task, slot, countVars>> /\ shutdown' = shutdown
  BY DEF Joined, RetryCancelled
<1>2. CASE driver' = "stopped"
  <2>1. driver' \in {"driving", "joining", "retry", "stopped"} /\ driver_timer' \in Nat
    BY <1>2 DEF Joined, RetryCancelled
  <2>2. driver # "driving"
    BY DEF Joined, RetryCancelled
  <2>3. \A s \in Streams : Leaves(task[s][slot], driver', TimeLeft')
    BY <1>2, <2>2 DEF TailInv, CurrentInv, Good, Leaves
  <2> QED BY <1>1, <2>1, <2>3, DriverMoves DEF TailInv, FieldTypesOK
<1>3. CASE driver' # "stopped"
  <2>1. /\ driver = "joining" /\ driver' = "retry" /\ driver_timer' = RetryInterval
        /\ AllGone \/ driver_timer = 0
    BY <1>3 DEF Joined, RetryCancelled
  <2>2. TimeLeft' = RetryInterval /\ (driver_timer = 0 => TimeLeft = RetryInterval)
    BY <2>1, Bounds DEF TimeLeft
  <2>3. ASSUME NEW s \in Streams
        PROVE  Leaves(task[s][slot], driver', TimeLeft')
    <3>1. PICK t \in Task : t = task[s][slot] /\ Good(t, driver, TimeLeft, handled[s], produced[s])
      BY Current
    <3>2. CASE AllGone
      <4>1. t.pc = "gone" /\ t.hand = "idle"
        BY <3>1, <3>2 DEF AllGone, Good, Drained, Empty
      <4> QED BY <2>1, <3>1, <4>1 DEF Leaves
    <3>3. CASE driver_timer = 0
      BY <2>1, <2>2, <3>1, <3>3 DEF Good, Leaves
    <3> QED BY <2>1, <3>2, <3>3
  <2>4. driver' \in {"driving", "joining", "retry", "stopped"} /\ driver_timer' \in Nat
    BY <2>1, Bounds
  <2> QED BY <1>1, <2>3, <2>4, DriverMoves DEF TailInv, FieldTypesOK
<1> QED BY <1>2, <1>3

(* When the time between two attempts is over, the one that was given up     *)
(* handles nothing any more.                                                 *)
LEMMA RetryStep ==
  ASSUME TailInv, Retry
  PROVE  TailInv'
<1>1. /\ driver = "retry" /\ driver_timer = 0 /\ slot' = 1 - slot /\ driver' = "driving"
      /\ driver_timer' = 0 /\ shutdown' = shutdown
      /\ produced' = produced /\ handled' = handled /\ faults' = faults
      /\ task' = [s \in Streams |-> [task[s] EXCEPT ![1 - slot] = Attempt]]
  BY DEF Retry, NextAttempt, countVars
<1>2. PICK a \in Task : a = Attempt /\ Empty(a) /\ ~a.aborted /\ a.pc = "connect"
  BY Fresh
<1>3. /\ slot \in Slots /\ 1 - slot \in Slots /\ slot # 1 - slot /\ 1 - (1 - slot) = slot
  BY SlotsAre DEF TailInv
<1>4. ASSUME NEW s \in Streams
      PROVE  /\ task'[s] \in [Slots -> Task]
             /\ task'[s][1 - slot] = a /\ task'[s][slot] = task[s][slot]
  <2>1. task[s] \in [Slots -> Task]
    BY DEF TailInv, FieldTypesOK, Task
  <2> QED BY <1>1, <1>2, <1>3, <2>1
<1>5. FieldTypesOK'
  <2>1. task' \in [Streams -> [Slots -> Task]]
    BY <1>1, <1>4
  <2> QED BY <1>1, <1>3, <2>1 DEF TailInv, FieldTypesOK, Task
<1>6. ASSUME NEW s \in Streams
      PROVE  Over(task[s][slot])
  <2>1. PICK t \in Task : t = task[s][slot] /\ Good(t, driver, TimeLeft, handled[s], produced[s])
    BY Current
  <2>2. t.aborted \/ t.pc = "gone"
    BY <1>1, <2>1 DEF Good, Leaves
  <2>3. t.hand = "idle"
    <3>1. SUFFICES ASSUME t.hand # "idle" PROVE FALSE
      OBVIOUS
    <3>2. Span(Work(t) + 1) - t.stalled < 0
      BY <1>1, <2>1, <3>1 DEF Good, Leaves, TimeLeft
    <3>3. Span(Work(t) + 1) - t.stalled >= 0
      BY <2>1, <3>1, WorkBounds DEF Good
    <3>4. Span(Work(t) + 1) \in Nat /\ t.stalled \in Nat
      <4>1. PICK m \in Nat : m = Work(t) + 1
        BY TaskFields
      <4> QED BY <4>1, SpanIs, TaskFields
    <3> QED BY <3>2, <3>3, <3>4
  <2>4. t.pc = "gone" => t.queue = <<>>
    BY <2>1 DEF Good, Drained, Empty
  <2> QED BY <2>1, <2>2, <2>3, <2>4 DEF Over
<1>7. ASSUME NEW s \in Streams
      PROVE  /\ Good(task'[s][slot'], driver', TimeLeft', handled'[s], produced'[s])
             /\ Over(task'[s][1 - slot'])
  <2>1. Good(a, "driving", TimeLeft', handled[s], produced[s])
    BY <1>2, EmptyGood
  <2> QED BY <1>1, <1>3, <1>4, <1>6, <2>1
<1> QED BY <1>5, <1>7 DEF TailInv, CurrentInv, Good, Fits, Drained, Empty, Leaves, Ordered, Over,
        Work, Numbered

-----------------------------------------------------------------------------
(* Time passes.                                                              *)

Older(t) == [t EXCEPT !.timer = Less(@), !.stalled = IF Busy(t) THEN @ + 1 ELSE 0]

LEMMA TickTask ==
  ASSUME NEW t \in Task, Busy(t) => t.stalled < MaxStall
  PROVE  /\ Older(t) \in Task
         /\ Older(t).pc = t.pc /\ Older(t).chunk = t.chunk /\ Older(t).queue = t.queue
         /\ Older(t).hand = t.hand /\ Older(t).aborted = t.aborted
         /\ Work(Older(t)) = Work(t)
         /\ Older(t).timer = Less(t.timer)
         /\ Work(t) > 0 \/ t.hand # "idle" => Older(t).stalled = t.stalled + 1
<1> DEFINE u == Older(t)
<1>1. /\ u.pc = t.pc /\ u.chunk = t.chunk /\ u.queue = t.queue /\ u.hand = t.hand
      /\ u.aborted = t.aborted /\ u.timer = Less(t.timer)
      /\ u.stalled = IF Busy(t) THEN t.stalled + 1 ELSE 0
  BY DEF Task, Older
<1>2. Work(u) = Work(t)
  BY <1>1 DEF Work
<1>3. Work(t) > 0 \/ t.hand # "idle" => Busy(t)
  <2>1. Work(t) > 0 /\ t.hand = "idle" => t.queue # <<>>
    BY DEF Work
  <2> QED BY <2>1 DEF Busy
<1>4. u \in Task
  <2>1. Less(t.timer) \in 0..ReconnectDelay
    BY TaskFields, Bounds DEF Less
  <2>2. (IF Busy(t) THEN t.stalled + 1 ELSE 0) \in 0..MaxStall
    BY TaskFields, Bounds
  <2> QED BY <2>1, <2>2 DEF Task, Older
<1> QED BY <1>1, <1>2, <1>3, <1>4

LEMMA TickStep ==
  ASSUME TailInv, Tick
  PROVE  TailInv'
<1>1. /\ slot' = slot /\ driver' = driver /\ driver_timer' = Less(driver_timer)
      /\ shutdown' = shutdown /\ produced' = produced /\ handled' = handled /\ faults' = faults
  BY DEF Tick, countVars
<1>2. PICK left \in Nat : left = TimeLeft
  BY Bounds DEF TailInv, FieldTypesOK, TimeLeft
<1>3. PICK left2 \in Nat : left2 = TimeLeft' /\ (left > 0 => left2 >= left - 1)
  BY <1>1, <1>2, Bounds DEF TailInv, FieldTypesOK, TimeLeft, Less
<1>4. ASSUME NEW s \in Streams, NEW k \in Slots
      PROVE  /\ Busy(task[s][k]) => task[s][k].stalled < MaxStall
             /\ task'[s][k] = Older(task[s][k])
  BY DEF Tick, Older
<1>5. task' \in [Streams -> [Slots -> Task]]
  <2>1. ASSUME NEW s \in Streams, NEW k \in Slots PROVE task'[s][k] \in Task
    <3>1. task[s][k] \in Task
      BY DEF TailInv, FieldTypesOK, Task
    <3> QED BY <1>4, <3>1, TickTask
  <2>3. task' = [s \in Streams |-> [k \in Slots |-> task'[s][k]]]
    BY DEF Tick
  <2> QED BY <2>1, <2>3
<1>6. FieldTypesOK'
  <2>1. Less(driver_timer) \in Nat
    BY DEF TailInv, FieldTypesOK, Less
  <2> QED BY <1>1, <1>5, <2>1 DEF TailInv, FieldTypesOK, Task
<1>7. ASSUME NEW s \in Streams
      PROVE  /\ Good(task'[s][slot'], driver', TimeLeft', handled'[s], produced'[s])
             /\ Over(task'[s][1 - slot'])
  <2>1. PICK t \in Task : t = task[s][slot] /\ Good(t, driver, left, handled[s], produced[s])
    BY <1>2, Current
  <2>2. PICK o \in Task : o = task[s][1 - slot] /\ Over(o)
    BY Current
  <2>3. PICK u : u = task'[s][slot]
    OBVIOUS
  <2>4. PICK v : v = task'[s][1 - slot]
    OBVIOUS
  <2>5. /\ u \in Task
        /\ u.pc = t.pc /\ u.chunk = t.chunk /\ u.queue = t.queue /\ u.hand = t.hand
        /\ u.aborted = t.aborted /\ Work(u) = Work(t)
        /\ u.timer = Less(t.timer)
        /\ Work(t) > 0 \/ t.hand # "idle" => u.stalled = t.stalled + 1
    <3>1. slot \in Slots
      BY SlotsAre DEF TailInv
    <3>2. /\ Busy(t) => t.stalled < MaxStall
          /\ u = Older(t)
      BY <1>4, <2>1, <2>3, <3>1
    <3> QED BY <3>2, TickTask
  <2>6. v.pc = o.pc /\ v.queue = o.queue /\ v.hand = o.hand /\ v.aborted = o.aborted
    <3>1. 1 - slot \in Slots
      BY SlotsAre DEF TailInv
    <3>2. /\ Busy(o) => o.stalled < MaxStall
          /\ v = Older(o)
      BY <1>4, <2>2, <2>4, <3>1
    <3> QED BY <3>2, TickTask
  <2>7. Over(v)
    BY <2>2, <2>6 DEF Over
  <2>8. Fits(u)
    BY <2>1, <2>5 DEF Good, Fits
  <2>9. PICK w \in Nat, m \in Nat : w = Work(t) /\ m = w + 1
    BY TaskFields
  <2>10. /\ Span(w) \in Nat /\ Span(m) \in Nat /\ t.stalled \in Nat /\ t.timer \in Nat
         /\ t.stalled <= MaxStall /\ MaxStall \in Nat
         /\ w > 0 => Span(w) >= MaxStall
         /\ Span(m) >= MaxStall
    <3>1. Span(1) = MaxStall /\ \A n \in Nat : 1 <= n => Span(1) <= Span(n)
      BY SpanIs
    <3>2. 1 <= m /\ (w > 0 => 1 <= w)
      BY <2>9
    <3> QED BY <3>1, <3>2, SpanIs, TaskFields, Bounds
  <2>11. Drained(u)
    <3>1. t.pc = "sleeping" /\ w > 0 => Span(w) - u.stalled < u.timer
      <4>1. SUFFICES ASSUME t.pc = "sleeping", w > 0 PROVE Span(w) - u.stalled < u.timer
        OBVIOUS
      <4>2. Span(w) - t.stalled < t.timer
        BY <2>1, <2>9, <4>1 DEF Good, Drained
      <4>3. u.stalled = t.stalled + 1 /\ u.timer = t.timer - 1
        BY <2>5, <2>9, <2>10, <4>1, <4>2 DEF Less
      <4> QED BY <2>10, <4>2, <4>3
    <3> QED BY <2>1, <2>5, <2>9, <3>1 DEF Good, Drained, Empty
  <2>12. Leaves(u, driver, left2)
    <3>1. driver \in {"joining", "retry"} /\ t.hand # "idle" => Span(m) - u.stalled < left2
      <4>1. SUFFICES ASSUME driver \in {"joining", "retry"}, t.hand # "idle"
                     PROVE  Span(m) - u.stalled < left2
        OBVIOUS
      <4>2. Span(m) - t.stalled < left
        BY <2>1, <2>9, <4>1 DEF Good, Leaves
      <4>3. u.stalled = t.stalled + 1 /\ left > 0
        BY <2>5, <2>10, <4>1, <4>2
      <4> QED BY <1>3, <2>10, <4>2, <4>3
    <3> QED BY <2>1, <2>5, <2>9, <3>1 DEF Good, Leaves
  <2>13. Ordered(u, handled[s], produced[s])
    BY <2>1, <2>5 DEF Good, Ordered
  <2> QED BY <1>1, <1>3, <2>3, <2>4, <2>7, <2>8, <2>11, <2>12, <2>13 DEF Good
<1> QED BY <1>6, <1>7 DEF TailInv, CurrentInv, Good, Fits, Drained, Empty, Leaves, Ordered, Over,
        Work, Numbered

-----------------------------------------------------------------------------
(* Types, which no delay matters to.                                         *)

LEMMA BecomesTyped ==
  ASSUME FieldTypesOK, NEW s \in Streams, NEW k \in Slots, NEW t \in Task, Becomes(s, k, t)
  PROVE  task' \in [Streams -> [Slots -> Task]]
<1>1. Settled(t) \in Task
  <2>1. 0 \in 0..MaxStall
    BY Bounds
  <2> QED BY <2>1 DEF Settled, Task
<1> QED BY <1>1 DEF Becomes, FieldTypesOK, Task

LEMMA TasksTyped ==
  ASSUME FieldTypesOK, NEW s \in Streams, NEW k \in Slots,
         \/ ProducerStep(s, k) \/ ConsumerStep(s, k) \/ UpstreamStep(s, k)
         \/ HandlerFails(s, k) \/ HandlerPanics(s, k)
  PROVE  task' \in [Streams -> [Slots -> Task]]
<1>1. task \in [Streams -> [Slots -> Task]]
  BY DEF FieldTypesOK, Task
<1>2. PICK t \in Task : t = task[s][k]
  BY <1>1
<1>3. t.queue \in Seq(Line) /\ t.chunk \in Seq(Line) /\ t.aborted \in BOOLEAN
  BY TaskFields
<1>4. ReconnectDelay \in 0..ReconnectDelay /\ 0 \in 0..MaxStall /\ 0 \in 0..ReconnectDelay
  BY Bounds
<1>5. \A q \in Seq(Line) : q # <<>> => Head(q) \in Line /\ Tail(q) \in Seq(Line)
  OBVIOUS
<1>6. CASE Connect(s, k)
  <2> DEFINE New(j) == [task[s][j] EXCEPT !.pc = IF j = k THEN "reading" ELSE @,
                                          !.queue = Outdated(@), !.chunk = Outdated(@)]
  <2>1. ASSUME NEW j \in Slots PROVE New(j) \in Task
    <3>1. PICK x \in Task : x = task[s][j]
      BY <1>1
    <3>2. Outdated(x.queue) \in Seq(Line) /\ Outdated(x.chunk) \in Seq(Line)
      BY TaskFields, OutdatedType
    <3> QED BY <3>1, <3>2 DEF Task
  <2>2. task' = [task EXCEPT ![s] = [j \in Slots |-> New(j)]]
    BY <1>6 DEF Connect
  <2> HIDE DEF New
  <2> QED BY <1>1, <2>1, <2>2
<1>7. ASSUME NEW n \in 1..MaxChunk, ReadChunk(s, k, n)
      PROVE  task' \in [Streams -> [Slots -> Task]]
  <2> DEFINE Number(i) == [no |-> (produced[s] + i - 1) % Period, stale |-> FALSE]
  <2>1. ASSUME NEW i \in 1..n PROVE Number(i) \in Line
    <3>1. PICK x \in Nat : x = produced[s] + i - 1
      BY Bounds DEF FieldTypesOK
    <3>2. x % Period \in 0..(Period - 1)
      BY ModRange
    <3>3. Number(i) = [no |-> x % Period, stale |-> FALSE]
      BY <3>1
    <3> QED BY <3>2, <3>3 DEF Line
  <2>2. Becomes(s, k, [t EXCEPT !.chunk = [i \in 1..n |-> Number(i)]])
    BY <1>2, <1>7 DEF ReadChunk
  <2>3. [i \in 1..n |-> Number(i)] \in Seq(Line)
    <3> HIDE DEF Number
    <3>1. n \in Nat
      BY Bounds
    <3> QED BY <2>1, <3>1
  <2> HIDE DEF Number
  <2>4. [t EXCEPT !.chunk = [i \in 1..n |-> Number(i)]] \in Task
    BY <2>3 DEF Task
  <2> QED BY <2>2, <2>4, BecomesTyped
<1>8. CASE Send(s, k)
  <2>1. PICK queue \in Seq(Line), chunk \in Seq(Line) :
          queue = Append(t.queue, Head(t.chunk)) /\ chunk = Tail(t.chunk)
    BY <1>2, <1>3, <1>5, <1>8, AppendProperties DEF Send
  <2>2. PICK u \in Task : u = [t EXCEPT !.chunk = chunk, !.queue = queue]
    BY DEF Task
  <2>3. u = [t EXCEPT !.chunk = Tail(@), !.queue = Append(@, Head(t.chunk))]
    BY <2>1, <2>2 DEF Task
  <2> QED BY <1>2, <1>8, <2>3, BecomesTyped DEF Send
<1>9. CASE DelayElapses(s, k)
  <2>1. PICK u \in Task : u = [t EXCEPT !.pc = "connect"]
    BY DEF Task
  <2> QED BY <1>2, <1>9, <2>1, BecomesTyped DEF DelayElapses
<1>10. CASE StreamEnds(s, k)
  <2>1. PICK u \in Task : u = [t EXCEPT !.pc = "sleeping", !.timer = ReconnectDelay]
    BY <1>4 DEF Task
  <2> QED BY <1>2, <1>10, <2>1, BecomesTyped DEF StreamEnds
<1>11. CASE Receive(s, k)
  <2>1. PICK queue \in Seq(Line), line \in Line : queue = Tail(t.queue) /\ line = Head(t.queue)
    BY <1>2, <1>3, <1>5, <1>11 DEF Receive
  <2>2. PICK u \in Task : u = [t EXCEPT !.hand = "handling", !.line = line, !.queue = queue]
    BY DEF Task
  <2>3. u = [t EXCEPT !.hand = "handling", !.line = Head(t.queue), !.queue = Tail(@)]
    BY <2>1, <2>2 DEF Task
  <2> QED BY <1>2, <1>11, <2>3, BecomesTyped DEF Receive
<1>12. CASE HandlerReturns(s, k)
  <2>1. PICK u \in Task : u = [t EXCEPT !.hand = "next", !.line = Null, !.stalled = 0]
    BY <1>4 DEF Task
  <2> QED BY <1>2, <1>12, <2>1, BecomesTyped DEF HandlerReturns
<1>13. CASE Yield(s, k)
  <2>1. PICK u \in Task : u = [t EXCEPT !.hand = "idle"]
    BY DEF Task
  <2> QED BY <1>2, <1>13, <2>1, BecomesTyped DEF Yield
<1>14. CASE HandlerFails(s, k)
  <2>1. PICK u \in Task : u = [Attempt EXCEPT !.pc = "delay", !.timer = ReconnectDelay,
                                             !.aborted = t.aborted]
    BY <1>3, <1>4, Fresh DEF Task
  <2> QED BY <1>2, <1>14, <2>1, BecomesTyped DEF HandlerFails
<1>15. CASE HandlerPanics(s, k) \/ AbortTakesHold(s, k)
  BY <1>1, <1>15, Fresh DEF HandlerPanics, AbortTakesHold
<1> QED BY <1>6, <1>7, <1>8, <1>9, <1>10, <1>11, <1>12, <1>13, <1>14, <1>15
        DEF ProducerStep, ConsumerStep, UpstreamStep

LEMMA CountsTyped ==
  ASSUME FieldTypesOK, NEW s \in Streams, NEW k \in Slots,
         \/ ProducerStep(s, k) \/ ConsumerStep(s, k) \/ UpstreamStep(s, k)
         \/ HandlerFails(s, k) \/ HandlerPanics(s, k)
  PROVE  /\ produced' \in [Streams -> 0..(Period - 1)] /\ handled' \in [Streams -> 0..(Period - 1)]
         /\ faults' \in 0..MaxFaults /\ UNCHANGED driverVars
<1>1. /\ produced \in [Streams -> 0..(Period - 1)] /\ handled \in [Streams -> 0..(Period - 1)]
      /\ faults \in 0..MaxFaults /\ 0 \in 0..(Period - 1)
  BY Bounds DEF FieldTypesOK
<1>2. \A n \in 1..MaxChunk : (produced[s] + n) % Period \in 0..(Period - 1)
  <2>1. SUFFICES ASSUME NEW n \in 1..MaxChunk PROVE (produced[s] + n) % Period \in 0..(Period - 1)
    OBVIOUS
  <2>2. PICK x \in Nat : x = produced[s] + n
    BY <1>1, Bounds
  <2> QED BY <2>2, ModRange
<1>3. (handled[s] + 1) % Period \in 0..(Period - 1)
  <2>1. PICK x \in Nat : x = handled[s] + 1
    BY <1>1, Bounds
  <2> QED BY <2>1, ModRange
<1>4. Fault => faults' \in 0..MaxFaults
  BY <1>1, Bounds DEF Fault
<1>5. CASE \E n \in 1..MaxChunk : ReadChunk(s, k, n)
  BY <1>1, <1>2, <1>5 DEF ReadChunk
<1>6. CASE Receive(s, k)
  BY <1>1, <1>3, <1>6 DEF Receive
<1>7. CASE Connect(s, k)
  BY <1>1, <1>7 DEF Connect
<1>8. CASE HandlerFails(s, k) \/ HandlerPanics(s, k)
  BY <1>1, <1>4, <1>8 DEF HandlerFails, HandlerPanics
<1>9. CASE \/ Send(s, k) \/ DelayElapses(s, k) \/ StreamEnds(s, k) \/ HandlerReturns(s, k)
           \/ Yield(s, k) \/ AbortTakesHold(s, k)
  BY <1>1, <1>9 DEF Send, DelayElapses, StreamEnds, HandlerReturns, Yield, AbortTakesHold,
     countVars
<1> QED BY <1>5, <1>6, <1>7, <1>8, <1>9 DEF ProducerStep, ConsumerStep, UpstreamStep

LEMMA TypeNext == FieldTypesOK /\ [Next]_vars => FieldTypesOK'
<1> SUFFICES ASSUME FieldTypesOK, [Next]_vars PROVE FieldTypesOK'
  OBVIOUS
<1>1. task \in [Streams -> [Slots -> Task]]
  BY DEF FieldTypesOK, Task
<1>2. CASE Tick
  <2>1. ASSUME NEW s \in Streams, NEW k \in Slots
        PROVE  Older(task[s][k]) \in Task /\ task'[s][k] = Older(task[s][k])
    <3>1. Busy(task[s][k]) => task[s][k].stalled < MaxStall
      BY <1>2 DEF Tick
    <3>2. task'[s][k] = Older(task[s][k])
      BY <1>2 DEF Tick, Older
    <3> QED BY <1>1, <3>1, <3>2, TickTask
  <2>2. task' = [s \in Streams |-> [k \in Slots |-> task'[s][k]]]
    BY <1>2 DEF Tick
  <2>3. task' \in [Streams -> [Slots -> Task]]
    BY <2>1, <2>2
  <2>4. driver_timer' \in Nat
    <3>1. Less(driver_timer) \in Nat
      BY DEF FieldTypesOK, Less
    <3> QED BY <1>2, <3>1 DEF Tick
  <2> QED BY <1>2, <2>3, <2>4 DEF Tick, FieldTypesOK, Task, countVars
<1>3. CASE SignalShutdown \/ UNCHANGED vars
  BY <1>3 DEF SignalShutdown, vars, countVars, FieldTypesOK
<1>4. CASE Joined \/ RetryCancelled
  BY <1>4, Bounds, SMTT(30) DEF Joined, RetryCancelled, countVars, FieldTypesOK
<1>5. CASE AbortAndJoin
  <2>1. task' \in [Streams -> [Slots -> Task]]
    <3>1. ASSUME NEW s \in Streams PROVE task'[s] \in [Slots -> Task]
      <4>1. PICK x \in Task : x = task[s][slot]
        BY <1>1, SlotsAre
      <4>2. PICK u \in Task : u = [x EXCEPT !.aborted = x.pc # "gone"]
        BY DEF Task
      <4>3. task'[s] = [task[s] EXCEPT ![slot] = u]
        BY <1>1, <1>5, <4>1, <4>2 DEF AbortAndJoin, AbortAll
      <4> QED BY <1>1, <4>3
    <3> QED BY <1>5, <3>1 DEF AbortAndJoin, AbortAll
  <2> QED BY <1>5, <2>1, Bounds DEF AbortAndJoin, FieldTypesOK, Task, countVars
<1>6. CASE Retry
  <2>1. task' \in [Streams -> [Slots -> Task]]
    BY <1>1, <1>6, Fresh DEF Retry, NextAttempt
  <2>2. slot' \in Slots
    BY <1>6, SlotsAre DEF Retry, NextAttempt
  <2> QED BY <1>6, <2>1, <2>2 DEF Retry, NextAttempt, FieldTypesOK, Task, countVars
<1>7. ASSUME NEW s \in Streams, NEW k \in Slots,
             \/ ProducerStep(s, k) \/ ConsumerStep(s, k) \/ UpstreamStep(s, k)
             \/ HandlerFails(s, k) \/ HandlerPanics(s, k)
      PROVE  FieldTypesOK'
  BY <1>7, TasksTyped, CountsTyped DEF FieldTypesOK, Task, driverVars
<1> QED BY <1>2, <1>3, <1>4, <1>5, <1>6, <1>7 DEF Next, DriverStep

-----------------------------------------------------------------------------
(* The invariant, and what follows from it.  InTime is the proviso that the  *)
(* code makes nowhere: the handler keeps up with a full queue within the     *)
(* delays.                                                                   *)

LEMMA TailInit == Init => TailInv
<1> SUFFICES ASSUME Init PROVE TailInv
  OBVIOUS
<1>1. PICK a \in Task, g \in Task : a = Attempt /\ g = Gone
  BY Fresh
<1>2. slot = 0 /\ 1 - slot = 1 /\ Slots = {0, 1} /\ driver = "driving"
  BY DEF Init, Slots
<1>3. task = [s \in Streams |-> [k \in Slots |-> IF k = 0 THEN a ELSE g]]
  BY <1>1 DEF Init
<1>4. FieldTypesOK
  <2>1. task \in [Streams -> [Slots -> Task]]
    BY <1>3
  <2>2. 0 \in 0..(Period - 1) /\ 0 \in 0..MaxFaults
    BY Bounds
  <2> QED BY <1>2, <2>1, <2>2 DEF Init, FieldTypesOK, Task
<1>5. ASSUME NEW s \in Streams
      PROVE  CurrentInv(s) /\ Over(task[s][1 - slot])
  <2>1. task[s][slot] = a /\ task[s][1 - slot] = g
    BY <1>2, <1>3
  <2>2. Good(a, "driving", TimeLeft, handled[s], produced[s])
    BY <1>1, Fresh, EmptyGood
  <2>3. Over(g)
    BY <1>1, Fresh DEF Over, Empty
  <2> QED BY <1>2, <2>1, <2>2, <2>3 DEF CurrentInv
<1> QED BY <1>4, <1>5 DEF TailInv

LEMMA TailNext ==
  ASSUME InTime, TailInv, [Next]_vars
  PROVE  TailInv'
<1>1. CASE Tick
  BY <1>1, TickStep
<1>2. CASE SignalShutdown
  <2>1. /\ UNCHANGED <<task, slot, countVars>> /\ driver' = driver
        /\ driver_timer' = driver_timer /\ shutdown' \in BOOLEAN
    BY <1>2 DEF SignalShutdown
  <2>2. TimeLeft' = TimeLeft
    BY <2>1 DEF TimeLeft
  <2> QED BY <2>1, <2>2, DriverMoves DEF TailInv, FieldTypesOK, CurrentInv, Good
<1>3. CASE DriverStep
  BY <1>3, AbortAndJoinStep, JoinedStep, RetryStep DEF DriverStep, InTime
<1>4. ASSUME NEW s \in Streams, NEW k \in Slots,
             \/ ProducerStep(s, k) \/ ConsumerStep(s, k) \/ UpstreamStep(s, k)
             \/ HandlerFails(s, k) \/ HandlerPanics(s, k)
      PROVE  TailInv'
  <2>1. CASE AbortTakesHold(s, k)
    BY <2>1, AbortTakesHoldStep
  <2>2. CASE ~AbortTakesHold(s, k)
    <3>1. k = slot
      BY <1>4, <2>2, OnlyCurrent DEF ConsumerStep
    <3>2. CASE ProducerStep(s, k)
      BY <3>1, <3>2, ConnectStep, SendStep, DelayElapsesStep DEF ProducerStep
    <3>3. CASE ConsumerStep(s, k)
      BY <2>2, <3>1, <3>3, ReceiveStep, HandlerReturnsStep, YieldStep DEF ConsumerStep
    <3>4. CASE UpstreamStep(s, k)
      BY <3>1, <3>4, StreamEndsStep, ReadChunkStep DEF UpstreamStep, InTime
    <3>5. CASE HandlerFails(s, k)
      BY <3>1, <3>5, HandlerFailsStep
    <3>6. CASE HandlerPanics(s, k)
      BY <3>1, <3>6, CurrentGone, FaultType DEF HandlerPanics
    <3> QED BY <1>4, <3>2, <3>3, <3>4, <3>5, <3>6
  <2> QED BY <2>1, <2>2
<1>5. CASE UNCHANGED vars
  <2>1. /\ UNCHANGED <<task, slot, countVars>> /\ driver' = driver
        /\ driver_timer' = driver_timer /\ shutdown' = shutdown
    BY <1>5 DEF vars, countVars
  <2>2. TimeLeft' = TimeLeft
    BY <2>1 DEF TimeLeft
  <2> QED BY <2>1, <2>2, DriverMoves DEF TailInv, FieldTypesOK, CurrentInv, Good
<1> QED BY <1>1, <1>2, <1>3, <1>4, <1>5 DEF Next

LEMMA TailCorrect ==
  ASSUME InTime
  PROVE  Spec => []TailInv
<1>1. TailInv /\ [Next]_vars => TailInv'
  BY TailNext
<1> QED BY <1>1, TailInit, PTL DEF Spec

(* Which steps begin to read and to handle.                                  *)

LEMMA SettledKeeps == \A t \in Task : Settled(t).pc = t.pc /\ Settled(t).hand = t.hand
BY DEF Settled, Task

LEMMA Elsewhere ==
  ASSUME FieldTypesOK, NEW s \in Streams, NEW k \in Slots, NEW q \in Streams, NEW j \in Slots,
         q # s \/ j # k, NEW t, task' = [task EXCEPT ![q][j] = t]
  PROVE  task'[s][k] = task[s][k]
BY DEF FieldTypesOK

Starts(s, k) ==
  /\ task'[s][k].pc = "reading" => task[s][k].pc = "reading" \/ Connect(s, k)
  /\ task'[s][k].hand = "handling" => task[s][k].hand = "handling" \/ Receive(s, k)

LEMMA Same ==
  ASSUME NEW s \in Streams, NEW k \in Slots,
         task'[s][k].pc = task[s][k].pc \/ task'[s][k].pc # "reading",
         task'[s][k].hand = task[s][k].hand \/ task'[s][k].hand # "handling"
  PROVE  Starts(s, k)
BY DEF Starts

LEMMA TaskStarts ==
  ASSUME FieldTypesOK, NEW s \in Streams, NEW k \in Slots,
         \/ ProducerStep(s, k) \/ ConsumerStep(s, k) \/ UpstreamStep(s, k)
         \/ HandlerFails(s, k) \/ HandlerPanics(s, k)
  PROVE  Starts(s, k)
<1>1. PICK x \in Task : x = task[s][k]
  BY DEF FieldTypesOK, Task
<1>2. task \in [Streams -> [Slots -> Task]]
  BY DEF FieldTypesOK, Task
<1>3. ASSUME NEW u, Becomes(s, k, u) PROVE task'[s][k] = Settled(u)
  BY <1>2, <1>3 DEF Becomes
<1>4. CASE Connect(s, k)
  <2>1. task'[s][k].hand = x.hand
    BY <1>1, <1>2, <1>4 DEF Connect, Task
  <2> QED BY <1>1, <1>4, <2>1 DEF Starts
<1>5. CASE Receive(s, k)
  <2>1. PICK u : u = [x EXCEPT !.hand = "handling", !.line = Head(x.queue), !.queue = Tail(@)]
    OBVIOUS
  <2>2. Settled(u).pc = x.pc
    BY <2>1 DEF Settled, Task
  <2>3. task'[s][k] = Settled(u)
    BY <1>1, <1>3, <1>5, <2>1 DEF Receive
  <2> QED BY <1>1, <1>5, <2>2, <2>3 DEF Starts
<1>6. CASE Send(s, k)
  <2>1. PICK u : u = [x EXCEPT !.chunk = Tail(@), !.queue = Append(@, Head(x.chunk))]
    OBVIOUS
  <2>2. Settled(u).pc = x.pc /\ Settled(u).hand = x.hand
    BY <2>1 DEF Settled, Task
  <2>3. task'[s][k] = Settled(u)
    BY <1>1, <1>3, <1>6, <2>1 DEF Send
  <2> QED BY <1>1, <2>2, <2>3, Same
<1>7. CASE DelayElapses(s, k)
  <2>1. PICK u : u = [x EXCEPT !.pc = "connect"]
    OBVIOUS
  <2>2. Settled(u).pc = "connect" /\ Settled(u).hand = x.hand
    BY <2>1 DEF Settled, Task
  <2>3. task'[s][k] = Settled(u)
    BY <1>1, <1>3, <1>7, <2>1 DEF DelayElapses
  <2> QED BY <1>1, <2>2, <2>3, Same
<1>8. CASE StreamEnds(s, k)
  <2>1. PICK u : u = [x EXCEPT !.pc = "sleeping", !.timer = ReconnectDelay]
    OBVIOUS
  <2>2. Settled(u).pc = "sleeping" /\ Settled(u).hand = x.hand
    BY <2>1 DEF Settled, Task
  <2>3. task'[s][k] = Settled(u)
    BY <1>1, <1>3, <1>8, <2>1 DEF StreamEnds
  <2> QED BY <1>1, <2>2, <2>3, Same
<1>9. ASSUME NEW n \in 1..MaxChunk, ReadChunk(s, k, n) PROVE Starts(s, k)
  <2>1. PICK new : Becomes(s, k, [x EXCEPT !.chunk = new])
    BY <1>1, <1>9 DEF ReadChunk
  <2>2. PICK u : u = [x EXCEPT !.chunk = new]
    OBVIOUS
  <2>3. Settled(u).pc = x.pc /\ Settled(u).hand = x.hand
    BY <2>2 DEF Settled, Task
  <2>4. task'[s][k] = Settled(u)
    BY <1>3, <2>1, <2>2
  <2> QED BY <1>1, <2>3, <2>4, Same
<1>10. CASE HandlerReturns(s, k)
  <2>1. PICK u : u = [x EXCEPT !.hand = "next", !.line = Null, !.stalled = 0]
    OBVIOUS
  <2>2. Settled(u).pc = x.pc /\ Settled(u).hand = "next"
    BY <2>1 DEF Settled, Task
  <2>3. task'[s][k] = Settled(u)
    BY <1>1, <1>3, <1>10, <2>1 DEF HandlerReturns
  <2> QED BY <1>1, <2>2, <2>3, Same
<1>11. CASE Yield(s, k)
  <2>1. PICK u : u = [x EXCEPT !.hand = "idle"]
    OBVIOUS
  <2>2. Settled(u).pc = x.pc /\ Settled(u).hand = "idle"
    BY <2>1 DEF Settled, Task
  <2>3. task'[s][k] = Settled(u)
    BY <1>1, <1>3, <1>11, <2>1 DEF Yield
  <2> QED BY <1>1, <2>2, <2>3, Same
<1>12. CASE HandlerFails(s, k)
  <2>1. PICK u : u = [Attempt EXCEPT !.pc = "delay", !.timer = ReconnectDelay,
                                     !.aborted = x.aborted]
    OBVIOUS
  <2>2. Settled(u).pc = "delay" /\ Settled(u).hand = "idle"
    BY <2>1 DEF Settled, Attempt
  <2>3. task'[s][k] = Settled(u)
    BY <1>1, <1>3, <1>12, <2>1 DEF HandlerFails
  <2> QED BY <2>2, <2>3, Same
<1>13. CASE HandlerPanics(s, k) \/ AbortTakesHold(s, k)
  <2>1. task'[s][k] = Gone
    BY <1>2, <1>13 DEF HandlerPanics, AbortTakesHold
  <2>2. Gone.pc # "reading" /\ Gone.hand # "handling"
    BY Fresh DEF Empty
  <2> QED BY <2>1, <2>2, Same
<1> QED BY <1>4, <1>5, <1>6, <1>7, <1>8, <1>9, <1>10, <1>11, <1>12, <1>13
        DEF ProducerStep, ConsumerStep, UpstreamStep

LEMMA StepStarts ==
  ASSUME FieldTypesOK, [Next]_vars, NEW s \in Streams, NEW k \in Slots
  PROVE  Starts(s, k)
<1>1. task \in [Streams -> [Slots -> Task]]
  BY DEF FieldTypesOK, Task
<1>2. CASE Tick
  <2>1. task'[s][k] = Older(task[s][k])
    BY <1>2 DEF Tick, Older
  <2>2. \A t \in Task : Older(t).pc = t.pc /\ Older(t).hand = t.hand
    BY DEF Older, Task
  <2> QED BY <1>1, <2>1, <2>2, Same
<1>3. CASE SignalShutdown \/ Joined \/ RetryCancelled \/ UNCHANGED vars
  <2>1. task' = task
    BY <1>3 DEF SignalShutdown, Joined, RetryCancelled, vars
  <2> QED BY <2>1, Same
<1>4. CASE AbortAndJoin
  <2>1. PICK b : task'[s][k] = IF k = slot THEN [task[s][k] EXCEPT !.aborted = b] ELSE task[s][k]
    BY <1>1, <1>4 DEF AbortAndJoin, AbortAll, FieldTypesOK
  <2>2. \A t \in Task : /\ [t EXCEPT !.aborted = b].pc = t.pc
                        /\ [t EXCEPT !.aborted = b].hand = t.hand
    BY DEF Task
  <2>3. PICK x \in Task : x = task[s][k]
    BY <1>1
  <2>4. task'[s][k].pc = x.pc /\ task'[s][k].hand = x.hand
    BY <2>1, <2>2, <2>3
  <2> QED BY <2>3, <2>4, Same
<1>5. CASE Retry
  <2>1. task'[s][k] = IF k = 1 - slot THEN Attempt ELSE task[s][k]
    BY <1>1, <1>5 DEF Retry, NextAttempt
  <2>2. Attempt.pc # "reading" /\ Attempt.hand # "handling"
    BY Fresh DEF Empty
  <2> QED BY <2>1, <2>2, Same
<1>6. ASSUME NEW q \in Streams, NEW j \in Slots,
             \/ ProducerStep(q, j) \/ ConsumerStep(q, j) \/ UpstreamStep(q, j)
             \/ HandlerFails(q, j) \/ HandlerPanics(q, j)
      PROVE  Starts(s, k)
  <2>1. CASE q = s /\ j = k
    BY <1>6, <2>1, TaskStarts
  <2>2. CASE (q # s \/ j # k) /\ Connect(q, j)
    <3>1. CASE q # s
      BY <1>1, <2>2, <3>1, Same DEF Connect
    <3>2. CASE q = s
      <4>1. PICK x \in Task : x = task[s][k]
        BY <1>1
      <4>2. task'[s][k].pc = x.pc /\ task'[s][k].hand = x.hand
        BY <1>1, <2>2, <3>2, <4>1 DEF Connect, Task
      <4> QED BY <4>1, <4>2, Same
    <3> QED BY <3>1, <3>2
  <2>3. CASE (q # s \/ j # k) /\ ~Connect(q, j)
    <3>1. \E t : task' = [task EXCEPT ![q][j] = t]
      BY <1>6, <2>3 DEF ProducerStep, ConsumerStep, UpstreamStep, HandlerFails, HandlerPanics,
         Send, DelayElapses, StreamEnds, ReadChunk, Receive, HandlerReturns, Yield,
         AbortTakesHold, Becomes
    <3> QED BY <2>3, <3>1, Elsewhere, Same
  <2> QED BY <2>1, <2>2, <2>3
<1> QED BY <1>2, <1>3, <1>4, <1>5, <1>6 DEF Next, DriverStep

(* The channel: a task sends only where there is room, every other step of   *)
(* it keeps, shortens or drops the queue.                                    *)
LEMMA OutdatedLength == \A lines \in Seq(Line) : Len(Outdated(lines)) = Len(lines)
<1> SUFFICES ASSUME NEW lines \in Seq(Line) PROVE Len(Outdated(lines)) = Len(lines)
  OBVIOUS
<1>1. PICK n \in Nat : n = Len(lines) /\ DOMAIN lines = 1..n
  OBVIOUS
<1> DEFINE Old(i) == [lines[i] EXCEPT !.stale = TRUE]
<1>2. Outdated(lines) = [i \in 1..n |-> Old(i)]
  BY <1>1 DEF Outdated
<1> HIDE DEF Old
<1>3. \A i \in 1..n : lines[i] \in Line
  BY <1>1
<1>4. Outdated(lines) \in Seq(Line)
  BY OutdatedType
<1>5. DOMAIN Outdated(lines) = 1..n /\ Len(Outdated(lines)) \in Nat
  BY <1>2, <1>4
<1> QED BY <1>1, <1>4, <1>5, LenProperties

Room(s, k) == Len(task'[s][k].queue) <= Capacity

LEMMA TaskQueue ==
  ASSUME FieldTypesOK, NEW s \in Streams, NEW k \in Slots, Len(task[s][k].queue) <= Capacity,
         \/ ProducerStep(s, k) \/ ConsumerStep(s, k) \/ UpstreamStep(s, k)
         \/ HandlerFails(s, k) \/ HandlerPanics(s, k)
  PROVE  Room(s, k)
<1>1. task \in [Streams -> [Slots -> Task]]
  BY DEF FieldTypesOK, Task
<1>2. PICK x \in Task : x = task[s][k]
  BY <1>1
<1>3. /\ x.queue \in Seq(Line) /\ Len(x.queue) \in Nat /\ Len(x.queue) <= Capacity
      /\ Capacity \in Nat /\ x.chunk \in Seq(Line)
  BY <1>2, TaskFields, Bounds
<1>4. ASSUME NEW u, NEW q, q = u.queue, Settled(u).queue = q, Becomes(s, k, u), Len(q) <= Capacity
      PROVE  Room(s, k)
  BY <1>1, <1>4 DEF Becomes, Room
<1>5. CASE Connect(s, k)
  <2>1. task'[s][k].queue = Outdated(x.queue)
    BY <1>1, <1>2, <1>5 DEF Connect, Task
  <2> QED BY <1>3, <2>1, OutdatedLength DEF Room
<1>6. CASE Receive(s, k)
  <2>1. PICK u : u = [x EXCEPT !.hand = "handling", !.line = Head(x.queue), !.queue = Tail(@)]
    OBVIOUS
  <2>2. u.queue = Tail(x.queue) /\ Settled(u).queue = Tail(x.queue)
    BY <2>1 DEF Settled, Task
  <2>3. Len(Tail(x.queue)) <= Capacity
    BY <1>2, <1>3, <1>6 DEF Receive
  <2>4. Becomes(s, k, u)
    BY <1>2, <1>6, <2>1 DEF Receive
  <2> QED BY <1>4, <2>2, <2>3, <2>4
<1>7. CASE Send(s, k)
  <2>1. PICK u : u = [x EXCEPT !.chunk = Tail(@), !.queue = Append(@, Head(x.chunk))]
    OBVIOUS
  <2>2. PICK q : q = Append(x.queue, Head(x.chunk))
    OBVIOUS
  <2>3. u.queue = q /\ Settled(u).queue = q
    BY <2>1, <2>2 DEF Settled, Task
  <2>4. Len(x.queue) < Capacity /\ x.chunk # <<>> /\ Becomes(s, k, u)
    BY <1>2, <1>7, <2>1 DEF Send
  <2>5. Len(q) <= Capacity
    BY <1>3, <2>2, <2>4
  <2> QED BY <1>4, <2>3, <2>4, <2>5
<1>8. CASE DelayElapses(s, k) \/ StreamEnds(s, k) \/ HandlerReturns(s, k) \/ Yield(s, k)
  <2>1. PICK u : Becomes(s, k, u) /\ u \in {[x EXCEPT !.pc = "connect"],
                   [x EXCEPT !.pc = "sleeping", !.timer = ReconnectDelay],
                   [x EXCEPT !.hand = "next", !.line = Null, !.stalled = 0],
                   [x EXCEPT !.hand = "idle"]}
    BY <1>2, <1>8 DEF DelayElapses, StreamEnds, HandlerReturns, Yield
  <2>2. u.queue = x.queue /\ Settled(u).queue = x.queue
    BY <2>1 DEF Settled, Task
  <2> QED BY <1>3, <1>4, <2>1, <2>2
<1>9. ASSUME NEW n \in 1..MaxChunk, ReadChunk(s, k, n) PROVE Room(s, k)
  <2>1. PICK new : Becomes(s, k, [x EXCEPT !.chunk = new])
    BY <1>2, <1>9 DEF ReadChunk
  <2>2. PICK u : u = [x EXCEPT !.chunk = new]
    OBVIOUS
  <2>3. u.queue = x.queue /\ Settled(u).queue = x.queue
    BY <2>2 DEF Settled, Task
  <2> QED BY <1>3, <1>4, <2>1, <2>2, <2>3
<1>10. Len(<<>>) <= Capacity
  BY <1>3
<1>11. CASE HandlerFails(s, k)
  <2>1. PICK u : u = [Attempt EXCEPT !.pc = "delay", !.timer = ReconnectDelay, !.aborted = x.aborted]
    OBVIOUS
  <2>2. u.queue = <<>> /\ Settled(u).queue = <<>>
    BY <2>1 DEF Settled, Attempt
  <2>3. Becomes(s, k, u)
    BY <1>2, <1>11, <2>1 DEF HandlerFails
  <2> QED BY <1>4, <1>10, <2>2, <2>3
<1>12. CASE HandlerPanics(s, k) \/ AbortTakesHold(s, k)
  <2>1. task'[s][k] = Gone
    BY <1>1, <1>12 DEF HandlerPanics, AbortTakesHold
  <2> QED BY <1>10, <2>1, Fresh DEF Empty, Room
<1> QED BY <1>5, <1>6, <1>7, <1>8, <1>9, <1>11, <1>12 DEF ProducerStep, ConsumerStep, UpstreamStep

LEMMA StepQueue ==
  ASSUME FieldTypesOK, QueuesFit, [Next]_vars, NEW s \in Streams, NEW k \in Slots
  PROVE  Room(s, k)
<1>1. task \in [Streams -> [Slots -> Task]]
  BY DEF FieldTypesOK, Task
<1>2. PICK x \in Task : x = task[s][k] /\ Len(x.queue) <= Capacity
  BY <1>1 DEF QueuesFit
<1>3. task'[s][k].queue = x.queue => Room(s, k)
  BY <1>2 DEF Room
<1>4. CASE Tick
  <2>1. task'[s][k] = Older(x)
    BY <1>2, <1>4 DEF Tick, Older
  <2>2. Older(x).queue = x.queue
    BY DEF Older, Task
  <2> QED BY <1>3, <2>1, <2>2
<1>5. CASE SignalShutdown \/ Joined \/ RetryCancelled \/ UNCHANGED vars
  BY <1>2, <1>3, <1>5 DEF SignalShutdown, Joined, RetryCancelled, vars
<1>6. CASE AbortAndJoin
  <2>1. PICK b : task'[s][k] = IF k = slot THEN [x EXCEPT !.aborted = b] ELSE x
    BY <1>1, <1>2, <1>6 DEF AbortAndJoin, AbortAll, FieldTypesOK
  <2>2. task'[s][k].queue = x.queue
    BY <2>1 DEF Task
  <2> QED BY <1>3, <2>2
<1>7. CASE Retry
  <2>1. task'[s][k] = IF k = 1 - slot THEN Attempt ELSE x
    BY <1>1, <1>2, <1>7 DEF Retry, NextAttempt
  <2>2. Len(Attempt.queue) <= Capacity
    BY Fresh, Bounds DEF Empty
  <2> QED BY <1>3, <2>1, <2>2 DEF Room
<1>8. ASSUME NEW q \in Streams, NEW j \in Slots,
             \/ ProducerStep(q, j) \/ ConsumerStep(q, j) \/ UpstreamStep(q, j)
             \/ HandlerFails(q, j) \/ HandlerPanics(q, j)
      PROVE  Room(s, k)
  <2>1. CASE q = s /\ j = k
    BY <1>2, <1>8, <2>1, TaskQueue
  <2>2. CASE (q # s \/ j # k) /\ Connect(q, j)
    <3>1. CASE q # s
      BY <1>1, <1>2, <1>3, <2>2, <3>1 DEF Connect
    <3>2. CASE q = s
      <4>1. task'[s][k].queue = Outdated(x.queue)
        BY <1>1, <1>2, <2>2, <3>2 DEF Connect, Task
      <4> QED BY <1>2, <4>1, TaskFields, OutdatedLength DEF Room
    <3> QED BY <3>1, <3>2
  <2>3. CASE (q # s \/ j # k) /\ ~Connect(q, j)
    <3>1. \E t : task' = [task EXCEPT ![q][j] = t]
      BY <1>8, <2>3 DEF ProducerStep, ConsumerStep, UpstreamStep, HandlerFails, HandlerPanics,
         Send, DelayElapses, StreamEnds, ReadChunk, Receive, HandlerReturns, Yield,
         AbortTakesHold, Becomes
    <3> QED BY <1>2, <1>3, <2>3, <3>1, Elsewhere
  <2> QED BY <2>1, <2>2, <2>3
<1> QED BY <1>4, <1>5, <1>6, <1>7, <1>8 DEF Next, DriverStep

LEMMA QueueNext == FieldTypesOK /\ QueuesFit /\ [Next]_vars => QueuesFit'
BY StepQueue DEF Room, QueuesFit

(* Every variable keeps to its type in every behaviour of the program, and   *)
(* no channel holds more lines than it has room for.                         *)
THEOREM TailTypeCorrect == Spec => []TailTypeOK
<1>1. Init => FieldTypesOK /\ QueuesFit
  <2>1. ASSUME Init PROVE FieldTypesOK
    BY <2>1, TailInit DEF TailInv
  <2>2. ASSUME Init, NEW s \in Streams, NEW k \in Slots
        PROVE  Len(task[s][k].queue) <= Capacity
    <3>1. task[s][k] \in {Attempt, Gone}
      BY <2>2 DEF Init
    <3> QED BY <3>1, Fresh, Bounds DEF Empty
  <2> QED BY <2>1, <2>2 DEF QueuesFit
<1>2. FieldTypesOK /\ QueuesFit => TailTypeOK
  BY DEF TailTypeOK
<1> QED BY <1>1, <1>2, TypeNext, QueueNext, PTL DEF Spec

(* A stream has one handler at a time, for any number of attempts that were  *)
(* given up while they handled lines.                                        *)
THEOREM OneHandlerCorrect ==
  ASSUME InTime
  PROVE  Spec => []OneHandler
<1>1. TailInv => OneHandler
  BY SlotsAre DEF TailInv, Over, OneHandler
<1> QED BY <1>1, TailCorrect, PTL

(* A stream is deactivated only when none of its lines waits or is handled,  *)
(* in the attempt that connects or in one that was given up.                 *)
THEOREM ConnectQuietCorrect ==
  ASSUME InTime
  PROVE  Spec => ConnectQuiet
<1> DEFINE A == \A s \in Streams :
              (\E k \in Slots : task[s][k].pc = "connect" /\ task'[s][k].pc = "reading")
                => \A k \in Slots : Quiet(s, k)
<1>1. TailInv /\ [Next]_vars => [A]_vars
  <2> SUFFICES ASSUME TailInv, [Next]_vars, NEW s \in Streams, NEW k \in Slots, NEW j \in Slots,
                      task[s][k].pc = "connect", task'[s][k].pc = "reading"
               PROVE  Quiet(s, j)
    BY DEF vars
  <2>1. Connect(s, k)
    BY StepStarts DEF TailInv, Starts
  <2>2. k = slot
    BY <2>1, OnlyCurrent DEF ProducerStep
  <2>3. PICK t \in Task : t = task[s][slot] /\ Good(t, driver, TimeLeft, handled[s], produced[s])
    BY Current
  <2>4. Empty(t)
    BY <2>2, <2>3 DEF Good, Drained
  <2>5. Over(task[s][1 - slot]) /\ (j = slot \/ j = 1 - slot)
    BY Current, SlotsAre DEF TailInv
  <2> QED BY <2>3, <2>4, <2>5 DEF Quiet, Over, Empty
<1> HIDE DEF A
<1>2. Spec => [][A]_vars
  BY <1>1, TailCorrect, PTL DEF Spec
<1> QED BY <1>2 DEF A, ConnectQuiet

(* Lines reach the handler in the order of the connection, each once and     *)
(* without a gap, whatever the capacity of the queue.                        *)
THEOREM HandledInOrderCorrect ==
  ASSUME InTime
  PROVE  Spec => HandledInOrder
<1> DEFINE A == \A s \in Streams, k \in Slots :
              (task[s][k].hand # "handling" /\ task'[s][k].hand = "handling") =>
                task'[s][k].line = [no |-> handled[s], stale |-> FALSE]
<1>1. TailInv /\ [Next]_vars => [A]_vars
  <2> SUFFICES ASSUME TailInv, [Next]_vars, NEW s \in Streams, NEW k \in Slots,
                      task[s][k].hand # "handling", task'[s][k].hand = "handling"
               PROVE  task'[s][k].line = [no |-> handled[s], stale |-> FALSE]
    BY DEF vars
  <2>1. Receive(s, k)
    BY StepStarts DEF TailInv, Starts
  <2>2. k = slot
    BY <2>1, OnlyCurrent
  <2> QED BY <2>1, <2>2, ReceiveStep
<1> HIDE DEF A
<1>2. Spec => [][A]_vars
  BY <1>1, TailCorrect, PTL DEF Spec
<1> QED BY <1>2 DEF A, HandledInOrder
=============================================================================
