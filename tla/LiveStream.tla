----------------------------- MODULE LiveStream -----------------------------
(* From the bytes of an upstream connection to the responses of GET          *)
(* /live/{stream}: LineBuffer and tail_once (stream.rs), the handler that    *)
(* publishes a line before it archives it (serve.rs), LiveBroadcaster        *)
(* (live.rs) over tokio's broadcast channel, and the response loop of        *)
(* live_stream (server.rs).  One stream: streams share nothing here.         *)
(*                                                                           *)
(* Bytes are "x", "cr" and "nl", and the two halves "hi" "lo" of a character *)
(* that UTF-8 writes in two bytes.                                           *)
EXTENDS Integers, FiniteSets, Sequences, SequencesExt

CONSTANTS
  Readers,
  Capacity,        \* CHANNEL_CAPACITY
  MaxLineBytes,    \* MAX_LINE_BYTES
  Texts,           \* bound: the byte sequences the upstream may send
  MaxConnections,  \* bound: connections to the upstream
  Null

Byte == {"x", "cr", "nl", "hi", "lo"}
Line == Seq({"x", "cr", "wide", "replacement"})

Response == [pc : {"check", "select"}, next : Nat, out : Seq(Line), late : Nat]

ASSUME StreamAssumption ==
  /\ Capacity \in Nat \ {0} /\ MaxLineBytes \in Nat /\ MaxConnections \in Nat
  /\ Texts \subseteq Seq(Byte)
  /\ Null \notin [text : Texts, read : Nat] \cup Response
  /\ Null \notin [at : Nat, got : Seq(Line)]

VARIABLES
  upstream,     \* Null, or [text, read]: the connection, bytes it has brought
  connections,
  pending,      \* LineBuffer.pending
  lines,        \* history: every line the LineBuffer of this connection gave
  queue,        \* those of them the handler has not seen yet
  buffer,       \* the lines the channel holds
  tail,         \* lines sent on the channel so far
  sent,         \* history: those lines
  response,     \* the response of each reader, Null without one
  shutdown

upstreamVars == <<upstream, connections, pending, lines>>
channelVars == <<buffer, tail, sent>>
vars == <<upstreamVars, queue, channelVars, response, shutdown>>

Init ==
  /\ upstream = Null /\ connections = 0
  /\ pending = <<>> /\ lines = <<>> /\ queue = <<>>
  /\ buffer = <<>> /\ tail = 0 /\ sent = <<>>
  /\ response = [r \in Readers |-> Null]
  /\ shutdown = FALSE

-----------------------------------------------------------------------------
(* String::from_utf8_lossy: half a character is replaced.                    *)
Alone(byte) == IF byte \in {"hi", "lo"} THEN "replacement" ELSE byte

Decode(bytes) ==
  LET Second(i) == bytes[i] = "lo" /\ i > 1 /\ bytes[i - 1] = "hi"
      First(i) == bytes[i] = "hi" /\ i < Len(bytes) /\ bytes[i + 1] = "lo"
      Char(i) == IF First(i) THEN <<"wide">>
                 ELSE IF Second(i) THEN <<>> ELSE <<Alone(bytes[i])>>
  IN  FlattenSeq([i \in DOMAIN bytes |-> Char(i)])

StripCarriageReturn(line) ==
  IF line # <<>> /\ Last(line) = "cr" THEN Front(line) ELSE line

Newlines(bytes) == {i \in DOMAIN bytes : bytes[i] = "nl"}

(* Where the k-th line of bytes begins, and where its newline is.            *)
End(bytes, k) ==
  CHOOSE i \in Newlines(bytes) : Cardinality({j \in Newlines(bytes) : j <= i}) = k

Begin(bytes, k) == IF k = 1 THEN 1 ELSE End(bytes, k - 1) + 1

LineCount(bytes) == Cardinality(Newlines(bytes))

(* The lines of bytes that have their newline, and what follows the last.    *)
CompleteLines(bytes) ==
  [k \in 1..LineCount(bytes) |->
     Decode(StripCarriageReturn(SubSeq(bytes, Begin(bytes, k), End(bytes, k) - 1)))]

(* Slip: only up to the first newline is drained.                            *)
DrainsOne(bytes) ==
  IF LineCount(bytes) = 0 THEN bytes
  ELSE SubSeq(bytes, Begin(bytes, 2), Len(bytes))

Remainder(bytes) == SubSeq(bytes, Begin(bytes, LineCount(bytes) + 1), Len(bytes))

-----------------------------------------------------------------------------
(* tail_once.  The lines of one connection have all been handled when the    *)
(* next is made: TailPipeline!ConnectQuiet.                                  *)

Connect ==
  /\ upstream = Null /\ queue = <<>>
  /\ ~shutdown /\ connections < MaxConnections
  /\ \E text \in Texts : upstream' = [text |-> text, read |-> 0]
  /\ connections' = connections + 1
  /\ pending' = <<>> /\ lines' = <<>>
  /\ UNCHANGED <<queue, channelVars, response, shutdown>>

(* push_chunk with the next n bytes.  An error of it ends the connection,    *)
(* and the lines that the chunk completed are not given.                     *)
PushChunk(n) ==
  /\ upstream # Null
  /\ LET chunk == SubSeq(upstream.text, upstream.read + 1, upstream.read + n)
         bytes == pending \o chunk
         new == CompleteLines(bytes)
     IN  /\ pending' = Remainder(bytes)
         /\ IF Len(Remainder(bytes)) > MaxLineBytes
              THEN upstream' = Null /\ UNCHANGED <<lines, queue>>
              ELSE /\ upstream' = [upstream EXCEPT !.read = @ + n]
                   /\ lines' = lines \o new /\ queue' = queue \o new
  /\ UNCHANGED <<connections, channelVars, response, shutdown>>

(* The response ended or failed; shutdown drops it.                          *)
Disconnect ==
  /\ upstream # Null
  /\ upstream' = Null
  /\ UNCHANGED <<connections, pending, lines, queue, channelVars, response, shutdown>>

(* Ingest stops: what waits in it is dropped.                                *)
IngestStops ==
  /\ shutdown /\ (upstream # Null \/ queue # <<>>)
  /\ upstream' = Null /\ queue' = <<>>
  /\ UNCHANGED <<connections, pending, lines, channelVars, response, shutdown>>

-----------------------------------------------------------------------------
(* LiveBroadcaster.  receiver_count is the number of responses.              *)

Subscribed == {r \in Readers : response[r] # Null}

(* Slip: the channel has no bound.                                           *)
PublishUnbounded(line) ==
  IF Subscribed = {} THEN UNCHANGED channelVars
  ELSE sent' = Append(sent, line) /\ tail' = tail + 1 /\ buffer' = Append(buffer, line)

Publish(line) ==
  IF Subscribed = {} THEN UNCHANGED channelVars
  ELSE /\ sent' = Append(sent, line) /\ tail' = tail + 1
       /\ buffer' = Append(IF Len(buffer) = Capacity THEN Tail(buffer) ELSE buffer, line)

(* on_line of run_ingest_once: publish, then the archive.  When the archive  *)
(* fails the attempt ends with its connection and the lines that wait.       *)
HandleLine(archived) ==
  /\ queue # <<>>
  /\ Publish(Head(queue))
  /\ queue' = IF archived THEN Tail(queue) ELSE <<>>
  /\ upstream' = IF archived THEN upstream ELSE Null
  /\ UNCHANGED <<connections, pending, lines, response, shutdown>>

-----------------------------------------------------------------------------
(* live_stream.  pc is "check" at the top of its loop and between two polls  *)
(* of the body, "select" once the loop waits for a line or for shutdown.     *)
(* late counts the lines given since shutdown.                               *)

Subscribe(r) ==
  /\ response[r] = Null
  /\ response' = [response EXCEPT ![r] =
        [pc |-> "check", next |-> tail, out |-> <<>>, late |-> 0]]
  /\ UNCHANGED <<upstreamVars, queue, channelVars, shutdown>>

At(r, pc) == response[r] # Null /\ response[r].pc = pc

(* Slip: shutdown is not looked at before the wait.                          *)
CheckNothing(r) ==
  /\ At(r, "check")
  /\ response' = [response EXCEPT ![r].pc = "select"]
  /\ UNCHANGED <<upstreamVars, queue, channelVars, shutdown>>

CheckShutdown(r) ==
  /\ At(r, "check")
  /\ response' = [response EXCEPT ![r] =
        IF shutdown THEN Null ELSE [@ EXCEPT !.pc = "select"]]
  /\ UNCHANGED <<upstreamVars, queue, channelVars, shutdown>>

Oldest == tail - Len(buffer)

ReceiveLine(r) ==
  /\ At(r, "select")
  /\ Oldest <= response[r].next /\ response[r].next < tail
  /\ response' = [response EXCEPT ![r] =
        [pc |-> "check", next |-> @.next + 1,
         out |-> Append(@.out, buffer[@.next - Oldest + 1]),
         late |-> IF shutdown THEN @.late + 1 ELSE 0]]
  /\ UNCHANGED <<upstreamVars, queue, channelVars, shutdown>>

(* Slip: a reader that lags goes on with what comes next.                    *)
LaggedToTail(r) ==
  /\ At(r, "select") /\ response[r].next < Oldest
  /\ response' = [response EXCEPT ![r].pc = "check", ![r].next = tail]
  /\ UNCHANGED <<upstreamVars, queue, channelVars, shutdown>>

Lagged(r) ==
  /\ At(r, "select") /\ response[r].next < Oldest
  /\ response' = [response EXCEPT ![r].pc = "check", ![r].next = Oldest]
  /\ UNCHANGED <<upstreamVars, queue, channelVars, shutdown>>

(* Slip: the wait is for lines only.                                         *)
ShutdownUnseen(r) == FALSE /\ UNCHANGED vars

(* shutdown.changed(), also while a line waits                               *)
ShutdownChanged(r) ==
  /\ At(r, "select") /\ shutdown
  /\ response' = [response EXCEPT ![r] = Null]
  /\ UNCHANGED <<upstreamVars, queue, channelVars, shutdown>>

(* The client goes away.                                                     *)
ClientLeaves(r) ==
  /\ response[r] # Null
  /\ response' = [response EXCEPT ![r] = Null]
  /\ UNCHANGED <<upstreamVars, queue, channelVars, shutdown>>

SignalShutdown ==
  /\ ~shutdown /\ shutdown' = TRUE
  /\ UNCHANGED <<upstreamVars, queue, channelVars, response>>

ResponseStep(r) == CheckShutdown(r) \/ ReceiveLine(r) \/ Lagged(r) \/ ShutdownChanged(r)

Unread == IF upstream = Null THEN 0 ELSE Len(upstream.text) - upstream.read

Next ==
  \/ Connect \/ Disconnect \/ IngestStops
  \/ \E n \in 1..Unread : PushChunk(n)
  \/ \E archived \in BOOLEAN : HandleLine(archived)
  \/ \E r \in Readers : Subscribe(r) \/ ResponseStep(r) \/ ClientLeaves(r)
  \/ SignalShutdown

Spec == Init /\ [][Next]_vars

(* A client takes what its response gives.  Nothing else is assumed.         *)
FairSpec == Spec /\ \A r \in Readers : WF_vars(ResponseStep(r))

-----------------------------------------------------------------------------
StreamTypeOK ==
  /\ upstream \in {Null} \cup [text : Texts, read : Nat]
  /\ connections \in 0..MaxConnections
  /\ pending \in Seq({"x", "cr", "hi", "lo"})
  /\ lines \in Seq(Line) /\ queue \in Seq(Line) /\ sent \in Seq(Line)
  /\ buffer \in Seq(Line) /\ Len(buffer) <= Capacity
  /\ tail \in Nat
  /\ response \in [Readers -> {Null} \cup Response]
  /\ \A r \in Readers : response[r] # Null => response[r].next <= tail
  /\ shutdown \in BOOLEAN

(* The lines of a text: what is between its newlines, CRLF or LF.            *)
TextLines(text) ==
  LET crlf(k) == Begin(text, k) < End(text, k) /\ text[End(text, k) - 1] = "cr"
  IN  [k \in 1..LineCount(text) |->
         SubSeq(text, Begin(text, k), IF crlf(k) THEN End(text, k) - 2 ELSE End(text, k) - 1)]

(* However a connection's bytes are cut into chunks, the lines given are     *)
(* those of the text it has brought: no line is split, joined or repeated at *)
(* a chunk's end, a character or a CRLF cut in two is whole in its line, and *)
(* nothing of an earlier connection enters one (stream.rs:18-45, 64-91).     *)
LinesExact ==
  upstream # Null =>
    lines = TextLines(Decode(SubSeq(upstream.text, 1, upstream.read)))

(* The responses are what LiveFeed promises: slow readers, readers that come *)
(* and go and connections that are lost neither reorder nor repeat a line,   *)
(* and a reader loses lines only to a full channel of newer ones (live.rs,   *)
(* server.rs:359-411; docs/http-api.md: "a 256-line buffer").                *)
Feed == INSTANCE LiveFeed WITH
  Lines <- UNION {ToSet(CompleteLines(text)) : text \in Texts},
  reader <- [r \in Readers |->
    IF response[r] = Null THEN Null
    ELSE [at |-> response[r].next, got |-> response[r].out]]

FeedSpec == Feed!Spec

(* A response gives at most one more line after shutdown, however many wait  *)
(* in its channel: a busy stream does not hold up the drain of the HTTP      *)
(* server (server.rs:377-401).                                               *)
OneLineAfterShutdown ==
  \A r \in Readers : response[r] # Null => response[r].late <= 1

(* A reader that goes on reading is never left behind by a lag: it catches   *)
(* up with the channel again and again, or its response ends; at shutdown it *)
(* ends, whether or not a line comes to wake it (server.rs:372-404).         *)
CatchesUp ==
  \A r \in Readers :
    []<>(response[r] = Null \/ (response[r].next = tail /\ ~shutdown))
=============================================================================
