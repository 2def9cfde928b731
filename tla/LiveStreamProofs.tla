--------------------------- MODULE LiveStreamProofs ---------------------------
(* Proofs about the way of a line from the upstream's bytes to the readers   *)
(* of the live route, for all texts, however they are cut into chunks, and   *)
(* any number of readers and connections.                                    *)
EXTENDS LiveStream, DataLemmas

-----------------------------------------------------------------------------
(* FlattenSeq joins what it is given in order.                               *)
LEMMA FlattenEmpty == FlattenSeq(<<>>) = <<>>
BY DEF FlattenSeq

LEMMA FlattenType ==
  ASSUME NEW X, NEW s \in Seq(Seq(X))
  PROVE  FlattenSeq(s) \in Seq(X)
<1>1. FlattenSeq(s) = Flattened(s)
  BY DEF FlattenSeq, Flattened, Joins
<1> QED BY <1>1, FlattenedType

LEMMA FlattenAppend ==
  ASSUME NEW X, NEW s \in Seq(Seq(X)), NEW x \in Seq(X)
  PROVE  FlattenSeq(Append(s, x)) = FlattenSeq(s) \o x
<1>1. \A t : FlattenSeq(t) = Flattened(t)
  BY DEF FlattenSeq, Flattened, Joins
<1> QED BY <1>1, FlattenedAppend

-----------------------------------------------------------------------------
(* What the upstream has brought, and the lines of all its texts.            *)
Brought == SubSeq(upstream.text, 1, upstream.read)
KnownLines == UNION {ToSet(CompleteLines(text)) : text \in Texts}

(* The LineBuffer holds what follows the last line it gave, of what this     *)
(* connection has brought.                                                   *)
UpstreamInv ==
  /\ upstream # Null =>
       /\ upstream.read <= Len(upstream.text)
       /\ lines = CompleteLines(Brought) /\ pending = Remainder(Brought)
  /\ queue \in Seq(KnownLines)

(* The channel holds the last of the lines sent, as many as it can.          *)
ChannelInv ==
  /\ tail = Len(sent)
  /\ Len(buffer) = tail \/ (Len(buffer) = Capacity /\ Len(buffer) <= tail)
  /\ \A i \in 1..Len(buffer) : buffer[i] = sent[Oldest + i]

(* A response that waits has given no line since shutdown.                   *)
LateInv ==
  \A r \in Readers : response[r] # Null =>
    /\ response[r].late <= 1
    /\ ~shutdown \/ response[r].pc = "select" => response[r].late = 0

(* A byte, or a character of a decoded line.                                 *)
Symbol == Byte \cup {"wide", "replacement"}

-----------------------------------------------------------------------------
(* The newlines of a text, as it grows by one symbol.                        *)

LEMMA NewlinesOf ==
  ASSUME NEW b \in Seq(Symbol)
  PROVE  /\ Len(b) \in Nat /\ Newlines(b) \in SUBSET (1..Len(b))
         /\ IsFiniteSet(Newlines(b)) /\ LineCount(b) \in Nat
<1>1. Len(b) \in Nat /\ Newlines(b) \in SUBSET (1..Len(b))
  BY DEF Newlines
<1> QED BY <1>1, RankAdded DEF LineCount

LEMMA NewlinesAppend ==
  ASSUME NEW b \in Seq(Symbol), NEW c \in Symbol
  PROVE  Newlines(Append(b, c)) =
           IF c = "nl" THEN Newlines(b) \cup {Len(b) + 1} ELSE Newlines(b)
<1>1. DOMAIN Append(b, c) = 1..Len(b) + 1 /\ DOMAIN b = 1..Len(b) /\ Len(b) \in Nat
  OBVIOUS
<1>2. \A i \in 1..Len(b) : Append(b, c)[i] = b[i]
  OBVIOUS
<1>3. Append(b, c)[Len(b) + 1] = c
  OBVIOUS
<1> QED BY <1>1, <1>2, <1>3 DEF Newlines

LEMMA EndIs ==
  ASSUME NEW b \in Seq(Symbol), NEW i \in Newlines(b)
  PROVE  End(b, Rank(Newlines(b), i)) = i
<1> DEFINE k == Rank(Newlines(b), i)
<1>1. ASSUME NEW j \in Newlines(b), Rank(Newlines(b), j) = k PROVE j = i
  <2>1. Newlines(b) \in SUBSET Int /\ IsFiniteSet(Newlines(b))
    BY NewlinesOf
  <2>2. i \in Int /\ j \in Int
    BY <2>1
  <2>3. ~(i < j) /\ ~(j < i)
    <3>1. /\ Rank(Newlines(b), i) \in Nat
          /\ i < j => Rank(Newlines(b), i) < Rank(Newlines(b), j)
          /\ j < i => Rank(Newlines(b), j) < Rank(Newlines(b), i)
      BY <2>1, RankOrders
    <3> QED BY <1>1, <3>1
  <2> QED BY <2>2, <2>3
<1>2. End(b, k) = CHOOSE j \in Newlines(b) : Rank(Newlines(b), j) = k
  BY DEF End, Rank
<1> HIDE DEF k
<1> QED BY <1>1, <1>2 DEF k

LEMMA EndExists ==
  ASSUME NEW b \in Seq(Symbol), NEW k \in 1..LineCount(b)
  PROVE  End(b, k) \in Newlines(b) /\ Rank(Newlines(b), End(b, k)) = k
<1>1. PICK i \in Newlines(b) : Rank(Newlines(b), i) = k
  BY NewlinesOf, RankTaken DEF LineCount
<1> QED BY <1>1, EndIs

(* Nothing moves when a symbol is added; a newline ends one more line.       *)
LEMMA EndAppend ==
  ASSUME NEW b \in Seq(Symbol), NEW c \in Symbol
  PROVE  /\ \A k \in 1..LineCount(b) : End(Append(b, c), k) = End(b, k)
         /\ c # "nl" => LineCount(Append(b, c)) = LineCount(b)
         /\ c = "nl" => /\ LineCount(Append(b, c)) = LineCount(b) + 1
                        /\ End(Append(b, c), LineCount(b) + 1) = Len(b) + 1
<1>1. /\ Len(b) \in Nat /\ Newlines(b) \in SUBSET (1..Len(b))
      /\ LineCount(b) = Cardinality(Newlines(b))
      /\ Append(b, c) \in Seq(Symbol)
  BY NewlinesOf DEF LineCount
<1>2. \A i \in Newlines(b) : /\ i \in Newlines(Append(b, c))
                             /\ Rank(Newlines(Append(b, c)), i) = Rank(Newlines(b), i)
  <2>1. CASE c = "nl"
    <3>1. Newlines(Append(b, c)) = Newlines(b) \cup {Len(b) + 1}
      BY <2>1, NewlinesAppend
    <3>2. \A i \in Newlines(b) :
            Rank(Newlines(b) \cup {Len(b) + 1}, i) = Rank(Newlines(b), i)
      BY <1>1, RankAdded
    <3> QED BY <3>1, <3>2
  <2>2. CASE c # "nl"
    BY <2>2, NewlinesAppend
  <2> QED BY <2>1, <2>2
<1>3. ASSUME NEW k \in 1..LineCount(b) PROVE End(Append(b, c), k) = End(b, k)
  <2>1. End(b, k) \in Newlines(b) /\ Rank(Newlines(b), End(b, k)) = k
    BY EndExists
  <2>2. End(b, k) \in Newlines(Append(b, c)) /\ Rank(Newlines(Append(b, c)), End(b, k)) = k
    BY <1>2, <2>1
  <2> QED BY <1>1, <2>2, EndIs
<1>4. c # "nl" => LineCount(Append(b, c)) = LineCount(b)
  BY NewlinesAppend DEF LineCount
<1>5. ASSUME c = "nl"
      PROVE  /\ LineCount(Append(b, c)) = LineCount(b) + 1
             /\ End(Append(b, c), LineCount(b) + 1) = Len(b) + 1
  <2>1. Newlines(Append(b, c)) = Newlines(b) \cup {Len(b) + 1}
    BY <1>5, NewlinesAppend
  <2>2. /\ Cardinality(Newlines(Append(b, c))) = LineCount(b) + 1
        /\ Rank(Newlines(Append(b, c)), Len(b) + 1) = LineCount(b) + 1
    BY <1>1, <2>1, RankAdded
  <2>3. Len(b) + 1 \in Newlines(Append(b, c))
    BY <2>1
  <2> QED BY <1>1, <2>2, <2>3, EndIs DEF LineCount
<1> QED BY <1>3, <1>4, <1>5

LEMMA BeginOf ==
  ASSUME NEW b \in Seq(Symbol)
  PROVE  /\ \A k \in 1..LineCount(b) : /\ End(b, k) \in 1..Len(b)
                                       /\ Begin(b, k) \in 1..End(b, k)
         /\ Begin(b, LineCount(b) + 1) \in 1..Len(b) + 1
<1>1. Len(b) \in Nat /\ Newlines(b) \in SUBSET (1..Len(b)) /\ LineCount(b) \in Nat
  BY NewlinesOf
<1>2. \A k \in 1..LineCount(b) : End(b, k) \in 1..Len(b)
  BY <1>1, EndExists
<1>3. ASSUME NEW k \in 1..LineCount(b) PROVE Begin(b, k) \in 1..End(b, k)
  <2>1. CASE k = 1
    BY <1>2, <2>1 DEF Begin
  <2>2. CASE k # 1
    <3>1. k - 1 \in 1..LineCount(b)
      BY <1>1, <2>2
    <3>2. /\ End(b, k) \in Newlines(b) /\ Rank(Newlines(b), End(b, k)) = k
          /\ End(b, k - 1) \in Newlines(b) /\ Rank(Newlines(b), End(b, k - 1)) = k - 1
      BY <3>1, EndExists
    <3>3. End(b, k) # End(b, k - 1) /\ ~(End(b, k) < End(b, k - 1))
      <4>1. Newlines(b) \in SUBSET Int /\ IsFiniteSet(Newlines(b))
        BY NewlinesOf
      <4>2. End(b, k) < End(b, k - 1) =>
              Rank(Newlines(b), End(b, k)) < Rank(Newlines(b), End(b, k - 1))
        BY <3>2, <4>1, RankOrders
      <4> QED BY <3>2, <4>2
    <3>4. End(b, k - 1) \in 1..Len(b) /\ End(b, k) \in 1..Len(b)
      BY <1>2, <3>1
    <3> QED BY <2>2, <3>3, <3>4 DEF Begin
  <2> QED BY <2>1, <2>2
<1>4. Begin(b, LineCount(b) + 1) \in 1..Len(b) + 1
  <2>1. CASE LineCount(b) = 0
    BY <1>1, <2>1 DEF Begin
  <2>2. CASE LineCount(b) # 0
    <3>1. LineCount(b) \in 1..LineCount(b) /\ LineCount(b) + 1 # 1
          /\ (LineCount(b) + 1) - 1 = LineCount(b)
      BY <1>1, <2>2
    <3> QED BY <1>1, <1>2, <3>1 DEF Begin
  <2> QED BY <2>1, <2>2
<1> QED BY <1>2, <1>3, <1>4

LEMMA BeginAppend ==
  ASSUME NEW b \in Seq(Symbol), NEW c \in Symbol
  PROVE  \A k \in 1..LineCount(b) + 1 : Begin(Append(b, c), k) = Begin(b, k)
<1>1. LineCount(b) \in Nat
  BY NewlinesOf
<1>2. ASSUME NEW k \in 1..LineCount(b) + 1, k # 1 PROVE k - 1 \in 1..LineCount(b)
  BY <1>1, <1>2
<1> QED BY <1>2, EndAppend DEF Begin

-----------------------------------------------------------------------------
(* The lines of a text, before they are stripped and decoded.                *)

RawLine(b, k) == SubSeq(b, Begin(b, k), End(b, k) - 1)

LEMMA SubSeqAppend ==
  ASSUME NEW b \in Seq(Symbol), NEW c \in Symbol, NEW i \in 1..Len(b) + 1
  PROVE  /\ \A j \in 0..Len(b) : SubSeq(Append(b, c), i, j) = SubSeq(b, i, j)
         /\ SubSeq(Append(b, c), i, Len(b) + 1) = Append(SubSeq(b, i, Len(b)), c)
         /\ \A j \in 0..Len(b) : SubSeq(b, i, j) \in Seq(Symbol)
OBVIOUS

LEMMA LineTypes ==
  ASSUME NEW b \in Seq(Symbol)
  PROVE  /\ Remainder(b) \in Seq(Symbol)
         /\ \A k \in 1..LineCount(b) : RawLine(b, k) \in Seq(Symbol)
<1>1. Len(b) \in Nat
  OBVIOUS
<1>2. Remainder(b) \in Seq(Symbol)
  <2>1. Begin(b, LineCount(b) + 1) \in 1..Len(b) + 1
    BY BeginOf
  <2> QED BY <1>1, <2>1, SubSeqAppend DEF Remainder, Symbol
<1>3. ASSUME NEW k \in 1..LineCount(b) PROVE RawLine(b, k) \in Seq(Symbol)
  <2>1. End(b, k) \in 1..Len(b) /\ Begin(b, k) \in 1..End(b, k)
    BY BeginOf
  <2>2. Begin(b, k) \in 1..Len(b) + 1 /\ End(b, k) - 1 \in 0..Len(b)
    BY <1>1, <2>1
  <2> QED BY <2>2, SubSeqAppend DEF RawLine, Symbol
<1> QED BY <1>2, <1>3

LEMMA RawLineAppend ==
  ASSUME NEW b \in Seq(Symbol), NEW c \in Symbol
  PROVE  /\ \A k \in 1..LineCount(b) : RawLine(Append(b, c), k) = RawLine(b, k)
         /\ c # "nl" => Remainder(Append(b, c)) = Append(Remainder(b), c)
         /\ c = "nl" => /\ Remainder(Append(b, c)) = <<>>
                        /\ RawLine(Append(b, c), LineCount(b) + 1) = Remainder(b)
<1> DEFINE a == Append(b, c)
           L == LineCount(b)
<1>1. Len(b) \in Nat /\ L \in Nat /\ Len(a) = Len(b) + 1 /\ a \in Seq(Symbol)
  BY NewlinesOf
<1>2. Begin(b, L + 1) \in 1..Len(b) + 1 /\ Begin(a, L + 1) = Begin(b, L + 1)
  BY <1>1, BeginOf, BeginAppend
<1>3. ASSUME NEW k \in 1..L PROVE RawLine(a, k) = RawLine(b, k)
  <2>1. End(b, k) \in 1..Len(b) /\ Begin(b, k) \in 1..End(b, k)
    BY BeginOf
  <2>2. Begin(b, k) \in 1..Len(b) + 1 /\ End(b, k) - 1 \in 0..Len(b)
    BY <1>1, <2>1
  <2>3. Begin(a, k) = Begin(b, k) /\ End(a, k) = End(b, k)
    BY <1>1, BeginAppend, EndAppend
  <2>4. SubSeq(a, Begin(b, k), End(b, k) - 1) = SubSeq(b, Begin(b, k), End(b, k) - 1)
    BY <2>2, SubSeqAppend
  <2> QED BY <2>3, <2>4 DEF RawLine
<1>4. ASSUME c # "nl" PROVE Remainder(a) = Append(Remainder(b), c)
  <2>1. LineCount(a) = L
    BY <1>4, EndAppend
  <2>2. Remainder(a) = SubSeq(a, Begin(b, L + 1), Len(b) + 1)
    BY <1>1, <1>2, <2>1 DEF Remainder
  <2>3. SubSeq(a, Begin(b, L + 1), Len(b) + 1) = Append(SubSeq(b, Begin(b, L + 1), Len(b)), c)
    BY <1>2, SubSeqAppend
  <2> QED BY <2>2, <2>3 DEF Remainder
<1>5. ASSUME c = "nl"
      PROVE  Remainder(a) = <<>> /\ RawLine(a, L + 1) = Remainder(b)
  <2>1. LineCount(a) = L + 1 /\ End(a, L + 1) = Len(b) + 1
    BY <1>5, EndAppend
  <2>2. Begin(a, L + 2) = Len(b) + 2
    <3>1. L + 2 # 1 /\ (L + 2) - 1 = L + 1
      BY <1>1
    <3> QED BY <1>1, <2>1, <3>1 DEF Begin
  <2>3. Remainder(a) = SubSeq(a, Len(b) + 2, Len(b) + 1)
    <3>1. (L + 1) + 1 = L + 2
      BY <1>1
    <3> QED BY <1>1, <2>1, <2>2, <3>1 DEF Remainder
  <2>4. SubSeq(a, Len(b) + 2, Len(b) + 1) = <<>>
    BY <1>1, SubSeqEmpty
  <2>5. RawLine(a, L + 1) = SubSeq(a, Begin(b, L + 1), Len(b))
    <3>1. (Len(b) + 1) - 1 = Len(b)
      BY <1>1
    <3> QED BY <1>2, <2>1, <3>1 DEF RawLine
  <2>6. SubSeq(a, Begin(b, L + 1), Len(b)) = SubSeq(b, Begin(b, L + 1), Len(b))
    <3>1. Len(b) \in 0..Len(b)
      BY <1>1
    <3> QED BY <1>2, <3>1, SubSeqAppend
  <2> QED BY <2>3, <2>4, <2>5, <2>6 DEF Remainder
<1> QED BY <1>3, <1>4, <1>5

-----------------------------------------------------------------------------
(* The lines of a text as it grows, stripped and decoded.                    *)

LEMMA CompleteLinesAre ==
  ASSUME NEW b
  PROVE  CompleteLines(b) =
           [k \in 1..LineCount(b) |-> Decode(StripCarriageReturn(RawLine(b, k)))]
BY DEF CompleteLines, RawLine

LEMMA TextLinesAre ==
  ASSUME NEW b \in Seq(Symbol)
  PROVE  TextLines(b) = [k \in 1..LineCount(b) |-> StripCarriageReturn(RawLine(b, k))]
<1> DEFINE Crlf(k) == Begin(b, k) < End(b, k) /\ b[End(b, k) - 1] = "cr"
           Stripped(k) == SubSeq(b, Begin(b, k), IF Crlf(k) THEN End(b, k) - 2 ELSE End(b, k) - 1)
<1>1. ASSUME NEW k \in 1..LineCount(b) PROVE Stripped(k) = StripCarriageReturn(RawLine(b, k))
  <2>1. PICK e \in 1..Len(b) : e = End(b, k)
    BY BeginOf
  <2>2. PICK i \in 1..e : i = Begin(b, k)
    BY <2>1, BeginOf
  <2>3. RawLine(b, k) = SubSeq(b, i, e - 1)
    BY <2>1, <2>2 DEF RawLine
  <2>4. CASE i = e
    <3>1. RawLine(b, k) = <<>>
      BY <2>3, <2>4
    <3> QED BY <2>1, <2>2, <2>3, <2>4, <3>1 DEF StripCarriageReturn
  <2>5. CASE i < e
    <3>1. RawLine(b, k) # <<>> /\ Len(RawLine(b, k)) = e - i
      BY <2>3, <2>5
    <3>2. Last(RawLine(b, k)) = b[e - 1]
      BY <2>3, <2>5 DEF Last
    <3>3. Front(RawLine(b, k)) = SubSeq(b, i, e - 2)
      BY <2>3, <2>5 DEF Front
    <3> QED BY <2>1, <2>2, <2>3, <2>5, <3>1, <3>2, <3>3 DEF StripCarriageReturn
  <2> QED BY <2>4, <2>5
<1>2. TextLines(b) = [k \in 1..LineCount(b) |-> Stripped(k)]
  BY DEF TextLines
<1> HIDE DEF Stripped
<1> QED BY <1>1, <1>2

LEMMA CompleteAppend ==
  ASSUME NEW b \in Seq(Symbol), NEW c \in Symbol
  PROVE  /\ c # "nl" => CompleteLines(Append(b, c)) = CompleteLines(b)
         /\ c = "nl" => CompleteLines(Append(b, c)) =
              Append(CompleteLines(b), Decode(StripCarriageReturn(Remainder(b))))
<1> DEFINE a == Append(b, c)
           L == LineCount(b)
           Shown(k) == Decode(StripCarriageReturn(RawLine(b, k)))
           ShownNext(k) == Decode(StripCarriageReturn(RawLine(a, k)))
<1>1. L \in Nat /\ \A k \in 1..L : ShownNext(k) = Shown(k)
  BY NewlinesOf, RawLineAppend
<1>2. /\ CompleteLines(b) = [k \in 1..L |-> Shown(k)]
      /\ CompleteLines(a) = [k \in 1..LineCount(a) |-> ShownNext(k)]
  BY CompleteLinesAre
<1>3. c = "nl" => LineCount(a) = L + 1 /\ ShownNext(L + 1) = Decode(StripCarriageReturn(Remainder(b)))
  BY RawLineAppend, EndAppend
<1>4. c # "nl" => LineCount(a) = L
  BY EndAppend
<1> HIDE DEF Shown, ShownNext, L, a
<1>5. CASE c # "nl"
  BY <1>1, <1>2, <1>4, <1>5 DEF a
<1>6. CASE c = "nl"
  <2>1. [k \in 1..L + 1 |-> ShownNext(k)] = Append([k \in 1..L |-> Shown(k)], ShownNext(L + 1))
    BY <1>1
  <2> QED BY <1>2, <1>3, <1>6, <2>1 DEF a
<1> QED BY <1>5, <1>6

LEMMA TextAppend ==
  ASSUME NEW b \in Seq(Symbol), NEW c \in Symbol
  PROVE  /\ c # "nl" => TextLines(Append(b, c)) = TextLines(b)
         /\ c = "nl" => TextLines(Append(b, c)) =
              Append(TextLines(b), StripCarriageReturn(Remainder(b)))
<1> DEFINE a == Append(b, c)
           L == LineCount(b)
           Shown(k) == StripCarriageReturn(RawLine(b, k))
           ShownNext(k) == StripCarriageReturn(RawLine(a, k))
<1>1. L \in Nat /\ \A k \in 1..L : ShownNext(k) = Shown(k)
  BY NewlinesOf, RawLineAppend
<1>2. /\ TextLines(b) = [k \in 1..L |-> Shown(k)]
      /\ TextLines(a) = [k \in 1..LineCount(a) |-> ShownNext(k)]
  <2>1. a \in Seq(Symbol)
    OBVIOUS
  <2> HIDE DEF a
  <2> QED BY <2>1, TextLinesAre
<1>3. c = "nl" => LineCount(a) = L + 1 /\ ShownNext(L + 1) = StripCarriageReturn(Remainder(b))
  BY RawLineAppend, EndAppend
<1>4. c # "nl" => LineCount(a) = L
  BY EndAppend
<1> HIDE DEF Shown, ShownNext, L, a
<1>5. CASE c # "nl"
  BY <1>1, <1>2, <1>4, <1>5 DEF a
<1>6. CASE c = "nl"
  <2>1. [k \in 1..L + 1 |-> ShownNext(k)] = Append([k \in 1..L |-> Shown(k)], ShownNext(L + 1))
    BY <1>1
  <2> QED BY <1>2, <1>3, <1>6, <2>1 DEF a
<1> QED BY <1>5, <1>6

LEMMA NoNewline ==
  ASSUME NEW b \in Seq(Symbol), Newlines(b) = {}
  PROVE  /\ LineCount(b) = 0 /\ CompleteLines(b) = <<>> /\ TextLines(b) = <<>>
         /\ Remainder(b) = b
<1>1. LineCount(b) = 0
  BY FS_EmptySet DEF LineCount
<1>2. Begin(b, 1) = 1
  BY DEF Begin
<1>3. Remainder(b) = SubSeq(b, 1, Len(b))
  BY <1>1, <1>2 DEF Remainder
<1>4. SubSeq(b, 1, Len(b)) = b
  OBVIOUS
<1>5. CompleteLines(b) = <<>> /\ TextLines(b) = <<>>
  BY <1>1 DEF CompleteLines, TextLines
<1> QED BY <1>1, <1>3, <1>4, <1>5

LEMMA EmptyText ==
  /\ <<>> \in Seq(Symbol) /\ Newlines(<<>>) = {}
  /\ CompleteLines(<<>>) = <<>> /\ TextLines(<<>>) = <<>> /\ Remainder(<<>>) = <<>>
<1>1. <<>> \in Seq(Symbol) /\ Newlines(<<>>) = {}
  BY DEF Newlines
<1> QED BY <1>1, NoNewline

-----------------------------------------------------------------------------
(* Decoding, as a text grows by one byte.                                    *)

Char(b, i) ==
  IF b[i] = "hi" /\ i < Len(b) /\ b[i + 1] = "lo" THEN <<"wide">>
  ELSE IF b[i] = "lo" /\ i > 1 /\ b[i - 1] = "hi" THEN <<>> ELSE <<Alone(b[i])>>

Chars(b) == [i \in DOMAIN b |-> Char(b, i)]

Glyph == {"x", "cr", "nl", "wide", "replacement"}

LEMMA DecodeIsFlatten == \A b : Decode(b) = FlattenSeq(Chars(b))
BY DEF Decode, Chars, Char

LEMMA CharsType ==
  ASSUME NEW b \in Seq(Byte)
  PROVE  Chars(b) \in Seq(Seq(Glyph)) /\ Len(Chars(b)) = Len(b)
<1>1. ASSUME NEW i \in 1..Len(b) PROVE Char(b, i) \in Seq(Glyph)
  <2>1. b[i] \in Byte
    OBVIOUS
  <2>2. Alone(b[i]) \in Glyph
    BY <2>1 DEF Byte, Glyph, Alone
  <2>3. <<>> \in Seq(Glyph) /\ \A g \in Glyph : <<g>> \in Seq(Glyph)
    OBVIOUS
  <2>4. "wide" \in Glyph /\ "replacement" \in Glyph
    BY DEF Glyph
  <2> QED BY <2>2, <2>3, <2>4 DEF Char
<1> QED BY <1>1 DEF Chars

LEMMA DecodeType == \A b \in Seq(Byte) : Decode(b) \in Seq(Glyph)
BY CharsType, FlattenType, DecodeIsFlatten

LEMMA DecodeEmpty == Decode(<<>>) = <<>>
<1>1. Chars(<<>>) = <<>>
  BY DEF Chars
<1> QED BY <1>1, FlattenEmpty, DecodeIsFlatten

LEMMA DecodeAppend ==
  ASSUME NEW b \in Seq(Byte), NEW c \in Byte,
         ~(c = "lo" /\ b # <<>> /\ b[Len(b)] = "hi")
  PROVE  Decode(Append(b, c)) = Append(Decode(b), Alone(c))
<1>1. PICK n \in Nat : n = Len(b)
  OBVIOUS
<1>2. PICK a \in Seq(Byte) : a = Append(b, c)
  BY AppendProperties
<1>3. Len(a) = n + 1 /\ a[n + 1] = c /\ \A i \in 1..n : a[i] = b[i]
  BY <1>1, <1>2
<1>4. ASSUME NEW i \in 1..n PROVE Char(a, i) = Char(b, i)
  <2>1. a[i] = b[i] /\ (i > 1 => a[i - 1] = b[i - 1]) /\ (i < n => a[i + 1] = b[i + 1])
    BY <1>3
  <2>2. i = n => ~(b[i] = "hi" /\ a[i + 1] = "lo")
    BY <1>1, <1>3
  <2> QED BY <1>1, <1>3, <2>1, <2>2 DEF Char
<1>5. Char(a, n + 1) = <<Alone(c)>>
  <2>1. n > 0 => a[n] = b[n]
    BY <1>3
  <2>2. (n + 1) - 1 = n
    OBVIOUS
  <2>3. ~(c = "lo" /\ n + 1 > 1 /\ a[n] = "hi")
    BY <1>1, <2>1
  <2> QED BY <1>3, <2>2, <2>3 DEF Char, Alone
<1>6. Chars(a) = Append(Chars(b), <<Alone(c)>>)
  BY <1>1, <1>3, <1>4, <1>5 DEF Chars
<1>7. Alone(c) \in Glyph
  BY DEF Alone, Byte, Glyph
<1>8. FlattenSeq(Chars(a)) = FlattenSeq(Chars(b)) \o <<Alone(c)>>
  <2>1. Chars(b) \in Seq(Seq(Glyph)) /\ <<Alone(c)>> \in Seq(Glyph)
    BY <1>7, CharsType
  <2> QED BY <1>6, <2>1, FlattenAppend
<1>9. Decode(b) \in Seq(Glyph)
  BY DecodeType
<1> QED BY <1>2, <1>7, <1>8, <1>9, DecodeIsFlatten, AppendConcat

LEMMA DecodeAppendPair ==
  ASSUME NEW b \in Seq(Byte)
  PROVE  Decode(Append(Append(b, "hi"), "lo")) = Append(Decode(b), "wide")
<1>1. PICK n \in Nat : n = Len(b)
  OBVIOUS
<1>2. PICK a \in Seq(Byte) : a = Append(Append(b, "hi"), "lo")
  <2>1. "hi" \in Byte /\ "lo" \in Byte
    BY DEF Byte
  <2>2. Append(b, "hi") \in Seq(Byte)
    BY <2>1, AppendProperties
  <2> QED BY <2>1, <2>2, AppendProperties
<1>3. /\ Len(a) = n + 2 /\ a[n + 1] = "hi" /\ a[n + 2] = "lo" /\ \A i \in 1..n : a[i] = b[i]
  BY <1>1, <1>2
<1>4. ASSUME NEW i \in 1..n PROVE Char(a, i) = Char(b, i)
  <2>1. a[i] = b[i] /\ (i > 1 => a[i - 1] = b[i - 1]) /\ (i < n => a[i + 1] = b[i + 1])
    BY <1>3
  <2>2. i = n => a[i + 1] # "lo"
    BY <1>3
  <2> QED BY <1>1, <1>3, <2>1, <2>2 DEF Char
<1>5. Char(a, n + 1) = <<"wide">> /\ Char(a, n + 2) = <<>>
  <2>1. n + 1 < n + 2 /\ (n + 1) + 1 = n + 2 /\ (n + 2) - 1 = n + 1 /\ n + 2 > 1
    OBVIOUS
  <2>2. Char(a, n + 1) = <<"wide">>
    BY <1>3, <2>1 DEF Char
  <2>3. Char(a, n + 2) = <<>>
    <3>1. a[n + 2] = "lo" /\ a[(n + 2) - 1] = "hi"
      BY <1>3, <2>1
    <3> QED BY <2>1, <3>1 DEF Char
  <2> QED BY <2>2, <2>3
<1>6. Chars(a) = Append(Append(Chars(b), <<"wide">>), <<>>)
  BY <1>1, <1>3, <1>4, <1>5 DEF Chars
<1>7. /\ "wide" \in Glyph /\ <<"wide">> \in Seq(Glyph) /\ <<>> \in Seq(Glyph)
      /\ Decode(b) \in Seq(Glyph) /\ Chars(b) \in Seq(Seq(Glyph))
      /\ Append(Chars(b), <<"wide">>) \in Seq(Seq(Glyph))
  BY CharsType, DecodeType DEF Glyph
<1>8. FlattenSeq(Chars(a)) = (FlattenSeq(Chars(b)) \o <<"wide">>) \o <<>>
  BY <1>6, <1>7, FlattenAppend
<1> QED BY <1>2, <1>7, <1>8, DecodeIsFlatten, AppendConcat

-----------------------------------------------------------------------------
(* Splitting and decoding commute: the lines of the bytes, decoded one by    *)
(* one, are the lines of the whole text.                                     *)

LEMMA Symbols ==
  /\ \A b \in Seq(Byte) : b \in Seq(Symbol)
  /\ \A t \in Seq(Glyph) : t \in Seq(Symbol)
  /\ Byte \subseteq Symbol /\ Glyph \subseteq Symbol
  /\ \A c \in Byte : Alone(c) \in Glyph /\ (Alone(c) = "nl" <=> c = "nl") /\ (Alone(c) = "cr" <=> c = "cr")
BY DEF Symbol, Byte, Glyph, Alone

InLine == Byte \ {"nl"}

LEMMA InLines ==
  /\ InLine \subseteq Byte /\ \A b \in Seq(InLine) : b \in Seq(Byte)
  /\ <<>> \in Seq(InLine)
  /\ \A b \in Seq(InLine) : \A c \in InLine : Append(b, c) \in Seq(InLine)
BY DEF InLine

LEMMA LastByte ==
  ASSUME NEW X, NEW b \in Seq(X), b # <<>>
  PROVE  /\ Front(b) \in Seq(X) /\ b[Len(b)] \in X /\ b = Append(Front(b), b[Len(b)])
         /\ Len(Front(b)) = Len(b) - 1
<1>1. PICK n \in Nat : Len(b) = n + 1
  <2>1. Len(b) \in Nat /\ Len(b) # 0
    OBVIOUS
  <2>2. Len(b) - 1 \in Nat /\ Len(b) = (Len(b) - 1) + 1
    BY <2>1
  <2> QED BY <2>2
<1>2. PICK f : f = SubSeq(b, 1, n)
  OBVIOUS
<1>3. f \in Seq(X) /\ Len(f) = n
  BY <1>1, <1>2
<1>4. b[n + 1] \in X /\ b = Append(f, b[n + 1])
  BY <1>1, <1>2
<1>5. Front(b) = f
  <2>1. Len(b) - 1 = n
    BY <1>1
  <2> QED BY <1>2, <2>1 DEF Front
<1> QED BY <1>1, <1>3, <1>4, <1>5

(* What follows the last newline has none, and ends as the text does.        *)
LEMMA RemainderType ==
  \A b \in Seq(Byte) :
    /\ Remainder(b) \in Seq(InLine)
    /\ Remainder(b) # <<>> => b # <<>> /\ Remainder(b)[Len(Remainder(b))] = b[Len(b)]
<1> DEFINE S == {b \in Seq(Byte) :
      /\ Remainder(b) \in Seq(InLine)
      /\ Remainder(b) # <<>> => b # <<>> /\ Remainder(b)[Len(Remainder(b))] = b[Len(b)]}
<1>1. <<>> \in S
  BY EmptyText, InLines
<1>2. ASSUME NEW b \in Seq(Byte), NEW c \in Byte, b \in S PROVE Append(b, c) \in S
  <2>1. Append(b, c) \in Seq(Byte) /\ Append(b, c) # <<>>
        /\ Append(b, c)[Len(Append(b, c))] = c
    OBVIOUS
  <2>2. b \in Seq(Symbol) /\ c \in Symbol
    BY Symbols
  <2>3. CASE c = "nl"
    <3>1. Remainder(Append(b, c)) = <<>>
      BY <2>2, <2>3, RawLineAppend
    <3> QED BY <2>1, <3>1, InLines
  <2>4. CASE c # "nl"
    <3>1. Remainder(Append(b, c)) = Append(Remainder(b), c)
      BY <2>2, <2>4, RawLineAppend
    <3>2. c \in InLine /\ Remainder(b) \in Seq(InLine)
      BY <1>2, <2>4 DEF InLine
    <3>3. /\ Append(Remainder(b), c) \in Seq(InLine)
          /\ Append(Remainder(b), c)[Len(Append(Remainder(b), c))] = c
      BY <3>2
    <3> QED BY <2>1, <3>1, <3>3
  <2> QED BY <2>3, <2>4
<1> HIDE DEF S
<1>3. \A b \in Seq(Byte) : b \in S
  BY <1>1, <1>2, SequenceInduction
<1> QED BY <1>3 DEF S

LEMMA InLineHasNone == \A b \in Seq(InLine) : Newlines(b) = {}
BY DEF Newlines, InLine

LEMMA StripType ==
  \A b \in Seq(InLine) : StripCarriageReturn(b) \in Seq(InLine)
BY LastByte DEF StripCarriageReturn

(* A line is stripped before it is decoded, or after.                        *)
LEMMA StripDecode ==
  ASSUME NEW b \in Seq(InLine)
  PROVE  Decode(StripCarriageReturn(b)) = StripCarriageReturn(Decode(b))
<1>1. CASE b = <<>>
  BY <1>1, DecodeEmpty DEF StripCarriageReturn
<1>2. CASE b # <<>>
  <2>1. PICK p \in Seq(InLine) : p = Front(b)
    BY <1>2, LastByte
  <2>2. PICK c \in InLine : c = b[Len(b)]
    BY <1>2, LastByte
  <2>3. b = Append(p, c)
    BY <1>2, <2>1, <2>2, LastByte
  <2>4. p \in Seq(Byte) /\ c \in Byte /\ Decode(p) \in Seq(Glyph)
    BY InLines, DecodeType
  <2>5. StripCarriageReturn(b) = IF c = "cr" THEN p ELSE b
    BY <1>2, <2>1, <2>2 DEF StripCarriageReturn, Last
  <2>6. \E d \in Seq(Glyph), g \in Glyph :
          Decode(b) = Append(d, g) /\ (c = "cr" => d = Decode(p)) /\ (g = "cr" <=> c = "cr")
    <3>1. CASE ~(c = "lo" /\ p # <<>> /\ p[Len(p)] = "hi")
      BY <2>3, <2>4, <3>1, DecodeAppend, Symbols, SMTT(30)
    <3>2. CASE c = "lo" /\ p # <<>> /\ p[Len(p)] = "hi"
      <4>1. PICK q \in Seq(Byte) : p = Append(q, "hi")
        BY <2>4, <3>2, LastByte
      <4>2. Decode(b) = Append(Decode(q), "wide")
        BY <2>3, <3>2, <4>1, DecodeAppendPair
      <4>3. "wide" \in Glyph /\ Decode(q) \in Seq(Glyph)
        BY DecodeType DEF Glyph
      <4> QED BY <3>2, <4>2, <4>3
    <3> QED BY <3>1, <3>2
  <2>7. PICK d \in Seq(Glyph), g \in Glyph :
          Decode(b) = Append(d, g) /\ (c = "cr" => d = Decode(p)) /\ (g = "cr" <=> c = "cr")
    BY <2>6
  <2>8. Append(d, g) # <<>> /\ Last(Append(d, g)) = g /\ Front(Append(d, g)) = d
    BY DEF Last, Front
  <2>9. StripCarriageReturn(Decode(b)) = IF c = "cr" THEN d ELSE Decode(b)
    BY <2>7, <2>8 DEF StripCarriageReturn
  <2> QED BY <2>5, <2>7, <2>9
<1> QED BY <1>1, <1>2

Whole(b) ==
  /\ CompleteLines(b) = TextLines(Decode(b))
  /\ Decode(Remainder(b)) = Remainder(Decode(b))

LEMMA SplitThenDecode == \A b \in Seq(Byte) : Whole(b)
<1> DEFINE S == {b \in Seq(Byte) : Whole(b)}
<1>1. <<>> \in S
  BY EmptyText, DecodeEmpty DEF Whole
<1>2. ASSUME NEW b \in Seq(Byte), NEW c \in Byte, b \in S PROVE Append(b, c) \in S
  <2> DEFINE d == Decode(b)
  <2>1. Append(b, c) \in Seq(Byte)
    OBVIOUS
  <2>2. b \in Seq(Symbol) /\ c \in Symbol /\ d \in Seq(Glyph) /\ d \in Seq(Symbol)
    BY Symbols, DecodeType
  <2>3. Remainder(b) \in Seq(InLine) /\ Remainder(b) \in Seq(Byte)
    BY RemainderType, InLines
  <2>4. CompleteLines(b) = TextLines(d) /\ Decode(Remainder(b)) = Remainder(d)
    BY <1>2 DEF Whole
  <2> HIDE DEF d
  <2>5. CASE c = "nl"
    <3>1. Decode(Append(b, c)) = Append(d, "nl")
      <4>1. Alone(c) = "nl"
        BY <2>5 DEF Alone
      <4> QED BY <2>5, <4>1, DecodeAppend DEF d
    <3>2. Decode(StripCarriageReturn(Remainder(b))) = StripCarriageReturn(Remainder(d))
      BY <2>3, <2>4, StripDecode
    <3>3. /\ CompleteLines(Append(b, c)) = Append(CompleteLines(b), Decode(StripCarriageReturn(Remainder(b))))
          /\ Remainder(Append(b, c)) = <<>>
      BY <2>2, <2>5, CompleteAppend, RawLineAppend
    <3>4. /\ TextLines(Append(d, "nl")) = Append(TextLines(d), StripCarriageReturn(Remainder(d)))
          /\ Remainder(Append(d, "nl")) = <<>>
      <4>1. "nl" \in Symbol
        BY <2>2, <2>5
      <4> QED BY <2>2, <4>1, TextAppend, RawLineAppend
    <3>5. Whole(Append(b, c))
      BY <2>4, <3>1, <3>2, <3>3, <3>4, DecodeEmpty DEF Whole
    <3> QED BY <2>1, <3>5
  <2>6. CASE c # "nl" /\ ~(c = "lo" /\ b # <<>> /\ b[Len(b)] = "hi")
    <3>1. PICK g \in Glyph : g = Alone(c) /\ g # "nl"
      BY <2>6, Symbols
    <3>2. Decode(Append(b, c)) = Append(d, g)
      BY <2>6, <3>1, DecodeAppend DEF d
    <3>3. /\ CompleteLines(Append(b, c)) = CompleteLines(b)
          /\ Remainder(Append(b, c)) = Append(Remainder(b), c)
      BY <2>2, <2>6, CompleteAppend, RawLineAppend
    <3>4. /\ TextLines(Append(d, g)) = TextLines(d)
          /\ Remainder(Append(d, g)) = Append(Remainder(d), g)
      <4>1. g \in Symbol
        BY Symbols
      <4> QED BY <2>2, <3>1, <4>1, TextAppend, RawLineAppend
    <3>5. Decode(Append(Remainder(b), c)) = Append(Decode(Remainder(b)), g)
      <4>1. ~(c = "lo" /\ Remainder(b) # <<>> /\ Remainder(b)[Len(Remainder(b))] = "hi")
        BY <2>6, RemainderType
      <4> QED BY <2>3, <3>1, <4>1, DecodeAppend
    <3>6. Whole(Append(b, c))
      BY <2>4, <3>2, <3>3, <3>4, <3>5 DEF Whole
    <3> QED BY <2>1, <3>6
  <2>7. CASE c = "lo" /\ b # <<>> /\ b[Len(b)] = "hi"
    <3>1. PICK p \in Seq(Byte) : b = Append(p, "hi")
      BY <2>7, LastByte
    <3>2. PICK e \in Seq(Glyph) : e = Decode(p)
      BY DecodeType
    <3>3. p \in Seq(Symbol) /\ e \in Seq(Symbol)
      BY Symbols
    <3>4. Remainder(p) \in Seq(Byte)
      BY RemainderType, InLines
    <3>5. "hi" \in Symbol /\ "lo" \in Symbol /\ "wide" \in Symbol /\ "replacement" \in Symbol
          /\ "hi" \in Byte
      BY DEF Symbol, Byte
    <3>6. d = Append(e, "replacement") /\ Decode(Append(b, c)) = Append(e, "wide")
      <4>1. Alone("hi") = "replacement"
        BY DEF Alone
      <4>2. Decode(Append(p, "hi")) = Append(e, "replacement")
        BY <3>2, <3>5, <4>1, DecodeAppend
      <4> QED BY <2>7, <3>1, <3>2, <4>2, DecodeAppendPair DEF d
    <3>7. /\ CompleteLines(b) = CompleteLines(p) /\ Remainder(b) = Append(Remainder(p), "hi")
          /\ CompleteLines(Append(b, c)) = CompleteLines(p)
          /\ Remainder(Append(b, c)) = Append(Append(Remainder(p), "hi"), "lo")
      <4>1. CompleteLines(b) = CompleteLines(p) /\ Remainder(b) = Append(Remainder(p), "hi")
        BY <3>1, <3>3, <3>5, CompleteAppend, RawLineAppend
      <4>2. CompleteLines(Append(b, c)) = CompleteLines(b) /\ Remainder(Append(b, c)) = Append(Remainder(b), "lo")
        BY <2>2, <2>7, <3>5, CompleteAppend, RawLineAppend
      <4> QED BY <4>1, <4>2
    <3>8. \A g \in {"wide", "replacement"} :
            TextLines(Append(e, g)) = TextLines(e) /\ Remainder(Append(e, g)) = Append(Remainder(e), g)
      BY <3>3, <3>5, TextAppend, RawLineAppend
    <3>9. Decode(Remainder(p)) = Remainder(e)
      <4>1. Decode(Append(Remainder(p), "hi")) = Append(Decode(Remainder(p)), "replacement")
        <5>1. Alone("hi") = "replacement"
          BY DEF Alone
        <5> QED BY <3>4, <3>5, <5>1, DecodeAppend
      <4>2. Append(Decode(Remainder(p)), "replacement") = Append(Remainder(e), "replacement")
        BY <2>4, <3>6, <3>7, <3>8, <4>1
      <4>3. Decode(Remainder(p)) \in Seq(Symbol) /\ Remainder(e) \in Seq(Symbol)
        BY <3>3, <3>4, DecodeType, Symbols, LineTypes
      <4> QED BY <3>5, <4>2, <4>3, AppendCancels
    <3>10. Decode(Remainder(Append(b, c))) = Append(Decode(Remainder(p)), "wide")
      BY <3>4, <3>7, DecodeAppendPair
    <3>11. Whole(Append(b, c))
      BY <2>4, <3>6, <3>7, <3>8, <3>9, <3>10 DEF Whole
    <3> QED BY <2>1, <3>11
  <2> QED BY <2>5, <2>6, <2>7
<1> HIDE DEF S
<1>3. \A b \in Seq(Byte) : b \in S
  BY <1>1, <1>2, SequenceInduction
<1> QED BY <1>3 DEF S

-----------------------------------------------------------------------------
(* A text gives the same lines in one chunk and in two.                      *)

LEMMA DecodedLine == \A b \in Seq(InLine) : Decode(b) \in Line
<1> DEFINE Shown == {"x", "cr", "wide", "replacement"}
<1>1. ASSUME NEW b \in Seq(InLine) PROVE Chars(b) \in Seq(Seq(Shown))
  <2>1. ASSUME NEW i \in 1..Len(b) PROVE Char(b, i) \in Seq(Shown)
    <3>1. b[i] \in InLine
      OBVIOUS
    <3>2. Alone(b[i]) \in Shown
      BY <3>1 DEF InLine, Byte, Alone
    <3>3. <<>> \in Seq(Shown) /\ \A g \in Shown : <<g>> \in Seq(Shown)
      OBVIOUS
    <3> QED BY <3>2, <3>3 DEF Char
  <2> HIDE DEF Shown
  <2> QED BY <2>1 DEF Chars
<1> HIDE DEF Shown
<1>2. \A b \in Seq(InLine) : Decode(b) \in Seq(Shown)
  BY <1>1, FlattenType, DecodeIsFlatten
<1> QED BY <1>2 DEF Line, Shown

LEMMA CompleteType == \A b \in Seq(Byte) : CompleteLines(b) \in Seq(Line)
<1> DEFINE S == {b \in Seq(Byte) : CompleteLines(b) \in Seq(Line)}
<1>1. <<>> \in S
  <2>1. CompleteLines(<<>>) = <<>>
    BY EmptyText
  <2>2. <<>> \in Seq(Byte) /\ <<>> \in Seq(Line)
    OBVIOUS
  <2> QED BY <2>1, <2>2
<1>2. ASSUME NEW b \in Seq(Byte), NEW c \in Byte, b \in S PROVE Append(b, c) \in S
  <2>1. b \in Seq(Symbol) /\ c \in Symbol /\ Append(b, c) \in Seq(Byte)
    BY Symbols
  <2>2. Decode(StripCarriageReturn(Remainder(b))) \in Line
    BY RemainderType, StripType, DecodedLine
  <2>3. CompleteLines(Append(b, c)) \in
          {CompleteLines(b), Append(CompleteLines(b), Decode(StripCarriageReturn(Remainder(b))))}
    BY <2>1, CompleteAppend
  <2>4. CompleteLines(b) \in Seq(Line)
    BY <1>2
  <2>5. CompleteLines(Append(b, c)) \in Seq(Line)
    BY <2>2, <2>3, <2>4
  <2> QED BY <2>1, <2>5
<1> HIDE DEF S
<1>3. \A b \in Seq(Byte) : b \in S
  BY <1>1, <1>2, SequenceInduction
<1> QED BY <1>3 DEF S

Cut(b, c) ==
  /\ CompleteLines(b \o c) = CompleteLines(b) \o CompleteLines(Remainder(b) \o c)
  /\ Remainder(b \o c) = Remainder(Remainder(b) \o c)

LEMMA LinesOfChunks ==
  ASSUME NEW b \in Seq(Byte)
  PROVE  \A c \in Seq(Byte) : Cut(b, c)
<1> DEFINE S == {c \in Seq(Byte) : Cut(b, c)}
<1>1. Remainder(b) \in Seq(InLine) /\ Remainder(b) \in Seq(Byte) /\ Remainder(b) \in Seq(Symbol)
      /\ Newlines(Remainder(b)) = {}
  BY RemainderType, InLines, Symbols, InLineHasNone
<1>2. <<>> \in S
  <2>1. b \o <<>> = b /\ Remainder(b) \o <<>> = Remainder(b)
    BY <1>1
  <2>2. CompleteLines(Remainder(b)) = <<>> /\ Remainder(Remainder(b)) = Remainder(b)
    BY <1>1, NoNewline
  <2>3. CompleteLines(b) \o <<>> = CompleteLines(b)
    BY CompleteType
  <2>4. <<>> \in Seq(Byte)
    OBVIOUS
  <2> QED BY <2>1, <2>2, <2>3, <2>4 DEF Cut
<1>3. ASSUME NEW c \in Seq(Byte), NEW x \in Byte, c \in S PROVE Append(c, x) \in S
  <2>1. PICK t \in Seq(Byte) : t = b \o c
    BY ConcatProperties
  <2>2. PICK u \in Seq(Byte) : u = Remainder(b) \o c
    BY <1>1, ConcatProperties
  <2>3. b \o Append(c, x) = Append(t, x) /\ Remainder(b) \o Append(c, x) = Append(u, x)
    <3>1. \A s \in Seq(Byte) : s \o Append(c, x) = Append(s \o c, x)
      OBVIOUS
    <3> QED BY <1>1, <2>1, <2>2, <3>1
  <2>4. /\ CompleteLines(t) = CompleteLines(b) \o CompleteLines(u)
        /\ Remainder(t) = Remainder(u)
    BY <1>3, <2>1, <2>2 DEF Cut
  <2>5. t \in Seq(Symbol) /\ u \in Seq(Symbol) /\ x \in Symbol
    BY Symbols
  <2>6. CompleteLines(b) \in Seq(Line) /\ CompleteLines(u) \in Seq(Line)
        /\ Decode(StripCarriageReturn(Remainder(u))) \in Line
    BY CompleteType, RemainderType, StripType, DecodedLine
  <2>7. CASE x = "nl"
    <3>1. CompleteLines(Append(t, x)) = Append(CompleteLines(t), Decode(StripCarriageReturn(Remainder(t))))
          /\ Remainder(Append(t, x)) = <<>>
      BY <2>5, <2>7, CompleteAppend, RawLineAppend
    <3>2. CompleteLines(Append(u, x)) = Append(CompleteLines(u), Decode(StripCarriageReturn(Remainder(u))))
          /\ Remainder(Append(u, x)) = <<>>
      BY <2>5, <2>7, CompleteAppend, RawLineAppend
    <3>3. CompleteLines(Append(t, x)) = CompleteLines(b) \o CompleteLines(Append(u, x))
      <4>1. \A s, v \in Seq(Line) : \A y \in Line : s \o Append(v, y) = Append(s \o v, y)
        OBVIOUS
      <4> QED BY <2>4, <2>6, <3>1, <3>2, <4>1
    <3>4. Cut(b, Append(c, x))
      BY <2>3, <3>1, <3>2, <3>3 DEF Cut
    <3> QED BY <3>4
  <2>8. CASE x # "nl"
    <3>1. CompleteLines(Append(t, x)) = CompleteLines(t)
          /\ Remainder(Append(t, x)) = Append(Remainder(t), x)
      BY <2>5, <2>8, CompleteAppend, RawLineAppend
    <3>2. CompleteLines(Append(u, x)) = CompleteLines(u)
          /\ Remainder(Append(u, x)) = Append(Remainder(u), x)
      BY <2>5, <2>8, CompleteAppend, RawLineAppend
    <3>3. Cut(b, Append(c, x))
      BY <2>3, <2>4, <3>1, <3>2 DEF Cut
    <3> QED BY <3>3
  <2> QED BY <2>7, <2>8
<1> HIDE DEF S
<1>4. \A c \in Seq(Byte) : c \in S
  BY <1>2, <1>3, SequenceInduction
<1> QED BY <1>4 DEF S

(* The lines that a chunk completes are lines of the whole text.             *)
LEMMA NewLinesKnown ==
  ASSUME NEW b \in Seq(Byte), NEW c \in Seq(Byte), NEW d \in Seq(Byte)
  PROVE  CompleteLines(Remainder(b) \o c) \in Seq(ToSet(CompleteLines((b \o c) \o d)))
<1>1. b \o c \in Seq(Byte) /\ Remainder(b) \in Seq(Byte) /\ Remainder(b \o c) \in Seq(Byte)
      /\ Remainder(b) \o c \in Seq(Byte) /\ Remainder(b \o c) \o d \in Seq(Byte)
  BY ConcatProperties, RemainderType, InLines
<1>2. PICK new \in Seq(Line) : new = CompleteLines(Remainder(b) \o c)
  BY <1>1, CompleteType
<1>3. PICK before \in Seq(Line) : before = CompleteLines(b)
  BY CompleteType
<1>4. PICK after \in Seq(Line) : after = CompleteLines(Remainder(b \o c) \o d)
  BY <1>1, CompleteType
<1>5. CompleteLines((b \o c) \o d) = (before \o new) \o after
  BY <1>1, <1>2, <1>3, <1>4, LinesOfChunks, ZenonT(60) DEF Cut
<1>6. \A i \in 1..Len(new) : new[i] \in ToSet((before \o new) \o after)
  <2>1. ASSUME NEW i \in 1..Len(new)
        PROVE  \E j \in DOMAIN ((before \o new) \o after) : ((before \o new) \o after)[j] = new[i]
    <3>1. Len(before) + i \in DOMAIN ((before \o new) \o after)
      OBVIOUS
    <3>2. ((before \o new) \o after)[Len(before) + i] = new[i]
      OBVIOUS
    <3> QED BY <3>1, <3>2
  <2> QED BY <2>1 DEF ToSet
<1> QED BY <1>2, <1>5, <1>6

-----------------------------------------------------------------------------
(* The connection to the upstream.                                           *)

UpstreamType ==
  /\ upstream \in {Null} \cup [text : Texts, read : Nat]
  /\ connections \in 0..MaxConnections
  /\ pending \in Seq({"x", "cr", "hi", "lo"})
  /\ lines \in Seq(Line) /\ queue \in Seq(Line)

ChannelType ==
  /\ sent \in Seq(Line) /\ buffer \in Seq(Line) /\ Len(buffer) <= Capacity
  /\ tail \in Nat

ResponseType ==
  /\ response \in [Readers -> {Null} \cup Response]
  /\ \A r \in Readers : response[r] # Null => response[r].next <= tail
  /\ shutdown \in BOOLEAN

LEMMA TypeParts == StreamTypeOK <=> UpstreamType /\ ChannelType /\ ResponseType
BY DEF StreamTypeOK, UpstreamType, ChannelType, ResponseType

LEMMA InLineIs == InLine = {"x", "cr", "hi", "lo"}
BY DEF InLine, Byte

LEMMA NoText == \A u \in [text : Texts, read : Nat] : u # Null
BY StreamAssumption

(* What a text has brought with n bytes more is what it brought before, and  *)
(* the chunk; and both are a beginning of the text.                          *)
LEMMA NextChunk ==
  ASSUME NEW text \in Seq(Byte), NEW k \in Nat, NEW n \in Nat, k + n <= Len(text)
  PROVE  /\ SubSeq(text, 1, k) \in Seq(Byte) /\ SubSeq(text, k + 1, k + n) \in Seq(Byte)
         /\ SubSeq(text, k + n + 1, Len(text)) \in Seq(Byte)
         /\ SubSeq(text, 1, k + n) = SubSeq(text, 1, k) \o SubSeq(text, k + 1, k + n)
         /\ SubSeq(text, 1, k + n) \o SubSeq(text, k + n + 1, Len(text)) = text
<1>1. Len(text) \in Nat
  OBVIOUS
<1>2. SubSeq(text, 1, k) \in Seq(Byte)
  BY <1>1
<1>3. SubSeq(text, k + 1, k + n) \in Seq(Byte)
  BY <1>1
<1>4. SubSeq(text, k + n + 1, Len(text)) \in Seq(Byte)
  BY <1>1
<1>5. SubSeq(text, 1, k + n) = SubSeq(text, 1, k) \o SubSeq(text, k + 1, k + n)
  BY <1>1
<1>6. SubSeq(text, 1, k + n) \o SubSeq(text, k + n + 1, Len(text)) = text
  <2>1. PICK m \in Nat : m = k + n
    OBVIOUS
  <2>2. PICK first : first = SubSeq(text, 1, m)
    OBVIOUS
  <2>3. PICK rest : rest = SubSeq(text, m + 1, Len(text))
    OBVIOUS
  <2>4. first \in Seq(Byte) /\ rest \in Seq(Byte) /\ Len(first) = m /\ Len(rest) = Len(text) - m
    <3>1. first \in Seq(Byte) /\ Len(first) = m
      BY <1>1, <2>1, <2>2
    <3>2. rest \in Seq(Byte) /\ Len(rest) = Len(text) - m
      BY <1>1, <2>1, <2>3
    <3> QED BY <3>1, <3>2
  <2>5. \A i \in 1..m : (first \o rest)[i] = text[i]
    BY <1>1, <2>1, <2>2, <2>4
  <2>6. \A i \in m + 1..Len(text) : (first \o rest)[i] = text[i]
    BY <1>1, <2>1, <2>3, <2>4
  <2>7. Len(first \o rest) = Len(text) /\ first \o rest \in Seq(Byte)
    BY <1>1, <2>1, <2>4, ConcatProperties
  <2>8. first \o rest = text
    <3>1. \A i \in 1..Len(text) : i \in 1..m \/ i \in m + 1..Len(text)
      BY <1>1
    <3> QED BY <2>5, <2>6, <2>7, <3>1, SeqEqual
  <2> QED BY <2>1, <2>2, <2>3, <2>8
<1> QED BY <1>2, <1>3, <1>4, <1>5, <1>6

LEMMA PushStep ==
  ASSUME UpstreamType, UpstreamInv, NEW n \in 1..Unread, PushChunk(n)
  PROVE  UpstreamType' /\ UpstreamInv'
<1>1. PICK text \in Texts, k \in Nat : upstream = [text |-> text, read |-> k] /\ k <= Len(text)
  BY DEF PushChunk, UpstreamType, UpstreamInv
<1>2. text \in Seq(Byte) /\ n \in Nat /\ k + n <= Len(text)
  <2>1. text \in Seq(Byte)
    BY StreamAssumption
  <2>2. Unread = Len(text) - k
    BY <1>1 DEF PushChunk, Unread
  <2> QED BY <2>1, <2>2
<1>3. PICK b \in Seq(Byte) : b = SubSeq(text, 1, k)
  BY <1>2, NextChunk
<1>4. PICK c \in Seq(Byte) : c = SubSeq(text, k + 1, k + n)
  BY <1>2, NextChunk
<1>5. PICK d \in Seq(Byte) : d = SubSeq(text, k + n + 1, Len(text))
  BY <1>2, NextChunk
<1>6. SubSeq(text, 1, k + n) = b \o c /\ text = (b \o c) \o d
  <2>1. SubSeq(text, 1, k + n) = SubSeq(text, 1, k) \o SubSeq(text, k + 1, k + n)
    BY <1>2, NextChunk
  <2>2. SubSeq(text, 1, k + n) \o SubSeq(text, k + n + 1, Len(text)) = text
    BY <1>2, NextChunk
  <2> QED BY <1>3, <1>4, <1>5, <2>1, <2>2
<1>7. lines = CompleteLines(b) /\ pending = Remainder(b)
  BY <1>1, <1>3 DEF PushChunk, UpstreamInv, Brought
<1>8. PICK new : new = CompleteLines(pending \o c)
  OBVIOUS
<1>9. /\ pending' = Remainder(pending \o c)
      /\ \/ upstream' = Null /\ UNCHANGED <<lines, queue>>
         \/ /\ upstream' = [text |-> text, read |-> k + n]
            /\ lines' = lines \o new /\ queue' = queue \o new
      /\ UNCHANGED connections
  BY <1>1, <1>4, <1>8 DEF PushChunk
<1>10. CompleteLines(b \o c) = lines \o new /\ Remainder(b \o c) = pending'
  BY <1>7, <1>8, <1>9, LinesOfChunks DEF Cut
<1>11. b \o c \in Seq(Byte) /\ pending \o c \in Seq(Byte)
  <2>1. pending \in Seq(Byte)
    BY <1>7, RemainderType, InLines
  <2> QED BY <2>1, ConcatProperties
<1>12. new \in Seq(Line) /\ new \in Seq(KnownLines)
  <2>1. new \in Seq(Line)
    BY <1>8, <1>11, CompleteType
  <2>2. new \in Seq(ToSet(CompleteLines(text)))
    BY <1>6, <1>7, <1>8, NewLinesKnown
  <2>3. ToSet(CompleteLines(text)) \subseteq KnownLines
    BY DEF KnownLines
  <2> HIDE DEF KnownLines
  <2> QED BY <2>1, <2>2, <2>3
<1>13. UpstreamType'
  <2>1. pending' \in Seq({"x", "cr", "hi", "lo"})
    BY <1>10, <1>11, RemainderType, InLineIs
  <2>2. lines' \in Seq(Line) /\ queue' \in Seq(Line)
    BY <1>9, <1>12, ConcatProperties, ZenonT(60) DEF UpstreamType
  <2>3. upstream' \in {Null} \cup [text : Texts, read : Nat]
    BY <1>2, <1>9
  <2> QED BY <1>9, <2>1, <2>2, <2>3 DEF UpstreamType
<1>14. UpstreamInv'
  <2>1. queue' \in Seq(KnownLines)
    BY <1>9, <1>12, ConcatProperties, ZenonT(60) DEF UpstreamInv
  <2>2. CASE upstream' = Null
    BY <2>1, <2>2 DEF UpstreamInv, KnownLines
  <2>3. CASE upstream' = [text |-> text, read |-> k + n] /\ lines' = lines \o new
    <3>1. Brought' = b \o c /\ upstream'.read <= Len(upstream'.text)
      BY <1>2, <1>6, <2>3 DEF Brought
    <3> QED BY <1>10, <2>1, <2>3, <3>1 DEF UpstreamInv, KnownLines
  <2> QED BY <1>9, <2>2, <2>3
<1> QED BY <1>13, <1>14

LEMMA ConnectStep ==
  ASSUME UpstreamType, UpstreamInv, Connect
  PROVE  UpstreamType' /\ UpstreamInv'
<1>1. PICK text \in Texts : upstream' = [text |-> text, read |-> 0]
  BY DEF Connect
<1>2. text \in Seq(Byte)
  BY StreamAssumption
<1>3. /\ pending' = <<>> /\ lines' = <<>> /\ queue' = queue
      /\ connections' \in 0..MaxConnections
  BY StreamAssumption DEF Connect, UpstreamType
<1>4. UpstreamType'
  BY <1>1, <1>3 DEF UpstreamType
<1>5. SubSeq(text, 1, 0) = <<>> /\ 0 <= Len(text)
  BY <1>2
<1>6. Brought' = <<>> /\ upstream'.read <= Len(upstream'.text)
  BY <1>1, <1>5 DEF Brought
<1> QED BY <1>3, <1>4, <1>6, EmptyText DEF UpstreamInv, KnownLines

LEMMA UpstreamStep ==
  ASSUME UpstreamType, UpstreamInv, [Next]_vars
  PROVE  UpstreamType' /\ UpstreamInv'
<1>1. ASSUME upstream' \in {upstream, Null},
             queue' \in {queue, <<>>} \/ (queue # <<>> /\ queue' = Tail(queue)),
             UNCHANGED <<connections, pending, lines>>
      PROVE  UpstreamType' /\ UpstreamInv'
  <2>1. queue' \in Seq(Line) /\ queue' \in Seq(KnownLines)
    <3>1. /\ queue \in Seq(Line) /\ queue \in Seq(KnownLines)
          /\ queue # <<>> => Tail(queue) \in Seq(Line) /\ Tail(queue) \in Seq(KnownLines)
      BY DEF UpstreamType, UpstreamInv
    <3>2. <<>> \in Seq(Line) /\ <<>> \in Seq(KnownLines)
      OBVIOUS
    <3> QED BY <1>1, <3>1, <3>2
  <2>2. UpstreamType'
    BY <1>1, <2>1 DEF UpstreamType
  <2>3. KnownLines' = KnownLines
    BY DEF KnownLines
  <2>4. CASE upstream' = Null
    BY <2>1, <2>2, <2>3, <2>4 DEF UpstreamInv
  <2>5. CASE upstream' = upstream
    <3>1. Brought' = Brought
      BY <2>5 DEF Brought
    <3> QED BY <1>1, <2>1, <2>2, <2>3, <2>5, <3>1 DEF UpstreamInv
  <2> QED BY <1>1, <2>2, <2>4, <2>5
<1>2. UNCHANGED <<upstreamVars, queue>> => UpstreamType' /\ UpstreamInv'
  BY DEF upstreamVars, UpstreamType, UpstreamInv, Brought, KnownLines
<1>3. CASE Connect
  BY <1>3, ConnectStep
<1>4. CASE \E n \in 1..Unread : PushChunk(n)
  BY <1>4, PushStep
<1>5. CASE Disconnect \/ IngestStops
  <2>1. /\ upstream' = Null /\ queue' \in {queue, <<>>} /\ UNCHANGED <<connections, pending, lines>>
    BY <1>5 DEF Disconnect, IngestStops
  <2> QED BY <1>1, <2>1
<1>6. ASSUME NEW archived \in BOOLEAN, HandleLine(archived)
      PROVE  UpstreamType' /\ UpstreamInv'
  <2>1. /\ upstream' \in {upstream, Null}
        /\ queue' \in {queue, <<>>} \/ (queue # <<>> /\ queue' = Tail(queue))
        /\ UNCHANGED <<connections, pending, lines>>
    BY <1>6 DEF HandleLine
  <2> QED BY <1>1, <2>1
<1>7. CASE \E r \in Readers : Subscribe(r) \/ ResponseStep(r) \/ ClientLeaves(r)
  BY <1>2, <1>7 DEF Subscribe, ResponseStep, CheckShutdown, ReceiveLine, Lagged, ShutdownChanged,
     ClientLeaves
<1>8. CASE SignalShutdown \/ UNCHANGED vars
  BY <1>2, <1>8 DEF SignalShutdown, vars
<1> QED BY <1>3, <1>4, <1>5, <1>6, <1>7, <1>8 DEF Next

-----------------------------------------------------------------------------
(* The channel.                                                              *)

LEMMA PublishStep ==
  ASSUME ChannelType, ChannelInv, NEW line \in Line, Publish(line)
  PROVE  ChannelType' /\ ChannelInv' /\ tail <= tail'
<1>1. CASE Subscribed = {}
  <2>1. UNCHANGED channelVars
    BY <1>1 DEF Publish
  <2>2. ChannelType' /\ tail <= tail'
    BY <2>1 DEF channelVars, ChannelType
  <2>3. ChannelInv'
    BY <2>1 DEF channelVars, ChannelInv, Oldest
  <2> QED BY <2>2, <2>3
<1>2. CASE Subscribed # {}
  <2> DEFINE kept == IF Len(buffer) = Capacity THEN Tail(buffer) ELSE buffer
  <2>1. /\ sent' = Append(sent, line) /\ tail' = tail + 1
        /\ buffer' = Append(kept, line)
    BY <1>2 DEF Publish
  <2>12. buffer \in Seq(Line) /\ Len(buffer) \in Nat /\ Capacity \in Nat \ {0}
    BY StreamAssumption DEF ChannelType
  <2>13. Len(buffer) = Capacity =>
           /\ kept \in Seq(Line) /\ Len(kept) = Capacity - 1
           /\ \A i \in 1..Capacity - 1 : kept[i] = buffer[i + 1]
    BY <2>12
  <2>14. kept \in Seq(Line)
    BY <2>12, <2>13
  <2>15. Len(kept) \in Nat
    BY <2>14, LenProperties
  <2>2. PICK n \in Nat : n = Len(kept)
    <3> HIDE DEF kept
    <3> QED BY <2>15
  <2>3. /\ kept \in Seq(Line)
        /\ Len(buffer) = Capacity => n = Capacity - 1 /\ \A i \in 1..n : kept[i] = buffer[i + 1]
        /\ Len(buffer) # Capacity => n = Len(buffer) /\ \A i \in 1..n : kept[i] = buffer[i]
    BY <2>2, <2>12, <2>13
  <2> HIDE DEF kept
  <2>4. /\ Len(sent) = tail /\ tail \in Nat /\ Capacity \in Nat \ {0} /\ Len(buffer) \in Nat
        /\ Len(buffer) <= Capacity
        /\ Len(buffer) = tail \/ (Len(buffer) = Capacity /\ Len(buffer) <= tail)
    BY StreamAssumption DEF ChannelType, ChannelInv
  <2>5. /\ sent' \in Seq(Line) /\ Len(sent') = tail + 1 /\ sent'[tail + 1] = line
        /\ \A i \in 1..tail : sent'[i] = sent[i]
    BY <2>1, <2>4 DEF ChannelType
  <2>6. /\ buffer' \in Seq(Line) /\ Len(buffer') = n + 1 /\ buffer'[n + 1] = line
        /\ \A i \in 1..n : buffer'[i] = kept[i]
    BY <2>1, <2>2, <2>3
  <2>7. ChannelType'
    BY <2>1, <2>3, <2>4, <2>5, <2>6 DEF ChannelType
  <2>8. tail' = Len(sent') /\ (Len(buffer') = tail' \/ (Len(buffer') = Capacity /\ Len(buffer') <= tail'))
    BY <2>1, <2>3, <2>4, <2>5, <2>6
  <2>9. Oldest' = tail - n /\ Oldest' + (n + 1) = tail + 1
    BY <2>1, <2>4, <2>6 DEF Oldest
  <2>10. ASSUME NEW i \in 1..n PROVE buffer'[i] = sent'[Oldest' + i]
    <3>1. Oldest' + i \in 1..tail
      BY <2>3, <2>4, <2>9
    <3>2. CASE Len(buffer) = Capacity
      <4>1. i + 1 \in 1..Len(buffer) /\ Oldest + (i + 1) = Oldest' + i
        <5>1. Oldest = tail - Capacity /\ n = Capacity - 1 /\ Oldest' = tail - n
          BY <2>3, <2>9, <3>2 DEF Oldest
        <5>2. i \in 1..Capacity - 1
          BY <5>1
        <5> HIDE DEF Oldest
        <5>3. Oldest + (i + 1) = Oldest' + i
          BY <2>4, <5>1, <5>2
        <5> QED BY <2>4, <3>2, <5>2, <5>3
      <4>2. buffer[i + 1] = sent[Oldest' + i]
        BY <4>1 DEF ChannelInv
      <4> QED BY <2>3, <2>5, <2>6, <3>1, <3>2, <4>2
    <3>3. CASE Len(buffer) # Capacity
      <4>1. i \in 1..Len(buffer) /\ Oldest + i = Oldest' + i
        BY <2>3, <2>4, <2>9, <3>3 DEF Oldest
      <4>2. buffer[i] = sent[Oldest' + i]
        BY <4>1 DEF ChannelInv
      <4> QED BY <2>3, <2>5, <2>6, <3>1, <3>3, <4>2
    <3> QED BY <3>2, <3>3
  <2>11. \A i \in 1..Len(buffer') : buffer'[i] = sent'[Oldest' + i]
    <3>1. \A i \in 1..n + 1 : i \in 1..n \/ i = n + 1
      OBVIOUS
    <3>2. buffer'[n + 1] = sent'[Oldest' + (n + 1)]
      BY <2>5, <2>6, <2>9
    <3>3. \A i \in 1..n + 1 : buffer'[i] = sent'[Oldest' + i]
      BY <2>10, <3>1, <3>2
    <3>4. 1..Len(buffer') = 1..n + 1
      BY <2>6
    <3> QED BY <3>3, <3>4
  <2>16. ChannelInv'
    BY <2>8, <2>11 DEF ChannelInv
  <2>17. tail <= tail'
    BY <2>1, <2>4
  <2> QED BY <2>7, <2>16, <2>17
<1> QED BY <1>1, <1>2

LEMMA ChannelStep ==
  ASSUME UpstreamType, ChannelType, ChannelInv, [Next]_vars
  PROVE  ChannelType' /\ ChannelInv' /\ tail <= tail'
<1>1. UNCHANGED channelVars => ChannelType' /\ ChannelInv' /\ tail <= tail'
  BY SMTT(30) DEF channelVars, ChannelType, ChannelInv, Oldest
<1>2. ASSUME NEW archived \in BOOLEAN, HandleLine(archived)
      PROVE  ChannelType' /\ ChannelInv' /\ tail <= tail'
  <2>1. Head(queue) \in Line
    BY <1>2 DEF HandleLine, UpstreamType
  <2> QED BY <1>2, <2>1, PublishStep DEF HandleLine
<1>3. CASE Connect \/ Disconnect \/ IngestStops \/ (\E n \in 1..Unread : PushChunk(n))
           \/ SignalShutdown \/ UNCHANGED vars
  BY <1>1, <1>3 DEF Connect, Disconnect, IngestStops, PushChunk, SignalShutdown, vars
<1>4. CASE \E r \in Readers : Subscribe(r) \/ ResponseStep(r) \/ ClientLeaves(r)
  BY <1>1, <1>4 DEF Subscribe, ResponseStep, CheckShutdown, ReceiveLine, Lagged, ShutdownChanged,
     ClientLeaves
<1> QED BY <1>2, <1>3, <1>4 DEF Next

-----------------------------------------------------------------------------
(* The responses.                                                            *)

Fine(v) ==
  v # Null =>
    /\ v.next <= tail /\ v.late <= 1
    /\ ~shutdown \/ v.pc = "select" => v.late = 0

LEMMA NoResponse == \A v \in Response : v # Null
BY StreamAssumption

LEMMA OneResponse ==
  ASSUME ResponseType, LateInv, NEW r \in Readers, NEW v \in {Null} \cup Response,
         response' = [response EXCEPT ![r] = v], Fine(v),
         UNCHANGED <<tail, shutdown>>
  PROVE  ResponseType' /\ LateInv'
<1>1. \A q \in Readers : response'[q] = IF q = r THEN v ELSE response[q]
  BY DEF ResponseType
<1>2. ResponseType'
  <2>1. response' \in [Readers -> {Null} \cup Response]
    BY DEF ResponseType
  <2>2. \A q \in Readers : response'[q] # Null => response'[q].next <= tail
    BY <1>1 DEF ResponseType, Fine
  <2> QED BY <2>1, <2>2 DEF ResponseType
<1>3. ASSUME NEW q \in Readers, response'[q] # Null
      PROVE  /\ response'[q].late <= 1
             /\ ~shutdown \/ response'[q].pc = "select" => response'[q].late = 0
  BY <1>1, <1>3 DEF LateInv, Fine, ResponseType
<1> QED BY <1>2, <1>3 DEF LateInv

LEMMA ResponseStepTyped ==
  ASSUME ChannelType, ResponseType, ChannelInv, LateInv, NEW r \in Readers,
         Subscribe(r) \/ ResponseStep(r) \/ ClientLeaves(r)
  PROVE  ResponseType' /\ LateInv'
<1>1. UNCHANGED <<tail, shutdown>>
  BY DEF Subscribe, ResponseStep, CheckShutdown, ReceiveLine, Lagged, ShutdownChanged, ClientLeaves,
     channelVars
<1>2. /\ tail \in Nat /\ buffer \in Seq(Line) /\ Len(buffer) \in Nat /\ Len(buffer) <= tail
      /\ Oldest \in Nat /\ Oldest <= tail
  BY DEF ChannelType, ChannelInv, Oldest
<1>3. ASSUME response' = [response EXCEPT ![r] = Null]
      PROVE  ResponseType' /\ LateInv'
  BY <1>1, <1>3, OneResponse DEF Fine
<1>4. ASSUME NEW v \in Response, response' = [response EXCEPT ![r] = v], Fine(v)
      PROVE  ResponseType' /\ LateInv'
  BY <1>1, <1>4, OneResponse
<1>5. CASE Subscribe(r)
  <2>1. PICK v \in Response : v = [pc |-> "check", next |-> tail, out |-> <<>>, late |-> 0]
    <3>1. <<>> \in Seq(Line)
      OBVIOUS
    <3> QED BY <1>2, <3>1 DEF Response
  <2>2. response' = [response EXCEPT ![r] = v] /\ Fine(v)
    BY <1>2, <1>5, <2>1 DEF Subscribe, Fine
  <2> QED BY <1>4, <2>2
<1>6. CASE ShutdownChanged(r) \/ ClientLeaves(r) \/ (CheckShutdown(r) /\ shutdown)
  BY <1>3, <1>6 DEF ShutdownChanged, ClientLeaves, CheckShutdown
<1>7. CASE (CheckShutdown(r) /\ ~shutdown) \/ ReceiveLine(r) \/ Lagged(r)
  <2>1. response[r] # Null
    BY <1>7 DEF CheckShutdown, ReceiveLine, Lagged, At
  <2>2. PICK old \in Response : /\ old = response[r] /\ old.next <= tail /\ old.late <= 1
                                /\ ~shutdown \/ old.pc = "select" => old.late = 0
    BY <2>1 DEF ResponseType, LateInv
  <2>3. /\ old.pc \in {"check", "select"} /\ old.next \in Nat /\ old.out \in Seq(Line)
        /\ old.late \in Nat
        /\ old = [pc |-> old.pc, next |-> old.next, out |-> old.out, late |-> old.late]
    BY DEF Response
  <2>4. CASE CheckShutdown(r) /\ ~shutdown
    <3>1. PICK v \in Response : v = [old EXCEPT !.pc = "select"]
      BY DEF Response
    <3>2. v.next = old.next /\ v.late = old.late
      BY <3>1 DEF Response
    <3>3. Fine(v)
      BY <2>2, <2>4, <3>2 DEF Fine
    <3>4. response' = [response EXCEPT ![r] = v]
      <4>1. response' = [response EXCEPT ![r] = [response[r] EXCEPT !.pc = "select"]]
        BY <2>4 DEF CheckShutdown
      <4> QED BY <2>2, <3>1, <4>1
    <3> QED BY <1>4, <3>3, <3>4
  <2>5. CASE ReceiveLine(r)
    <3>1. Oldest <= old.next /\ old.next < tail /\ old.pc = "select"
      <4>1. Oldest <= response[r].next /\ response[r].next < tail /\ response[r].pc = "select"
        BY <2>5 DEF ReceiveLine, At
      <4> QED BY <2>2, <4>1
    <3>2. buffer[old.next - Oldest + 1] \in Line
      <4>1. old.next - Oldest + 1 \in 1..Len(buffer)
        BY <1>2, <2>3, <3>1 DEF Oldest
      <4> QED BY <1>2, <4>1
    <3>3. Append(old.out, buffer[old.next - Oldest + 1]) \in Seq(Line)
      BY <2>3, <3>2
    <3>7. (IF shutdown THEN old.late + 1 ELSE 0) \in Nat
      BY <2>3
    <3>8. \A n \in Nat, out \in Seq(Line), late \in Nat :
            [pc |-> "check", next |-> n, out |-> out, late |-> late] \in Response
      BY DEF Response
    <3>4. PICK v \in Response :
            v = [pc |-> "check", next |-> old.next + 1,
                 out |-> Append(old.out, buffer[old.next - Oldest + 1]),
                 late |-> IF shutdown THEN old.late + 1 ELSE 0]
      <4>1. old.next + 1 \in Nat
        BY <2>3
      <4> QED BY <3>3, <3>7, <3>8, <4>1, Zenon
    <3>5. Fine(v)
      <4>1. old.late = 0
        BY <2>2, <3>1
      <4>2. /\ v.pc = "check" /\ v.next = old.next + 1
            /\ v.late = IF shutdown THEN old.late + 1 ELSE 0
        BY <3>4
      <4>3. v.next <= tail
        BY <1>2, <2>3, <3>1, <4>2
      <4> QED BY <4>1, <4>2, <4>3 DEF Fine, ResponseType
    <3>6. response' = [response EXCEPT ![r] = v]
      <4>1. response' = [response EXCEPT ![r] =
              [pc |-> "check", next |-> response[r].next + 1,
               out |-> Append(response[r].out, buffer[response[r].next - Oldest + 1]),
               late |-> IF shutdown THEN response[r].late + 1 ELSE 0]]
        BY <2>5 DEF ReceiveLine
      <4> QED BY <2>2, <3>4, <4>1
    <3> QED BY <1>4, <3>5, <3>6
  <2>6. CASE Lagged(r)
    <3>1. PICK v \in Response : v = [old EXCEPT !.pc = "check", !.next = Oldest]
      BY <1>2 DEF Response
    <3>2. v.pc = "check" /\ v.next = Oldest /\ v.late = old.late
      BY <3>1 DEF Response
    <3>3. old.late = 0
      <4>1. response[r].pc = "select"
        BY <2>6 DEF Lagged, At
      <4> QED BY <2>2, <4>1
    <3>4. Fine(v)
      BY <1>2, <3>2, <3>3 DEF Fine
    <3>5. response' = [response EXCEPT ![r] = v]
      <4>1. response' = [response EXCEPT ![r] = [response[r] EXCEPT !.pc = "check", !.next = Oldest]]
        BY <2>6 DEF Lagged, ResponseType
      <4> QED BY <2>2, <3>1, <4>1
    <3> QED BY <1>4, <3>4, <3>5
  <2> QED BY <1>7, <2>4, <2>5, <2>6
<1> QED BY <1>5, <1>6, <1>7 DEF ResponseStep

LEMMA ResponsesStep ==
  ASSUME UpstreamType, ChannelType, ResponseType, ChannelInv, LateInv, [Next]_vars
  PROVE  ResponseType' /\ LateInv'
<1>1. ASSUME UNCHANGED response, shutdown' = shutdown \/ shutdown' = TRUE, tail <= tail'
      PROVE  ResponseType' /\ LateInv'
  <2>1. tail \in Nat /\ tail' \in Nat
    BY ChannelStep DEF ChannelType
  <2>2. ResponseType'
    <3>1. ASSUME NEW q \in Readers, response[q] # Null
          PROVE  response[q].next \in Nat /\ response[q].next <= tail
      <4>1. response[q] \in Response
        BY <3>1 DEF ResponseType
      <4>2. \A v \in Response : v.next \in Nat
        BY DEF Response
      <4> QED BY <3>1, <4>1, <4>2 DEF ResponseType
    <3>2. ASSUME NEW q \in Readers, response[q] # Null
          PROVE  response[q].next <= tail'
      <4>1. PICK n \in Nat : n = response[q].next
        BY <3>1, <3>2
      <4> QED BY <1>1, <2>1, <3>1, <3>2, <4>1
    <3> QED BY <1>1, <3>2 DEF ResponseType
  <2>3. LateInv'
    BY <1>1 DEF LateInv, ResponseType
  <2> QED BY <2>2, <2>3
<1>2. CASE \E r \in Readers : Subscribe(r) \/ ResponseStep(r) \/ ClientLeaves(r)
  BY <1>2, ResponseStepTyped
<1>3. tail <= tail'
  BY ChannelStep
<1>4. CASE Connect \/ Disconnect \/ IngestStops \/ (\E n \in 1..Unread : PushChunk(n))
           \/ (\E archived \in BOOLEAN : HandleLine(archived)) \/ SignalShutdown \/ UNCHANGED vars
  <2>1. UNCHANGED response /\ (shutdown' = shutdown \/ shutdown' = TRUE)
    BY <1>4 DEF Connect, Disconnect, IngestStops, PushChunk, HandleLine, SignalShutdown, vars
  <2> QED BY <1>1, <1>3, <2>1
<1> QED BY <1>2, <1>4 DEF Next

-----------------------------------------------------------------------------
(* The invariant, and what follows from it.                                  *)

StreamInv == StreamTypeOK /\ UpstreamInv /\ ChannelInv /\ LateInv

LEMMA StreamInit == Init => StreamInv
<1> SUFFICES ASSUME Init PROVE StreamInv
  OBVIOUS
<1>1. <<>> \in Seq(Line) /\ <<>> \in Seq(KnownLines) /\ <<>> \in Seq({"x", "cr", "hi", "lo"})
      /\ Len(<<>>) = 0
  OBVIOUS
<1>2. UpstreamType /\ UpstreamInv
  <2> HIDE DEF KnownLines
  <2> QED BY <1>1, StreamAssumption DEF Init, UpstreamType, UpstreamInv
<1>3. ChannelType /\ ChannelInv
  BY <1>1, StreamAssumption DEF Init, ChannelType, ChannelInv
<1>4. ResponseType /\ LateInv
  BY DEF Init, ResponseType, LateInv
<1> QED BY <1>2, <1>3, <1>4, TypeParts DEF StreamInv

LEMMA StreamNext == StreamInv /\ [Next]_vars => StreamInv'
<1> SUFFICES ASSUME StreamInv, [Next]_vars PROVE StreamInv'
  OBVIOUS
<1>1. /\ UpstreamType /\ ChannelType /\ ResponseType
      /\ UpstreamInv /\ ChannelInv /\ LateInv
  BY TypeParts DEF StreamInv
<1>2. UpstreamType' /\ UpstreamInv'
  BY <1>1, UpstreamStep
<1>3. ChannelType' /\ ChannelInv'
  BY <1>1, ChannelStep
<1>4. ResponseType' /\ LateInv'
  BY <1>1, ResponsesStep
<1>5. StreamTypeOK'
  BY <1>2, <1>3, <1>4 DEF StreamTypeOK, UpstreamType, ChannelType, ResponseType
<1> QED BY <1>2, <1>3, <1>4, <1>5 DEF StreamInv

LEMMA StreamCorrect == Spec => []StreamInv
BY StreamInit, StreamNext, PTL DEF Spec

(* Every variable keeps to its type in every behaviour of the program.       *)
THEOREM StreamTypeCorrect == Spec => []StreamTypeOK
<1>1. StreamInv => StreamTypeOK
  BY DEF StreamInv
<1> QED BY <1>1, StreamCorrect, PTL

(* The lines that the LineBuffer has given are those of the text its         *)
(* connection has brought, for every text and every way to cut it.           *)
THEOREM LinesExactCorrect == Spec => []LinesExact
<1>1. StreamInv => LinesExact
  <2> SUFFICES ASSUME StreamInv, upstream # Null
               PROVE  lines = TextLines(Decode(SubSeq(upstream.text, 1, upstream.read)))
    BY DEF LinesExact
  <2>1. PICK u \in [text : Texts, read : Nat] : u = upstream
    BY DEF StreamInv, StreamTypeOK
  <2>2. u.text \in Seq(Byte) /\ u.read \in Nat /\ u.read <= Len(u.text)
    BY <2>1, StreamAssumption DEF StreamInv, UpstreamInv
  <2>3. PICK b \in Seq(Byte) : b = SubSeq(u.text, 1, u.read)
    <3>1. PICK text \in Seq(Byte), k \in Nat : text = u.text /\ k = u.read /\ k + 0 <= Len(text)
      BY <2>2
    <3>2. SubSeq(text, 1, k) \in Seq(Byte)
      BY <3>1, NextChunk
    <3> QED BY <3>1, <3>2
  <2>4. lines = CompleteLines(b)
    BY <2>1, <2>3 DEF StreamInv, UpstreamInv, Brought
  <2>5. CompleteLines(b) = TextLines(Decode(b))
    BY SplitThenDecode DEF Whole
  <2> QED BY <2>1, <2>3, <2>4, <2>5
<1> QED BY <1>1, StreamCorrect, PTL

(* A response gives at most one line after shutdown, whatever waits.         *)
THEOREM OneLineCorrect == Spec => []OneLineAfterShutdown
<1>1. StreamInv => OneLineAfterShutdown
  BY DEF StreamInv, LateInv, OneLineAfterShutdown
<1> QED BY <1>1, StreamCorrect, PTL

-----------------------------------------------------------------------------
(* What the readers get is the feed that LiveFeed promises.                  *)

View(v) == IF v = Null THEN Null ELSE [at |-> v.next, got |-> v.out]
Views == [r \in Readers |-> View(response[r])]

LEMMA ViewType ==
  ASSUME NEW v \in Response
  PROVE  View(v) = [at |-> v.next, got |-> v.out] /\ View(v) # Null
<1>1. v # Null
  BY NoResponse
<1>2. [at |-> v.next, got |-> v.out] \in [at : Nat, got : Seq(Line)]
  BY DEF Response
<1> QED BY <1>1, <1>2, StreamAssumption DEF View

LEMMA ViewsStep ==
  ASSUME ResponseType, NEW r \in Readers, NEW v, response' = [response EXCEPT ![r] = v]
  PROVE  Views' = [Views EXCEPT ![r] = View(v)]
<1>1. \A q \in Readers : response'[q] = IF q = r THEN v ELSE response[q]
  BY DEF ResponseType
<1>2. Views' = [q \in Readers |-> View(response'[q])]
  BY DEF Views, View
<1>3. ASSUME NEW q \in Readers PROVE View(response'[q]) = IF q = r THEN View(v) ELSE View(response[q])
  BY <1>1
<1> QED BY <1>2, <1>3 DEF Views

LEMMA ViewOf ==
  ASSUME ResponseType, NEW r \in Readers
  PROVE  /\ Views[r] = View(response[r])
         /\ Views[r] = Null <=> response[r] = Null
<1>1. response[r] = Null \/ response[r] \in Response
  BY DEF ResponseType
<1> QED BY <1>1, ViewType DEF Views, View

LEMMA FeedInit == Init => Feed!Init
BY DEF Init, Feed!Init

LEMMA LineStep ==
  ASSUME StreamInv, NEW archived \in BOOLEAN, HandleLine(archived)
  PROVE  [Feed!Next]_Feed!feedVars
<1>1. Views' = Views
  BY DEF HandleLine, Views, View
<1>2. CASE Subscribed = {}
  BY <1>1, <1>2 DEF HandleLine, Publish, channelVars, Feed!feedVars, Views, View
<1>3. CASE Subscribed # {}
  <2>1. PICK line \in KnownLines : line = Head(queue)
    BY DEF HandleLine, StreamInv, UpstreamInv
  <2>2. sent' = Append(sent, line)
    BY <1>3, <2>1 DEF HandleLine, Publish
  <2>3. PICK r \in Readers : Views[r] # Null
    <3>1. PICK r \in Readers : response[r] # Null
      BY <1>3 DEF Subscribed
    <3> QED BY <3>1, ViewOf, TypeParts DEF StreamInv
  <2>4. Feed!Send(line)
    BY <1>1, <2>2, <2>3 DEF Feed!Send, Views, View
  <2> QED BY <2>1, <2>4 DEF Feed!Next, KnownLines
<1> QED BY <1>2, <1>3

LEMMA JoinStep ==
  ASSUME StreamInv, NEW r \in Readers, Subscribe(r)
  PROVE  Feed!Join(r)
<1>1. Views[r] = Null
  BY ViewOf, TypeParts DEF StreamInv, Subscribe
<1>2. PICK v \in Response : v = [pc |-> "check", next |-> tail, out |-> <<>>, late |-> 0]
  <2>1. <<>> \in Seq(Line)
    OBVIOUS
  <2> QED BY <2>1 DEF StreamInv, StreamTypeOK, Response
<1>3. View(v) = [at |-> Len(sent), got |-> <<>>]
  BY <1>2, ViewType DEF StreamInv, ChannelInv
<1>4. Views' = [Views EXCEPT ![r] = [at |-> Len(sent), got |-> <<>>]]
  BY <1>2, <1>3, ViewsStep, TypeParts DEF StreamInv, Subscribe
<1>5. sent' = sent
  BY DEF Subscribe, channelVars
<1> QED BY <1>1, <1>4, <1>5 DEF Feed!Join, Views, View

LEMMA LeaveStep ==
  ASSUME StreamInv, NEW r \in Readers,
         response[r] # Null, response' = [response EXCEPT ![r] = Null], UNCHANGED channelVars
  PROVE  Feed!Leave(r)
<1>1. Views[r] # Null
  BY ViewOf, TypeParts DEF StreamInv
<1>2. Views' = [Views EXCEPT ![r] = Null]
  <2>1. View(Null) = Null
    BY DEF View
  <2> QED BY <2>1, ViewsStep, TypeParts DEF StreamInv
<1> QED BY <1>1, <1>2 DEF Feed!Leave, Views, View, channelVars

LEMMA DeliverStep ==
  ASSUME StreamInv, NEW r \in Readers, ReceiveLine(r)
  PROVE  Feed!Deliver(r)
<1>1. PICK old \in Response : old = response[r] /\ Views[r] = View(old)
  BY ViewOf, TypeParts DEF StreamInv, ResponseType, ReceiveLine, At
<1>2. /\ View(old) = [at |-> old.next, got |-> old.out] /\ View(old) # Null
      /\ old.next \in Nat
  BY ViewType DEF Response
<1>3. Oldest <= old.next /\ old.next < tail /\ UNCHANGED channelVars
  BY <1>1 DEF ReceiveLine
<1>4. tail = Len(sent) /\ tail \in Nat /\ Len(buffer) \in Nat
  BY DEF StreamInv, StreamTypeOK, ChannelInv
<1>5. buffer[old.next - Oldest + 1] = sent[old.next + 1]
  <2>1. PICK i \in 1..Len(buffer) : i = old.next - Oldest + 1 /\ Oldest + i = old.next + 1
    BY <1>2, <1>3, <1>4 DEF Oldest
  <2>2. buffer[i] = sent[Oldest + i]
    BY DEF StreamInv, ChannelInv
  <2> QED BY <2>1, <2>2
<1>6. PICK v : v = [pc |-> "check", next |-> old.next + 1,
                    out |-> Append(old.out, buffer[old.next - Oldest + 1]),
                    late |-> IF shutdown THEN old.late + 1 ELSE 0]
  OBVIOUS
<1>7. response' = [response EXCEPT ![r] = v]
  <2>1. response' = [response EXCEPT ![r] =
          [pc |-> "check", next |-> response[r].next + 1,
           out |-> Append(response[r].out, buffer[response[r].next - Oldest + 1]),
           late |-> IF shutdown THEN response[r].late + 1 ELSE 0]]
    BY DEF ReceiveLine
  <2> QED BY <1>1, <1>6, <2>1
<1>8. v.next = old.next + 1 /\ v.out = Append(old.out, sent[old.next + 1])
  BY <1>5, <1>6
<1>9. v # Null
  <2>1. \A n \in Nat, out \in Seq(Line), late \in Nat :
          [pc |-> "check", next |-> n, out |-> out, late |-> late] \in Response
    BY DEF Response
  <2>2. Append(old.out, sent[old.next + 1]) \in Seq(Line)
    BY <1>2, <1>3, <1>4 DEF StreamInv, StreamTypeOK, Response
  <2>3. old.next + 1 \in Nat /\ (IF shutdown THEN old.late + 1 ELSE 0) \in Nat
    BY <1>2 DEF Response
  <2>4. v \in Response
    BY <1>5, <1>6, <2>1, <2>2, <2>3, Zenon
  <2> QED BY <2>4, NoResponse
<1>10. View(v) = [at |-> old.next + 1, got |-> Append(old.out, sent[old.next + 1])]
  BY <1>8, <1>9 DEF View
<1>11. Views' = [Views EXCEPT ![r] =
         [at |-> old.next + 1, got |-> Append(old.out, sent[old.next + 1])]]
  BY <1>7, <1>10, ViewsStep, TypeParts DEF StreamInv
<1>12. Views[r] # Null /\ Views[r].at = old.next /\ Views[r].got = old.out
  BY <1>1, <1>2
<1>13. Views' = [Views EXCEPT ![r] =
         [at |-> Views[r].at + 1, got |-> Append(Views[r].got, sent[Views[r].at + 1])]]
  BY <1>11, <1>12
<1>14. Views[r].at < Len(sent) /\ sent' = sent
  BY <1>3, <1>4, <1>12 DEF channelVars
<1> QED BY <1>12, <1>13, <1>14 DEF Feed!Deliver, Views, View

LEMMA WithholdStep ==
  ASSUME StreamInv, NEW r \in Readers, Lagged(r)
  PROVE  Feed!Withhold(r)
<1>1. PICK old \in Response : old = response[r] /\ Views[r] = View(old)
  BY ViewOf, TypeParts DEF StreamInv, ResponseType, Lagged, At
<1>2. /\ View(old) = [at |-> old.next, got |-> old.out] /\ View(old) # Null
      /\ old.next \in Nat
  BY ViewType DEF Response
<1>3. old.next < Oldest /\ UNCHANGED channelVars
  BY <1>1 DEF Lagged
<1>4. /\ tail = Len(sent) /\ tail \in Nat /\ Len(buffer) \in Nat /\ Capacity \in Nat
      /\ Len(buffer) = tail \/ (Len(buffer) = Capacity /\ Len(buffer) <= tail)
  BY StreamAssumption DEF StreamInv, StreamTypeOK, ChannelInv
<1>5. Oldest \in old.next + 1 .. Len(sent) - Capacity /\ Oldest \in Nat
  BY <1>2, <1>3, <1>4 DEF Oldest
<1>6. PICK v \in Response : v = [old EXCEPT !.pc = "check", !.next = Oldest]
  BY <1>5 DEF Response
<1>7. response' = [response EXCEPT ![r] = v]
  <2>1. response' = [response EXCEPT ![r] = [response[r] EXCEPT !.pc = "check", !.next = Oldest]]
    BY TypeParts DEF Lagged, ResponseType, StreamInv
  <2> QED BY <1>1, <1>6, <2>1
<1>8. View(v) = [at |-> Oldest, got |-> old.out]
  BY <1>6, ViewType DEF Response
<1>9. Views' = [Views EXCEPT ![r] = [at |-> Oldest, got |-> old.out]]
  BY <1>7, <1>8, ViewsStep, TypeParts DEF StreamInv
<1>10. Views' = [Views EXCEPT ![r].at = Oldest]
  <2>1. Views[r] = [at |-> old.next, got |-> old.out]
    BY <1>1, <1>2
  <2>2. [Views[r] EXCEPT !.at = Oldest] = [at |-> Oldest, got |-> old.out]
    BY <2>1
  <2> QED BY <1>9, <2>2
<1>11. Views[r] # Null /\ Views[r].at = old.next /\ sent' = sent
  BY <1>1, <1>2, <1>3 DEF channelVars
<1>12. \E at \in Views[r].at + 1 .. Len(sent) - Capacity : Views' = [Views EXCEPT ![r].at = at]
  BY <1>5, <1>10, <1>11
<1> QED BY <1>11, <1>12 DEF Feed!Withhold, Views, View

LEMMA FeedStep == StreamInv /\ [Next]_vars => [Feed!Next]_Feed!feedVars
<1> SUFFICES ASSUME StreamInv, [Next]_vars PROVE [Feed!Next]_Feed!feedVars
  OBVIOUS
<1>1. UNCHANGED <<sent, response>> => [Feed!Next]_Feed!feedVars
  BY DEF Feed!feedVars
<1>2. CASE Connect \/ Disconnect \/ IngestStops \/ (\E n \in 1..Unread : PushChunk(n))
           \/ SignalShutdown \/ UNCHANGED vars
  BY <1>1, <1>2 DEF Connect, Disconnect, IngestStops, PushChunk, SignalShutdown, vars, channelVars
<1>3. CASE \E archived \in BOOLEAN : HandleLine(archived)
  BY <1>3, LineStep
<1>4. ASSUME NEW r \in Readers, Subscribe(r) \/ ResponseStep(r) \/ ClientLeaves(r)
      PROVE  [Feed!Next]_Feed!feedVars
  <2>1. Feed!Join(r) \/ Feed!Deliver(r) \/ Feed!Withhold(r) \/ Feed!Leave(r)
          => [Feed!Next]_Feed!feedVars
    BY DEF Feed!Next
  <2>2. CASE Subscribe(r)
    BY <2>1, <2>2, JoinStep
  <2>3. CASE ReceiveLine(r)
    BY <2>1, <2>3, DeliverStep
  <2>4. CASE Lagged(r)
    BY <2>1, <2>4, WithholdStep
  <2>5. CASE ClientLeaves(r) \/ ShutdownChanged(r) \/ (CheckShutdown(r) /\ shutdown)
    <3>1. /\ response[r] # Null /\ response' = [response EXCEPT ![r] = Null]
          /\ UNCHANGED channelVars
      BY <2>5 DEF ClientLeaves, ShutdownChanged, CheckShutdown, At
    <3> QED BY <2>1, <3>1, LeaveStep
  <2>6. CASE CheckShutdown(r) /\ ~shutdown
    <3>1. PICK old \in Response : old = response[r]
      BY <2>6, TypeParts DEF StreamInv, ResponseType, CheckShutdown, At
    <3>2. PICK v \in Response : v = [old EXCEPT !.pc = "select"]
      BY DEF Response
    <3>3. response' = [response EXCEPT ![r] = v]
      <4>1. response' = [response EXCEPT ![r] = [response[r] EXCEPT !.pc = "select"]]
        BY <2>6 DEF CheckShutdown
      <4> QED BY <3>1, <3>2, <4>1
    <3>4. View(v) = Views[r]
      <4>1. v.next = old.next /\ v.out = old.out
        BY <3>2 DEF Response
      <4> QED BY <3>1, <4>1, ViewType, ViewOf, TypeParts DEF StreamInv
    <3>5. Views' = Views
      <4>1. Views' = [Views EXCEPT ![r] = Views[r]]
        BY <3>3, <3>4, ViewsStep, TypeParts DEF StreamInv
      <4> QED BY <4>1 DEF Views
    <3>6. sent' = sent
      BY <2>6 DEF CheckShutdown, channelVars
    <3> QED BY <3>5, <3>6 DEF Feed!feedVars, Views, View
  <2> QED BY <1>4, <2>2, <2>3, <2>4, <2>5, <2>6 DEF ResponseStep
<1> QED BY <1>2, <1>3, <1>4 DEF Next

(* The broadcast channel and the response loops give their readers the feed  *)
(* that LiveFeed promises: nothing reordered, repeated or made up, and lines *)
(* withheld only where Capacity newer ones wait.                             *)
THEOREM FeedImplemented == Spec => FeedSpec
BY StreamCorrect, FeedInit, FeedStep, PTL DEF Spec, FeedSpec, Feed!Spec
=============================================================================
