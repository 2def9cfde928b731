--------------------------- MODULE TerminalLines ----------------------------
(* The lines that aribcap-tail prints of a stream (render.rs): what is shown *)
(* of a record, and how it is cut to the width of the terminal.              *)
(*                                                                           *)
(* A text is a sequence of characters.  Its width is taken to be the sum of  *)
(* theirs.  The label, which is printed before it, and colours are left out. *)
EXTENDS Naturals, Sequences
LOCAL Seqs == INSTANCE SequencesExt

CONSTANTS
  Glyphs,        \* characters, with the space and the dot
  GlyphWidth,    \* columns that each takes
  Controls,      \* control characters, ESC and the newline among them
  Blanks,        \* Unicode white space other than the space, U+3000
  MinBodyGlyphs  \* MIN_NORMAL_BODY_CHARS

ASSUME GlyphAssumption ==
  /\ {" ", "."} \cup Controls \cup Blanks \subseteq Glyphs
  /\ GlyphWidth \in [Glyphs -> Nat] /\ GlyphWidth["."] = 1
  /\ MinBodyGlyphs \in Nat

Absent == <<"absent">>  \* a field that is missing or not a string

TextWidth(text) == Seqs!FoldLeft(LAMBDA w, g : w + GlyphWidth[g], 0, text)

-----------------------------------------------------------------------------
(* normalize_inline_text                                                     *)

AddGlyph(text, g) ==
  LET shown == IF g \in Controls THEN " " ELSE g
  IN  IF shown = " " /\ text # <<>> /\ text[Len(text)] = " " THEN text
      ELSE Append(text, shown)

Trim(text) ==
  LET solid == {i \in DOMAIN text : text[i] \notin Blanks \cup {" "}}
  IN  IF solid = {} THEN <<>>
      ELSE SubSeq(text, CHOOSE i \in solid : \A j \in solid : i <= j,
                        CHOOSE i \in solid : \A j \in solid : j <= i)

NormalizeInline(text) == Trim(Seqs!FoldLeft(AddGlyph, <<>>, text))

InlineText(text) == IF text = Absent THEN <<>> ELSE NormalizeInline(text)

-----------------------------------------------------------------------------
(* normal_body: nothing is printed of a record whose body is empty.          *)

(* The first name in Japanese, or the first name that says something.        *)
EventName(events) ==
  LET japanese == SelectSeq(events, LAMBDA e : e.language = "jpn")
      named == SelectSeq(events, LAMBDA e : InlineText(e.name) # <<>>)
  IN  IF japanese # <<>> /\ InlineText(japanese[1].name) # <<>>
        THEN InlineText(japanese[1].name)
      ELSE IF named # <<>> THEN InlineText(named[1].name) ELSE <<>>

EitBody(record) ==
  LET name == EventName(record.events)
      extended == InlineText(record.extended)
  IN  IF record.section # "present" THEN <<>>
      ELSE IF name = <<>> \/ extended = <<>> THEN name \o extended
      ELSE name \o <<" ", "-", " ">> \o extended

NormalBody(record) ==
  CASE record.type = "caption" -> InlineText(record.text)
    [] record.type = "eit" -> EitBody(record)
    [] OTHER -> <<>>

-----------------------------------------------------------------------------
(* format_fitted_normal_line, for the columns that the label leaves.         *)

Ellipsis == <<".", ".", ".">>

(* truncate_to_width                                                         *)
Truncate(text, width) ==
  LET suffix == IF width < 3 THEN width ELSE 3
      cut == {n \in 0..Len(text) : TextWidth(SubSeq(text, 1, n)) <= width - suffix}
  IN  CASE TextWidth(text) <= width -> text
        [] TextWidth(text) > width /\ width = 0 -> <<>>
        [] OTHER -> SubSeq(text, 1, CHOOSE n \in cut : \A m \in cut : m <= n)
                      \o SubSeq(Ellipsis, 1, suffix)

(* minimum_body_budget                                                       *)
MinimumBudget(body) ==
  IF Len(body) <= MinBodyGlyphs THEN TextWidth(body)
  ELSE TextWidth(SubSeq(body, 1, MinBodyGlyphs)) + 3

Fitted(body, width) ==
  Truncate(body, IF width < MinimumBudget(body) THEN MinimumBudget(body) ELSE width)

-----------------------------------------------------------------------------
(* What a reader relies on.                                                  *)

IsShown(g) == g \notin Controls /\ g # " "

ShownAt(text) == {i \in DOMAIN text : IsShown(text[i])}

(* The characters of a trimmed text that are neither spaces nor controls     *)
(* stay in their order, neighbours stay neighbours, the others are one space *)
(* apart, and no control character reaches the terminal.                     *)
KeepsWords(text) ==
  LET solid == {i \in ShownAt(text) : text[i] \notin Blanks}
      kept == {i \in ShownAt(text) : \E j, k \in solid : j <= i /\ i <= k}
      shown == NormalizeInline(text)
      Rank(S, i) == Len(SelectSeq([j \in 1..i |-> j \in S], LAMBDA b : b))
  IN  /\ \A i \in DOMAIN shown : shown[i] \notin Controls
      /\ \A i \in DOMAIN shown : i > 1 => ~(shown[i - 1] = " " /\ shown[i] = " ")
      /\ Rank(ShownAt(shown), Len(shown)) = Rank(kept, Len(text))
      /\ \A i \in kept, j \in ShownAt(shown) :
           Rank(kept, i) = Rank(ShownAt(shown), j) =>
             /\ shown[j] = text[i]
             /\ j > 1 => (shown[j - 1] = " " <=> i - 1 \notin kept)

(* Whatever the terminal, the beginning of a body is shown whole, a body     *)
(* that is cut ends in an ellipsis, and it is cut only where the terminal    *)
(* or the least budget asks for it, and no sooner than that.                 *)
ShowsEnough(body, width) ==
  LET line == Fitted(body, width)
      n == Len(line) - 3
  IN  \/ line = body
      \/ /\ SubSeq(line, n + 1, n + 3) = Ellipsis
         /\ SubSeq(line, 1, n) = SubSeq(body, 1, n)
         /\ n >= MinBodyGlyphs
         /\ \/ TextWidth(line) <= width
            \/ TextWidth(line) = TextWidth(SubSeq(body, 1, MinBodyGlyphs)) + 3
         /\ TextWidth(body) > width
         /\ TextWidth(SubSeq(body, 1, n + 1)) + 3 > width
=============================================================================
