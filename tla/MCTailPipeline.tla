--------------------------- MODULE MCTailPipeline ---------------------------
EXTENDS TailPipeline, TerminalLines

CONSTANTS s1, s2

(* Two streams: one sends without end, the other a line per connection.      *)
MCMaxLines == [s \in Streams |-> IF s = s1 THEN Period + MaxChunk ELSE 1]

(* The bounds let an attempt outlast the abort timeout.                      *)
ASSUME BacklogBounds == InTime /\ (Capacity + 1) * MaxStall > AbortTimeout

(* A wide character, one without a width, the ideographic space.             *)
MCGlyphWidth == [g \in {" ", ".", "-", "a", "wide", "zero", "blank", "nl"} |->
  CASE g \in {"wide", "blank"} -> 2 [] g \in {"zero", "nl"} -> 0 [] OTHER -> 1]
MCGlyphs == DOMAIN MCGlyphWidth

TextsOf(glyphs, n) == UNION {[1..k -> glyphs] : k \in 0..n}

ASSUME InlineTextsKeepWords ==
  \A text \in TextsOf({" ", "a", "wide", "blank", "nl"}, 5) : KeepsWords(text)

ASSUME LinesShowEnough ==
  \A body \in TextsOf({"a", "wide", "zero"}, 6), width \in 0..9 :
    ShowsEnough(body, width) /\ TextWidth(Truncate(body, width)) <= width

(* A current event is shown unless it has neither a name nor a text, a later *)
(* one never is; the Japanese name goes first.                               *)
MCNames == {Absent, <<>>, <<"nl">>, <<"a">>, <<"wide">>}
MCEvents == TextsOf({"jpn", "eng"} \X MCNames, 2)

ASSUME EitsShown ==
  \A events \in MCEvents, extended \in MCNames, section \in {"present", "following"} :
    LET names == [i \in DOMAIN events |-> [language |-> events[i][1], name |-> events[i][2]]]
        body == NormalBody([type |-> "eit", section |-> section, events |-> names,
                            extended |-> extended])
        Says(text) == InlineText(text) # <<>>
    IN  /\ body = <<>> <=>
             \/ section = "following"
             \/ ~Says(extended) /\ \A i \in DOMAIN names : ~Says(names[i].name)
        /\ \A i \in DOMAIN names :
             (/\ body # <<>> /\ names[i].language = "jpn" /\ Says(names[i].name)
              /\ \A j \in 1..(i - 1) : names[j].language # "jpn")
             => Head(body) = names[i].name[1]
=============================================================================
