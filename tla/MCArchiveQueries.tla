-------------------------- MODULE MCArchiveQueries --------------------------
EXTENDS ArchiveQueries

MCLetters == {"A", "a", "b", "."}
MCNormal == [c \in MCLetters |-> CASE c = "A" -> <<"a">> [] c = "." -> <<>> [] OTHER -> <<c>>]

(* Two EITs, of which the second is a later version with another title, and  *)
(* a caption.                                                                *)
MCLines == {[kind |-> "eit", program |-> 1], [kind |-> "eit", program |-> 2],
            [kind |-> "caption", program |-> 1]}
MCColumns == [line \in MCLines |->
  CASE line.kind = "caption" -> << <<"b">> >>
    [] line.program = 1 -> << <<"A">>, <<>> >>
    [] OTHER -> << <<"b">>, <<".", "a">> >>]
MCGenres == [line \in MCLines |-> IF line.program = 1 THEN {<<1, 0>>} ELSE {<<1, 2>>, <<3, 0>>}]

(* Two files of one second, of which the second one wins, and one of another.*)
MCRecorded == {p \in Path : p.at = 0 \/ p.title = 1}

A == Word(<<"A">>)
B == Word(<<"b">>)
Dot == Word(<<".">>)

AnyProgram == [q |-> <<>>, program_q |-> <<>>, line_q |-> <<>>, stream |-> Null, from |-> Null,
        to |-> Null, genre |-> Null, limit |-> 2, inner_hits |-> 1]
OfGenre(l1, l2) == [level1 |-> l1, level2 |-> l2]
Day(d) == [day |-> d, at |-> Null]

MCRequests == {
  [AnyProgram EXCEPT !.q = <<A, Or, Dot, B>>, !.limit = 0, !.inner_hits = 9],
  [AnyProgram EXCEPT !.program_q = <<A, And, B>>],
  [AnyProgram EXCEPT !.program_q = <<A, B, Or, A>>, !.genre = OfGenre(1, Null)],
  [AnyProgram EXCEPT !.program_q = <<B, Or, B, And, A>>, !.genre = OfGenre(1, 2)],
  [AnyProgram EXCEPT !.line_q = <<B>>, !.limit = 1],
  [AnyProgram EXCEPT !.line_q = <<B>>, !.inner_hits = 2],
  [AnyProgram EXCEPT !.line_q = <<B, And, B>>, !.to = Day(0), !.inner_hits = 0],
  [AnyProgram EXCEPT !.line_q = <<B>>, !.program_q = <<A>>, !.from = [day |-> 0, at |-> 1]],
  [AnyProgram EXCEPT !.line_q = <<B>>, !.from = Day(0), !.to = [day |-> 0, at |-> 0]],
  [AnyProgram EXCEPT !.line_q = <<B>>, !.from = Day(1), !.to = Day(0)],
  [AnyProgram EXCEPT !.q = <<B>>, !.line_q = <<B>>],
  [AnyProgram EXCEPT !.q = <<Dot, And, B>>],
  [AnyProgram EXCEPT !.q = <<B, Or>>],
  [AnyProgram EXCEPT !.q = <<B>>, !.stream = Invalid],
  [AnyProgram EXCEPT !.q = <<B>>, !.genre = OfGenre(1, 16)],
  AnyProgram}

(* Every expression of up to five tokens: the parser accepts it exactly when *)
(* it is well formed, and finds with it exactly what it asks for.            *)
Expressions == UNION {[1..n -> {And, Or, A, Word(<<"b", ".">>), Dot}] : n \in 0..5}
Rows_ == {<< <<"a">>, <<"b">> >>, << <<"b", "A">> >>, << <<"b">> >>}

ASSUME ParserExact ==
  \A tokens \in Expressions :
    /\ Parse(tokens).ok <=> WellFormed(tokens)
    /\ Parse(tokens).ok =>
         \A row \in Rows_ : MatchesRow(Parse(tokens), SearchText(row)) <=> Asks(tokens, row)
=============================================================================
