------------------------- MODULE SearchExpressions -------------------------
(* Search expressions (search_db/text.rs) and the FTS5 queries made of them  *)
(* (expression_fts, search_db/query.rs).                                     *)
(*                                                                           *)
(* A token is AND, OR or a word.  NFKC, lower case and the removal of what   *)
(* is not alphanumeric are taken character by character: Normal gives the    *)
(* characters that one character becomes, possibly none.                     *)
EXTENDS Naturals, Sequences
Seqs == INSTANCE SequencesExt

CONSTANTS
  Letters,  \* characters of queries and texts
  Normal    \* the normalised characters of each

ASSUME NormalAssumption == Normal \in [Letters -> Seq(Letters)]

Token == [op : {"AND", "OR", "none"}, letters : Seq(Letters)]

And == [op |-> "AND", letters |-> <<>>]
Or == [op |-> "OR", letters |-> <<>>]
Word(letters) == [op |-> "none", letters |-> letters]

Normalize(letters) ==
  Seqs!FoldLeft(LAMBDA text, c : text \o Normal[c], <<>>, letters)

-----------------------------------------------------------------------------
(* parse_search_expression.  parts are the words of the term being read.     *)

ParserStart ==
  [clauses |-> <<>>, clause |-> <<>>, parts |-> <<>>, expecting |-> TRUE, ok |-> TRUE]

(* flush_term: a term of punctuation only is an error.                       *)
Flush(st) ==
  LET term == Normalize(st.parts)
  IN  IF term = <<>> THEN [st EXCEPT !.ok = FALSE]
      ELSE [st EXCEPT !.clause = Append(@, term), !.parts = <<>>]

EndClause(st) == [st EXCEPT !.clauses = Append(@, st.clause), !.clause = <<>>]

Operator(st, op) ==
  LET flushed == Flush(st)
  IN  IF st.expecting THEN [st EXCEPT !.ok = FALSE]
      ELSE [(IF op = "OR" THEN EndClause(flushed) ELSE flushed)
               EXCEPT !.expecting = TRUE]

ReadToken(st, token) ==
  IF token.op = "none"
    THEN [st EXCEPT !.parts = @ \o token.letters, !.expecting = FALSE]
    ELSE Operator(st, token.op)

ParseEnd(st) ==
  IF st.expecting THEN [st EXCEPT !.ok = FALSE] ELSE EndClause(Flush(st))

Parse(tokens) ==
  LET st == Seqs!FoldLeft(LAMBDA s, token : IF s.ok THEN ReadToken(s, token) ELSE s,
                     ParserStart, tokens)
  IN  IF st.ok THEN ParseEnd(st) ELSE st

-----------------------------------------------------------------------------
(* FTS5: every character is a token, so a phrase is a contiguous piece of    *)
(* one column.  A term may match in any column of the row, whose columns     *)
(* hold normalised text.                                                     *)
HasPhrase(text, term) ==
  \E i \in 0..(Len(text) - Len(term)) :
    \A j \in DOMAIN term : text[i + j] = term[j]

SearchText(columns) == [k \in DOMAIN columns |-> Normalize(columns[k])]

MatchesRow(expression, columns) ==
  \E c \in DOMAIN expression.clauses :
    \A t \in DOMAIN expression.clauses[c] :
      \E k \in DOMAIN columns :
        HasPhrase(columns[k], expression.clauses[c][t])

-----------------------------------------------------------------------------
(* What an expression means, without a parser: the terms are the words       *)
(* between neighbouring operators, joined; a clause is what lies between     *)
(* neighbouring ORs, and asks for each of its terms.                         *)
Ends(tokens, ops) ==
  {0, Len(tokens) + 1} \cup {i \in DOMAIN tokens : tokens[i].op \in ops}

Spans(cuts) ==
  {s \in cuts \X cuts : s[1] < s[2] /\ \A k \in cuts : ~(s[1] < k /\ k < s[2])}

TermOf(tokens, span) ==
  Normalize(Seqs!FoldLeft(LAMBDA letters, t : letters \o t.letters, <<>>,
                     SubSeq(tokens, span[1] + 1, span[2] - 1)))

Terms(tokens) == Spans(Ends(tokens, {"AND", "OR"}))

WellFormed(tokens) == \A span \in Terms(tokens) : TermOf(tokens, span) # <<>>

Asks(tokens, columns) ==
  \E clause \in Spans(Ends(tokens, {"OR"})) :
    \A span \in Terms(tokens) :
      (clause[1] <= span[1] /\ span[2] <= clause[2]) =>
        \E k \in DOMAIN columns :
          HasPhrase(Normalize(columns[k]), TermOf(tokens, span))
=============================================================================
