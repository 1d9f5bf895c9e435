--------------------------- MODULE MCSearchRequest ---------------------------
(* An instance of SearchRequest for TLC: letters "a", "b" and "h", the byte  *)
(* of the header, "0", the padding, and "x" and "y" in paths.                *)
EXTENDS SearchRequest

D(path, text) == [path |-> path, data |-> text]
SomeDocs == <<D(<<"x">>, <<"a", "a", "b">>), D(<<"y">>, <<"b", "a", "b", "a">>),
              D(<<"x">>, <<"b", "h">>), D(<<"y">>, <<"a", "b", "a", "a", "b">>)>>
SomeShards == {[inline |-> i, docs |-> d] : i \in BOOLEAN, d \in {SomeDocs, SubSeq(SomeDocs, 2, 3)}}
SomeHeader == <<"h">>

\* Expressions: a word, a word at the beginning and at the end of the text, and
\* between word boundaries, where "a" and "b" are the word characters.
Asserted(before, w, after) == <<[before |-> before, word |-> w, after |-> after]>>
Word(w) == Asserted(Contexts, w, Contexts)
AtBegin(w) == Asserted({Edge}, w, Contexts)
AtEnd(w) == Asserted(Contexts, w, {Edge})
Bounded(w) == Asserted(Contexts \ {"a", "b"}, w, Contexts \ {"a", "b"})
\* a*, and \b and \B, which match the empty string only.
Star == Word(<<"a", "a">>) \o Word(<<"a">>) \o Word(<<>>)
Boundary == Asserted({"a", "b"}, <<>>, Contexts \ {"a", "b"})
            \o Asserted(Contexts \ {"a", "b"}, <<>>, {"a", "b"})
Inside == Asserted({"a", "b"}, <<>>, {"a", "b"})
Ab == <<"a", "b">>

P(code, e) == [code |-> code, expr |-> e, negated |-> FALSE]
Not(p) == [p EXCEPT !.negated = TRUE]

Texts == {<<>>, <<P("FILE", Word(<<"x">>))>>, <<Not(P("FILE", AtEnd(<<"x">>)))>>,
          <<P("MATCH", Word(<<"b">>))>>, <<P("MATCH", Word(<<"b", "a">>)), P("FILE", Word(<<"y">>))>>,
          <<P("MATCH", AtBegin(<<"b">>))>>}
Snippets == {Word(<<"a">>), Word(Ab), Word(<<"h">>), Word(<<"b", "b">>) \o Word(<<"b">>),
             AtBegin(<<"a">>), AtEnd(Ab), Bounded(<<"b">>), AtEnd(<<>>), Star, Boundary, Inside}

\* Expressions with and without a snippet, and those that fail.
Expressions ==
  {<<P("SNIPPET", e)>> \o t : e \in Snippets, t \in Texts}
  \cup Texts
  \cup {<<P("SNIPPET", Word(<<"a">>)), P("SNIPPET", Word(Ab))>>,
        <<P("SNIPPET", Word(<<"a">>)), P("SNIPPET", Asserted({"a"}, <<"b">>, Contexts))>>,
        <<P("SNIPPET", Word(<<"a">>)), P("MATCH", Word(<<"h">>))>>,
        <<P("SNIPPET", Inside), P("SNIPPET", Word(<<"b">>))>>, <<P("SNIPPET", <<>>)>>,
        <<Not(P("SNIPPET", Word(Ab)))>>, <<P("SNIPPET", Bad)>>,
        <<P("SNIPPET", Word(Ab)), Not(P("MATCH", Word(Ab)))>>,
        <<P("SNIPPET", Word(Ab)), P("LANGUAGE", Word(Ab))>>}

\* The parts of each code, in the order of the expression.
ByCode(parts) ==
  [code \in Codes |->
     LET of == SelectSeq(parts, LAMBDA p : p.code = code)
     IN  [i \in DOMAIN of |-> [expr |-> of[i].expr, negated |-> of[i].negated]]]

AllRequests == {ByCode(parts) : parts \in Expressions}
=============================================================================
