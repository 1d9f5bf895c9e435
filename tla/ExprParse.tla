------------------------------ MODULE ExprParse ------------------------------
(***************************************************************************)
(* expr.Parse (expr/expr.go): a query is cut at its spaces into regular    *)
(* expressions with a code in front, without being cut inside of a         *)
(* character class, a group or a quotation.  The text is a sequence of     *)
(* bytes: the ones Parse looks at as themselves, letters, and "2" and "c", *)
(* the leading and the continuation byte of a character of two bytes.      *)
(* Positions count from 1.                                                 *)
(***************************************************************************)
EXTENDS Integers, Sequences, FiniteSets, SequencesExt

CONSTANTS
  Texts,        \* the texts parsed
  MaxDepth,     \* 100, the nesting consumeParen follows
  Nil

VARIABLES
  pc,           \* "parse", "done", "error", or "panic": a slice out of bounds
  expr,
  start, pos, cur, parts,
  splits        \* where it was cut: the spaces that ended a part or a gap

vars == <<pc, expr, start, pos, cur, parts, splits>>

Fail == 0
RuneLen(b) == IF b = "2" THEN 2 ELSE 1
\* The size utf8.DecodeRuneInString gives: 0 at the end, 1 for a broken one.
DecodeSize(s, p) ==
  IF p > Len(s) THEN 0
  ELSE IF s[p] = "2" /\ p < Len(s) /\ s[p + 1] = "c" THEN 2 ELSE 1
Is(s, p, b) == p <= Len(s) /\ s[p] = b

-----------------------------------------------------------------------------
(***************************************************************************)
(* The consume functions: the position after what begins at p, or Fail.    *)
(***************************************************************************)
Past(s) == 0..Len(s)+2
First(ends) == IF ends = {} THEN Fail ELSE CHOOSE e \in ends : \A x \in ends : e <= x

\* The loop of consumeCharClass.  At a [:name:] it goes to the "]" of the name.
ClassFrom(s, from) ==
  LET end[p \in Past(s)] ==
        IF p = Fail \/ p > Len(s) THEN Fail
        ELSE CASE s[p] = "\\" -> end[IF p < Len(s) THEN p + 1 + RuneLen(s[p + 1]) ELSE p + 1]
               [] s[p] = "[" /\ Is(s, p + 1, ":") -> end[First({e \in p+2..Len(s) : s[e] = "]"})]
               [] s[p] = "]" -> p + 1
               [] OTHER -> end[p + RuneLen(s[p])]
  IN  end[from]

\* Mutant: the last "]" ends the class.
ConsumeCharClassLong(s, p) ==
  LET ends == {e \in p+2..Len(s) : s[e] = "]"}
  IN  IF ends = {} THEN Fail ELSE (CHOOSE e \in ends : \A x \in ends : x <= e) + 1

ConsumeCharClass(s, p) ==
  LET q == IF Is(s, p + 1, "^") THEN p + 2 ELSE p + 1
  IN  ClassFrom(s, IF Is(s, q, "]") THEN q + 1 ELSE q)

\* p is the position of the Q.
ConsumeQE(s, p) ==
  LET e == First({x \in p+1..Len(s)-1 : s[x] = "\\" /\ s[x + 1] = "E"})
  IN  IF e = Fail THEN Fail ELSE e + 2

ConsumeParen(s, from, outer) ==
  LET end[p \in Past(s), depth \in outer..MaxDepth+1] ==
        IF p = Fail \/ p > Len(s) \/ depth > MaxDepth THEN Fail
        ELSE CASE s[p] = ")" -> p + 1
               [] s[p] = "\\" /\ Is(s, p + 1, "Q") -> end[ConsumeQE(s, p + 1), depth]
               [] s[p] = "\\" /\ ~Is(s, p + 1, "Q") -> end[p + 1 + DecodeSize(s, p + 1), depth]
               [] s[p] = "[" -> end[ConsumeCharClass(s, p), depth]
               [] s[p] = "(" -> end[end[p + 1, depth + 1], depth]
               [] OTHER -> end[p + RuneLen(s[p]), depth]
  IN  end[from + 1, outer]

-----------------------------------------------------------------------------
(***************************************************************************)
(* Where a place in a text is, read as Go's syntax package does, from left *)
(* to right: outside, after a backslash, in a class (at its front, after a *)
(* backslash, in a named class), in a quotation; and the groups around.    *)
(***************************************************************************)
Named(s, i) == Is(s, i + 1, ":") /\ \E e \in i+2..Len(s)-1 : s[e] = ":" /\ s[e + 1] = "]"

Place(s, st, i) ==
  LET at(in) == [st EXCEPT !.in = in]
      b == s[i]
  IN  CASE st.in = "out" -> (CASE b = "\\" -> at("esc") [] b = "[" -> at("front")
                               [] b = "(" -> [st EXCEPT !.depth = @ + 1]
                               [] b = ")" -> [st EXCEPT !.depth = @ - 1]
                               [] OTHER -> st)
        [] st.in = "esc" -> IF b = "Q" THEN at("quote") ELSE at("out")
        [] st.in = "quote" -> IF b = "\\" /\ Is(s, i + 1, "E") THEN at("unquote") ELSE st
        [] st.in = "unquote" -> at("out")
        [] st.in = "front" /\ b = "^" /\ s[i - 1] = "[" -> st
        [] st.in = "front" /\ b = "]" -> at("class")
        [] st.in = "classesc" -> at("class")
        [] st.in = "name" -> IF b = "]" THEN at("class") ELSE st
        [] OTHER -> (CASE b = "\\" -> at("classesc") [] b = "]" -> at("out")
                       [] b = "[" /\ Named(s, i) -> at("name") [] OTHER -> at("class"))

PlaceAfter(s, n) ==
  LET after[i \in 0..n] ==
        IF i = 0 THEN [in |-> "out", depth |-> 0]
        ELSE Place(s, after[i - 1], i)
  IN  after[n]

Outside(s, p) == PlaceAfter(s, p - 1) = [in |-> "out", depth |-> 0]

\* syntax.Parse fails: something is left open, or closed that was not.
SyntaxError(v) ==
  \/ PlaceAfter(v, Len(v)) # [in |-> "out", depth |-> 0]
  \/ \E n \in 1..Len(v) : PlaceAfter(v, n).depth < 0

\* After cleanRegexp nothing is left but an empty match.
MatchesEmpty(v) == \A i \in DOMAIN v : v[i] \in {"(", ")"}

-----------------------------------------------------------------------------
Init ==
  /\ pc = "parse" /\ expr \in Texts
  /\ start = 1 /\ pos = 1 /\ cur = Nil /\ parts = <<>> /\ splits = {}

Slice == SubSeq(expr, start, pos - 1)

\* placeValue of the text from start to pos, or its error.
Placed ==
  LET code == IF cur = Nil THEN "SNIPPET" ELSE cur.code
      neg == code = "SNIPPET" /\ Slice[1] = "-"
      v == IF neg THEN Tail(Slice) ELSE Slice
  IN  IF SyntaxError(v) \/ MatchesEmpty(v) THEN Nil
      ELSE [code |-> IF neg THEN "MATCH" ELSE code,
            negated |-> IF cur = Nil THEN neg ELSE cur.negated, word |-> v]

PlaceValue ==
  IF Placed = Nil THEN pc' = "error" /\ UNCHANGED <<cur, parts>>
  ELSE parts' = Append(parts, Placed) /\ cur' = Nil /\ UNCHANGED pc

Here(b) == pc = "parse" /\ Is(expr, pos, b)

Plus ==
  /\ Here("+")
  /\ pos' = pos + 1
  /\ IF start = pos
     THEN cur' = [code |-> "MATCH", negated |-> FALSE] /\ start' = pos + 1
     ELSE UNCHANGED <<cur, start>>
  /\ UNCHANGED <<pc, expr, parts, splits>>

\* A code in front of ":"; "f" stands for the three there are.
Colon ==
  /\ Here(":")
  /\ pos' = pos + 1
  /\ LET neg == expr[start] = "-"
     IN  IF (IF neg THEN Tail(Slice) ELSE Slice) = <<"f">>
         THEN cur' = [code |-> "FILE", negated |-> neg] /\ start' = pos + 1
         ELSE UNCHANGED <<cur, start>>
  /\ UNCHANGED <<pc, expr, parts, splits>>

\* Mutant: spaces that follow each other are not passed.
SpaceStuck ==
  /\ Here(" ") /\ start # pos
  /\ PlaceValue
  /\ splits' = splits \cup {pos}
  /\ pos' = pos + 1 /\ start' = pos + 1
  /\ UNCHANGED expr

Space ==
  /\ Here(" ")
  /\ IF start # pos THEN PlaceValue
     ELSE /\ pc' = IF cur # Nil THEN "error" ELSE pc
          /\ UNCHANGED <<cur, parts>>
  /\ splits' = splits \cup {pos}
  /\ pos' = pos + 1 /\ start' = pos + 1
  /\ UNCHANGED expr

AfterBackslash(s, p) ==
  IF Is(s, p + 1, "Q") THEN ConsumeQE(s, p + 1) ELSE p + 1 + DecodeSize(s, p + 1)

\* A backslash, a class or a group is passed over; other bytes are as well.
Over(s, p) ==
  CASE s[p] = "\\" -> AfterBackslash(s, p)
    [] s[p] = "[" -> ConsumeCharClass(s, p)
    [] s[p] = "(" -> ConsumeParen(s, p, 0)
    [] OTHER -> p + RuneLen(s[p])

Skip ==
  /\ pc = "parse" /\ pos <= Len(expr) /\ expr[pos] \notin {"+", ":", " "}
  /\ LET next == Over(expr, pos)
     IN  IF next = Fail THEN pc' = "error" /\ UNCHANGED pos
         ELSE pos' = next /\ UNCHANGED pc
  /\ UNCHANGED <<expr, start, cur, parts, splits>>

\* The end of the text: the last part, and none at all is an error.
End ==
  /\ pc = "parse" /\ pos > Len(expr)
  /\ IF pos > Len(expr) + 1 THEN pc' = "panic" /\ UNCHANGED <<cur, parts>>
     ELSE IF start # pos /\ Placed = Nil THEN pc' = "error" /\ UNCHANGED <<cur, parts>>
     ELSE /\ parts' = IF start # pos THEN Append(parts, Placed) ELSE parts
          /\ pc' = IF parts' = <<>> THEN "error" ELSE "done"
          /\ UNCHANGED cur
  /\ UNCHANGED <<expr, start, pos, splits>>

Next == Plus \/ Colon \/ Space \/ Skip \/ End

Spec == Init /\ [][Next]_vars /\ WF_vars(Next)

-----------------------------------------------------------------------------
ValidUTF8(s) ==
  \A i \in DOMAIN s : /\ s[i] = "2" => Is(s, i + 1, "c")
                      /\ s[i] = "c" => i > 1 /\ s[i - 1] = "2"
HasNamed(s) == \E i \in 1..Len(s)-1 : s[i] = "[" /\ s[i + 1] = ":"

\* No step goes past the end of a text in valid UTF-8, where the slice that
\* becomes a part would be out of bounds.
InBounds == ValidUTF8(expr) => pos <= Len(expr) + 1

\* A query without named classes that is accepted was cut at the spaces that
\* are outside of every class, group and quotation, and at no other.
SplitsExact ==
  pc = "done" /\ ValidUTF8(expr) /\ ~HasNamed(expr) =>
    splits = {p \in DOMAIN expr : expr[p] = " " /\ Outside(expr, p)}

\* The words between the cuts, with the codes in front.
Words ==
  {<<p, q>> \in (splits \cup {0}) \X (splits \cup {Len(expr) + 1}) :
     p + 1 < q /\ \A x \in splits : x <= p \/ q <= x}

\* Every word of an accepted query is a part, in order and whole but for the
\* codes in front of it; only a code that ends the query is not.
WordsAreParts ==
  pc = "done" /\ cur = Nil =>
    LET ws == SetToSortSeq(Words, LAMBDA x, y : x[1] < y[1])
    IN  /\ Len(parts) = Len(ws)
        /\ \A i \in DOMAIN ws :
             LET w == SubSeq(expr, ws[i][1] + 1, ws[i][2] - 1)
             IN  \E n \in 0..Len(w) :
                   /\ parts[i].word = SubSeq(w, n + 1, Len(w))
                   /\ \A j \in 1..n : w[j] \in {"+", "-", "f", ":"}
                   /\ n > 0 => w[n] # "f"

\* Parse cuts an accepted query where the syntax package would let it, and
\* hands on all of its words.
PartsExact == InBounds /\ SplitsExact /\ WordsAreParts

\* Every step gets on: a query is accepted or refused.
ParseEnds == <>(pc # "parse")
=============================================================================
