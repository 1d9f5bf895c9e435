---------------------------- MODULE TrigramQuery ----------------------------
(***************************************************************************)
(* RegexpQuery (index/regexp.go): the trigram query that decides which     *)
(* documents a regular expression is tried on.                             *)
(*                                                                         *)
(* analyze works bottom up, so the model evaluates the expression in       *)
(* postfix order on a stack of regexpInfos, one node per step.  A string   *)
(* is a sequence of numbers.  A stringSet is a Go slice: the code reuses   *)
(* storage, so a set is [a, n], the first n strings of the array a of the  *)
(* heap, whose length is its capacity; Nil is the nil slice.  Queries are  *)
(* used once each and are values here.                                     *)
(***************************************************************************)
EXTENDS Integers, Sequences, FiniteSets, SequencesExt

CONSTANTS
  Chars,                 \* the alphabet
  Regexps,               \* the expressions tried
  MaxWord,               \* bound: the length of the matching texts tried
  maxExact, maxSet,      \* 7 and 20 in the code
  MaxClass,              \* 100: larger classes are any character
  Nil

VARIABLES
  re,                    \* the argument of RegexpQuery
  todo,                  \* the nodes still to be analyzed, in postfix order
  stack,                 \* the infos of the nodes analyzed, with their nodes
  heap,                  \* the arrays of the string sets
  query,                 \* the result, or Nil
  shared                 \* history: some info had its prefixes and its
                         \* suffixes in the same array

vars == <<re, todo, stack, heap, query, shared>>

Size(s) == IF s = Nil THEN 0 ELSE s.n
Elems(h, s) == IF Size(s) = 0 THEN <<>> ELSE SubSeq(h[s.a], 1, s.n)

-----------------------------------------------------------------------------
(***************************************************************************)
(* String sets.  An operation gives the heap and the slice it leaves.      *)
(***************************************************************************)
\* The order of byPrefix, and with the strings reversed that of bySuffix.
RECURSIVE Less(_, _)
Less(s, t) ==
  /\ t # <<>>
  /\ s = <<>> \/ Head(s) < Head(t) \/ (Head(s) = Head(t) /\ Less(Tail(s), Tail(t)))
LessBy(suffix, s, t) == IF suffix THEN Less(Reverse(s), Reverse(t)) ELSE Less(s, t)

\* An array of the strings xs with room for cap.
Array(xs, cap) == xs \o [i \in 1..cap - Len(xs) |-> <<>>]

\* Writes xs over the first strings of s, which then has this many.
Write(h, s, xs) ==
  IF xs = <<>> THEN [h |-> h, s |-> IF s = Nil THEN Nil ELSE [s EXCEPT !.n = 0]]
  ELSE [h |-> [h EXCEPT ![s.a] = xs \o SubSeq(@, Len(xs) + 1, Len(@))],
        s |-> [a |-> s.a, n |-> Len(xs)]]

\* Strings that differ from the one kept before them.
Dedup(xs) ==
  FoldLeft(LAMBDA kept, x : IF kept # <<>> /\ Last(kept) = x THEN kept ELSE Append(kept, x),
           <<>>, xs)

\* clean: sorts in place, then moves the distinct strings to the front.
WriteDistinct(h, s, sorted) == Write(Write(h, s, sorted).h, s, Dedup(sorted))
Clean(h, s, suffix) ==
  WriteDistinct(h, s, SortSeq(Elems(h, s), LAMBDA x, y : LessBy(suffix, x, y)))

\* add, called for each of xs in turn on an empty slice: capacities double.
Pow2(k) == CHOOSE p \in {1, 2, 4, 8, 16, 32, 64, 128, 256} : p >= k /\ p < 2 * k
AddAll(h, xs) ==
  IF xs = <<>> THEN [h |-> h, s |-> [a |-> 0, n |-> 0]]
  ELSE [h |-> Append(h, Array(xs, Pow2(Len(xs)))), s |-> [a |-> Len(h) + 1, n |-> Len(xs)]]

\* append(s, xs...): in place when there is room, else a copy of twice the
\* capacity or as much as is needed.
AppendAll(h, s, xs) ==
  LET need == Size(s) + Len(xs)
      cap == IF s = Nil \/ s.a = 0 THEN 0 ELSE Len(h[s.a])
      grown == IF need > 2 * cap THEN need ELSE 2 * cap
  IN  IF xs = <<>> THEN [h |-> h, s |-> s]
      ELSE IF need <= cap
      THEN [h |-> [h EXCEPT ![s.a] = SubSeq(@, 1, s.n) \o xs \o SubSeq(@, need + 1, cap)],
            s |-> [a |-> s.a, n |-> need]]
      ELSE [h |-> Append(h, Array(Elems(h, s) \o xs, grown)), s |-> [a |-> Len(h) + 1, n |-> need]]

\* union, "reusing s's storage"
Union(h, s, t, suffix) ==
  LET u == AppendAll(h, s, Elems(h, t)) IN Clean(u.h, u.s, suffix)

Cross(h, s, t, suffix) ==
  LET xs == Elems(h, s)
      ys == Elems(h, t)
      p == AddAll(h, FlattenSeq([i \in DOMAIN xs |-> [j \in DOMAIN ys |-> xs[i] \o ys[j]]]))
  IN  Clean(p.h, p.s, suffix)

Copy(h, s) == AppendAll(h, [a |-> 0, n |-> 0], Elems(h, s))

MinLen(xs) == IF xs = <<>> THEN 0
              ELSE CHOOSE m \in {Len(xs[i]) : i \in DOMAIN xs} : \A i \in DOMAIN xs : m <= Len(xs[i])

-----------------------------------------------------------------------------
(***************************************************************************)
(* Queries.                                                                *)
(***************************************************************************)
Query(op, trigram, sub) == [op |-> op, trigram |-> trigram, sub |-> sub]
allQuery == Query("all", <<>>, <<>>)
noneQuery == Query("none", <<>>, <<>>)

SortedSet(xs) == Dedup(SortSeq(xs, Less))

\* isSubsetOf "assumes both sets are sorted": one pass over t.
RECURSIVE IsSubsetOf(_, _)
IsSubsetOf(s, t) ==
  \/ s = <<>>
  \/ /\ t # <<>>
     /\ IF Less(Head(t), Head(s)) THEN IsSubsetOf(s, Tail(t))
        ELSE Head(t) = Head(s) /\ IsSubsetOf(Tail(s), t)

RECURSIVE TrigramsImply(_, _)
TrigramsImply(t, q) ==
  CASE q.op = "or" -> \/ \E i \in DOMAIN q.sub : TrigramsImply(t, q.sub[i])
                      \/ \E i \in DOMAIN t : IsSubsetOf(<<t[i]>>, q.trigram)
    [] q.op = "and" -> /\ \A i \in DOMAIN q.sub : TrigramsImply(t, q.sub[i])
                       /\ IsSubsetOf(q.trigram, t)
    [] OTHER -> FALSE

Atom(q) == Len(q.trigram) = 1 /\ q.sub = <<>>

Implies(q, r) ==
  \/ q.op = "none" \/ r.op = "all"
  \/ /\ q.op # "all" /\ r.op # "none"
     /\ IF q.op = "and" \/ Atom(q) THEN TrigramsImply(q.trigram, r)
        ELSE r.op = "or" /\ q.trigram # <<>> /\ q.sub = <<>> /\ IsSubsetOf(q.trigram, r.trigram)

\* The loops that factor out common trigrams: one pass over both lists.
RECURSIVE Factor(_, _)
Factor(qs, rs) ==
  IF qs = <<>> \/ rs = <<>> THEN [common |-> <<>>, q |-> qs, r |-> rs]
  ELSE IF Less(Head(qs), Head(rs))
  THEN LET f == Factor(Tail(qs), rs) IN [f EXCEPT !.q = <<Head(qs)>> \o @]
  ELSE IF Less(Head(rs), Head(qs))
  THEN LET f == Factor(qs, Tail(rs)) IN [f EXCEPT !.r = <<Head(rs)>> \o @]
  ELSE LET f == Factor(Tail(qs), Tail(rs)) IN [f EXCEPT !.common = <<Head(qs)>> \o @]

Unwrap(q) == IF q.trigram = <<>> /\ Len(q.sub) = 1 THEN q.sub[1] ELSE q

RECURSIVE AndOr(_, _, _)

\* The end of andOr: two queries of the other operator.
Combine(q, r, op) ==
  LET f == Factor(q.trigram, r.trigram)
      q1 == [q EXCEPT !.trigram = f.q]
      r1 == [r EXCEPT !.trigram = f.r]
      other == IF op = "and" THEN "or" ELSE "and"
  IN  IF f.common = <<>> THEN Query(op, <<>>, <<q, r>>)
      ELSE AndOr(Query(other, f.common, <<>>), AndOr(q1, r1, op), other)

AndOr(q0, r0, op) ==
  LET q == Unwrap(q0)
      r == Unwrap(r0)
  IN  IF Implies(q, r) THEN IF op = "and" THEN q ELSE r
      ELSE IF Implies(r, q) THEN IF op = "and" THEN r ELSE q
      ELSE IF q.op = op /\ (r.op = op \/ Atom(r))
      THEN Query(op, SortedSet(q.trigram \o r.trigram), q.sub \o r.sub)
      ELSE IF r.op = op /\ Atom(q) THEN [r EXCEPT !.trigram = SortedSet(@ \o q.trigram)]
      ELSE IF Atom(q) /\ Atom(r) THEN Query(op, q.trigram \o r.trigram, <<>>)
      ELSE IF q.op = op THEN [q EXCEPT !.sub = Append(@, r)]
      ELSE IF r.op = op THEN [r EXCEPT !.sub = Append(@, q)]
      ELSE Combine(q, r, op)

Trigrams(s) == [i \in 1..(IF Len(s) < 3 THEN 0 ELSE Len(s) - 2) |-> SubSeq(s, i, i + 2)]

\* Mutant: strings that are too short to have a trigram are not noticed.
AndTrigramsShort(q, xs) ==
  AndOr(q, FoldLeft(LAMBDA or, x : AndOr(or, Query("and", SortedSet(Trigrams(x)), <<>>), "or"),
                    noneQuery, SelectSeq(xs, LAMBDA x : Len(x) >= 3)), "and")

\* andTrigrams: q and one of the strings, unless one is too short.
AndTrigrams(q, xs) ==
  IF MinLen(xs) < 3 THEN q
  ELSE AndOr(q, FoldLeft(LAMBDA or, x : AndOr(or, Query("and", SortedSet(Trigrams(x)), <<>>), "or"),
                         noneQuery, xs), "and")

-----------------------------------------------------------------------------
(***************************************************************************)
(* regexpInfo.  Each operator gives the heap it leaves and the info.       *)
(***************************************************************************)
Info(canEmpty, exact, prefix, suffix, match) ==
  [canEmpty |-> canEmpty, exact |-> exact, prefix |-> prefix, suffix |-> suffix, match |-> match]

\* A slice literal: a new array with no room to spare.
Literal(h, s) == [h |-> Append(h, <<s>>), s |-> [a |-> Len(h) + 1, n |-> 1]]

\* anyMatch and anyChar: nothing is known but that "" is a prefix and a suffix.
Anything(h, canEmpty) ==
  LET p == Literal(h, <<>>)
      s == Literal(p.h, <<>>)
  IN  [h |-> s.h, i |-> Info(canEmpty, Nil, p.s, s.s, allQuery)]

noMatch == Info(FALSE, Nil, Nil, Nil, noneQuery)

ExactString(h, s, canEmpty) ==
  LET e == Literal(h, s) IN [h |-> e.h, i |-> Info(canEmpty, e.s, Nil, Nil, allQuery)]

AddExact(h, info) ==
  IF info.exact = Nil THEN info.match ELSE AndTrigrams(info.match, Elems(h, info.exact))

\* The string cut to n - 1 characters at its outer end.
Cut(x, n, suffix) ==
  IF Len(x) < n THEN x
  ELSE IF suffix THEN SubSeq(x, Len(x) - n + 2, Len(x)) ELSE SubSeq(x, 1, n - 1)

\* The loop of simplifySet: shorter strings, until there are few enough.
RECURSIVE Shorten(_, _, _, _)
Shorten(h, s, n, suffix) ==
  LET cut == [i \in 1..Size(s) |-> Cut(Elems(h, s)[i], n, suffix)]
      w == Write(h, s, Dedup(cut))
      c == Clean(w.h, w.s, suffix)
  IN  IF Size(c.s) > maxSet THEN Shorten(c.h, c.s, n - 1, suffix) ELSE c

\* A longer string after one that is its prefix (or suffix) is redundant.
Redundant(x, y, suffix) == IF suffix THEN IsSuffix(y, x) ELSE IsPrefix(y, x)
Irredundant(xs, suffix) ==
  FoldLeft(LAMBDA kept, x : IF kept # <<>> /\ Redundant(x, Last(kept), suffix)
                            THEN kept ELSE Append(kept, x), <<>>, xs)

Prune(short, match, suffix) ==
  LET w == Write(short.h, short.s, Irredundant(Elems(short.h, short.s), suffix))
  IN  [h |-> w.h, s |-> w.s, match |-> match]

\* simplifySet, after the set c was cleaned and before it is.
SimplifyCleaned(c, match, suffix) ==
  Prune(Shorten(c.h, c.s, 3, suffix), AndTrigrams(match, Elems(c.h, c.s)), suffix)
SimplifySet(h, s, match, suffix) == SimplifyCleaned(Clean(h, s, suffix), match, suffix)

\* The prefixes, then the suffixes, each with the match query they leave.
SimplifySuffix(p, suffix, canEmpty) ==
  LET s == SimplifySet(p.h, suffix, p.match, TRUE)
  IN  [h |-> s.h, i |-> Info(canEmpty, Nil, p.s, s.s, s.match)]
SimplifyEnds(h, info) ==
  SimplifySuffix(SimplifySet(h, info.prefix, info.match, FALSE), info.suffix, info.canEmpty)

\* The exact strings xs move to the match query, and their ends to the
\* prefixes and suffixes.
Ends(xs, suffix) == [i \in DOMAIN xs |-> Cut(xs[i], 3, suffix)]
MoveSuffixes(p, info, xs) ==
  LET s == AddAll(p.h, Ends(xs, TRUE))
  IN  [h |-> s.h, i |-> Info(info.canEmpty, Nil, p.s, s.s, AndTrigrams(info.match, xs))]

\* The first half of simplify: the exact set, cleaned to c, is given up when
\* it is too large or too long.
LimitExact(c, info, force) ==
  LET xs == Elems(c.h, c.s)
  IN  IF Len(xs) > maxExact \/ (MinLen(xs) >= 3 /\ force) \/ MinLen(xs) >= 4
      THEN MoveSuffixes(AddAll(c.h, Ends(xs, FALSE)), info, xs)
      ELSE [h |-> c.h, i |-> [info EXCEPT !.exact = c.s]]

\* The second half, for an info that has no exact set any more.
LimitEnds(r) == IF r.i.exact # Nil THEN r ELSE SimplifyEnds(r.h, r.i)

Simplify(h, info, force) == LimitEnds(LimitExact(Clean(h, info.exact, FALSE), info, force))

-----------------------------------------------------------------------------
Sets(h, exact, prefix, suffix) == [h |-> h, exact |-> exact, prefix |-> prefix, suffix |-> suffix]

\* The prefixes of xy when x or y is not exact, and then its suffixes.
ConcatPrefix(h, x, y) ==
  IF x.exact # Nil THEN Cross(h, x.exact, y.prefix, FALSE)
  ELSE IF x.canEmpty THEN Union(h, x.prefix, y.prefix, FALSE)
  ELSE [h |-> h, s |-> x.prefix]

ConcatSuffix(p, x, y) ==
  LET s == IF y.exact # Nil THEN Cross(p.h, x.suffix, y.exact, TRUE)
           ELSE IF y.canEmpty THEN Union(p.h, y.suffix, x.suffix, TRUE)
           ELSE [h |-> p.h, s |-> y.suffix]
  IN  Sets(s.h, Nil, p.s, s.s)

ConcatSets(h, x, y) ==
  LET both == Cross(h, x.exact, y.exact, FALSE)
  IN  IF x.exact # Nil /\ y.exact # Nil THEN Sets(both.h, both.s, Nil, Nil)
      ELSE ConcatSuffix(ConcatPrefix(h, x, y), x, y)

\* The strings across the seam, when all of them have a trigram.
Seam(h, x, y, match) ==
  IF /\ x.exact = Nil /\ y.exact = Nil
     /\ Size(x.suffix) <= maxSet /\ Size(y.prefix) <= maxSet
     /\ MinLen(Elems(h, x.suffix)) + MinLen(Elems(h, y.prefix)) >= 3
  THEN LET c == Cross(h, x.suffix, y.prefix, FALSE)
       IN  [h |-> c.h, match |-> AndTrigrams(match, Elems(c.h, c.s))]
  ELSE [h |-> h, match |-> match]

\* concat leaves canEmpty of xy false, whatever x and y are.
Joined(seam, sets) ==
  Simplify(seam.h, Info(FALSE, sets.exact, sets.prefix, sets.suffix, seam.match), FALSE)
Concat(h, x, y) ==
  LET sets == ConcatSets(h, x, y)
  IN  Joined(Seam(sets.h, x, y, AndOr(x.match, y.match, "and")), sets)

\* The sets of x|y: two unions on the storage of the same set when x is exact.
ExactOr(x, set) == IF x.exact # Nil THEN x.exact ELSE set

AlternateSuffix(p, x, y) ==
  LET c == IF y.exact # Nil THEN Copy(p.h, y.exact) ELSE [h |-> p.h, s |-> y.suffix]
      s == Union(c.h, ExactOr(x, x.suffix), c.s, TRUE)
  IN  Sets(s.h, Nil, p.s, s.s)

AlternateSets(h, x, y) ==
  LET e == Union(h, x.exact, y.exact, FALSE)
  IN  IF x.exact # Nil /\ y.exact # Nil THEN Sets(e.h, e.s, Nil, Nil)
      ELSE AlternateSuffix(Union(h, ExactOr(x, x.prefix), ExactOr(y, y.prefix), FALSE), x, y)

\* addExact for the one side that is exact.
MatchOf(h, x, y) == IF y.exact = Nil THEN AddExact(h, x) ELSE x.match

Alternated(sets, x, y) ==
  Simplify(sets.h,
           Info(x.canEmpty \/ y.canEmpty, sets.exact, sets.prefix, sets.suffix,
                AndOr(MatchOf(sets.h, x, y), MatchOf(sets.h, y, x), "or")), FALSE)
Alternate(h, x, y) == Alternated(AlternateSets(h, x, y), x, y)

\* x+ and x{n,}: an exact set is a set of prefixes and suffixes now.
Plus(h, x) ==
  LET c == Copy(h, x.exact)
  IN  IF x.exact = Nil THEN Simplify(h, x, FALSE)
      ELSE Simplify(c.h, [x EXCEPT !.exact = Nil, !.prefix = x.exact, !.suffix = c.s], FALSE)

-----------------------------------------------------------------------------
(***************************************************************************)
(* Expressions, as syntax.Parse gives them (external), and the order in    *)
(* which analyze and fold come to their nodes.  fold(f, <<x, y, z>>) is    *)
(* f(f(x, y), z): concatenation and alternation are binary here.  A        *)
(* literal that folds case is, as for analyze, the concatenation of the    *)
(* classes of its characters.                                              *)
(***************************************************************************)
RECURSIVE Postfix(_)
Postfix(x) ==
  CASE x.op \in {"concat", "alternate"} -> Postfix(x.x) \o Postfix(x.y) \o <<x>>
    [] x.op \in {"plus", "quest"} -> Postfix(x.x) \o <<x>>
    [] OTHER -> <<x>>          \* analyze does not look below a star

\* analyze of a node without a subexpression to look at.
Leaf(h, x) ==
  CASE x.op = "literal" -> LET e == ExactString(h, x.s, FALSE) IN Simplify(e.h, e.i, FALSE)
    [] x.op = "empty" -> ExactString(h, <<>>, TRUE)
    [] x.op = "any" -> Anything(h, FALSE)
    [] x.op = "star" -> Anything(h, TRUE)
    [] x.op = "none" -> [h |-> h, i |-> noMatch]
    [] x.op = "class" ->
         IF x.cs = {} THEN [h |-> h, i |-> noMatch]
         ELSE IF Cardinality(x.cs) > MaxClass THEN Anything(h, FALSE)
         ELSE LET e == AddAll(h, SetToSeq({<<c>> : c \in x.cs}))
              IN  Simplify(e.h, Info(FALSE, e.s, Nil, Nil, allQuery), FALSE)

Init ==
  /\ re \in Regexps
  /\ todo = Postfix(re)
  /\ stack = <<>> /\ heap = <<>>
  /\ query = Nil
  /\ shared = FALSE

SharesStorage(info) ==
  Size(info.prefix) > 0 /\ Size(info.suffix) > 0 /\ info.prefix.a = info.suffix.a

\* The node is analyzed from the k infos on top of the stack.
Analyzed(k, result) ==
  /\ heap' = result.h
  /\ stack' = Append(SubSeq(stack, 1, Len(stack) - k), [node |-> Head(todo), info |-> result.i])
  /\ todo' = Tail(todo)
  /\ shared' = (shared \/ SharesStorage(result.i))
  /\ UNCHANGED <<re, query>>

Top(k) == stack[Len(stack) - k].info

AnalyzeLeaf ==
  /\ todo # <<>>
  /\ Head(todo).op \notin {"concat", "alternate", "plus", "quest"}
  /\ Analyzed(0, Leaf(heap, Head(todo)))

AnalyzeConcat ==
  /\ todo # <<>> /\ Head(todo).op = "concat"
  /\ Analyzed(2, Concat(heap, Top(1), Top(0)))

AnalyzeAlternate ==
  /\ todo # <<>> /\ Head(todo).op = "alternate"
  /\ Analyzed(2, Alternate(heap, Top(1), Top(0)))

AnalyzeQuest ==
  /\ todo # <<>> /\ Head(todo).op = "quest"
  /\ LET e == ExactString(heap, <<>>, TRUE) IN Analyzed(1, Alternate(e.h, Top(0), e.i))

AnalyzePlus ==
  /\ todo # <<>> /\ Head(todo).op = "plus"
  /\ Analyzed(1, Plus(heap, Top(0)))

\* Mutant: exact strings that are too short are not noticed at the end.
FinishShort ==
  /\ todo = <<>> /\ query = Nil
  /\ LET f == Simplify(heap, Top(0), TRUE)
     IN  heap' = f.h /\ query' = AndTrigramsShort(f.i.match, Elems(f.h, f.i.exact))
  /\ UNCHANGED <<re, todo, stack, shared>>

\* RegexpQuery after analyze.
Finish ==
  /\ todo = <<>> /\ query = Nil
  /\ LET f == Simplify(heap, Top(0), TRUE)
     IN  heap' = f.h /\ query' = AddExact(f.h, f.i)
  /\ UNCHANGED <<re, todo, stack, shared>>

Next ==
  AnalyzeLeaf \/ AnalyzeConcat \/ AnalyzeAlternate \/ AnalyzeQuest \/ AnalyzePlus \/ Finish

Spec == Init /\ [][Next]_vars

-----------------------------------------------------------------------------
(***************************************************************************)
(* What the expressions match.                                             *)
(***************************************************************************)
Concatenations(xs, ys) == {w \in {x \o y : x \in xs, y \in ys} : Len(w) <= MaxWord}

RECURSIVE Words(_)
Words(x) ==
  LET twice(ws) == ws \cup Concatenations(ws, ws)
  IN  CASE x.op = "literal" -> {x.s}
        [] x.op = "class" -> {<<c>> : c \in x.cs}
        [] x.op = "any" -> {<<c>> : c \in Chars}
        [] x.op = "empty" -> {<<>>}
        [] x.op = "none" -> {}
        [] x.op = "concat" -> Concatenations(Words(x.x), Words(x.y))
        [] x.op = "alternate" -> Words(x.x) \cup Words(x.y)
        [] x.op = "quest" -> Words(x.x) \cup {<<>>}
        [] x.op = "plus" -> twice(twice(Words(x.x)))
        [] x.op = "star" -> {<<>>} \cup twice(twice(Words(x.x)))

RECURSIVE Holds(_, _)
Holds(q, w) ==
  CASE q.op = "all" -> TRUE
    [] q.op = "none" -> FALSE
    [] q.op = "and" -> /\ \A i \in DOMAIN q.trigram : \E j \in DOMAIN Trigrams(w) :
                             Trigrams(w)[j] = q.trigram[i]
                       /\ \A i \in DOMAIN q.sub : Holds(q.sub[i], w)
    [] q.op = "or" -> \/ \E i \in DOMAIN q.trigram : \E j \in DOMAIN Trigrams(w) :
                            Trigrams(w)[j] = q.trigram[i]
                      \/ \E i \in DOMAIN q.sub : Holds(q.sub[i], w)

\* An info accounts for a word: the query holds for it, and it is one of the
\* exact strings or begins and ends with a known prefix and suffix.
Accounts(info, w) ==
  /\ Holds(info.match, w)
  /\ IF info.exact # Nil THEN w \in Range(Elems(heap, info.exact))
     ELSE /\ \E i \in 1..Size(info.prefix) : IsPrefix(Elems(heap, info.prefix)[i], w)
          /\ \E i \in 1..Size(info.suffix) : IsSuffix(Elems(heap, info.suffix)[i], w)

\* The comments on the fields of regexpInfo: the info of a subexpression
\* accounts for all it matches, as long as no two sets were in one array.
InfosAccountUnlessShared ==
  ~shared => \A i \in DOMAIN stack :
               \A w \in Words(stack[i].node) : Accounts(stack[i].info, w)

\* The query holds for every text the expression matches, so that no document
\* is lost, as long as no two sets were in one array.
ConservativeUnlessShared ==
  (query # Nil /\ ~shared) => \A w \in Words(re) : Holds(query, w)

\* analyze and RegexpQuery lose no match, as long as no two sets were in one
\* array.
SoundUnlessShared == InfosAccountUnlessShared /\ ConservativeUnlessShared

\* What the comment on Query says, of every expression: its query "matches
\* everything the regexp would match".
QueryIsConservative == query # Nil => \A w \in Words(re) : Holds(query, w)
=============================================================================
