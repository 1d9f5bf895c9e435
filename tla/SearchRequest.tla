---------------------------- MODULE SearchRequest ----------------------------
(***************************************************************************)
(* One call of SearchShard (cmd/cindex-serve/main.go): the shard is loaded *)
(* through the cache, the expression becomes a chain of filters, and the   *)
(* documents that are left are searched for snippets.                      *)
(*                                                                         *)
(* A regular expression is the list of its branches, the preferred ones    *)
(* first: a word, possibly empty, with the assertions of the branch on     *)
(* what stands before and after the word, as ^, $ and \b make them.  Its   *)
(* query asks for the pairs of letters of a word (for the trigrams).  A    *)
(* document is the bytes of a DocInner: a header, the content and padding. *)
(* The cache is the set of blobs it holds for others.                      *)
(***************************************************************************)
EXTENDS Integers, Sequences, FiniteSets, FiniteSetsExt, Functions

CONSTANTS
  Letters,      \* the bytes of words, paths and contents
  Shards,       \* the shards: [inline |-> RawBytes is there, docs |-> sequence of documents]
  Requests,     \* the expressions: for each code its parts, [expr, negated], in order
  Bad,          \* an expression that does not compile
  Edge,         \* what stands before and after the bytes a regexp is given
  Header,       \* the bytes of a DocInner before its content
  Align, Zero,  \* 4, content and padding are a multiple of it; the byte that pads
  MaxDocs,      \* 100, the most documents of an answer
  MaxRanges,    \* bound: the matches of a document that are kept
  Nil

\* The codes of the parts of an expression.
Codes == {"SNIPPET", "MATCH", "FILE", "LANGUAGE"}

\* What can stand before and after a word, and what an expression is: a* has
\* the branches aa, a and the empty word where no text is longer.
Contexts == Letters \cup {Edge}
Branches == [before : SUBSET Contexts, word : Seq(Letters), after : SUBSET Contexts]

ASSUME SearchAssumption ==
  /\ Shards \subseteq
       [inline : BOOLEAN, docs : Seq([path : Seq(Letters), data : Seq(Letters)])]
  /\ Requests \subseteq [Codes -> Seq([expr : {Bad} \cup Seq(Branches), negated : BOOLEAN])]
  /\ Edge \notin Letters
  /\ Header \in Seq(Letters) /\ Header # <<>>
  /\ Align \in Nat \ {0} /\ Zero \in Letters
  /\ MaxDocs \in Nat \ {0}
  /\ MaxRanges \in Nat \ {0}
  /\ \A s \in Shards : \A i \in DOMAIN s.docs : Len(s.docs[i].data) <= MaxRanges
  /\ \A i, j \in 0..MaxRanges : Nil # <<i, j>>
  /\ \A s \in Shards : \A D \in SUBSET (0..Len(s.docs)-1) : Nil # D

VARIABLES
  pc,           \* "idle", "shard", "chain", "filter", "scan", "inspect", "find",
                \* and the ends "done", "failed" and "panic"
  shard, req, cached,
  entries, data, released,   \* of the requestLoader: acquired, got, released
  filters,                   \* the filters still to apply
  post,                      \* the bitmap of documents, Nil before the first
  todo,                      \* the documents a scan or the iteration has to visit, the
                             \* one with the lowest id first
  off, ranges,               \* of the loop over the matches of a document
  resp

vars == <<pc, shard, req, cached, entries, data, released, filters, post, todo, off, ranges, resp>>
loaderVars == <<entries, data, released>>
request == <<shard, req, cached>>

-----------------------------------------------------------------------------
(***************************************************************************)
(* Documents and expressions.  Document ids count from 0.                  *)
(***************************************************************************)
Doc(d) == shard.docs[d + 1]
DocIds == 0..Len(shard.docs)-1
Padding(n) == [i \in 1..((-n) % Align) |-> Zero]
RawOf(d) == Header \o Doc(d).data \o Padding(Len(Doc(d).data))

OccursAt(w, s, i) == i + Len(w) <= Len(s) /\ SubSeq(s, i + 1, i + Len(w)) = w

\* A branch matches at the offset i of s when the regexp is given s[from:].
Preceding(s, from, i) == IF i = from THEN Edge ELSE s[i]
Following(s, i) == IF i = Len(s) THEN Edge ELSE s[i + 1]
BranchAt(b, s, from, i) ==
  /\ OccursAt(b.word, s, i)
  /\ Preceding(s, from, i) \in b.before
  /\ Following(s, i + Len(b.word)) \in b.after

Match(e, s) == \E k \in DOMAIN e, i \in 0..Len(s) : BranchAt(e[k], s, 0, i)

\* The pairs of letters of a word are somewhere in the content of a document.
HasPairs(w, d) ==
  \A i \in 1..Len(w)-1 : \E x \in 0..Len(Doc(d).data) : OccursAt(SubSeq(w, i, i + 1), Doc(d).data, x)

\* The query of the expression is QAll: there is a word without a pair.
QueriesAll(e) == \E k \in DOMAIN e : Len(e[k].word) < 2

\* Mutant: QAll leaves nothing where there is no universe.
PostingQueryEmpty(e, universe) ==
  IF QueriesAll(e) THEN {d \in DocIds : universe # Nil /\ d \in universe}
  ELSE {d \in (IF universe = Nil THEN DocIds ELSE universe) :
          \E k \in DOMAIN e : HasPairs(e[k].word, d)}

\* The documents PostingQuery leaves of a universe, whatever is asserted; QAll
\* leaves the universe as it is, Nil too.
PostingQuery(e, universe) ==
  IF QueriesAll(e) THEN universe
  ELSE {d \in (IF universe = Nil THEN DocIds ELSE universe) :
          \E k \in DOMAIN e : HasPairs(e[k].word, d)}

\* The alternation of the snippet expressions; of none it is empty, and matches
\* the empty string everywhere.
Alternation(exprs) ==
  IF exprs = <<>> THEN << <<[before |-> Contexts, word |-> <<>>, after |-> Contexts]>> >> ELSE exprs

\* The matches a search of s[from:] can find, <<place, expression, branch>>, and
\* which of two it prefers: the one on the left, then the earlier expression of
\* the alternation, then the earlier branch.
Hits(es, s, from) ==
  UNION {{<<i, j, k>> : k \in {x \in DOMAIN es[j] : BranchAt(es[j][x], s, from, i)}} :
           i \in from..Len(s), j \in DOMAIN es}
Ahead(g, h) ==
  \/ g[1] < h[1]
  \/ g[1] = h[1] /\ g[2] < h[2]
  \/ g[1] = h[1] /\ g[2] = h[2] /\ g[3] <= h[3]

\* re.FindIndex(b[off:]) of the alternation, with off added.
FindIndex(exprs, s, from) ==
  LET es == Alternation(exprs)
      hits == Hits(es, s, from)
      hit == CHOOSE h \in hits : \A g \in hits : Ahead(h, g)
  IN  IF hits = {} THEN Nil ELSE <<hit[1], hit[1] + Len(es[hit[2]][hit[3]].word)>>

-----------------------------------------------------------------------------
(***************************************************************************)
(* toFilterChain.                                                          *)
(***************************************************************************)
Exprs(parts) == [i \in DOMAIN parts |-> parts[i].expr]
SnippetExprs == Exprs(req["SNIPPET"])
\* Of a chain that does not fail: no MATCH is negated.
ContentExprs == SnippetExprs \o Exprs(req["MATCH"])

ChainFails ==
  \/ req["LANGUAGE"] # <<>>
  \/ \E code \in Codes : \E i \in DOMAIN req[code] : req[code][i].expr = Bad
  \/ \E code \in {"SNIPPET", "MATCH"} : \E i \in DOMAIN req[code] : req[code][i].negated

\* Mutant: the content is not looked at where the queries have done it.
FilterChainNoContent == [i \in DOMAIN ContentExprs |-> [kind |-> "query", expr |-> ContentExprs[i]]]

\* Queries of the content first, then paths, then the content itself.
FilterChain ==
  LET query == [i \in DOMAIN ContentExprs |-> [kind |-> "query", expr |-> ContentExprs[i]]]
      file == [i \in DOMAIN req["FILE"] |-> [kind |-> "file", expr |-> req["FILE"][i].expr,
                                             match |-> ~req["FILE"][i].negated]]
  IN  query \o file \o (IF ContentExprs = <<>> THEN <<>> ELSE <<[kind |-> "content"]>>)

-----------------------------------------------------------------------------
(***************************************************************************)
(* The loader of the request.                                              *)
(***************************************************************************)
\* Mutant: what the request has got already is not looked up.
AcquiresAgain(key) == entries' = Append(entries, key)

\* Get of a key: it is known to the request, or an entry is acquired, and the
\* bytes are cached or loaded.  Loads fail as they like.
Acquires(key) == entries' = IF key \in data THEN entries ELSE Append(entries, key)
GetOk(key) == Acquires(key) /\ data' = data \cup {key}
GetFails(key) == key \notin data /\ Acquires(key) /\ UNCHANGED data

\* The deferred ReleaseAll, on every return and when a panic unwinds.
ReleaseAll == released' = entries'

Fail(how) == pc' = how /\ ReleaseAll

-----------------------------------------------------------------------------
Init ==
  /\ pc = "idle"
  /\ shard \in Shards /\ req \in Requests
  /\ cached \in SUBSET {shard.docs[i].data : i \in DOMAIN shard.docs}
  /\ entries = <<>> /\ data = {} /\ released = <<>>
  /\ filters = <<>> /\ post = Nil /\ todo = {}
  /\ off = 0 /\ ranges = <<>>
  /\ resp = [docs |-> <<>>, matches |-> 0, inspected |-> 0]

\* The hash in the request has the wrong length.
Reject ==
  /\ pc = "idle"
  /\ pc' = "failed"
  /\ UNCHANGED <<request, loaderVars, filters, post, todo, off, ranges, resp>>

\* The key of the shard itself, unlike those of its documents.
ShardKey == <<"shard">>

LoadShard ==
  /\ pc = "idle"
  /\ \/ GetOk(ShardKey) /\ pc' = "chain" /\ UNCHANGED released
     \/ GetFails(ShardKey) /\ Fail("failed")
  /\ UNCHANGED <<request, filters, post, todo, off, ranges, resp>>

ToFilterChain ==
  /\ pc = "chain"
  /\ IF ChainFails
     THEN /\ UNCHANGED <<entries, data, filters>> /\ Fail("failed")
     ELSE /\ filters' = FilterChain /\ pc' = "filter"
          /\ UNCHANGED loaderVars
  /\ UNCHANGED <<request, post, todo, off, ranges, resp>>

Universe == IF post = Nil THEN DocIds ELSE post

\* queryFilterer and fileFilterer.
ApplyFilter ==
  /\ pc = "filter" /\ filters # <<>> /\ Head(filters).kind # "content"
  /\ post' = IF Head(filters).kind = "query" THEN PostingQuery(Head(filters).expr, post)
             ELSE {d \in Universe : Match(Head(filters).expr, Doc(d).path) = Head(filters).match}
  /\ filters' = Tail(filters)
  /\ UNCHANGED <<pc, request, loaderVars, todo, off, ranges, resp>>

\* contentFilterer, begun; it visits its documents one after the other.
StartScan ==
  /\ pc = "filter" /\ filters # <<>> /\ Head(filters).kind = "content"
  /\ pc' = "scan"
  /\ todo' = Universe
  /\ post' = {}
  /\ filters' = Tail(filters)
  /\ UNCHANGED <<request, loaderVars, off, ranges, resp>>

\* All expressions match the bytes of the document, of which the content is a
\* part: where it begins and ends an assertion sees header and padding.
Keep(d) == \A i \in DOMAIN ContentExprs : Match(ContentExprs[i], RawOf(d))

Scan ==
  /\ pc = "scan" /\ todo # {}
  /\ LET d == Min(todo)
     IN  \/ /\ IF shard.inline THEN UNCHANGED <<entries, data>>
               ELSE GetOk(Doc(d).data)
            /\ post' = IF Keep(d) THEN post \cup {d} ELSE post
            /\ todo' = todo \ {Min(todo)}
            /\ UNCHANGED <<pc, released>>
         \/ /\ ~shard.inline /\ GetFails(Doc(d).data)
            /\ Fail("failed")
            /\ UNCHANGED <<post, todo>>
  /\ UNCHANGED <<request, filters, off, ranges, resp>>

EndScan ==
  /\ pc = "scan" /\ todo = {}
  /\ pc' = "filter"
  /\ UNCHANGED <<request, loaderVars, filters, post, todo, off, ranges, resp>>

\* After the filters: the cardinality of a nil bitmap cannot be asked for.
StartIterate ==
  /\ pc = "filter" /\ filters = <<>>
  /\ IF post = Nil
     THEN UNCHANGED <<entries, data, todo, resp>> /\ Fail("panic")
     ELSE /\ pc' = "inspect"
          /\ resp' = [resp EXCEPT !.matches = Cardinality(post)]
          /\ todo' = post
          /\ UNCHANGED loaderVars
  /\ UNCHANGED <<request, filters, post, off, ranges>>

\* The next document is loaded under a name, id + ".raw", that the storage
\* service refuses: only what the request or the cache has is found.
Inspect ==
  /\ pc = "inspect" /\ todo # {}
  /\ LET key == Doc(Min(todo)).data
     IN  IF shard.inline THEN pc' = "find" /\ UNCHANGED loaderVars
         ELSE IF key \in data \cup cached
         THEN pc' = "find" /\ GetOk(key) /\ UNCHANGED released
         ELSE GetFails(key) /\ Fail("panic")
  /\ resp' = [resp EXCEPT !.inspected = @ + 1]
  /\ off' = 0 /\ ranges' = <<>>
  /\ UNCHANGED <<request, filters, post, todo>>

\* Mutant: the search goes on one byte after the match.
NextOff(pos) == pos[2] + 1

\* Mutant: the search goes on where the match began.
AfterStart(pos) == pos[1]

\* Where the search goes on.
After(pos) == pos[2]

\* One iteration of the loop that finds the matches of a document.
Find ==
  /\ pc = "find"
  /\ LET pos == FindIndex(SnippetExprs, Doc(Min(todo)).data, off)
     IN  /\ pos # Nil
         /\ ranges' = IF Len(ranges) < MaxRanges THEN Append(ranges, pos) ELSE ranges
         /\ off' = After(pos)
  /\ UNCHANGED <<pc, request, loaderVars, filters, post, todo, resp>>

\* Mutant: the document without a match stays counted.
CountedStill(r) == r

\* A document without a match, taken from the count.
Uncounted(r) == [r EXCEPT !.matches = @ - 1]

EndDoc ==
  /\ pc = "find"
  /\ FindIndex(SnippetExprs, Doc(Min(todo)).data, off) = Nil
  /\ resp' = IF ranges = <<>> THEN Uncounted(resp)
             ELSE [resp EXCEPT !.docs = Append(@, [id |-> Min(todo), matches |-> ranges])]
  /\ todo' = todo \ {Min(todo)}
  /\ pc' = IF Len(resp'.docs) < MaxDocs THEN "inspect" ELSE "return"
  /\ UNCHANGED <<request, loaderVars, filters, post, off, ranges>>

Return ==
  /\ pc = "return" \/ (pc = "inspect" /\ todo = {})
  /\ UNCHANGED <<entries, data>>
  /\ Fail("done")
  /\ UNCHANGED <<request, filters, post, todo, off, ranges, resp>>

Next ==
  \/ Reject \/ LoadShard \/ ToFilterChain \/ ApplyFilter \/ StartScan \/ Scan \/ EndScan
  \/ StartIterate \/ Inspect \/ Find \/ EndDoc \/ Return

\* The handler runs until it returns.
Spec == Init /\ [][Next]_vars /\ WF_vars(Next)

-----------------------------------------------------------------------------
\* A match that is there as well when the text is a part of another one: what
\* it asserts, it asserts of bytes of the text, and not of where that begins or
\* ends.
InnerMatch(e, s) ==
  \E k \in DOMAIN e, i \in 0..Len(s) :
    /\ BranchAt(e[k], s, 0, i)
    /\ i = 0 => e[k].before = Contexts
    /\ i + Len(e[k].word) = Len(s) => e[k].after = Contexts

\* The documents the expression asks for, less those that match only because
\* their content begins or ends where it does.  The code leaves these out: it
\* looks for `^package` at the beginning of the DocInner.
Asked(d) ==
  /\ \A i \in DOMAIN ContentExprs : InnerMatch(ContentExprs[i], Doc(d).data)
  /\ \A i \in DOMAIN req["FILE"] :
       Match(req["FILE"][i].expr, Doc(d).path) # req["FILE"][i].negated
Returned == {resp.docs[i].id : i \in DOMAIN resp.docs}

\* What the filters and the limit leave out was not asked for, in the sense of
\* Asked: an answer has every such document, up to the last one it inspected.
AnswerComplete ==
  pc = "done" =>
    \A d \in DocIds : Asked(d) =>
      d \in Returned \/ (Len(resp.docs) = MaxDocs /\ \A r \in Returned : r < d)

\* matches is the number of documents asked for, in the sense of Asked, if it is
\* that of the documents returned, and a bound on it otherwise.
MatchesHonest ==
  pc = "done" =>
    /\ resp.matches >= Len(resp.docs)
    /\ resp.matches >= Cardinality({d \in DocIds : Asked(d)})
    /\ resp.matches = Len(resp.docs) => \A d \in DocIds : Asked(d) => d \in Returned
    /\ resp.inspected = Cardinality(post) => resp.matches = Len(resp.docs)

\* A word found at x overlaps one of the matches, or was missed just after one.
Found(m, x, b) ==
  \E j \in DOMAIN m :
    \/ x < m[j][2] /\ m[j][1] < x + Len(b.word)
    \/ x = m[j][2] /\ Edge \notin b.before

\* The matches of a document do not overlap, and every place where a snippet
\* expression matches a word in the content overlaps one of them.  A place just
\* after a match may be missed by a branch that asserts what stands before it,
\* for the search goes on in b[off:], which has nothing before it.
MatchesCover ==
  pc \in {"inspect", "return", "done"} =>
    \A i \in DOMAIN resp.docs :
      LET m == resp.docs[i].matches
          s == Doc(resp.docs[i].id).data
      IN  /\ \A j \in 1..Len(m)-1 : m[j][2] <= m[j + 1][1]
          /\ \A e \in Range(SnippetExprs), x \in 0..Len(s) : \A b \in Range(e) :
               b.word # <<>> /\ BranchAt(b, s, 0, x) => Found(m, x, b)

\* A request acquires no blob twice, and has released what it acquired when
\* it ends, however it does.
AllReleased ==
  /\ IsInjective(entries)
  /\ pc \in {"done", "failed", "panic"} => released = entries

\* A search is answered if it has a snippet expression and none of them can
\* match the empty string.  The search for the next match goes on where the last
\* one ended, and finds an empty match there again, for ever: of `a*`, `x?`, `\b`
\* or `$`, or of the alternation of no expressions.
NeverEmpty ==
  /\ SnippetExprs # <<>>
  /\ \A e \in Range(SnippetExprs) \ {Bad} : \A b \in Range(e) : b.word # <<>>

SearchAnswers == NeverEmpty => <>(pc \in {"done", "failed"})

\* A search that asks for content does not panic: every document that is left
\* was loaded by the content filter, under the right name, before the handler
\* looks it up under the wrong one.  Only a search of paths can panic.
PanicsOnPathsOnly == pc = "panic" => ContentExprs = <<>>
=============================================================================
