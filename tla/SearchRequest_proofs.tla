------------------------ MODULE SearchRequest_proofs ------------------------
(***************************************************************************)
(* What a search answers, for any shard, expression and limit: of what was *)
(* asked for nothing is left out unnoticed, but what matches only because  *)
(* of where its content begins or ends; the matches cover the occurrences, *)
(* and what the request acquired is released.                              *)
(***************************************************************************)
EXTENDS SearchRequest, TLAPS, SequenceTheorems, FiniteSetTheorems, WellFoundedInduction

Running == {"chain", "filter", "scan", "inspect", "find", "return"}
Ended == {"done", "failed", "panic"}
\* Where documents are inspected, or have been.
Iterating == {"inspect", "find", "return", "done"}

Range2 == Seq(Nat \X Nat)
Keys == {ShardKey} \cup Seq(Letters)

\* The filters toFilterChain can make of the expression.
QueryFilters == {[kind |-> "query", expr |-> ContentExprs[i]] : i \in DOMAIN ContentExprs}
FileFilters ==
  {[kind |-> "file", expr |-> req["FILE"][i].expr, match |-> ~req["FILE"][i].negated] :
     i \in DOMAIN req["FILE"]}
Filters == QueryFilters \cup FileFilters \cup {[kind |-> "content"]}

Typed ==
  /\ pc \in {"idle"} \cup Running \cup Ended
  /\ shard \in Shards /\ req \in Requests
  /\ entries \in Seq(Keys) /\ data \subseteq Keys
  /\ filters \in Seq(Filters)
  /\ post = Nil \/ post \subseteq DocIds
  /\ todo \subseteq DocIds
  /\ off \in Nat /\ ranges \in Range2
  /\ resp \in [docs : Seq([id : Nat, matches : Range2]), matches : Int, inspected : Nat]

\* The requestLoader: what is acquired is got, until a load fails.
LoaderInv ==
  /\ IsInjective(entries)
  /\ pc = "idle" => entries = <<>> /\ released = <<>>
  /\ pc \notin Ended => \A i \in DOMAIN entries : entries[i] \in data
  /\ pc \in Ended => released = entries

\* The chain was made of expressions that compile.
Compiled == pc \notin {"idle", "chain", "failed"} => ~ChainFails

\* The request has the bytes of the documents ds.
Loaded(ds) == \A d \in ds : shard.inline \/ Doc(d).data \in data

\* Where the content is asked for it is looked at, by the last of the filters.
ChainInv ==
  /\ \A i \in DOMAIN filters : filters[i].kind = "content" => i = Len(filters)
  /\ pc = "filter" /\ ContentExprs # <<>> =>
       \/ filters # <<>> /\ filters[Len(filters)].kind = "content"
       \/ post # Nil /\ Loaded(post)
  /\ pc = "scan" => filters = <<>> /\ post # Nil /\ Loaded(post)
  /\ pc \in Iterating => post # Nil /\ (ContentExprs # <<>> => Loaded(todo))
  /\ pc = "panic" => ContentExprs = <<>>

\* A document that is asked for stays among those that are left.
AskedDocs == {d \in DocIds : Asked(d)}

AskedInv ==
  /\ pc \in {"idle", "chain"} => post = Nil
  /\ pc = "filter" /\ post # Nil => AskedDocs \subseteq post
  /\ pc = "scan" => AskedDocs \subseteq post \cup todo
  /\ pc \in Iterating => AskedDocs \subseteq todo \cup Returned

\* The documents are visited in order, until there are MaxDocs to return.
OrderInv ==
  pc \in Iterating =>
    /\ \A r \in Returned, d \in todo : r < d
    /\ \A r \in Returned : r \in DocIds
    /\ pc \in {"inspect", "find"} => Len(resp.docs) < MaxDocs
    /\ pc = "return" => Len(resp.docs) = MaxDocs
    /\ pc = "done" => todo = {} \/ Len(resp.docs) = MaxDocs

CountInv ==
  /\ pc \in Iterating => resp.matches = Len(resp.docs) + Cardinality(todo)
  /\ pc \in Iterating \ {"find"} => resp.inspected = Cardinality(post) - Cardinality(todo)
  /\ pc = "find" => resp.inspected = Cardinality(post) - Cardinality(todo) + 1
  /\ pc \notin Iterating \cup {"panic"} => resp.docs = <<>> /\ resp.inspected = 0

\* The matches m are in order, and every place before an offset where a snippet
\* expression matches a word of s is found.
InOrder(m) == \A j \in 1..Len(m)-1 : m[j][2] <= m[j + 1][1]
Covers(m, s, to) ==
  \A j \in DOMAIN SnippetExprs : \A k \in DOMAIN SnippetExprs[j] : \A x \in 0..to-1 :
    SnippetExprs[j][k].word # <<>> /\ BranchAt(SnippetExprs[j][k], s, 0, x) =>
      Found(m, x, SnippetExprs[j][k])

\* The loop finds an empty match where it stands, and does not move any more.
Stuck == FindIndex(SnippetExprs, Doc(Min(todo)).data, off) = <<off, off>>

FindInv ==
  pc = "find" =>
    /\ todo # {} /\ off <= Len(Doc(Min(todo)).data)
    /\ ranges = <<>> => off = 0
    /\ InOrder(ranges) /\ (ranges # <<>> => ranges[Len(ranges)][2] <= off)
    /\ \/ Stuck
       \/ /\ Len(ranges) <= off /\ Covers(ranges, Doc(Min(todo)).data, off)
          /\ ranges # <<>> => ranges[Len(ranges)][2] = off

DocsInv ==
  \A i \in DOMAIN resp.docs :
    LET s == Doc(resp.docs[i].id).data
    IN  InOrder(resp.docs[i].matches) /\ Covers(resp.docs[i].matches, s, Len(s) + 1)

IInv ==
  /\ Typed /\ LoaderInv /\ Compiled /\ ChainInv
  /\ AskedInv /\ OrderInv /\ CountInv /\ FindInv /\ DocsInv

-----------------------------------------------------------------------------
(***************************************************************************)
(* Least elements, words and documents.                                    *)
(***************************************************************************)
LEMMA LeastNat ==
  ASSUME NEW S \in SUBSET Nat, S # {}
  PROVE  \E x \in S : \A y \in S : x <= y
<1> DEFINE R == OpToRel(<, Nat)
<1>1. PICK x \in S : \A y \in S : ~(<<y, x>> \in R)
  BY NatLessThanWellFounded, WFMin
<1>2. \A y \in S : ~(y < x)
  BY <1>1 DEF OpToRel
<1> QED
  BY <1>2

LEMMA MinIsLeast ==
  ASSUME NEW S \in SUBSET Nat, S # {}
  PROVE  Min(S) \in S /\ \A y \in S : Min(S) <= y
BY LeastNat DEF Min

\* What is known of the documents of the shard.
LEMMA DocTypes ==
  ASSUME Typed
  PROVE  /\ IsFiniteSet(DocIds) /\ DocIds \subseteq Nat
         /\ \A d \in DocIds : /\ Doc(d).data \in Seq(Letters) /\ Doc(d).path \in Seq(Letters)
                              /\ Len(Doc(d).data) <= MaxRanges
<1>1. shard \in [inline : BOOLEAN, docs : Seq([path : Seq(Letters), data : Seq(Letters)])]
  BY SearchAssumption DEF Typed
<1>2. Len(shard.docs) \in Nat /\ DOMAIN shard.docs = 1..Len(shard.docs)
  BY <1>1
<1>3. IsFiniteSet(DocIds)
  BY <1>2, FS_Interval DEF DocIds
<1>4. DocIds \subseteq Nat /\ \A d \in DocIds : d + 1 \in DOMAIN shard.docs
  BY <1>2 DEF DocIds
<1>5. ASSUME NEW d \in DocIds
      PROVE  /\ Doc(d).data \in Seq(Letters) /\ Doc(d).path \in Seq(Letters)
             /\ Len(Doc(d).data) <= MaxRanges
  <2>1. shard.docs[d + 1] \in [path : Seq(Letters), data : Seq(Letters)]
    <3> DEFINE R == [path : Seq(Letters), data : Seq(Letters)]
    <3>1. shard.docs \in Seq(R)
      BY <1>1
    <3> HIDE DEF R
    <3>2. shard.docs[d + 1] \in R
      BY <1>4, <3>1
    <3> QED
      BY <3>2 DEF R
  <2>2. Len(shard.docs[d + 1].data) <= MaxRanges
    BY <1>4, SearchAssumption DEF Typed
  <2> QED
    BY <2>1, <2>2 DEF Doc
<1> QED
  BY <1>3, <1>4, <1>5

\* A chain that does not fail is made of words.
LEMMA ExprTypes ==
  ASSUME Typed, ~ChainFails
  PROVE  /\ SnippetExprs \in Seq(Seq(Branches)) /\ ContentExprs \in Seq(Seq(Branches))
         /\ \A i \in DOMAIN req["FILE"] : req["FILE"][i].expr \in Seq(Branches)
         /\ \A i \in DOMAIN SnippetExprs :
              i \in DOMAIN ContentExprs /\ ContentExprs[i] = SnippetExprs[i]
<1>1. \A code \in Codes :
        req[code] \in Seq([expr : {Bad} \cup Seq(Branches), negated : BOOLEAN])
  BY SearchAssumption DEF Typed
<1>2. \A code \in Codes : \A i \in DOMAIN req[code] : req[code][i].expr \in Seq(Branches)
  <2> SUFFICES ASSUME NEW code \in Codes, NEW i \in DOMAIN req[code]
               PROVE  req[code][i].expr \in Seq(Branches)
    OBVIOUS
  <2> DEFINE R == [expr : {Bad} \cup Seq(Branches), negated : BOOLEAN]
  <2>1. req[code] \in Seq(R)
    BY <1>1
  <2> HIDE DEF R
  <2>2. req[code][i] \in R
    BY <2>1
  <2>3. req[code][i].expr # Bad
    BY DEF ChainFails
  <2> QED
    BY <2>2, <2>3 DEF R
<1>3. "SNIPPET" \in Codes /\ "MATCH" \in Codes /\ "FILE" \in Codes
  BY DEF Codes
<1>4. \A code \in Codes : Exprs(req[code]) \in Seq(Seq(Branches))
  BY <1>1, <1>2 DEF Exprs
<1>5. SnippetExprs \in Seq(Seq(Branches)) /\ Exprs(req["MATCH"]) \in Seq(Seq(Branches))
  BY <1>3, <1>4 DEF SnippetExprs
<1>6. /\ ContentExprs \in Seq(Seq(Branches))
      /\ \A i \in DOMAIN SnippetExprs :
           i \in DOMAIN ContentExprs /\ ContentExprs[i] = SnippetExprs[i]
  BY <1>5 DEF ContentExprs
<1> QED
  BY <1>2, <1>3, <1>5, <1>6

LEMMA OccursElementwise ==
  ASSUME NEW w \in Seq(Letters), NEW s \in Seq(Letters), NEW x \in Nat
  PROVE  OccursAt(w, s, x) <=>
           x + Len(w) <= Len(s) /\ \A k \in 1..Len(w) : s[x + k] = w[k]
<1> DEFINE v == SubSeq(s, x + 1, x + Len(w))
<1>1. Len(w) \in Nat /\ Len(s) \in Nat
  OBVIOUS
<1> SUFFICES ASSUME x + Len(w) <= Len(s)
             PROVE  v = w <=> \A k \in 1..Len(w) : s[x + k] = w[k]
  BY DEF OccursAt
<1>2. /\ v \in Seq(Letters) /\ Len(v) = Len(w)
      /\ \A k \in 1..Len(w) : v[k] = s[x + k]
  BY <1>1
<1>3. v = w => \A k \in 1..Len(w) : s[x + k] = w[k]
  BY <1>2
<1>4. (\A k \in 1..Len(w) : s[x + k] = w[k]) => v = w
  <2> HIDE DEF v
  <2> QED
    BY <1>1, <1>2, SeqEqual
<1> QED
  BY <1>3, <1>4

\* The branches of an expression are words in contexts.
LEMMA BranchTypes ==
  ASSUME NEW e \in Seq(Branches), NEW k \in DOMAIN e
  PROVE  /\ e[k] \in Branches /\ e[k].word \in Seq(Letters) /\ Len(e[k].word) \in Nat
         /\ e[k].word # <<>> => Len(e[k].word) # 0
<1>1. e[k] \in Branches
  OBVIOUS
<1>2. e[k].word \in Seq(Letters)
  BY <1>1 DEF Branches
<1> QED
  BY <1>1, <1>2

LEMMA PairLetters ==
  ASSUME NEW w \in Seq(Letters), NEW i \in 1..Len(w)-1
  PROVE  LET p == SubSeq(w, i, i + 1)
         IN  p \in Seq(Letters) /\ Len(p) = 2 /\ \A k \in 1..2 : p[k] = w[i + k - 1]
<1> DEFINE p == SubSeq(w, i, i + 1)
<1>1. Len(w) \in Nat /\ i \in Nat /\ i \in 1..Len(w) /\ i + 1 \in 1..Len(w)
  OBVIOUS
<1>2. \A k \in i..i+1 : w[k] \in Letters
  BY <1>1
<1>3. p \in Seq(Letters) /\ Len(p) = 2
  BY <1>1, <1>2
<1>4. p[1] = w[i] /\ p[2] = w[i + 1]
  BY <1>1
<1> HIDE DEF p
<1>5. \A k \in 1..2 : k = 1 \/ k = 2
  OBVIOUS
<1>6. i + 1 - 1 = i /\ i + 2 - 1 = i + 1
  BY <1>1
<1>7. \A k \in 1..2 : p[k] = w[i + k - 1]
  BY <1>4, <1>5, <1>6
<1> QED
  BY <1>3, <1>7 DEF p

\* Every pair of letters of a word occurs where the word does.
LEMMA PairOccurs ==
  ASSUME NEW w \in Seq(Letters), NEW s \in Seq(Letters),
         NEW x \in 0..Len(s), OccursAt(w, s, x), NEW i \in 1..Len(w)-1
  PROVE  \E y \in 0..Len(s) : OccursAt(SubSeq(w, i, i + 1), s, y)
<1> DEFINE p == SubSeq(w, i, i + 1)
<1>1. Len(w) \in Nat /\ Len(s) \in Nat /\ i \in Nat
  OBVIOUS
<1>2. x \in Nat /\ x + Len(w) <= Len(s) /\ \A k \in 1..Len(w) : s[x + k] = w[k]
  BY OccursElementwise
<1>3. p \in Seq(Letters) /\ Len(p) = 2 /\ \A k \in 1..2 : p[k] = w[i + k - 1]
  BY PairLetters
<1> DEFINE y == x + i - 1
<1>4. y \in 0..Len(s) /\ y \in Nat /\ y + 2 <= Len(s)
  BY <1>1, <1>2
<1>5. \A k \in 1..2 : s[y + k] = p[k]
  <2> SUFFICES ASSUME NEW k \in 1..2 PROVE s[y + k] = p[k]
    OBVIOUS
  <2>1. i + k - 1 \in 1..Len(w) /\ x + (i + k - 1) = y + k
    BY <1>1, <1>2
  <2> QED
    BY <1>2, <1>3, <2>1
<1>6. OccursAt(p, s, y)
  <2> HIDE DEF p, y
  <2> QED
    BY <1>3, <1>4, <1>5, OccursElementwise
<1> QED
  BY <1>4, <1>6

LEMMA Parts ==
  ASSUME NEW h \in Seq(Letters), NEW s \in Seq(Letters), NEW p \in Seq(Letters)
  PROVE  LET t == h \o s \o p
         IN  /\ t \in Seq(Letters) /\ Len(t) = Len(h) + Len(s) + Len(p)
             /\ \A l \in 1..Len(s) : t[Len(h) + l] = s[l]
<1> DEFINE u == h \o s
<1>1. Len(s) \in Nat /\ Len(h) \in Nat /\ Len(p) \in Nat
  OBVIOUS
<1>2. /\ u \in Seq(Letters) /\ Len(u) = Len(h) + Len(s)
      /\ \A l \in 1..Len(s) : u[Len(h) + l] = s[l]
  BY <1>1
<1>3. h \o s \o p = u \o p
  OBVIOUS
<1> HIDE DEF u
<1> DEFINE t == u \o p
<1>4. /\ t \in Seq(Letters) /\ Len(t) = Len(u) + Len(p)
      /\ \A l \in 1..Len(u) : t[l] = u[l]
  <2>1. u \in Seq(Letters) /\ Len(u) \in Nat
    BY <1>1, <1>2
  <2>2. /\ u \o p \in Seq(Letters) /\ Len(u \o p) = Len(u) + Len(p)
        /\ \A l \in 1..Len(u) + Len(p) : (u \o p)[l] = IF l <= Len(u) THEN u[l] ELSE p[l - Len(u)]
    BY <2>1, ConcatProperties
  <2> HIDE DEF t
  <2>3. /\ t \in Seq(Letters) /\ Len(t) = Len(u) + Len(p)
        /\ \A l \in 1..Len(u) + Len(p) : t[l] = IF l <= Len(u) THEN u[l] ELSE p[l - Len(u)]
    BY <2>2 DEF t
  <2>4. \A l \in 1..Len(u) : l \in 1..Len(u) + Len(p) /\ l <= Len(u)
    BY <1>1, <2>1
  <2> QED
    BY <2>3, <2>4
<1> HIDE DEF t
<1>5. ASSUME NEW l \in 1..Len(s) PROVE t[Len(h) + l] = s[l]
  <2>1. Len(h) + l \in 1..Len(u)
    BY <1>1, <1>2
  <2> QED
    BY <1>2, <1>4, <2>1
<1> QED
  BY <1>1, <1>2, <1>3, <1>4, <1>5 DEF t

\* The text t has s after its first b bytes.
Embeds(t, s, b) == b + Len(s) <= Len(t) /\ \A l \in 1..Len(s) : t[b + l] = s[l]

\* A word of the content within a longer text: what stands before and after it
\* is the same, but where the content begins and ends.
LEMMA WordWithin ==
  ASSUME NEW w \in Seq(Letters), NEW s \in Seq(Letters), NEW x \in 0..Len(s), OccursAt(w, s, x),
         NEW t \in Seq(Letters), NEW b \in Nat \ {0}, Embeds(t, s, b)
  PROVE  /\ b + x \in 0..Len(t) /\ OccursAt(w, t, b + x)
         /\ Preceding(t, 0, b + x) \in Contexts
         /\ x # 0 => Preceding(t, 0, b + x) = Preceding(s, 0, x)
         /\ Following(t, b + x + Len(w)) \in Contexts
         /\ x + Len(w) # Len(s) => Following(t, b + x + Len(w)) = Following(s, x + Len(w))
<1>1. Len(s) \in Nat /\ Len(t) \in Nat /\ Len(w) \in Nat
  OBVIOUS
<1>2. x \in Nat /\ x + Len(w) <= Len(s) /\ \A l \in 1..Len(w) : s[x + l] = w[l]
  BY OccursElementwise
<1> DEFINE y == b + x
           z == x + Len(w)
<1>3. b + Len(s) <= Len(t) /\ \A l \in 1..Len(s) : t[b + l] = s[l]
  BY DEF Embeds
<1>4. y \in Nat /\ y # 0 /\ y \in 1..Len(t) /\ y + Len(w) <= Len(t) /\ y + Len(w) = b + z
  BY <1>1, <1>2, <1>3
<1>5. z \in Nat /\ z <= Len(s)
  BY <1>1, <1>2
<1>6. \A l \in 1..Len(w) : t[y + l] = w[l]
  <2> SUFFICES ASSUME NEW l \in 1..Len(w) PROVE t[y + l] = w[l]
    OBVIOUS
  <2>1. x + l \in 1..Len(s) /\ b + (x + l) = y + l
    BY <1>1, <1>2
  <2>2. t[b + (x + l)] = s[x + l]
    BY <1>3, <2>1
  <2> QED
    BY <1>2, <2>1, <2>2
<1>7. x # 0 => t[y] = s[x]
  <2> SUFFICES ASSUME x # 0 PROVE t[y] = s[x]
    OBVIOUS
  <2>1. x \in 1..Len(s)
    BY <1>1, <1>2
  <2> QED
    BY <1>3, <2>1
<1>8. z # Len(s) => b + z # Len(t) /\ t[(b + z) + 1] = s[z + 1]
  <2> SUFFICES ASSUME z # Len(s) PROVE b + z # Len(t) /\ t[(b + z) + 1] = s[z + 1]
    OBVIOUS
  <2> HIDE DEF z
  <2>1. z + 1 \in 1..Len(s) /\ (b + z) + 1 = b + (z + 1) /\ b + z # Len(t)
    BY <1>1, <1>5, <1>3
  <2> QED
    BY <1>3, <2>1
<1>9. b + z # Len(t) => t[(b + z) + 1] \in Letters
  <2> HIDE DEF z
  <2>1. b + z # Len(t) => (b + z) + 1 \in 1..Len(t)
    BY <1>1, <1>5, <1>3
  <2> QED
    BY <2>1
<1> HIDE DEF y, z
<1>10. OccursAt(w, t, y)
  BY <1>4, <1>6, OccursElementwise
<1>11. Preceding(t, 0, y) = t[y] /\ t[y] \in Letters
  BY <1>4 DEF Preceding
<1>12. x # 0 => Preceding(s, 0, x) = s[x]
  BY DEF Preceding
<1>13. Following(t, y + Len(w)) = Following(t, b + z)
  BY <1>4
<1>14. Following(t, b + z) \in Contexts /\ (z # Len(s) => Following(t, b + z) = Following(s, z))
  BY <1>8, <1>9 DEF Following, Contexts
<1> QED
  BY <1>4, <1>7, <1>10, <1>11, <1>12, <1>13, <1>14 DEF Contexts, y, z

\* What matches the content matches the bytes of the DocInner, unless it does
\* for where the content begins or ends.
LEMMA MatchWithin ==
  ASSUME NEW e \in Seq(Branches), NEW s \in Seq(Letters), InnerMatch(e, s),
         NEW h \in Seq(Letters), h # <<>>, NEW p \in Seq(Letters)
  PROVE  Match(e, h \o s \o p)
<1> DEFINE t == h \o s \o p
<1>1. PICK k \in DOMAIN e, x \in 0..Len(s) :
        /\ BranchAt(e[k], s, 0, x)
        /\ x = 0 => e[k].before = Contexts
        /\ x + Len(e[k].word) = Len(s) => e[k].after = Contexts
  BY DEF InnerMatch
<1>2. /\ t \in Seq(Letters) /\ Len(t) = Len(h) + Len(s) + Len(p)
      /\ \A l \in 1..Len(s) : t[Len(h) + l] = s[l]
  BY Parts
<1> HIDE DEF t
<1> DEFINE w == e[k].word
           b == Len(h)
<1>3. w \in Seq(Letters) /\ OccursAt(w, s, x)
  BY <1>1, BranchTypes DEF BranchAt
<1>4. b \in Nat \ {0} /\ Embeds(t, s, b)
  <2>1. Len(h) \in Nat \ {0} /\ Len(s) \in Nat /\ Len(p) \in Nat
    OBVIOUS
  <2> QED
    BY <1>2, <2>1 DEF Embeds
<1> HIDE DEF w, b
<1>5. /\ b + x \in 0..Len(t) /\ OccursAt(w, t, b + x)
      /\ Preceding(t, 0, b + x) \in Contexts
      /\ x # 0 => Preceding(t, 0, b + x) = Preceding(s, 0, x)
      /\ Following(t, b + x + Len(w)) \in Contexts
      /\ x + Len(w) # Len(s) => Following(t, b + x + Len(w)) = Following(s, x + Len(w))
  BY <1>2, <1>3, <1>4, WordWithin
<1>6. BranchAt(e[k], t, 0, b + x)
  BY <1>1, <1>5 DEF BranchAt, w
<1> QED
  BY <1>5, <1>6 DEF Match, t

\* The padding is bytes as well.
LEMMA PaddingType == ASSUME NEW n \in Nat PROVE Padding(n) \in Seq(Letters)
<1>1. (-n) % Align \in Nat
  BY SearchAssumption
<1> QED
  BY <1>1, SearchAssumption DEF Padding

\* The alternation is made of expressions.
LEMMA AlternationType ==
  ASSUME NEW exprs \in Seq(Seq(Branches))
  PROVE  Alternation(exprs) \in Seq(Seq(Branches))
<1> DEFINE b == [before |-> Contexts, word |-> <<>>, after |-> Contexts]
<1>1. b \in Branches
  BY DEF Branches
<1> HIDE DEF b
<1>2. <<b>> \in Seq(Branches)
  BY <1>1
<1> DEFINE e == <<b>>
<1>3. e \in Seq(Branches)
  BY <1>2
<1>4. Alternation(exprs) = IF exprs = <<>> THEN <<e>> ELSE exprs
  BY DEF Alternation, b
<1> HIDE DEF e
<1>5. <<e>> \in Seq(Seq(Branches))
  BY <1>3
<1> QED
  BY <1>4, <1>5

\* FindIndex gives nothing where no branch matches, and else the leftmost place
\* where one does.
NoneIn(es, s, from, places) ==
  \A j \in DOMAIN es : \A k \in DOMAIN es[j] : \A x \in places : ~BranchAt(es[j][k], s, from, x)

LEMMA Finding ==
  ASSUME NEW exprs \in Seq(Seq(Branches)), NEW s \in Seq(Letters), NEW from \in Nat,
         Len(s) <= MaxRanges
  PROVE  \/ /\ FindIndex(exprs, s, from) = Nil
            /\ NoneIn(Alternation(exprs), s, from, from..Len(s))
         \/ \E i, to \in from..Len(s) :
              /\ FindIndex(exprs, s, from) = <<i, to>> /\ i <= to /\ <<i, to>> # Nil
              /\ NoneIn(Alternation(exprs), s, from, from..i-1)
<1> DEFINE es == Alternation(exprs)
           hits == Hits(es, s, from)
           hit == CHOOSE h \in hits : \A g \in hits : Ahead(h, g)
<1>1. es \in Seq(Seq(Branches)) /\ Len(s) \in Nat
  BY AlternationType
<1>2. FindIndex(exprs, s, from) =
        IF hits = {} THEN Nil ELSE <<hit[1], hit[1] + Len(es[hit[2]][hit[3]].word)>>
  BY DEF FindIndex
<1> HIDE DEF es
<1> DEFINE At(i, j) == {<<i, j, k>> : k \in {x \in DOMAIN es[j] : BranchAt(es[j][x], s, from, i)}}
<1>3. hits = UNION {At(i, j) : i \in from..Len(s), j \in DOMAIN es}
  BY DEF Hits
<1>4. \A i, j, h : h \in At(i, j) <=>
        \E k \in DOMAIN es[j] : h = <<i, j, k>> /\ BranchAt(es[j][k], s, from, i)
  OBVIOUS
<1> HIDE DEF At
<1>5. \A i \in from..Len(s) : \A j \in DOMAIN es : \A k \in DOMAIN es[j] :
        BranchAt(es[j][k], s, from, i) => <<i, j, k>> \in hits
  <2> SUFFICES ASSUME NEW i \in from..Len(s), NEW j \in DOMAIN es, NEW k \in DOMAIN es[j],
                      BranchAt(es[j][k], s, from, i)
               PROVE  <<i, j, k>> \in hits
    OBVIOUS
  <2>1. <<i, j, k>> \in At(i, j)
    BY <1>4
  <2> HIDE DEF hits
  <2> QED
    BY <1>3, <2>1
<1>6. \A h \in hits : \E i \in from..Len(s) : \E j \in DOMAIN es : \E k \in DOMAIN es[j] :
        h = <<i, j, k>> /\ BranchAt(es[j][k], s, from, i)
  BY <1>3, <1>4
<1> HIDE DEF hits
<1>7. CASE hits = {}
  BY <1>2, <1>5, <1>7 DEF NoneIn, es
<1>8. CASE hits # {}
  <2>1. hit \in hits /\ \A g \in hits : Ahead(hit, g)
    <3>1. \E h \in hits : \A g \in hits : Ahead(h, g)
      <4>1. ASSUME NEW h \in hits
            PROVE  /\ h[1] \in Nat /\ h[2] \in Nat /\ h[3] \in Nat /\ h = <<h[1], h[2], h[3]>>
        <5>1. PICK i \in from..Len(s), j \in DOMAIN es : \E k \in DOMAIN es[j] : h = <<i, j, k>>
          BY <1>6
        <5>2. es[j] \in Seq(Branches)
          BY <1>1
        <5>3. i \in Nat /\ j \in Nat /\ DOMAIN es[j] \subseteq Nat
          BY <1>1, <5>2
        <5> QED
          BY <5>1, <5>3
      <4> DEFINE I == {h[1] : h \in hits}
      <4>2. PICK i \in I : \A x \in I : i <= x
        <5>1. I \in SUBSET Nat /\ I # {}
          BY <1>8, <4>1
        <5> HIDE DEF I
        <5> QED
          BY <5>1, LeastNat
      <4> DEFINE J == {h[2] : h \in {g \in hits : g[1] = i}}
      <4>3. PICK j \in J : \A x \in J : j <= x
        <5>1. J \in SUBSET Nat /\ J # {}
          BY <4>1, <4>2
        <5> HIDE DEF J
        <5> QED
          BY <5>1, LeastNat
      <4> DEFINE K == {h[3] : h \in {g \in hits : g[1] = i /\ g[2] = j}}
      <4>4. PICK k \in K : \A x \in K : k <= x
        <5>1. K \in SUBSET Nat /\ K # {}
          BY <4>1, <4>3
        <5> HIDE DEF K
        <5> QED
          BY <5>1, LeastNat
      <4>5. PICK h \in hits : h[1] = i /\ h[2] = j /\ h[3] = k
        BY <4>4
      <4>6. ASSUME NEW g \in hits PROVE Ahead(h, g)
        <5>1. g[1] \in I /\ i <= g[1]
          BY <4>2
        <5>2. g[1] = i => j <= g[2]
          BY <4>3
        <5>3. g[1] = i /\ g[2] = j => k <= g[3]
          BY <4>4
        <5>4. g[1] \in Nat /\ g[2] \in Nat /\ g[3] \in Nat /\ i \in Nat /\ j \in Nat /\ k \in Nat
          BY <4>1, <4>5
        <5> QED
          BY <4>5, <5>1, <5>2, <5>3, <5>4 DEF Ahead
      <4> QED
        BY <4>6
    <3> QED
      BY <3>1
  <2> HIDE DEF hit
  <2>2. PICK i \in from..Len(s), j \in DOMAIN es : \E k \in DOMAIN es[j] :
          hit = <<i, j, k>> /\ BranchAt(es[j][k], s, from, i)
    BY <1>6, <2>1
  <2>3. PICK k \in DOMAIN es[j] : hit = <<i, j, k>> /\ BranchAt(es[j][k], s, from, i)
    BY <2>2
  <2> DEFINE to == i + Len(es[j][k].word)
  <2>4. /\ i \in Nat /\ Len(es[j][k].word) \in Nat /\ to <= Len(s) /\ to \in from..Len(s)
        /\ i <= to
    <3>1. es[j] \in Seq(Branches)
      BY <1>1
    <3>2. Len(es[j][k].word) \in Nat
      BY <3>1, BranchTypes
    <3>3. to <= Len(s)
      BY <2>3 DEF BranchAt, OccursAt
    <3> QED
      BY <1>1, <3>2, <3>3
  <2>5. FindIndex(exprs, s, from) = <<i, to>>
    BY <1>2, <1>8, <2>3
  <2>6. <<i, to>> # Nil
    <3> HIDE DEF to
    <3>1. to \in Nat /\ i \in Nat /\ i <= Len(s) /\ to <= Len(s) /\ MaxRanges \in Nat
      BY <1>1, <2>4, SearchAssumption
    <3>2. i \in 0..MaxRanges /\ to \in 0..MaxRanges
      BY <1>1, <3>1
    <3> QED
      BY <3>2, SearchAssumption
  <2>7. NoneIn(es, s, from, from..i-1)
    <3> SUFFICES ASSUME NEW l \in DOMAIN es, NEW m \in DOMAIN es[l], NEW x \in from..i-1,
                        BranchAt(es[l][m], s, from, x)
                 PROVE  FALSE
      BY DEF NoneIn
    <3>1. x \in from..Len(s) /\ x < i
      BY <1>1, <2>4
    <3>2. <<x, l, m>> \in hits
      BY <1>5, <3>1
    <3>3. Ahead(<<i, j, k>>, <<x, l, m>>)
      BY <2>1, <2>3, <3>2
    <3>4. i < x \/ i = x
      BY <3>3 DEF Ahead
    <3> QED
      BY <2>4, <3>1, <3>4
  <2> HIDE DEF to
  <2> QED
    BY <2>4, <2>5, <2>6, <2>7 DEF es
<1> QED
  BY <1>7, <1>8

\* Where the search goes on a place is missed only for what stands before it.
LEMMA Gap ==
  ASSUME NEW b, NEW s, NEW from \in Nat, NEW x \in Nat, from <= x,
         BranchAt(b, s, 0, x), ~BranchAt(b, s, from, x)
  PROVE  x = from /\ from # 0 /\ Edge \notin b.before
BY DEF BranchAt, Preceding

-----------------------------------------------------------------------------
(***************************************************************************)
(* What the steps have in common.                                          *)
(***************************************************************************)
\* The shard and the expression never change.
LEMMA Frame ==
  ASSUME UNCHANGED <<shard, req>>
  PROVE  /\ DocIds' = DocIds /\ SnippetExprs' = SnippetExprs /\ ContentExprs' = ContentExprs
         /\ Filters' = Filters /\ AskedDocs' = AskedDocs
         /\ ChainFails' = ChainFails
         /\ \A d : Doc(d)' = Doc(d)
<1>1. DocIds' = DocIds /\ SnippetExprs' = SnippetExprs /\ ContentExprs' = ContentExprs
  BY DEF DocIds, SnippetExprs, ContentExprs
<1>2. Filters' = Filters
  BY <1>1 DEF Filters, QueryFilters, FileFilters
<1>3. \A d : Doc(d)' = Doc(d)
  BY DEF Doc
<1>4. AskedDocs' = AskedDocs
  BY <1>1, <1>3 DEF AskedDocs, Asked
<1>5. ChainFails' = ChainFails
  BY <1>1 DEF ChainFails
<1> QED
  BY <1>1, <1>2, <1>3, <1>4, <1>5

LEMMA DocsStay ==
  ASSUME DocsInv, UNCHANGED <<shard, req>>, resp'.docs = resp.docs
  PROVE  DocsInv'
BY Frame DEF DocsInv, Covers, Doc

\* No set of documents is Nil.
LEMMA NotNil ==
  ASSUME Typed, NEW S \in SUBSET DocIds
  PROVE  S # Nil
BY SearchAssumption DEF Typed, DocIds

\* A blob that is got is acquired once, and one that cannot be loaded too.
LEMMA GetOkLoads ==
  ASSUME Typed, LoaderInv, pc \notin Ended, pc' \in Running,
         NEW key \in Keys, GetOk(key)
  PROVE  /\ LoaderInv' /\ entries' \in Seq(Keys) /\ data' \subseteq Keys
         /\ data \subseteq data' /\ key \in data'
<1>1. entries \in Seq(Keys) /\ data' = data \cup {key} /\ data \subseteq Keys
  BY DEF GetOk, Typed
<1>2. \A i \in DOMAIN entries : entries[i] \in data
  BY DEF LoaderInv
<1>3. CASE entries' = entries
  BY <1>1, <1>2, <1>3 DEF LoaderInv, Running, Ended, IsInjective
<1>4. CASE key \notin data /\ entries' = Append(entries, key)
  <2>1. entries' \in Seq(Keys) /\ Len(entries') = Len(entries) + 1 /\ entries'[Len(entries')] = key
    BY <1>1, <1>4
  <2>2. \A i \in DOMAIN entries' : i \in DOMAIN entries \/ i = Len(entries')
    BY <1>1, <1>4
  <2>3. \A i \in DOMAIN entries : entries'[i] = entries[i]
    BY <1>1, <1>4
  <2>4. IsInjective(entries)'
    BY <1>2, <1>4, <2>1, <2>2, <2>3 DEF IsInjective, LoaderInv
  <2>5. \A i \in DOMAIN entries' : entries'[i] \in data'
    BY <1>1, <1>2, <2>1, <2>2, <2>3
  <2> QED
    BY <1>1, <2>1, <2>4, <2>5 DEF LoaderInv, Running, Ended
<1> QED
  BY <1>3, <1>4 DEF GetOk, Acquires

LEMMA GetFailsLoads ==
  ASSUME Typed, LoaderInv, pc \notin Ended, pc' \in {"failed", "panic"},
         NEW key \in Keys, GetFails(key), ReleaseAll
  PROVE  LoaderInv' /\ entries' \in Seq(Keys) /\ data' \subseteq Keys
<1>1. entries \in Seq(Keys) /\ data' = data /\ data \subseteq Keys /\ released' = entries'
  BY DEF GetFails, Typed, ReleaseAll
<1>2. \A i \in DOMAIN entries : entries[i] \in data
  BY DEF LoaderInv
<1>3. key \notin data /\ entries' = Append(entries, key)
  BY DEF GetFails, Acquires
<1>4. entries' \in Seq(Keys) /\ Len(entries') = Len(entries) + 1 /\ entries'[Len(entries')] = key
  BY <1>1, <1>3
<1>5. \A i \in DOMAIN entries' : i \in DOMAIN entries \/ i = Len(entries')
  BY <1>1, <1>3
<1>6. \A i \in DOMAIN entries : entries'[i] = entries[i]
  BY <1>1, <1>3
<1>7. IsInjective(entries)'
  BY <1>2, <1>3, <1>4, <1>5, <1>6 DEF IsInjective, LoaderInv
<1> QED
  BY <1>1, <1>4, <1>7 DEF LoaderInv, Ended

\* A step that acquires nothing, and releases only where it ends.
LEMMA LoaderStays ==
  ASSUME Typed, LoaderInv, pc \notin Ended, UNCHANGED <<entries, data>>,
         \/ pc' \in Running /\ UNCHANGED released
         \/ pc' \in Ended /\ released' = entries'
  PROVE  LoaderInv' /\ entries' \in Seq(Keys) /\ data' \subseteq Keys
BY DEF Typed, LoaderInv, Running, Ended

\* An error before the documents are inspected.
LEMMA FailStep ==
  ASSUME IInv, pc \in {"idle", "chain", "scan"}, pc' = "failed",
         UNCHANGED <<shard, req, filters, post, todo, off, ranges, resp>>,
         LoaderInv', entries' \in Seq(Keys), data' \subseteq Keys
  PROVE  IInv'
<1>1. Typed'
  BY Frame DEF IInv, Typed, Ended
<1>2. Compiled' /\ ChainInv' /\ AskedInv' /\ OrderInv' /\ FindInv'
  BY DEF IInv, ChainInv, Compiled, AskedInv, OrderInv, FindInv, Iterating
<1>3. CountInv'
  BY DEF IInv, CountInv, Iterating
<1>4. DocsInv'
  BY DocsStay DEF IInv
<1> QED
  BY <1>1, <1>2, <1>3, <1>4 DEF IInv

-----------------------------------------------------------------------------
(***************************************************************************)
(* Up to the filters.                                                      *)
(***************************************************************************)
LEMMA InitIInv == Init => IInv
<1> SUFFICES ASSUME Init PROVE IInv
  OBVIOUS
<1>1. pc = "idle" /\ shard \in Shards /\ req \in Requests
  BY DEF Init
<1>2. Typed
  BY <1>1 DEF Init, Typed, Range2
<1>3. LoaderInv
  BY DEF Init, LoaderInv, IsInjective, Ended
<1>4. Compiled /\ ChainInv /\ AskedInv /\ OrderInv /\ FindInv
  BY DEF Init, ChainInv, Compiled, AskedInv, OrderInv, FindInv, Iterating
<1>5. CountInv /\ DocsInv
  BY DEF Init, CountInv, DocsInv, Iterating
<1> QED
  BY <1>2, <1>3, <1>4, <1>5 DEF IInv

LEMMA RejectStep == ASSUME IInv, Reject PROVE IInv'
<1>1. /\ pc = "idle" /\ pc' = "failed"
      /\ UNCHANGED <<shard, req, entries, data, released, filters, post, todo, off, ranges, resp>>
  BY DEF Reject, request, loaderVars
<1>2. LoaderInv' /\ entries' \in Seq(Keys) /\ data' \subseteq Keys
  BY <1>1, LoaderStays DEF IInv, LoaderInv, Ended
<1> QED
  BY <1>1, <1>2, FailStep

LEMMA LoadShardStep == ASSUME IInv, LoadShard PROVE IInv'
<1>1. pc = "idle" /\ UNCHANGED <<shard, req, filters, post, todo, off, ranges, resp>>
  BY DEF LoadShard, request
<1>2. ShardKey \in Keys
  BY DEF Keys
<1>3. CASE GetFails(ShardKey) /\ Fail("failed")
  <2>1. LoaderInv' /\ entries' \in Seq(Keys) /\ data' \subseteq Keys
    BY <1>1, <1>2, <1>3, GetFailsLoads DEF IInv, Fail, Ended
  <2> QED
    BY <1>1, <1>3, <2>1, FailStep DEF Fail
<1>4. CASE GetOk(ShardKey) /\ pc' = "chain"
  <2>1. LoaderInv' /\ entries' \in Seq(Keys) /\ data' \subseteq Keys
    BY <1>1, <1>2, <1>4, GetOkLoads DEF IInv, Ended, Running
  <2>2. Typed'
    BY <1>1, <1>4, <2>1, Frame DEF IInv, Typed, Running
  <2>3. Compiled' /\ ChainInv' /\ AskedInv' /\ OrderInv' /\ FindInv'
    BY <1>1, <1>4 DEF IInv, ChainInv, Compiled, AskedInv, OrderInv, FindInv, Iterating
  <2>4. CountInv'
    BY <1>1, <1>4 DEF IInv, CountInv, Iterating
  <2>5. DocsInv'
    BY <1>1, DocsStay DEF IInv
  <2> QED
    BY <2>1, <2>2, <2>3, <2>4, <2>5 DEF IInv
<1> QED
  BY <1>3, <1>4 DEF LoadShard

\* The chain: its filters, the content at the end where it is asked for.
LEMMA ChainShape ==
  ASSUME Typed, ~ChainFails
  PROVE  /\ FilterChain \in Seq(Filters)
         /\ \A i \in DOMAIN FilterChain : FilterChain[i].kind = "content" => i = Len(FilterChain)
         /\ ContentExprs # <<>> =>
              FilterChain # <<>> /\ FilterChain[Len(FilterChain)].kind = "content"
<1> DEFINE query == [i \in DOMAIN ContentExprs |-> [kind |-> "query", expr |-> ContentExprs[i]]]
           file == [i \in DOMAIN req["FILE"] |-> [kind |-> "file", expr |-> req["FILE"][i].expr,
                                                  match |-> ~req["FILE"][i].negated]]
           content == IF ContentExprs = <<>> THEN <<>> ELSE <<[kind |-> "content"]>>
<1>1. FilterChain = query \o file \o content
  BY DEF FilterChain
<1>2. req["FILE"] \in Seq([expr : {Bad} \cup Seq(Branches), negated : BOOLEAN])
  BY SearchAssumption DEF Typed, Codes
<1>3. query \in Seq(QueryFilters) /\ \A i \in DOMAIN query : query[i].kind = "query"
  <2>1. ContentExprs \in Seq(Seq(Branches))
    BY ExprTypes
  <2>2. DOMAIN ContentExprs = 1..Len(ContentExprs) /\ Len(ContentExprs) \in Nat
    BY <2>1
  <2>3. \A i \in DOMAIN ContentExprs : query[i] \in QueryFilters /\ query[i].kind = "query"
    BY DEF QueryFilters
  <2> QED
    BY <2>2, <2>3
<1>4. file \in Seq(FileFilters) /\ \A i \in DOMAIN file : file[i].kind = "file"
  BY <1>2 DEF FileFilters
<1>5. content \in Seq({[kind |-> "content"]}) /\ Len(content) \in 0..1
  <2> DEFINE c == [kind |-> "content"]
  <2>1. <<>> \in Seq({c}) /\ Len(<<>>) = 0 /\ <<c>> \in Seq({c}) /\ Len(<<c>>) = 1
    <3> HIDE DEF c
    <3> QED
      OBVIOUS
  <2>2. content = <<>> \/ content = <<c>>
    OBVIOUS
  <2>3. content \in Seq({c}) /\ Len(content) \in 0..1
    <3>1. CASE content = <<>>
      BY <2>1, <3>1
    <3>2. CASE content = <<c>>
      <4> HIDE DEF content
      <4>1. Len(content) = 1 /\ content \in Seq({c})
        BY <2>1, <3>2
      <4> QED
        BY <4>1
    <3> QED
      BY <2>2, <3>1, <3>2
  <2> QED
    BY <2>3
<1>6. query \in Seq(Filters) /\ file \in Seq(Filters) /\ content \in Seq(Filters)
  BY <1>3, <1>4, <1>5 DEF Filters
<1>7. ContentExprs # <<>> => Len(content) = 1 /\ content[1].kind = "content"
  OBVIOUS
<1> HIDE DEF query, file, content
<1> DEFINE front == query \o file
<1>8. /\ front \in Seq(Filters) /\ Len(front) = Len(query) + Len(file)
      /\ \A i \in DOMAIN front : front[i].kind # "content"
  <2>1. front \in Seq(Filters) /\ Len(front) = Len(query) + Len(file)
    BY <1>6
  <2>2. ASSUME NEW i \in DOMAIN front PROVE front[i].kind # "content"
    <3>1. i \in Nat /\ i \in 1..Len(query) + Len(file) /\ Len(query) \in Nat /\ Len(file) \in Nat
      BY <1>6, <2>1
    <3>2. CASE i <= Len(query)
      BY <1>3, <1>6, <3>1, <3>2
    <3>3. CASE i > Len(query)
      <4>1. front[i] = file[i - Len(query)] /\ i - Len(query) \in DOMAIN file
        BY <1>6, <3>1, <3>3
      <4> QED
        BY <1>4, <4>1
    <3> QED
      BY <3>1, <3>2, <3>3
  <2> QED
    BY <2>1, <2>2
<1> HIDE DEF front
<1>9. FilterChain = front \o content
  BY <1>1 DEF front
<1>10. FilterChain \in Seq(Filters) /\ Len(FilterChain) = Len(front) + Len(content)
  BY <1>6, <1>8, <1>9, ConcatProperties
<1>11. ASSUME NEW i \in DOMAIN FilterChain, FilterChain[i].kind = "content"
       PROVE  i = Len(FilterChain)
  <2>1. i \in 1..Len(front) + Len(content) /\ Len(front) \in Nat /\ Len(content) \in 0..1
    BY <1>5, <1>8, <1>10
  <2>2. ~(i <= Len(front))
    BY <1>6, <1>8, <1>9, <1>11, <2>1
  <2> DEFINE a == Len(front)
             b == Len(content)
  <2>3. i \in 1..a + b /\ a \in Nat /\ b \in 0..1 /\ ~(i <= a) /\ Len(FilterChain) = a + b
    BY <1>10, <2>1, <2>2
  <2> HIDE DEF a, b
  <2> QED
    BY <2>3
<1>12. ASSUME ContentExprs # <<>>
       PROVE  FilterChain # <<>> /\ FilterChain[Len(FilterChain)].kind = "content"
  <2>1. Len(content) = 1 /\ content[1].kind = "content" /\ Len(front) \in Nat
    BY <1>7, <1>8, <1>12
  <2>2. Len(FilterChain) = Len(front) + 1 /\ FilterChain[Len(front) + 1] = content[1]
    BY <1>6, <1>8, <1>9, <1>10, <2>1, ConcatProperties
  <2> QED
    BY <1>10, <2>1, <2>2
<1> QED
  BY <1>10, <1>11, <1>12

LEMMA ChainStep == ASSUME IInv, ToFilterChain PROVE IInv'
<1>1. pc = "chain" /\ UNCHANGED <<shard, req, post, todo, off, ranges, resp>>
  BY DEF ToFilterChain, request
<1>2. CASE ChainFails
  <2>1. UNCHANGED <<entries, data, filters>> /\ pc' = "failed" /\ released' = entries'
    BY <1>2 DEF ToFilterChain, Fail, ReleaseAll
  <2>2. LoaderInv' /\ entries' \in Seq(Keys) /\ data' \subseteq Keys
    BY <1>1, <2>1, LoaderStays DEF IInv, Ended
  <2> QED
    BY <1>1, <2>1, <2>2, FailStep
<1>3. CASE ~ChainFails
  <2>1. filters' = FilterChain /\ pc' = "filter" /\ UNCHANGED <<entries, data, released>>
    BY <1>3 DEF ToFilterChain, loaderVars
  <2>2. LoaderInv' /\ entries' \in Seq(Keys) /\ data' \subseteq Keys
    BY <1>1, <2>1, LoaderStays DEF IInv, Running, Ended
  <2>3. Typed'
    BY <1>1, <1>3, <2>1, <2>2, Frame, ChainShape DEF IInv, Typed, Running
  <2>4. Compiled' /\ ChainInv'
    BY <1>1, <1>3, <2>1, Frame, ChainShape DEF IInv, Compiled, ChainInv, Iterating
  <2>5. AskedInv' /\ OrderInv' /\ FindInv'
    BY <1>1, <2>1 DEF IInv, AskedInv, OrderInv, FindInv, Iterating
  <2>6. CountInv'
    BY <1>1, <2>1 DEF IInv, CountInv, Iterating
  <2>7. DocsInv'
    BY <1>1, DocsStay DEF IInv
  <2> QED
    BY <2>2, <2>3, <2>4, <2>5, <2>6, <2>7 DEF IInv
<1> QED
  BY <1>2, <1>3

-----------------------------------------------------------------------------
(***************************************************************************)
(* The filters.                                                            *)
(***************************************************************************)
\* What a filter makes of the documents.
Filtered ==
  IF Head(filters).kind = "query" THEN PostingQuery(Head(filters).expr, post)
  ELSE {d \in Universe : Match(Head(filters).expr, Doc(d).path) = Head(filters).match}

LEMMA HeadTail ==
  ASSUME Typed, filters # <<>>
  PROVE  /\ Head(filters) \in Filters /\ Head(filters) = filters[1]
         /\ Tail(filters) \in Seq(Filters) /\ Len(Tail(filters)) = Len(filters) - 1
         /\ Len(filters) \in Nat \ {0} /\ DOMAIN filters = 1..Len(filters)
         /\ \A i \in 1..Len(filters)-1 : Tail(filters)[i] = filters[i + 1]
<1>1. filters \in Seq(Filters)
  BY DEF Typed
<1> HIDE DEF Filters
<1> QED
  BY <1>1

\* A filter takes nothing that is asked for, and adds nothing.
LEMMA FilterKeeps ==
  ASSUME Typed, ~ChainFails, filters # <<>>, Head(filters).kind # "content",
         post # Nil => AskedDocs \subseteq post
  PROVE  /\ (Filtered = Nil /\ post = Nil) \/ Filtered \subseteq Universe
         /\ Filtered # Nil => AskedDocs \subseteq Filtered
<1>1. Universe \subseteq DocIds /\ AskedDocs \subseteq Universe
  BY DEF Universe, Typed, AskedDocs
<1>2. Head(filters) \in QueryFilters \cup FileFilters
  BY HeadTail DEF Filters
<1>3. CASE Head(filters) \in QueryFilters
  <2>1. PICK i \in DOMAIN ContentExprs : Head(filters) = [kind |-> "query", expr |-> ContentExprs[i]]
    BY <1>3 DEF QueryFilters
  <2> DEFINE e == ContentExprs[i]
  <2>2. e \in Seq(Branches)
    BY ExprTypes
  <2>3. Filtered = PostingQuery(e, post)
    BY <2>1 DEF Filtered
  <2>4. CASE QueriesAll(e)
    <3>1. Filtered = post
      BY <2>3, <2>4 DEF PostingQuery
    <3> QED
      BY <3>1 DEF Universe
  <2>5. CASE ~QueriesAll(e)
    <3>1. Filtered = {d \in Universe : \E k \in DOMAIN e : HasPairs(e[k].word, d)}
      BY <2>3, <2>5 DEF PostingQuery, Universe
    <3>2. ASSUME NEW d \in AskedDocs
          PROVE  \E k \in DOMAIN e : HasPairs(e[k].word, d)
      <4>1. InnerMatch(e, Doc(d).data) /\ d \in DocIds
        BY DEF AskedDocs, Asked
      <4>2. Doc(d).data \in Seq(Letters)
        BY <4>1, DocTypes
      <4> HIDE DEF e
      <4>3. PICK k \in DOMAIN e, x \in 0..Len(Doc(d).data) : OccursAt(e[k].word, Doc(d).data, x)
        BY <4>1 DEF InnerMatch, BranchAt
      <4>4. e[k].word \in Seq(Letters)
        BY <2>2, BranchTypes
      <4>5. HasPairs(e[k].word, d)
        BY <4>2, <4>3, <4>4, PairOccurs DEF HasPairs
      <4> QED
        BY <4>5
    <3> HIDE DEF e
    <3> QED
      BY <1>1, <3>1, <3>2
  <2> QED
    BY <2>4, <2>5
<1>4. CASE Head(filters) \in FileFilters
  <2>1. PICK i \in DOMAIN req["FILE"] :
          Head(filters) = [kind |-> "file", expr |-> req["FILE"][i].expr,
                           match |-> ~req["FILE"][i].negated]
    BY <1>4 DEF FileFilters
  <2>2. Filtered = {d \in Universe :
                      Match(req["FILE"][i].expr, Doc(d).path) = ~req["FILE"][i].negated}
    BY <2>1 DEF Filtered
  <2>3. req["FILE"][i].negated \in BOOLEAN
    <3> DEFINE R == [expr : {Bad} \cup Seq(Branches), negated : BOOLEAN]
    <3>1. req["FILE"] \in Seq(R)
      BY SearchAssumption DEF Typed, Codes
    <3> HIDE DEF R
    <3>2. req["FILE"][i] \in R
      BY <3>1
    <3> QED
      BY <3>2 DEF R
  <2>4. \A d \in AskedDocs : Match(req["FILE"][i].expr, Doc(d).path) # req["FILE"][i].negated
    BY DEF AskedDocs, Asked
  <2>5. \A d : Match(req["FILE"][i].expr, Doc(d).path) \in BOOLEAN
    BY DEF Match
  <2>6. \A d \in AskedDocs :
          Match(req["FILE"][i].expr, Doc(d).path) = ~req["FILE"][i].negated
    BY <2>3, <2>4, <2>5
  <2> QED
    BY <1>1, <2>2, <2>6
<1> QED
  BY <1>2, <1>3, <1>4

LEMMA ApplyFilterStep == ASSUME IInv, ApplyFilter PROVE IInv'
<1>1. /\ pc = "filter" /\ pc' = "filter" /\ filters # <<>> /\ Head(filters).kind # "content"
      /\ post' = Filtered /\ filters' = Tail(filters)
      /\ UNCHANGED <<shard, req, entries, data, released, todo, off, ranges, resp>>
  BY DEF ApplyFilter, Filtered, request, loaderVars
<1>2. ~ChainFails /\ (post # Nil => AskedDocs \subseteq post)
  BY <1>1 DEF IInv, Compiled, AskedInv
<1>3. /\ (post' = Nil /\ post = Nil) \/ post' \subseteq Universe
      /\ post' # Nil => AskedDocs \subseteq post'
  BY <1>1, <1>2, FilterKeeps DEF IInv
<1>4. Universe \subseteq DocIds /\ (post # Nil => Universe = post)
  BY DEF IInv, Typed, Universe
<1>5. /\ filters' \in Seq(Filters) /\ Len(filters') = Len(filters) - 1 /\ Len(filters) \in Nat \ {0}
      /\ \A i \in 1..Len(filters)-1 : filters'[i] = filters[i + 1]
      /\ filters[1].kind # "content"
      /\ DOMAIN filters' = 1..Len(filters)-1 /\ DOMAIN filters = 1..Len(filters)
  BY <1>1, HeadTail DEF IInv
<1>6. LoaderInv' /\ entries' \in Seq(Keys) /\ data' \subseteq Keys
  BY <1>1, LoaderStays DEF IInv, Running, Ended
<1>7. Typed'
  BY <1>1, <1>3, <1>4, <1>5, <1>6, Frame DEF IInv, Typed
<1>8. Compiled' /\ AskedInv' /\ OrderInv' /\ FindInv'
  BY <1>1, <1>2, <1>3, Frame DEF IInv, Compiled, AskedInv, OrderInv, FindInv, Iterating
<1>9. CountInv'
  BY <1>1 DEF IInv, CountInv, Iterating
<1>10. DocsInv'
  BY <1>1, DocsStay DEF IInv
<1>11. ChainInv'
  <2>1. ASSUME NEW i \in DOMAIN filters', filters'[i].kind = "content"
        PROVE  i = Len(filters')
    <3>1. i + 1 \in DOMAIN filters /\ filters[i + 1].kind = "content"
      BY <1>5, <2>1
    <3>2. i + 1 = Len(filters)
      BY <3>1 DEF IInv, ChainInv
    <3> QED
      BY <1>5, <3>2
  <2>2. ASSUME ContentExprs # <<>>
        PROVE  \/ filters' # <<>> /\ filters'[Len(filters')].kind = "content"
               \/ post' # Nil /\ Loaded(post)'
    <3>1. CASE filters[Len(filters)].kind = "content"
      <4>1. Len(filters) - 1 \in 1..Len(filters)-1
        BY <1>5, <3>1
      <4>2. filters'[Len(filters) - 1] = filters[Len(filters)] /\ filters' # <<>>
        BY <1>5, <4>1
      <4> QED
        BY <1>5, <3>1, <4>2
    <3>2. CASE post # Nil /\ Loaded(post)
      <4>1. post' \subseteq post
        BY <1>3, <1>4, <3>2
      <4>2. post' # Nil
        BY <1>4, <3>2, <4>1, NotNil DEF IInv
      <4> QED
        BY <1>1, <3>2, <4>1, <4>2 DEF Loaded, Doc
    <3> QED
      BY <1>1, <2>2, <3>1, <3>2 DEF IInv, ChainInv
  <2> QED
    BY <1>1, <2>1, <2>2, Frame DEF ChainInv, Iterating
<1> QED
  BY <1>6, <1>7, <1>8, <1>9, <1>10, <1>11 DEF IInv

LEMMA StartScanStep == ASSUME IInv, StartScan PROVE IInv'
<1>1. /\ pc = "filter" /\ pc' = "scan" /\ filters # <<>> /\ Head(filters).kind = "content"
      /\ todo' = Universe /\ post' = {} /\ filters' = Tail(filters)
      /\ UNCHANGED <<shard, req, entries, data, released, off, ranges, resp>>
  BY DEF StartScan, request, loaderVars
<1>2. Universe \subseteq DocIds /\ AskedDocs \subseteq Universe
  BY <1>1 DEF IInv, Typed, Universe, AskedInv, AskedDocs
<1>3. filters' = <<>> /\ filters' \in Seq(Filters)
  <2>1. /\ Head(filters) = filters[1] /\ filters' \in Seq(Filters)
        /\ Len(filters') = Len(filters) - 1 /\ Len(filters) \in Nat \ {0}
    BY <1>1, HeadTail DEF IInv
  <2>2. 1 = Len(filters)
    BY <1>1, <2>1 DEF IInv, ChainInv, Typed
  <2>3. Len(filters') = 0
    BY <2>1, <2>2
  <2> QED
    BY <2>1, <2>3
<1>4. post' # Nil
  BY <1>1, NotNil DEF IInv
<1>5. LoaderInv' /\ entries' \in Seq(Keys) /\ data' \subseteq Keys
  BY <1>1, LoaderStays DEF IInv, Running, Ended
<1>6. Typed'
  BY <1>1, <1>2, <1>3, <1>5, Frame DEF IInv, Typed, Running
<1>7. Compiled' /\ AskedInv' /\ OrderInv' /\ FindInv'
  BY <1>1, <1>2, Frame DEF IInv, Compiled, AskedInv, OrderInv, FindInv, Iterating
<1>8. CountInv' /\ ChainInv'
  BY <1>1, <1>3, <1>4 DEF IInv, CountInv, ChainInv, Loaded, Iterating
<1>9. DocsInv'
  BY <1>1, DocsStay DEF IInv
<1> QED
  BY <1>5, <1>6, <1>7, <1>8, <1>9 DEF IInv

\* The document that is next.
LEMMA NextDoc ==
  ASSUME Typed, todo # {}
  PROVE  /\ Min(todo) \in todo /\ Min(todo) \in DocIds /\ Min(todo) \in Nat
         /\ \A y \in todo : Min(todo) <= y
         /\ Doc(Min(todo)).data \in Keys
<1>1. todo \in SUBSET Nat /\ todo \subseteq DocIds
  BY DocTypes DEF Typed
<1>2. Min(todo) \in todo /\ \A y \in todo : Min(todo) <= y
  BY <1>1, MinIsLeast
<1> QED
  BY <1>1, <1>2, DocTypes DEF Keys

LEMMA ScanStep == ASSUME IInv, Scan PROVE IInv'
<1> DEFINE d == Min(todo)
<1>1. /\ pc = "scan" /\ todo # {} /\ UNCHANGED <<shard, req, filters, off, ranges, resp>>
  BY DEF Scan, request
<1>2. d \in todo /\ d \in DocIds /\ Doc(d).data \in Keys
  BY <1>1, NextDoc DEF IInv
<1>3. CASE /\ IF shard.inline THEN UNCHANGED <<entries, data>> ELSE GetOk(Doc(d).data)
           /\ post' = IF Keep(d) THEN post \cup {d} ELSE post
           /\ todo' = todo \ {d} /\ UNCHANGED <<pc, released>>
  <2>1. /\ LoaderInv' /\ entries' \in Seq(Keys) /\ data' \subseteq Keys
        /\ data \subseteq data' /\ (shard.inline \/ Doc(d).data \in data')
    BY <1>1, <1>2, <1>3, GetOkLoads, LoaderStays DEF IInv, Running, Ended
  <2>2. /\ filters = <<>> /\ post # Nil /\ post \subseteq DocIds /\ Loaded(post)
        /\ ~ChainFails /\ AskedDocs \subseteq post \cup todo
    BY <1>1 DEF IInv, ChainInv, Typed, Compiled, AskedInv
  <2>3. d \in AskedDocs => Keep(d)
    <3> SUFFICES ASSUME d \in AskedDocs, NEW i \in DOMAIN ContentExprs
                 PROVE  Match(ContentExprs[i], RawOf(d))
      BY DEF Keep
    <3>1. InnerMatch(ContentExprs[i], Doc(d).data)
      BY DEF AskedDocs, Asked
    <3>2. ContentExprs[i] \in Seq(Branches) /\ Doc(d).data \in Seq(Letters)
      BY <1>2, <2>2, ExprTypes, DocTypes DEF IInv
    <3>3. Header \in Seq(Letters) /\ Header # <<>> /\ Padding(Len(Doc(d).data)) \in Seq(Letters)
      BY <3>2, PaddingType, SearchAssumption
    <3> QED
      BY <3>1, <3>2, <3>3, MatchWithin DEF RawOf
  <2>4. /\ post' \subseteq DocIds /\ post' \subseteq post \cup {d} /\ post \subseteq post'
        /\ (d \in AskedDocs => d \in post')
    BY <1>2, <1>3, <2>2, <2>3
  <2> HIDE DEF d
  <2>5. post' # Nil
    BY <2>4, NotNil DEF IInv
  <2>6. Typed'
    BY <1>1, <1>3, <2>1, <2>4, Frame DEF IInv, Typed
  <2>7. Compiled' /\ OrderInv' /\ FindInv' /\ CountInv'
    BY <1>1, <1>3, Frame DEF IInv, Compiled, OrderInv, FindInv, CountInv, Iterating
  <2>8. AskedInv'
    BY <1>1, <1>3, <2>2, <2>4, Frame DEF AskedInv, Iterating
  <2>9. Loaded(post)'
    BY <1>1, <2>1, <2>2, <2>4 DEF Loaded, Doc
  <2>10. ChainInv'
    BY <1>1, <1>3, <2>2, <2>5, <2>9 DEF ChainInv, Iterating
  <2>11. DocsInv'
    BY <1>1, DocsStay DEF IInv
  <2> QED
    BY <2>1, <2>6, <2>7, <2>8, <2>10, <2>11 DEF IInv
<1>4. CASE GetFails(Doc(d).data) /\ Fail("failed") /\ UNCHANGED <<post, todo>>
  <2>1. LoaderInv' /\ entries' \in Seq(Keys) /\ data' \subseteq Keys
    BY <1>1, <1>2, <1>4, GetFailsLoads DEF IInv, Fail, Ended
  <2> QED
    BY <1>1, <1>4, <2>1, FailStep DEF Fail
<1> QED
  BY <1>3, <1>4 DEF Scan

LEMMA EndScanStep == ASSUME IInv, EndScan PROVE IInv'
<1>1. /\ pc = "scan" /\ todo = {} /\ pc' = "filter"
      /\ UNCHANGED <<shard, req, entries, data, released, filters, post, todo, off, ranges, resp>>
  BY DEF EndScan, request, loaderVars
<1>2. LoaderInv' /\ entries' \in Seq(Keys) /\ data' \subseteq Keys
  BY <1>1, LoaderStays DEF IInv, Running, Ended
<1>3. Typed'
  BY <1>1, <1>2, Frame DEF IInv, Typed, Running
<1>4. Compiled' /\ OrderInv' /\ FindInv' /\ CountInv'
  BY <1>1, Frame DEF IInv, Compiled, OrderInv, FindInv, CountInv, Iterating
<1>5. AskedInv' /\ ChainInv'
  BY <1>1, Frame DEF IInv, AskedInv, ChainInv, Loaded, Doc, Iterating
<1>6. DocsInv'
  BY <1>1, DocsStay DEF IInv
<1> QED
  BY <1>2, <1>3, <1>4, <1>5, <1>6 DEF IInv

-----------------------------------------------------------------------------
(***************************************************************************)
(* The documents that are left.                                            *)
(***************************************************************************)
LEMMA Counted ==
  ASSUME Typed
  PROVE  /\ IsFiniteSet(todo) /\ Cardinality(todo) \in Nat
         /\ todo # {} => Cardinality(todo \ {Min(todo)}) = Cardinality(todo) - 1
<1>1. IsFiniteSet(todo)
  BY DocTypes, FS_Subset DEF Typed
<1>2. todo # {} => Min(todo) \in todo
  BY NextDoc
<1> QED
  BY <1>1, <1>2, FS_CardinalityType, FS_RemoveElement

LEMMA StartIterateStep == ASSUME IInv, StartIterate PROVE IInv'
<1>1. /\ pc = "filter" /\ filters = <<>> /\ UNCHANGED <<shard, req, filters, post, off, ranges>>
      /\ ~ChainFails
  BY DEF StartIterate, request, IInv, Compiled
<1>2. resp.docs = <<>> /\ resp.inspected = 0 /\ FindInv'
  BY <1>1 DEF IInv, CountInv, StartIterate, Fail, FindInv, Iterating
<1>3. CASE post = Nil /\ UNCHANGED <<entries, data, todo, resp>> /\ Fail("panic")
  <2>1. LoaderInv' /\ entries' \in Seq(Keys) /\ data' \subseteq Keys
    BY <1>1, <1>3, LoaderStays DEF IInv, Running, Ended, Fail, ReleaseAll
  <2>2. Typed'
    BY <1>1, <1>3, <2>1, Frame DEF IInv, Typed, Ended, Fail
  <2>3. ContentExprs = <<>>
    BY <1>1, <1>3 DEF IInv, ChainInv
  <2>4. ChainInv'
    BY <1>1, <1>3, <2>3, Frame DEF IInv, ChainInv, Iterating, Fail
  <2>5. Compiled' /\ AskedInv' /\ OrderInv' /\ CountInv'
    BY <1>1, <1>3, Frame DEF Compiled, AskedInv, OrderInv, CountInv, Iterating, Fail
  <2>6. DocsInv'
    BY <1>1, <1>3, DocsStay DEF IInv
  <2> QED
    BY <1>2, <2>1, <2>2, <2>4, <2>5, <2>6 DEF IInv
<1>4. CASE /\ post # Nil /\ pc' = "inspect"
           /\ resp' = [resp EXCEPT !.matches = Cardinality(post)]
           /\ todo' = post /\ UNCHANGED loaderVars
  <2>1. LoaderInv' /\ entries' \in Seq(Keys) /\ data' \subseteq Keys /\ UNCHANGED data
    BY <1>1, <1>4, LoaderStays DEF IInv, Running, Ended, loaderVars
  <2>2. /\ post \subseteq DocIds /\ IsFiniteSet(post) /\ Cardinality(post) \in Nat
        /\ AskedDocs \subseteq post
    BY <1>1, <1>4, DocTypes, FS_Subset, FS_CardinalityType DEF IInv, Typed, AskedInv
  <2>3. /\ resp'.docs = <<>> /\ resp'.inspected = 0 /\ resp'.matches = Cardinality(post)
        /\ resp' \in [docs : Seq([id : Nat, matches : Range2]), matches : Int, inspected : Nat]
    BY <1>2, <1>4, <2>2 DEF IInv, Typed
  <2>4. Returned' = {} /\ Len(resp'.docs) = 0 /\ MaxDocs > 0
    BY <2>3, SearchAssumption DEF Returned
  <2>5. Typed'
    BY <1>1, <1>4, <2>1, <2>2, <2>3, Frame DEF IInv, Typed, Running
  <2>6. ContentExprs # <<>> => Loaded(post)
    BY <1>1 DEF IInv, ChainInv
  <2>7. ChainInv' /\ Compiled'
    BY <1>1, <1>4, <2>1, <2>6, Frame DEF IInv, ChainInv, Compiled, Loaded, Doc, Iterating
  <2>8. AskedInv' /\ OrderInv'
    BY <1>1, <1>4, <2>2, <2>4, Frame DEF AskedInv, OrderInv, Iterating
  <2>9. CountInv'
    BY <1>1, <1>4, <2>2, <2>3, <2>4 DEF CountInv, Iterating
  <2>10. DocsInv'
    BY <2>3 DEF DocsInv
  <2> QED
    BY <1>2, <2>1, <2>5, <2>7, <2>8, <2>9, <2>10 DEF IInv
<1> QED
  BY <1>3, <1>4 DEF StartIterate

\* A document that is inspected, or that cannot be loaded.
LEMMA InspectStep == ASSUME IInv, Inspect PROVE IInv'
<1> DEFINE key == Doc(Min(todo)).data
<1>1. /\ pc = "inspect" /\ todo # {} /\ off' = 0 /\ ranges' = <<>>
      /\ resp' = [resp EXCEPT !.inspected = @ + 1]
      /\ UNCHANGED <<shard, req, filters, post, todo>>
  BY DEF Inspect, request
<1>2. Min(todo) \in todo /\ Min(todo) \in DocIds /\ key \in Keys
  BY <1>1, NextDoc DEF IInv
<1>3. /\ resp'.docs = resp.docs /\ resp'.matches = resp.matches
      /\ resp'.inspected = resp.inspected + 1
      /\ resp' \in [docs : Seq([id : Nat, matches : Range2]), matches : Int, inspected : Nat]
  <2> DEFINE D == Seq([id : Nat, matches : Range2])
  <2>1. resp \in [docs : D, matches : Int, inspected : Nat]
    BY DEF IInv, Typed
  <2> HIDE DEF D
  <2>2. /\ resp'.docs = resp.docs /\ resp'.matches = resp.matches
        /\ resp'.inspected = resp.inspected + 1
        /\ resp' \in [docs : D, matches : Int, inspected : Nat]
    BY <1>1, <2>1
  <2> QED
    BY <2>2 DEF D
<1>4. Returned' = Returned /\ DocsInv'
  BY <1>1, <1>3, DocsStay DEF IInv, Returned
<1>5. CASE pc' = "find" /\ (UNCHANGED loaderVars \/ (GetOk(key) /\ UNCHANGED released))
  <2>1. LoaderInv' /\ entries' \in Seq(Keys) /\ data' \subseteq Keys /\ data \subseteq data'
    BY <1>1, <1>2, <1>5, GetOkLoads, LoaderStays DEF IInv, Running, Ended, loaderVars
  <2>2. Typed'
    BY <1>1, <1>3, <1>5, <2>1, Frame DEF IInv, Typed, Running, Range2
  <2>3. Compiled' /\ AskedInv' /\ OrderInv'
    BY <1>1, <1>3, <1>4, <1>5, Frame DEF IInv, Compiled, AskedInv, OrderInv, Iterating
  <2>4. ChainInv'
    BY <1>1, <1>5, <2>1, Frame DEF IInv, ChainInv, Loaded, Doc, Iterating
  <2>5. CountInv'
    BY <1>1, <1>3, <1>5 DEF IInv, CountInv, Iterating
  <2>6. FindInv'
    <3>1. Len(Doc(Min(todo)).data) \in Nat /\ Len(<<>>) = 0
      BY <1>2, DocTypes DEF IInv
    <3>2. InOrder(<<>>) /\ \A s : Covers(<<>>, s, 0)' /\ <<>> \in Seq(Nat \X Nat)
      BY DEF InOrder, Covers
    <3> QED
      BY <1>1, <3>1, <3>2 DEF FindInv, Doc
  <2> QED
    BY <1>4, <2>1, <2>2, <2>3, <2>4, <2>5, <2>6 DEF IInv
<1>6. CASE /\ ~shard.inline /\ key \notin data
           /\ GetFails(key) /\ Fail("panic")
  <2>1. LoaderInv' /\ entries' \in Seq(Keys) /\ data' \subseteq Keys
    BY <1>1, <1>2, <1>6, GetFailsLoads DEF IInv, Ended, Fail
  <2>2. Typed'
    BY <1>1, <1>3, <1>6, <2>1, Frame DEF IInv, Typed, Ended, Range2, Fail
  <2>3. ContentExprs = <<>>
    BY <1>1, <1>2, <1>6 DEF IInv, ChainInv, Loaded, Iterating
  <2>4. ChainInv' /\ FindInv'
    BY <1>1, <1>6, <2>3, Frame DEF IInv, ChainInv, FindInv, Iterating, Fail
  <2>5. Compiled' /\ AskedInv' /\ OrderInv' /\ CountInv'
    BY <1>1, <1>6, Frame DEF IInv, Compiled, AskedInv, OrderInv, CountInv, Iterating, Fail
  <2> QED
    BY <1>4, <2>1, <2>2, <2>4, <2>5 DEF IInv
<1>7. GetFails(key) => key \notin data
  BY DEF GetFails
<1>8. \/ pc' = "find" /\ (UNCHANGED loaderVars \/ (GetOk(key) /\ UNCHANGED released))
      \/ ~shard.inline /\ GetFails(key) /\ Fail("panic")
  BY DEF Inspect
<1> QED
  BY <1>5, <1>6, <1>7, <1>8

-----------------------------------------------------------------------------
(***************************************************************************)
(* The matches of a document.                                              *)
(***************************************************************************)
\* What find works on.
LEMMA FindState ==
  ASSUME IInv, pc = "find"
  PROVE  /\ todo # {} /\ Min(todo) \in DocIds /\ ~ChainFails
         /\ Doc(Min(todo)).data \in Seq(Letters) /\ Len(Doc(Min(todo)).data) <= MaxRanges
         /\ SnippetExprs \in Seq(Seq(Branches))
         /\ off \in Nat /\ off <= Len(Doc(Min(todo)).data) /\ ranges \in Seq(Nat \X Nat)
<1>1. todo # {} /\ off <= Len(Doc(Min(todo)).data) /\ ~ChainFails
  BY DEF IInv, FindInv, Compiled
<1>2. Min(todo) \in DocIds
  BY <1>1, NextDoc DEF IInv
<1>3. /\ Doc(Min(todo)).data \in Seq(Letters) /\ Len(Doc(Min(todo)).data) <= MaxRanges
      /\ SnippetExprs \in Seq(Seq(Branches))
  BY <1>1, <1>2, DocTypes, ExprTypes DEF IInv
<1> QED
  BY <1>1, <1>2, <1>3 DEF IInv, Typed, Range2

\* One more match: to the right of the others.
Grown(m, n, i, to) == n = Append(m, <<i, to>>)

LEMMA OneMore ==
  ASSUME NEW m \in Seq(Nat \X Nat), NEW from \in Nat, NEW i \in Nat, NEW to \in Nat,
         from <= i, i <= to, InOrder(m), m # <<>> => m[Len(m)][2] <= from,
         NEW n, Grown(m, n, i, to)
  PROVE  /\ n \in Seq(Nat \X Nat) /\ InOrder(n) /\ Len(n) = Len(m) + 1
         /\ n[Len(m) + 1] = <<i, to>> /\ \A j \in 1..Len(m) : n[j] = m[j]
<1> DEFINE p == <<i, to>>
<1>1. p \in Nat \X Nat /\ p[1] = i /\ p[2] = to /\ n = Append(m, p)
  BY DEF Grown
<1> HIDE DEF p
<1>2. /\ n \in Seq(Nat \X Nat) /\ Len(n) = Len(m) + 1 /\ n[Len(m) + 1] = p /\ Len(m) \in Nat
      /\ \A j \in 1..Len(m) : n[j] = m[j]
  BY <1>1
<1>3. ASSUME NEW j \in 1..Len(n)-1 PROVE n[j][2] <= n[j + 1][1]
  <2>1. j \in 1..Len(m)
    BY <1>2
  <2>2. CASE j < Len(m)
    <3>1. j \in 1..Len(m)-1 /\ j + 1 \in 1..Len(m)
      BY <1>2, <2>1, <2>2
    <3>2. m[j][2] <= m[j + 1][1]
      BY <3>1 DEF InOrder
    <3> QED
      BY <1>2, <2>1, <3>1, <3>2
  <2>3. CASE j = Len(m)
    <3>1. m # <<>> /\ n[j] = m[Len(m)] /\ n[j + 1] = p
      BY <1>2, <2>1, <2>3
    <3>2. m[Len(m)] \in Nat \X Nat
      BY <2>1, <2>3
    <3>3. m[Len(m)][2] <= from /\ m[Len(m)][2] \in Nat
      BY <3>1, <3>2
    <3> QED
      BY <1>1, <3>1, <3>3
  <2>4. j < Len(m) \/ j = Len(m)
    BY <1>2, <2>1
  <2> QED
    BY <2>2, <2>3, <2>4
<1>4. InOrder(n)
  BY <1>3 DEF InOrder
<1> QED
  BY <1>2, <1>4 DEF p

\* A place from where the loop stands to its next match is found already.
LEMMA FoundBefore ==
  ASSUME IInv, pc = "find", ~Stuck,
         NEW j \in DOMAIN SnippetExprs, NEW k \in DOMAIN SnippetExprs[j],
         NEW x \in Nat, off <= x,
         BranchAt(SnippetExprs[j][k], Doc(Min(todo)).data, 0, x),
         ~BranchAt(SnippetExprs[j][k], Doc(Min(todo)).data, off, x)
  PROVE  Found(ranges, x, SnippetExprs[j][k])
<1> DEFINE b == SnippetExprs[j][k]
<1>1. off \in Nat /\ ranges \in Seq(Nat \X Nat)
  BY FindState
<1>2. x = off /\ off # 0 /\ Edge \notin b.before
  BY <1>1, Gap
<1>3. ranges # <<>> /\ ranges[Len(ranges)][2] = off
  BY <1>2 DEF IInv, FindInv
<1>4. Len(ranges) \in DOMAIN ranges
  BY <1>1, <1>3
<1> QED
  BY <1>2, <1>3, <1>4 DEF Found

LEMMA FindStep == ASSUME IInv, Find PROVE IInv'
<1> DEFINE s == Doc(Min(todo)).data
           pos == FindIndex(SnippetExprs, s, off)
<1>1. /\ pc = "find" /\ pos # Nil /\ off' = pos[2]
      /\ ranges' = IF Len(ranges) < MaxRanges THEN Append(ranges, pos) ELSE ranges
      /\ UNCHANGED <<pc, shard, req, entries, data, released, filters, post, todo, resp>>
  BY DEF Find, After, request, loaderVars
<1>2. /\ todo # {} /\ s \in Seq(Letters) /\ Len(s) <= MaxRanges /\ Len(s) \in Nat
      /\ SnippetExprs \in Seq(Seq(Branches))
      /\ off \in Nat /\ off <= Len(s) /\ ranges \in Seq(Nat \X Nat) /\ Len(ranges) \in Nat
  BY <1>1, FindState
<1>3. /\ ranges = <<>> => off = 0
      /\ InOrder(ranges) /\ (ranges # <<>> => ranges[Len(ranges)][2] <= off)
      /\ pos = <<off, off>> \/ (Len(ranges) <= off /\ Covers(ranges, s, off))
      /\ Stuck <=> pos = <<off, off>>
  BY <1>1 DEF IInv, FindInv, Stuck
<1> HIDE DEF s, pos
<1>4. PICK i \in off..Len(s), to \in off..Len(s) :
        pos = <<i, to>> /\ i <= to /\ NoneIn(Alternation(SnippetExprs), s, off, off..i-1)
  BY <1>1, <1>2, Finding DEF pos
<1>5. /\ i \in Nat /\ to \in Nat /\ off <= i /\ i <= to /\ to <= Len(s) /\ off' = to
      /\ pos # <<off, off>> => off < to
  BY <1>1, <1>2, <1>4
<1> DEFINE n == Append(ranges, <<i, to>>)
<1>6. n = Append(ranges, <<i, to>>) /\ Grown(ranges, n, i, to)
  BY DEF Grown
<1> HIDE DEF n
<1>7. /\ n \in Seq(Nat \X Nat) /\ InOrder(n) /\ Len(n) = Len(ranges) + 1
      /\ n[Len(ranges) + 1] = <<i, to>> /\ \A k \in 1..Len(ranges) : n[k] = ranges[k]
  <2>1. Grown(ranges, n, i, to)
    BY <1>6
  <2>2. ranges \in Seq(Nat \X Nat) /\ off \in Nat /\ i \in Nat /\ to \in Nat /\ off <= i /\ i <= to
    BY <1>2, <1>5
  <2> QED
    BY <1>3, <2>1, <2>2, OneMore
<1>8. ranges' \in Seq(Nat \X Nat) /\ InOrder(ranges') /\ ranges' # <<>>
  <2>1. CASE Len(ranges) < MaxRanges
    <3>1. ranges' = n
      BY <1>1, <1>4, <1>6, <2>1
    <3> QED
      BY <1>2, <1>7, <3>1
  <2>2. CASE ~(Len(ranges) < MaxRanges)
    <3>1. ranges' = ranges /\ Len(ranges) # 0
      BY <1>1, <1>2, <2>2, SearchAssumption
    <3> QED
      BY <1>2, <1>3, <3>1
  <2> QED
    BY <2>1, <2>2
<1>9. ranges'[Len(ranges')][2] <= to
  <2>1. CASE Len(ranges) < MaxRanges
    <3>1. ranges' = n /\ n[Len(n)] = <<i, to>>
      BY <1>1, <1>4, <1>7, <1>6, <2>1
    <3> QED
      BY <1>5, <3>1
  <2>2. CASE ~(Len(ranges) < MaxRanges)
    <3>1. ranges' = ranges /\ ranges # <<>>
      BY <1>1, <1>8, <2>2
    <3>2. ranges[Len(ranges)] \in Nat \X Nat
      BY <1>2, <3>1
    <3>3. ranges[Len(ranges)][2] \in Nat /\ ranges[Len(ranges)][2] <= off
      BY <1>3, <3>1, <3>2
    <3> QED
      BY <1>2, <1>5, <3>1, <3>3
  <2> QED
    BY <2>1, <2>2
<1>10. ASSUME pos # <<off, off>>
       PROVE  /\ Len(ranges') <= to /\ Covers(ranges', s, to)
              /\ ranges'[Len(ranges')][2] = to
  <2>1. Len(ranges) <= off /\ Covers(ranges, s, off) /\ off < to /\ ~Stuck
    BY <1>3, <1>5, <1>10
  <2>2. Len(ranges) < MaxRanges /\ Len(n) <= to
    BY <1>2, <1>5, <1>7, <2>1, SearchAssumption
  <2>3. ranges' = n
    BY <1>1, <1>4, <1>6, <2>2
  <2>4. DOMAIN n = 1..Len(ranges)+1 /\ Len(ranges) + 1 \in DOMAIN n
    BY <1>2, <1>7
  <2>5. \A l \in DOMAIN ranges : l \in DOMAIN n /\ n[l] = ranges[l]
    <3>1. DOMAIN ranges = 1..Len(ranges) /\ Len(ranges) \in Nat
      BY <1>2
    <3> QED
      BY <1>7, <2>4, <3>1
  <2>6. n[Len(ranges) + 1][1] = i /\ n[Len(ranges) + 1][2] = to
    BY <1>7
  <2>7. ASSUME NEW j \in DOMAIN SnippetExprs, NEW k \in DOMAIN SnippetExprs[j], NEW x \in 0..to-1,
               SnippetExprs[j][k].word # <<>>, BranchAt(SnippetExprs[j][k], s, 0, x)
        PROVE  Found(n, x, SnippetExprs[j][k])
    <3> DEFINE b == SnippetExprs[j][k]
    <3>1. Len(b.word) \in Nat /\ Len(b.word) # 0 /\ x \in Nat /\ x < to
      <4>1. SnippetExprs[j] \in Seq(Branches)
        BY <1>2
      <4> QED
        BY <1>5, <2>7, <4>1, BranchTypes
    <3>2. CASE Found(ranges, x, b)
      <4> HIDE DEF b
      <4>1. Found(n, x, b)
        BY <2>5, <3>2 DEF Found
      <4> QED
        BY <4>1 DEF b
    <3>3. CASE x < off
      <4>1. x \in 0..off-1
        BY <1>2, <3>1, <3>3
      <4>2. Found(ranges, x, b)
        BY <2>1, <2>7, <4>1 DEF Covers
      <4> QED
        BY <3>2, <4>2
    <3>4. CASE off <= x /\ x < i
      <4>1. x \in off..i-1 /\ Alternation(SnippetExprs) = SnippetExprs
        BY <1>2, <1>5, <3>1, <3>4 DEF Alternation
      <4>2. ~BranchAt(b, s, off, x)
        BY <1>4, <4>1 DEF NoneIn
      <4>3. Found(ranges, x, b)
        BY <1>1, <2>1, <2>7, <3>1, <3>4, <4>2, FoundBefore DEF s
      <4> QED
        BY <3>2, <4>3
    <3>5. CASE i <= x
      <4>1. x < to /\ i < x + Len(b.word)
        BY <1>5, <3>1, <3>5
      <4> HIDE DEF b
      <4>2. Found(n, x, b)
        BY <2>4, <2>6, <4>1 DEF Found
      <4> QED
        BY <4>2 DEF b
    <3> QED
      BY <1>2, <1>5, <3>1, <3>3, <3>4, <3>5
  <2>8. Covers(n, s, to)
    BY <2>7 DEF Covers
  <2>9. n[Len(n)] = <<i, to>>
    BY <1>7
  <2> QED
    BY <2>2, <2>3, <2>8, <2>9
<1>11. LoaderInv' /\ entries' \in Seq(Keys) /\ data' \subseteq Keys
  BY <1>1, LoaderStays DEF IInv, Running, Ended
<1>12. Typed'
  BY <1>1, <1>5, <1>8, <1>11, Frame DEF IInv, Typed, Range2
<1>13. Compiled' /\ ChainInv' /\ CountInv'
  BY <1>1, Frame DEF IInv, Compiled, ChainInv, Loaded, Doc, CountInv, Iterating
<1>14. AskedInv' /\ OrderInv'
  BY <1>1, Frame DEF IInv, AskedInv, OrderInv, Iterating, Returned
<1>15. FindInv'
  <2>1. Doc(Min(todo)).data' = s /\ SnippetExprs' = SnippetExprs
    BY <1>1, Frame DEF s, Doc
  <2>2. CASE pos = <<off, off>>
    <3>1. off' = off
      BY <1>1, <2>2
    <3>2. Stuck'
      BY <1>3, <2>1, <2>2, <3>1 DEF Stuck, pos
    <3> QED
      BY <1>1, <1>2, <1>5, <1>8, <1>9, <2>1, <3>2 DEF FindInv
  <2>3. CASE pos # <<off, off>>
    <3> QED
      BY <1>1, <1>2, <1>5, <1>8, <1>9, <1>10, <2>1, <2>3 DEF FindInv, Covers
  <2> QED
    BY <2>2, <2>3
<1>16. DocsInv'
  BY <1>1, DocsStay DEF IInv
<1> QED
  BY <1>11, <1>12, <1>13, <1>14, <1>15, <1>16 DEF IInv

\* The alternation of no expressions matches the empty string everywhere.
LEMMA EmptyOccurs ==
  ASSUME NEW s \in Seq(Letters), NEW x \in 0..Len(s)
  PROVE  ~NoneIn(Alternation(<<>>), s, x, {x})
<1>1. <<>> \in Seq(Letters) /\ Len(<<>>) = 0 /\ x \in Nat /\ x <= Len(s) /\ Len(s) \in Nat
  OBVIOUS
<1> DEFINE w == <<>>
           b == [before |-> Contexts, word |-> w, after |-> Contexts]
           e == <<b>>
<1>2. w \in Seq(Letters) /\ Len(w) = 0
  BY <1>1
<1>3. OccursAt(w, s, x)
  <2> HIDE DEF w
  <2>1. x + Len(w) <= Len(s) /\ \A k \in 1..Len(w) : s[x + k] = w[k]
    BY <1>1, <1>2
  <2> QED
    BY <1>1, <1>2, <2>1, OccursElementwise
<1> HIDE DEF w
<1>4. b.before = Contexts /\ b.word = w /\ b.after = Contexts
  OBVIOUS
<1> HIDE DEF b
<1>5. Preceding(s, x, x) \in Contexts
  BY DEF Preceding, Contexts
<1>6. Following(s, x + Len(w)) \in Contexts
  <2>1. x + Len(w) = x
    BY <1>1, <1>2
  <2>2. x # Len(s) => s[x + 1] \in Letters
    BY <1>1
  <2> QED
    BY <2>1, <2>2 DEF Following, Contexts
<1>7. BranchAt(b, s, x, x)
  BY <1>3, <1>4, <1>5, <1>6 DEF BranchAt
<1>8. 1 \in DOMAIN e /\ e[1] = b
  OBVIOUS
<1> HIDE DEF e
<1>9. Alternation(<<>>) = <<e>>
  BY DEF Alternation, e, b, w
<1>10. 1 \in DOMAIN <<e>> /\ <<e>>[1] = e
  OBVIOUS
<1> QED
  BY <1>7, <1>8, <1>9, <1>10 DEF NoneIn

\* The loop over the matches ends when no expression matches any more, and then
\* the matches are complete.
LEMMA NothingFound ==
  ASSUME IInv, pc = "find", FindIndex(SnippetExprs, Doc(Min(todo)).data, off) = Nil
  PROVE  LET s == Doc(Min(todo)).data
         IN  /\ SnippetExprs # <<>> /\ NoneIn(SnippetExprs, s, off, off..Len(s))
             /\ Covers(ranges, s, Len(s) + 1)
<1> DEFINE s == Doc(Min(todo)).data
<1>1. /\ s \in Seq(Letters) /\ Len(s) <= MaxRanges /\ SnippetExprs \in Seq(Seq(Branches))
      /\ off \in Nat /\ off <= Len(s) /\ Len(s) \in Nat
  BY FindState
<1>2. NoneIn(Alternation(SnippetExprs), s, off, off..Len(s))
  BY <1>1, Finding
<1>3. SnippetExprs # <<>>
  <2> SUFFICES ASSUME SnippetExprs = <<>> PROVE FALSE
    OBVIOUS
  <2>1. off \in 0..Len(s) /\ off \in off..Len(s)
    BY <1>1
  <2>2. ~NoneIn(Alternation(<<>>), s, off, {off})
    <3> HIDE DEF s
    <3> QED
      BY <1>1, <2>1, EmptyOccurs
  <2> QED
    BY <1>2, <2>1, <2>2 DEF NoneIn
<1>4. NoneIn(SnippetExprs, s, off, off..Len(s))
  BY <1>2, <1>3 DEF Alternation
<1>5. ~Stuck
  <2>1. off \in 0..MaxRanges
    BY <1>1, SearchAssumption
  <2> QED
    BY <2>1, SearchAssumption DEF Stuck
<1>6. Covers(ranges, s, off)
  BY <1>5 DEF IInv, FindInv
<1>7. ASSUME NEW j \in DOMAIN SnippetExprs, NEW k \in DOMAIN SnippetExprs[j],
             NEW x \in 0..(Len(s) + 1)-1,
             SnippetExprs[j][k].word # <<>>, BranchAt(SnippetExprs[j][k], s, 0, x)
      PROVE  Found(ranges, x, SnippetExprs[j][k])
  <2>1. x \in Nat /\ x <= Len(s)
    BY <1>1
  <2>2. CASE x < off
    <3>1. x \in 0..off-1
      BY <1>1, <2>1, <2>2
    <3> QED
      BY <1>6, <1>7, <3>1 DEF Covers
  <2>3. CASE off <= x
    <3>1. x \in off..Len(s)
      BY <1>1, <2>1, <2>3
    <3>2. ~BranchAt(SnippetExprs[j][k], s, off, x)
      BY <1>4, <3>1 DEF NoneIn
    <3> QED
      BY <1>5, <1>7, <2>1, <2>3, <3>2, FoundBefore
  <2> QED
    BY <1>1, <2>1, <2>2, <2>3
<1>8. Covers(ranges, s, Len(s) + 1)
  BY <1>7 DEF Covers
<1> QED
  BY <1>3, <1>4, <1>8

LEMMA EndDocStep == ASSUME IInv, EndDoc PROVE IInv'
<1> DEFINE d == Min(todo)
           s == Doc(d).data
           RespDocs == Seq([id : Nat, matches : Range2])
           found == [id |-> d, matches |-> ranges]
<1>1. /\ pc = "find" /\ FindIndex(SnippetExprs, s, off) = Nil /\ todo' = todo \ {d}
      /\ resp' = IF ranges = <<>> THEN Uncounted(resp)
                 ELSE [resp EXCEPT !.docs = Append(@, found)]
      /\ pc' = IF Len(resp'.docs) < MaxDocs THEN "inspect" ELSE "return"
      /\ UNCHANGED <<shard, req, entries, data, released, filters, post, off, ranges>>
  BY DEF EndDoc, request, loaderVars
<1>2. /\ todo # {} /\ d \in todo /\ d \in DocIds /\ d \in Nat /\ \A y \in todo : d <= y
      /\ todo \subseteq Nat /\ DocIds \subseteq Nat
      /\ s \in Seq(Letters) /\ Len(s) \in Nat /\ ~ChainFails /\ off \in Nat
  BY <1>1, FindState, NextDoc, DocTypes DEF IInv, Typed
<1>3. /\ SnippetExprs # <<>> /\ NoneIn(SnippetExprs, s, off, off..Len(s))
      /\ Covers(ranges, s, Len(s) + 1)
  BY <1>1, NothingFound
<1>4. /\ resp \in [docs : RespDocs, matches : Int, inspected : Nat]
      /\ ranges \in Range2
  BY DEF IInv, Typed
<1>5. IsFiniteSet(todo) /\ Cardinality(todo) \in Nat /\ Cardinality(todo') = Cardinality(todo) - 1
  BY <1>1, <1>2, Counted DEF IInv
<1> HIDE DEF d, s
<1>6. resp.docs \in RespDocs /\ Len(resp.docs) \in Nat /\ Len(resp.docs) < MaxDocs /\ MaxDocs \in Nat
  BY <1>1, <1>4, SearchAssumption DEF IInv, OrderInv, Iterating
<1>7. /\ resp.matches = Len(resp.docs) + Cardinality(todo)
      /\ resp.inspected = Cardinality(post) - Cardinality(todo) + 1
      /\ Cardinality(post) \in Nat
  <2>1. IsFiniteSet(post)
    BY <1>1, DocTypes, FS_Subset DEF IInv, Typed, ChainInv, Iterating
  <2> QED
    BY <1>1, <2>1, FS_CardinalityType DEF IInv, CountInv, Iterating
<1>8. /\ AskedDocs \subseteq todo \cup Returned
      /\ \A r \in Returned, y \in todo : r < y
      /\ \A r \in Returned : r \in DocIds
  BY <1>1 DEF IInv, AskedInv, OrderInv, Iterating
\* What is returned, and how many matches that makes.
<1>9. /\ resp' \in [docs : RespDocs, matches : Int, inspected : Nat]
      /\ resp'.inspected = resp.inspected
      /\ Len(resp'.docs) <= MaxDocs /\ Len(resp'.docs) \in Nat
      /\ resp'.matches = Len(resp'.docs) + Cardinality(todo')
      /\ \/ Returned' = Returned /\ d \notin AskedDocs
         \/ Returned' = Returned \cup {d}
      /\ DocsInv'
  <2>1. CASE ranges = <<>>
    <3>1. resp' = [resp EXCEPT !.matches = resp.matches - 1]
      BY <1>1, <2>1 DEF Uncounted
    <3>2. /\ resp'.docs = resp.docs /\ resp'.inspected = resp.inspected
          /\ resp'.matches = resp.matches - 1
          /\ resp' \in [docs : RespDocs, matches : Int, inspected : Nat]
      <4> HIDE DEF RespDocs
      <4> QED
        BY <1>4, <3>1
    <3>3. Returned' = Returned /\ DocsInv'
      BY <1>1, <3>2, DocsStay DEF Returned, IInv
    <3>4. d \notin AskedDocs
      <4> SUFFICES ASSUME d \in AskedDocs PROVE FALSE
        OBVIOUS
      <4>1. 1 \in DOMAIN SnippetExprs /\ 1 \in DOMAIN ContentExprs
            /\ ContentExprs[1] = SnippetExprs[1]
        <5>1. /\ SnippetExprs \in Seq(Seq(Branches))
              /\ \A i \in DOMAIN SnippetExprs :
                   i \in DOMAIN ContentExprs /\ ContentExprs[i] = SnippetExprs[i]
          BY <1>2, ExprTypes DEF IInv
        <5>2. 1 \in DOMAIN SnippetExprs
          BY <1>3, <5>1
        <5> QED
          BY <5>1, <5>2
      <4>2. InnerMatch(SnippetExprs[1], s)
        BY <4>1 DEF AskedDocs, Asked, s
      <4>3. PICK k \in DOMAIN SnippetExprs[1], x \in 0..Len(s) : BranchAt(SnippetExprs[1][k], s, 0, x)
        BY <4>2 DEF InnerMatch
      <4>4. off = 0
        BY <1>1, <2>1 DEF IInv, FindInv
      <4> QED
        BY <1>3, <4>1, <4>3, <4>4 DEF NoneIn
    <3>5. /\ Len(resp'.docs) <= MaxDocs /\ Len(resp'.docs) \in Nat
          /\ resp'.matches = Len(resp'.docs) + Cardinality(todo')
      <4> DEFINE a == Len(resp.docs)
                 c == Cardinality(todo)
      <4>1. /\ Len(resp'.docs) = a /\ a \in Nat /\ c \in Nat /\ a < MaxDocs /\ MaxDocs \in Nat
            /\ resp'.matches = (a + c) - 1 /\ Cardinality(todo') = c - 1
        BY <1>5, <1>6, <1>7, <3>2
      <4> HIDE DEF a, c
      <4> QED
        BY <4>1
    <3> QED
      BY <3>2, <3>3, <3>4, <3>5
  <2>2. CASE ranges # <<>>
    <3>1. resp' = [resp EXCEPT !.docs = Append(resp.docs, found)]
      BY <1>1, <2>2
    <3>2. found \in [id : Nat, matches : Range2] /\ found.id = d /\ found.matches = ranges
      BY <1>2, <1>4
    <3> DEFINE n == Append(resp.docs, found)
    <3>3. /\ n \in RespDocs /\ Len(n) = Len(resp.docs) + 1 /\ n[Len(n)] = found
          /\ DOMAIN n = DOMAIN resp.docs \cup {Len(n)}
          /\ \A i \in DOMAIN resp.docs : n[i] = resp.docs[i]
      <4> DEFINE D == [id : Nat, matches : Range2]
      <4>1. resp.docs \in Seq(D) /\ found \in D
        BY <1>6, <3>2
      <4> HIDE DEF D, found
      <4>2. /\ n \in Seq(D) /\ Len(n) = Len(resp.docs) + 1 /\ n[Len(n)] = found
            /\ \A i \in DOMAIN resp.docs : n[i] = resp.docs[i]
        BY <4>1
      <4>3. DOMAIN n = 1..Len(resp.docs)+1 /\ DOMAIN resp.docs = 1..Len(resp.docs)
        BY <4>1
      <4>4. DOMAIN n = DOMAIN resp.docs \cup {Len(n)}
        BY <1>6, <4>2, <4>3
      <4> QED
        BY <4>2, <4>4 DEF D
    <3> HIDE DEF n, found
    <3>4. /\ resp'.docs = n /\ resp'.inspected = resp.inspected /\ resp'.matches = resp.matches
          /\ resp' \in [docs : RespDocs, matches : Int, inspected : Nat]
      <4>1. resp' = [resp EXCEPT !.docs = n]
        BY <3>1 DEF n
      <4> HIDE DEF RespDocs
      <4> QED
        BY <1>4, <3>3, <4>1
    <3>5. Returned' = Returned \cup {d}
      BY <3>2, <3>3, <3>4 DEF Returned
    <3>6. InOrder(ranges) /\ Covers(ranges, s, Len(s) + 1)
      BY <1>1, <1>3 DEF IInv, FindInv
    <3>7. DocsInv'
      <4> SUFFICES ASSUME NEW i \in DOMAIN n
                   PROVE  /\ InOrder(n[i].matches)
                          /\ Covers(n[i].matches, Doc(n[i].id).data,
                                    Len(Doc(n[i].id).data) + 1)
        <5>1. SnippetExprs' = SnippetExprs /\ shard' = shard /\ resp'.docs = n
          BY <1>1, <3>4, Frame
        <5> QED
          BY <5>1 DEF DocsInv, Covers, Doc
      <4>1. CASE i \in DOMAIN resp.docs
        BY <3>3, <4>1 DEF IInv, DocsInv
      <4>2. CASE i = Len(n)
        BY <3>2, <3>3, <3>6, <4>2 DEF s
      <4> QED
        BY <3>3, <4>1, <4>2
    <3>8. /\ Len(resp'.docs) <= MaxDocs /\ Len(resp'.docs) \in Nat
          /\ resp'.matches = Len(resp'.docs) + Cardinality(todo')
      <4> DEFINE a == Len(resp.docs)
                 c == Cardinality(todo)
      <4>1. /\ Len(resp'.docs) = a + 1 /\ a \in Nat /\ c \in Nat
            /\ a < MaxDocs /\ MaxDocs \in Nat
            /\ resp'.matches = a + c /\ Cardinality(todo') = c - 1
        BY <1>5, <1>6, <1>7, <3>3, <3>4
      <4> HIDE DEF a, c
      <4> QED
        BY <4>1
    <3> QED
      BY <3>4, <3>5, <3>7, <3>8
  <2> QED
    BY <2>1, <2>2
<1>10. /\ pc' \in {"inspect", "return"}
       /\ pc' = "inspect" => Len(resp'.docs) < MaxDocs
       /\ pc' = "return" => Len(resp'.docs) = MaxDocs
  BY <1>1, <1>6, <1>9
<1>11. LoaderInv' /\ entries' \in Seq(Keys) /\ data' \subseteq Keys
  BY <1>1, <1>10, LoaderStays DEF IInv, Running, Ended
<1>12. Typed'
  BY <1>1, <1>9, <1>10, <1>11, Frame DEF IInv, Typed, Running
<1>13. Compiled' /\ ChainInv'
  BY <1>1, <1>2, <1>10, Frame DEF IInv, Compiled, ChainInv, Loaded, Doc, Iterating
<1>14. AskedInv'
  BY <1>1, <1>8, <1>9, <1>10, Frame DEF AskedInv, Iterating
<1>15. OrderInv'
  <2>1. \A r \in Returned', y \in todo' : r < y
    <3> SUFFICES ASSUME NEW r \in Returned', NEW y \in todo' PROVE r < y
      OBVIOUS
    <3>1. y \in todo /\ y # d
      BY <1>1
    <3>2. CASE r \in Returned
      BY <1>8, <3>1, <3>2
    <3>3. CASE r = d
      BY <1>2, <3>1, <3>3
    <3> QED
      BY <1>9, <3>2, <3>3
  <2>2. \A r \in Returned' : r \in DocIds'
    BY <1>1, <1>2, <1>8, <1>9, Frame
  <2> QED
    BY <1>10, <2>1, <2>2 DEF OrderInv
<1>16. CountInv' /\ FindInv'
  BY <1>1, <1>5, <1>7, <1>9, <1>10 DEF CountInv, FindInv, Iterating
<1> QED
  BY <1>9, <1>11, <1>12, <1>13, <1>14, <1>15, <1>16 DEF IInv

LEMMA ReturnStep == ASSUME IInv, Return PROVE IInv'
<1>1. /\ pc = "return" \/ (pc = "inspect" /\ todo = {})
      /\ pc' = "done" /\ released' = entries'
      /\ UNCHANGED <<shard, req, entries, data, filters, post, todo, off, ranges, resp>>
  BY DEF Return, Fail, ReleaseAll, request
<1>2. LoaderInv' /\ entries' \in Seq(Keys) /\ data' \subseteq Keys
  BY <1>1, LoaderStays DEF IInv, Ended
<1>3. Typed'
  BY <1>1, <1>2, Frame DEF IInv, Typed, Ended
<1>4. Compiled' /\ ChainInv'
  BY <1>1, Frame DEF IInv, Compiled, ChainInv, Loaded, Doc, Iterating
<1>5. AskedInv' /\ OrderInv'
  BY <1>1, Frame DEF IInv, AskedInv, OrderInv, Iterating, Returned
<1>6. CountInv' /\ FindInv'
  BY <1>1 DEF IInv, CountInv, FindInv, Iterating
<1>7. DocsInv'
  BY <1>1, DocsStay DEF IInv
<1> QED
  BY <1>2, <1>3, <1>4, <1>5, <1>6, <1>7 DEF IInv

-----------------------------------------------------------------------------
(***************************************************************************)
(* The theorems.                                                           *)
(***************************************************************************)
LEMMA StepIInv == IInv /\ [Next]_vars => IInv'
<1> SUFFICES ASSUME IInv, [Next]_vars PROVE IInv'
  OBVIOUS
<1>1. CASE UNCHANGED vars
  <2>1. UNCHANGED <<pc, shard, req, entries, data, released, filters, post, todo, off, ranges, resp>>
    BY <1>1 DEF vars
  <2>2. Typed' /\ LoaderInv'
    BY <2>1, Frame DEF IInv, Typed, LoaderInv
  <2>3. Compiled' /\ ChainInv' /\ AskedInv' /\ OrderInv' /\ CountInv'
    BY <2>1, Frame DEF IInv, Compiled, ChainInv, Loaded, Doc, AskedInv, OrderInv, CountInv, Returned
  <2>4. FindInv' /\ DocsInv'
    BY <2>1, Frame, DocsStay DEF IInv, FindInv, Stuck, Covers, Doc
  <2> QED
    BY <2>2, <2>3, <2>4 DEF IInv
<1> QED
  BY <1>1, RejectStep, LoadShardStep, ChainStep, ApplyFilterStep, StartScanStep, ScanStep,
     EndScanStep, StartIterateStep, InspectStep, FindStep, EndDocStep, ReturnStep DEF Next

\* The invariant the theorems below rest on: what SearchShard, its filters and
\* its requestLoader keep true between any two steps.
THEOREM Invariant == Spec => []IInv
BY InitIInv, StepIInv, PTL DEF Spec

\* An answer of SearchShard has every document the expression asks for, but those
\* that match only because of where their content begins or ends, up to the last
\* one it inspected, for any shard, expression and limit.
THEOREM AnswersAreComplete == Spec => []AnswerComplete
<1>1. IInv => AnswerComplete
  <2> SUFFICES ASSUME IInv, pc = "done", NEW d \in DocIds, Asked(d), d \notin Returned
               PROVE  Len(resp.docs) = MaxDocs /\ \A r \in Returned : r < d
    BY DEF AnswerComplete
  <2>1. d \in todo
    BY DEF IInv, AskedInv, AskedDocs, Iterating
  <2> QED
    BY <2>1 DEF IInv, OrderInv, Iterating
<1> QED
  BY Invariant, <1>1, PTL

\* Documents are returned once or not at all: there are as many as ids, or more.
LEMMA ReturnedCounted ==
  ASSUME IInv
  PROVE  /\ IsFiniteSet(Returned) /\ Cardinality(Returned) \in Nat
         /\ Cardinality(Returned) <= Len(resp.docs)
<1> DEFINE n == Len(resp.docs)
           f == [i \in 1..n |-> resp.docs[i].id]
<1>1. n \in Nat /\ DOMAIN resp.docs = 1..n
  BY DEF IInv, Typed
<1>2. f \in [1..n -> Returned] /\ \A r \in Returned : \E i \in 1..n : f[i] = r
  BY <1>1 DEF Returned
<1>3. ExistsSurjection(1..n, Returned)
  <2> HIDE DEF f
  <2> QED
    BY <1>2 DEF ExistsSurjection, Surjection
<1> HIDE DEF n
<1>4. IsFiniteSet(Returned)
  BY <1>1, <1>3, FS_NatSurjection
<1>5. Cardinality(Returned) <= n
  BY <1>1, <1>3, FS_SurjCardinalityBound
<1> QED
  BY <1>4, <1>5, FS_CardinalityType DEF n

\* The number of matches SearchShard answers is that of the documents it
\* returns, or a bound on those asked for that match within their content.
THEOREM CountsAreHonest == Spec => []MatchesHonest
<1>1. IInv => MatchesHonest
  <2> SUFFICES ASSUME IInv, pc = "done" PROVE MatchesHonest
    BY DEF MatchesHonest
  <2> DEFINE n == Len(resp.docs)
             c == Cardinality(todo)
             p == Cardinality(post)
  <2>1. /\ resp.matches = n + c /\ resp.inspected = p - c /\ AskedDocs \subseteq todo \cup Returned
    BY DEF IInv, CountInv, AskedInv, Iterating
  <2>2. n \in Nat /\ c \in Nat /\ IsFiniteSet(todo)
    BY Counted DEF IInv, Typed
  <2>3. p \in Nat
    <3>1. IsFiniteSet(post)
      BY DocTypes, FS_Subset DEF IInv, Typed, ChainInv, Iterating
    <3> QED
      BY <3>1, FS_CardinalityType
  <2>4. Cardinality(AskedDocs) <= n + c /\ Cardinality(AskedDocs) \in Nat
    <3>1. /\ IsFiniteSet(Returned) /\ Cardinality(Returned) \in Nat
          /\ Cardinality(Returned) <= n
      BY ReturnedCounted
    <3>2. IsFiniteSet(todo \cap Returned) /\ Cardinality(todo \cap Returned) \in Nat
      BY <2>2, FS_Subset, FS_CardinalityType
    <3>3. /\ IsFiniteSet(todo \cup Returned)
          /\ Cardinality(todo \cup Returned) =
               c + Cardinality(Returned) - Cardinality(todo \cap Returned)
      BY <2>2, <3>1, FS_Union
    <3>4. /\ Cardinality(AskedDocs) <= Cardinality(todo \cup Returned)
          /\ IsFiniteSet(AskedDocs)
      BY <2>1, <3>3, FS_Subset
    <3>5. Cardinality(AskedDocs) \in Nat
      BY <3>4, FS_CardinalityType
    <3> HIDE DEF n, c
    <3> QED
      BY <2>2, <3>1, <3>2, <3>3, <3>4, <3>5
  <2>5. c = 0 => AskedDocs \subseteq Returned
    BY <2>1, <2>2, FS_EmptySet
  <2> HIDE DEF n, c, p
  <2>6. /\ resp.matches >= n /\ resp.matches >= Cardinality(AskedDocs)
        /\ (resp.matches = n => c = 0) /\ (resp.inspected = p => resp.matches = n)
    BY <2>1, <2>2, <2>3, <2>4
  <2> QED
    BY <2>5, <2>6 DEF MatchesHonest, AskedDocs, n, p
<1> QED
  BY Invariant, <1>1, PTL

\* The matches SearchShard finds in a document are in order and apart, and each
\* place where a snippet expression matches a word overlaps one of them, but one
\* just after a match where the expression asserts what stands before it.
THEOREM OccurrencesAreCovered == Spec => []MatchesCover
<1>1. IInv => MatchesCover
  <2> SUFFICES ASSUME IInv, NEW i \in DOMAIN resp.docs
               PROVE  LET m == resp.docs[i].matches
                          s == Doc(resp.docs[i].id).data
                      IN  /\ \A j \in 1..Len(m)-1 : m[j][2] <= m[j + 1][1]
                          /\ \A e \in Range(SnippetExprs), x \in 0..Len(s) : \A b \in Range(e) :
                               b.word # <<>> /\ BranchAt(b, s, 0, x) => Found(m, x, b)
    BY DEF MatchesCover
  <2> DEFINE m == resp.docs[i].matches
             s == Doc(resp.docs[i].id).data
  <2>1. InOrder(m) /\ Covers(m, s, Len(s) + 1)
    BY DEF IInv, DocsInv
  <2> HIDE DEF m, s
  <2>2. ASSUME NEW e \in Range(SnippetExprs), NEW x \in 0..Len(s), NEW b \in Range(e),
               b.word # <<>>, BranchAt(b, s, 0, x)
        PROVE  Found(m, x, b)
    <3>1. PICK j \in DOMAIN SnippetExprs : e = SnippetExprs[j]
      BY DEF Range
    <3>2. PICK k \in DOMAIN SnippetExprs[j] : b = SnippetExprs[j][k]
      BY <3>1 DEF Range
    <3>3. x \in 0..(Len(s) + 1)-1
      BY <2>2
    <3> QED
      BY <2>1, <2>2, <3>2, <3>3 DEF Covers
  <2> QED
    BY <2>1, <2>2 DEF InOrder, m, s
<1> QED
  BY Invariant, <1>1, PTL

\* The requestLoader acquires no blob twice, and has released every one when
\* SearchShard returns, fails or panics.
THEOREM EverythingIsReleased == Spec => []AllReleased
<1>1. IInv => AllReleased
  BY DEF IInv, LoaderInv, AllReleased, Ended
<1> QED
  BY Invariant, <1>1, PTL

\* SearchShard panics for expressions without content only.
THEOREM ContentNeverPanics == Spec => []PanicsOnPathsOnly
<1>1. IInv => PanicsOnPathsOnly
  BY DEF IInv, ChainInv, PanicsOnPathsOnly
<1> QED
  BY Invariant, <1>1, PTL
=============================================================================
