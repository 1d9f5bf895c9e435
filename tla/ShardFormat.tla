----------------------------- MODULE ShardFormat -----------------------------
(***************************************************************************)
(* The flat shard format: index2.IndexWriter as indexRepo of the indexer   *)
(* job drives it (index2/write.go, cmd/cindex-git/main.go), the shard      *)
(* ToBytes lays out, and the reader that answers trigram queries from it   *)
(* (index2/read.go).                                                       *)
(*                                                                         *)
(* Bytes are the numbers 0..Base-1 (256 in the code) with a newline and    *)
(* one byte that is never valid UTF-8 among them; a trigram is a number    *)
(* below Base^3.  Document ids count from 0 and lists from 1.  The buffers *)
(* of the flatbuffers library are abstracted to the values a reader gets   *)
(* back from them; a DocInner is its contents after one header byte.       *)
(***************************************************************************)
EXTENDS Integers, Sequences, FiniteSets, Functions

CONSTANTS
  Base, NL, Bad,         \* the bytes, the newline, the invalid byte
  Contents,              \* the contents files can have
  MaxLine,               \* bufio.MaxScanTokenSize
  MaxFiles,              \* bound: files in the commit
  MaxInlineRaw,          \* 16 MB: smaller raw data is kept in the shard
  Queries,               \* the trigram queries asked, by how deep they are nested
  Nil                    \* a nil bitmap, no raw data, no shard

Trigrams == 0..(Base * Base * Base - 1)

\* The queries nested at most n deep.
Nested(n) == UNION {Queries[m] : m \in 1..n}

\* What ToBytes can return.
Shards ==
  [trigrams : Seq(Trigrams), lists : Seq(SUBSET (0..MaxFiles)), maxDocId : Nat,
   docs : Seq([start : Nat, length : Nat, sha256 : Seq(0..Base) \cup {Nil}]),
   raw : Seq(0..Base) \cup {Nil}]

\* What the constants must satisfy: of the queries what RegexpQuery gives,
\* an "and" or an "or" of something, in which are only such queries.
ShardFormatAssumption ==
  /\ Base \in Nat \ {0} /\ NL \in 0..Base-1 /\ Bad \in 0..Base-1 /\ NL # Bad
  /\ Contents \subseteq Seq(0..Base-1)
  /\ MaxLine \in Nat /\ MaxFiles \in Nat /\ MaxInlineRaw \in Nat
  /\ DOMAIN Queries = 1..Len(Queries) /\ Len(Queries) \in Nat
  /\ \A n \in 1..Len(Queries) : \A q \in Queries[n] :
       /\ q.op \in {"and", "or"}
       /\ q.trigrams \in Seq(Trigrams) /\ q.sub \in Seq(Nested(n - 1))
       /\ Len(q.trigrams) + Len(q.sub) > 0
  /\ Nil \notin Shards \cup Seq(0..Base) /\ \A S \in SUBSET (0..MaxFiles) : S # Nil

VARIABLES
  seen,                  \* the number of files the iterator has yielded
  trigram,               \* IndexWriter.trigram.Dense()
  sparseTrigrams, denseTrigrams, lists,
  docs,                  \* IndexWriter.docs, with the contents they came from
  raw, rawLength,
  shard                  \* what ToBytes returned, or Nil

vars == <<seen, trigram, sparseTrigrams, denseTrigrams, lists, docs, raw, rawLength, shard>>

Modes == {"regular", "executable", "symlink", "other"}
Files == [mode : Modes, big : BOOLEAN, content : Contents]

-----------------------------------------------------------------------------
(***************************************************************************)
(* Writing.                                                                *)
(***************************************************************************)
\* scanLines: the newline belongs to the line it ends.
LineStarts(c) == {1} \cup {i + 1 : i \in {j \in 1..Len(c) : c[j] = NL}}
LineAt(c, i) ==
  SubSeq(c, i, CHOOSE j \in i-1..Len(c) :
                 /\ j = Len(c) \/ (j >= i /\ c[j] = NL)
                 /\ \A k \in i..j-1 : c[k] # NL)

\* The number of bytes scanned before a line is refused: ErrInvalidUTF8 or
\* ErrLineTooLong.
Refused(line) == Len(line) > MaxLine \/ \E i \in 1..Len(line) : line[i] = Bad
Scanned(c) ==
  LET bad == {i \in LineStarts(c) : Refused(LineAt(c, i))}
  IN  IF bad = {} THEN Len(c) ELSE (CHOOSE i \in bad : \A j \in bad : i <= j) - 1

Tok(c, i) == (c[i-2] * Base + c[i-1]) * Base + c[i]

\* sparse.Set.Add, as InsertionOrder has it.
Added(order, x) == IF x \in Range(order) THEN order ELSE Append(order, x)

\* The loop of computeTrigrams over the bytes scanned.
ComputeTrigrams(set, c) ==
  LET scan[i \in 0..Len(c)] == IF i < 3 THEN set ELSE Added(scan[i-1], Tok(c, i))
  IN  scan[Scanned(c)]

\* The trigram has no list yet: its slot is unused or another trigram's.
NewSlot(w, t) == w.sparse[t] >= Len(w.dense) \/ w.dense[w.sparse[t] + 1] # t

AddTrigram(w, t, id) ==
  IF NewSlot(w, t)
  THEN [dense |-> Append(w.dense, t),
        lists |-> Append(w.lists, {id}),
        sparse |-> [w.sparse EXCEPT ![t] = Len(w.dense)]]
  ELSE [w EXCEPT !.lists[w.sparse[t] + 1] = @ \cup {id}]

Writer == [dense |-> denseTrigrams, lists |-> lists, sparse |-> sparseTrigrams]

\* The loop of addTrigrams over i.trigram.Dense().
AddTrigrams(order, id) ==
  LET add[i \in 0..Len(order)] == IF i = 0 THEN Writer ELSE AddTrigram(add[i-1], order[i], id)
  IN  add[Len(order)]

\* docInnerWrite
Inner(c) == <<Base>> \o c

\* Mutant: the trigrams of a refused file stay in the set.
StartSetKept == trigram

\* i.trigram.Reset()
StartSet == <<>>

Scan(c) == ComputeTrigrams(StartSet, c)

Init ==
  /\ seen = 0
  /\ trigram = <<>>
  /\ sparseTrigrams = [t \in Trigrams |-> 0]
  /\ denseTrigrams = <<>> /\ lists = <<>>
  /\ docs = <<>>
  /\ raw = <<>> /\ rawLength = 0
  /\ shard = Nil

Yields ==
  /\ shard = Nil /\ seen < MaxFiles
  /\ seen' = seen + 1

\* Submodules and the like are passed over, files that are too big refused.
SkipObject(f) ==
  /\ Yields
  /\ f.mode = "other" \/ f.big
  /\ UNCHANGED <<trigram, sparseTrigrams, denseTrigrams, lists, docs, raw, rawLength, shard>>

\* A refused file leaves the trigrams read so far; indexRepo goes on.
RefuseObject(f) ==
  /\ Yields
  /\ f.mode # "other" /\ ~f.big
  /\ Scanned(f.content) < Len(f.content)
  /\ trigram' = Scan(f.content)
  /\ UNCHANGED <<sparseTrigrams, denseTrigrams, lists, docs, raw, rawLength, shard>>

\* start := i.rawLength
RangeStart == rawLength

AddObject(f) ==
  /\ Yields
  /\ f.mode # "other" /\ ~f.big
  /\ Scanned(f.content) = Len(f.content)
  /\ trigram' = Scan(f.content)
  /\ raw' = Append(raw, Inner(f.content))
  /\ rawLength' = rawLength + Len(Inner(f.content))
  /\ docs' = Append(docs, [content |-> f.content, start |-> RangeStart,
                           length |-> Len(Inner(f.content))])
  /\ LET w == AddTrigrams(trigram', Len(docs))
     IN  /\ sparseTrigrams' = w.sparse
         /\ denseTrigrams' = w.dense
         /\ lists' = w.lists
  /\ UNCHANGED shard

\* trigramIdx of flushPostingLists: the positions of the trigrams, sorted.
FlushOrder ==
  LET below(j) == {k \in DOMAIN denseTrigrams : denseTrigrams[k] < denseTrigrams[j]}
  IN  [i \in DOMAIN denseTrigrams |->
         CHOOSE j \in DOMAIN denseTrigrams : Cardinality(below(j)) = i - 1]

\* flatRaw: the pieces one after the other.
Flat(pieces) ==
  LET flat[i \in 0..Len(pieces)] == IF i = 0 THEN <<>> ELSE flat[i-1] \o pieces[i]
  IN  flat[Len(pieces)]

\* Raw data below the limit moves into the shard, docs then have no hash.
Inline == rawLength < MaxInlineRaw

ToBytes ==
  /\ shard = Nil
  /\ shard' = [trigrams |-> [i \in DOMAIN lists |-> denseTrigrams[FlushOrder[i]]],
               lists |-> [i \in DOMAIN lists |-> lists[FlushOrder[i]]],
               maxDocId |-> Len(docs),
               docs |-> [i \in DOMAIN docs |->
                           [start |-> docs[i].start, length |-> docs[i].length,
                            sha256 |-> IF Inline THEN Nil ELSE raw[i]]],
               raw |-> IF Inline THEN Flat(raw) ELSE Nil]
  /\ raw' = IF Inline THEN <<>> ELSE raw
  /\ UNCHANGED <<seen, trigram, sparseTrigrams, denseTrigrams, lists, docs, rawLength>>

Next ==
  \/ \E f \in Files : SkipObject(f) \/ RefuseObject(f) \/ AddObject(f)
  \/ ToBytes

Spec == Init /\ [][Next]_vars

-----------------------------------------------------------------------------
(***************************************************************************)
(* Reading.  A query is [op, trigrams, sub], as index.Query.               *)
(***************************************************************************)
\* The loop of FindTrigram over the positions from 0.
FindTrigram(t) ==
  LET n == Len(shard.trigrams)
      find[lower \in 0..n] == [upper \in 0..n |->
        LET h == (lower + upper) \div 2
        IN  IF lower >= upper THEN {}
            ELSE IF shard.trigrams[h + 1] = t THEN shard.lists[h + 1]
            ELSE IF shard.trigrams[h + 1] < t THEN find[h + 1][upper]
            ELSE find[lower][h]]
  IN  find[0][n]

Meet(list, filter) == IF filter = Nil THEN list ELSE list \cap filter
Join(list, l) == IF list = Nil THEN l ELSE list \cup l

DocIds == 0..Len(docs)-1
Filters == (SUBSET DocIds) \cup {Nil}

\* QAnd: trigrams and subqueries narrow the filter in turn, until it is
\* empty; answer is what the subqueries return.
QueryAnd(q, filter, answer) ==
  LET byTrigram[i \in 0..Len(q.trigrams)] ==
        IF i = 0 THEN filter
        ELSE IF byTrigram[i-1] = {} THEN {}
        ELSE Meet(FindTrigram(q.trigrams[i]), byTrigram[i-1])
      bySub[i \in 0..Len(q.sub)] ==
        IF i = 0 THEN byTrigram[Len(q.trigrams)]
        ELSE IF bySub[i-1] = {} THEN {}
        ELSE answer[q.sub[i]][bySub[i-1]]
  IN  bySub[Len(q.sub)]

\* QOr without a filter: the union.
QueryOrAll(q, answer) ==
  LET bySub[i \in 0..Len(q.sub)] ==
        IF i = 0 THEN Nil ELSE Join(bySub[i-1], answer[q.sub[i]][Nil])
      byTrigram[i \in 0..Len(q.trigrams)] ==
        IF i = 0 THEN bySub[Len(q.sub)] ELSE Join(byTrigram[i-1], FindTrigram(q.trigrams[i]))
  IN  byTrigram[Len(q.trigrams)]

\* QOr with a filter: what is left when nothing finds it is taken away.
QueryOr(q, filter, answer) ==
  LET bySub[i \in 0..Len(q.sub)] ==
        IF i = 0 THEN filter ELSE bySub[i-1] \ answer[q.sub[i]][filter]
      notFound[i \in 0..Len(q.trigrams)] ==
        IF i = 0 THEN bySub[Len(q.sub)] ELSE notFound[i-1] \ FindTrigram(q.trigrams[i])
  IN  filter \ notFound[Len(q.trigrams)]

\* PostingQuery of an "and" or "or", which calls itself for the subqueries.
Answers ==
  LET answers[n \in 0..Len(Queries)] ==
        [q \in Nested(n) |-> [filter \in Filters |->
           IF q.op = "and" THEN QueryAnd(q, filter, answers[n-1])
           ELSE IF filter = Nil THEN QueryOrAll(q, answers[n-1])
           ELSE QueryOr(q, filter, answers[n-1])]]
  IN  answers[Len(Queries)]

Everything == [op |-> "all", trigrams |-> <<>>, sub |-> <<>>]
Nothing == [op |-> "none", trigrams |-> <<>>, sub |-> <<>>]

\* QAll returns the filter it was given, Nil included: the filter the code
\* builds for that case is a new variable.
PostingQuery(q, filter) ==
  CASE q = Nothing -> {}
    [] q = Everything -> filter
    [] OTHER -> Answers[q][filter]

-----------------------------------------------------------------------------
\* The trigrams a document really has.
TrigramsOf(id) == LET c == docs[id + 1].content IN {Tok(c, i) : i \in 3..Len(c)}

\* The documents a query is about.
About ==
  LET about[n \in 0..Len(Queries)] ==
        [q \in Nested(n) |->
           {id \in DocIds :
              IF q.op = "and"
              THEN /\ Range(q.trigrams) \subseteq TrigramsOf(id)
                   /\ \A s \in Range(q.sub) : id \in about[n-1][s]
              ELSE \/ Range(q.trigrams) \cap TrigramsOf(id) # {}
                   \/ \E s \in Range(q.sub) : id \in about[n-1][s]}]
  IN  about[Len(Queries)]

Satisfying(q) ==
  CASE q = Nothing -> {}
    [] q = Everything -> DocIds
    [] OTHER -> About[q]

\* The posting list found for a trigram holds exactly the documents that
\* contain it: not one of a file that was refused half way, none lost to a
\* slot shared in sparseTrigrams, whatever the order of the trigrams was.
PostingsExact ==
  shard # Nil =>
    \A t \in Trigrams : FindTrigram(t) = {id \in DocIds : t \in TrigramsOf(id)}

\* The range of a document cuts its DocInner out of the raw data, in the
\* shard or in the blobs written beside it, and a hash identifies it then.
RangesLocate ==
  shard # Nil =>
    \A i \in DOMAIN docs :
      LET d == shard.docs[i]
          all == IF shard.raw = Nil THEN Flat(raw) ELSE shard.raw
      IN  /\ SubSeq(all, d.start + 1, d.start + d.length) = Inner(docs[i].content)
          /\ (shard.raw = Nil) => d.sha256 = Inner(docs[i].content)

\* PostingQuery returns the documents of the filter that satisfy the query;
\* Nil, before and after, stands for all of them.
QueriesExact ==
  shard # Nil =>
    \A q \in Nested(Len(Queries)) \cup {Nothing, Everything} :
      LET right == Satisfying(q)
      IN  \A filter \in Filters :
            LET got == PostingQuery(q, filter)
            IN  IF got = Nil THEN filter = Nil /\ right = DocIds
                ELSE got = right \cap (IF filter = Nil THEN DocIds ELSE filter)

\* A shard that was written answers a query with exactly the documents it is
\* about, and locates their contents.
ShardExact == PostingsExact /\ QueriesExact /\ RangesLocate
=============================================================================
