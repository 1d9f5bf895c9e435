----------------------------- MODULE LocalIndex -----------------------------
(***************************************************************************)
(* The index of the command line tools: IndexWriter (index/write.go), that *)
(* sorts (trigram, file) pairs in runs and merges the runs with a heap,    *)
(* and the reader that answers queries from the delta coded lists          *)
(* (index/read.go).                                                        *)
(*                                                                         *)
(* Numbers are scaled: bytes are 0..Bytes-1 with the classes of UTF-8 at   *)
(* Cont, Lead and Wrong (0x80, 0xc0 and 0xf8 of 256); a file id is a       *)
(* number below Ids (2^32), all arithmetic on it modulo Ids.  A postEntry  *)
(* is trigram * Ids + fileid.  The buffered files are values.              *)
(***************************************************************************)
EXTENDS Integers, Sequences, FiniteSets, SequencesExt

CONSTANTS
  Bytes, NL,             \* 256 and the newline
  Cont, Lead, Wrong,     \* the first continuation, leading and invalid byte
  Ids,                   \* 2^32
  Digit,                 \* 2^12, the radix of sortPost
  Npost,                 \* the capacity of IndexWriter.post
  maxFileLen, maxLineLen, maxTextTrigrams,
  Contents,              \* the contents files can have
  MaxFiles,              \* bound: the number of files
  Queries,               \* the queries asked
  Nil                    \* a nil slice

\* What the constants must satisfy.
LocalIndexAssumption ==
  /\ NL < Cont /\ Cont < Lead /\ Lead < Wrong /\ Wrong < Bytes
  /\ Digit * Digit >= Bytes * Bytes * Bytes
  /\ Npost > 0 /\ MaxFiles + 1 < Ids

VARIABLES
  phase,                 \* "add", "merge" or "done"
  names,                 \* the contents of the files added, by file id
  seen,                  \* the number of files tried
  post, postFile,        \* the pairs in memory, the runs flushed
  ch,                    \* the heap of chunks, each the entries it has left
  e,                     \* the entry taken from the heap last
  lists                  \* the posting lists written, with their index entries

vars == <<phase, names, seen, post, postFile, ch, e, lists>>

\* 1<<24 - 1: the trigram that ends the posting lists.
Sentinel == Bytes * Bytes * Bytes - 1

Trigram(x) == x \div Ids
FileId(x) == x % Ids
MakePostEntry(t, id) == t * Ids + id

-----------------------------------------------------------------------------
(***************************************************************************)
(* Adding files.                                                           *)
(***************************************************************************)
ValidUTF8(c1, c2) ==
  CASE c1 < Cont -> c2 < Cont \/ (Lead <= c2 /\ c2 < Wrong)
    [] c1 >= Cont /\ c1 < Lead -> c2 < Wrong
    [] c1 >= Lead /\ c1 < Wrong -> Cont <= c2 /\ c2 < Lead
    [] OTHER -> FALSE

Tok(c, i) == (c[i-2] * Bytes + c[i-1]) * Bytes + c[i]

\* The length of the line up to and with byte i.
LineLen(c, i) ==
  i - (CHOOSE j \in 0..i-1 : /\ j = 0 \/ c[j] = NL
                             /\ \A k \in j+1..i-1 : c[k] # NL)

\* ix.trigram.Dense() after Reset and the scan.
Dense(c) ==
  FoldLeft(LAMBDA order, i : IF i < 3 \/ Tok(c, i) \in Range(order) THEN order
                             ELSE Append(order, Tok(c, i)), <<>>, [i \in 1..Len(c) |-> i])

\* The file is passed over: not text, too long, too many trigrams.
Ignored(c) ==
  \/ \E i \in 1..Len(c) : \/ ~ValidUTF8(IF i = 1 THEN 0 ELSE c[i-1], c[i])
                          \/ i > maxFileLen \/ LineLen(c, i) > maxLineLen
  \/ Len(Dense(c)) > maxTextTrigrams

\* Two rounds of a stable counting sort: the low digit, then the high one.
\* The list comes sorted by file id.
SortPost(p) ==
  LET round(q, D(_)) == FlattenSeq([d \in 1..Digit |-> SelectSeq(q, LAMBDA x : D(x) = d - 1)])
  IN  round(round(p, LAMBDA x : Trigram(x) % Digit), LAMBDA x : Trigram(x) \div Digit)

\* One pair: a full list is flushed first, as a sorted run of its own.
Post(w, x) ==
  IF Len(w.post) >= Npost
  THEN [post |-> <<x>>, files |-> Append(w.files, SortPost(w.post))]
  ELSE [w EXCEPT !.post = Append(@, x)]

Init ==
  /\ phase = "add"
  /\ names = <<>> /\ seen = 0
  /\ post = <<>> /\ postFile = <<>>
  /\ ch = <<>> /\ e = 0 /\ lists = <<>>

IgnoreFile(c) ==
  /\ phase = "add" /\ seen < MaxFiles
  /\ Ignored(c)
  /\ seen' = seen + 1
  /\ UNCHANGED <<phase, names, post, postFile, ch, e, lists>>

\* The file cannot be opened, or a read fails or is empty, at any byte.
ReadFails ==
  /\ phase = "add" /\ seen < MaxFiles
  /\ seen' = seen + 1
  /\ UNCHANGED <<phase, names, post, postFile, ch, e, lists>>

AddFile(c) ==
  /\ phase = "add" /\ seen < MaxFiles
  /\ ~Ignored(c)
  /\ seen' = seen + 1
  /\ names' = Append(names, c)
  /\ LET w == FoldLeft(LAMBDA v, t : Post(v, MakePostEntry(t, Len(names))),
                       [post |-> post, files |-> postFile], Dense(c))
     IN  post' = w.post /\ postFile' = w.files
  /\ UNCHANGED <<phase, ch, e, lists>>

-----------------------------------------------------------------------------
(***************************************************************************)
(* The heap.  A chunk is the sequence of its entries, e first; positions   *)
(* count from 1, so that the children of i are 2i and 2i + 1.              *)
(***************************************************************************)
Swap(h, i, j) == [h EXCEPT ![i] = h[j], ![j] = h[i]]

RECURSIVE SiftUp(_, _)
SiftUp(h, j) ==
  LET i == j \div 2
  IN  IF j = 1 \/ Head(h[i]) < Head(h[j]) THEN h ELSE SiftUp(Swap(h, i, j), i)

\* j in siftDown: the child with the smaller entry.
LeastChild(h, i) ==
  IF 2 * i + 1 <= Len(h) /\ Head(h[2 * i]) >= Head(h[2 * i + 1]) THEN 2 * i + 1 ELSE 2 * i

RECURSIVE SiftDown(_, _)
SiftDown(h, i) ==
  IF 2 * i > Len(h) \/ Head(h[i]) < Head(h[LeastChild(h, i)]) THEN h
  ELSE SiftDown(Swap(h, i, LeastChild(h, i)), LeastChild(h, i))

\* add: chunks without entries are left out.
Push(h, x) == IF x = <<>> THEN h ELSE SiftUp(Append(h, x), Len(h) + 1)

\* pop and next: the heap after its first entry is taken.
Pop(h) ==
  LET n == Len(h) - 1
      moved == SubSeq([h EXCEPT ![1] = h[Len(h)]], 1, n)
  IN  IF n > 1 THEN SiftDown(moved, 1) ELSE moved
AfterNext(h) ==
  IF h = <<>> THEN h
  ELSE IF Len(h[1]) = 1 THEN Pop(h) ELSE SiftDown([h EXCEPT ![1] = Tail(@)], 1)
NextEntry(h) == IF h = <<>> THEN MakePostEntry(Sentinel, 0) ELSE Head(h[1])

-----------------------------------------------------------------------------
(***************************************************************************)
(* Merging.                                                                *)
(***************************************************************************)
\* Flush, up to the first h.next() of mergePost.
Flush ==
  /\ phase = "add"
  /\ phase' = "merge"
  /\ LET h == FoldLeft(Push, <<>>, Append(postFile, SortPost(post)))
     IN  ch' = AfterNext(h) /\ e' = NextEntry(h)
  /\ lists' = <<[tri |-> Trigram(e'), fileid |-> Ids - 1, nfile |-> 0, deltas |-> <<>>]>>
  /\ UNCHANGED <<names, seen, post, postFile>>

Writing == lists[Len(lists)]

\* The inner loop: one more file id in the list.
WriteDelta ==
  /\ phase = "merge"
  /\ Trigram(e) = Writing.tri /\ Writing.tri # Sentinel
  /\ lists' = [lists EXCEPT ![Len(lists)] =
                 [@ EXCEPT !.deltas = Append(@, (FileId(e) - Writing.fileid) % Ids),
                           !.fileid = FileId(e), !.nfile = @ + 1]]
  /\ e' = NextEntry(ch) /\ ch' = AfterNext(ch)
  /\ UNCHANGED <<phase, names, seen, post, postFile>>

\* The end of a list, and the start of the next one.
EndList ==
  /\ phase = "merge"
  /\ Trigram(e) # Writing.tri \/ Writing.tri = Sentinel
  /\ LET ended == [lists EXCEPT ![Len(lists)].deltas = Append(@, 0)]
     IN  IF Writing.tri = Sentinel
         THEN lists' = ended /\ phase' = "done"
         ELSE /\ lists' = Append(ended, [tri |-> Trigram(e), fileid |-> Ids - 1, nfile |-> 0,
                                         deltas |-> <<>>])
              /\ UNCHANGED phase
  /\ UNCHANGED <<names, seen, post, postFile, ch, e>>

Next ==
  \/ \E c \in Contents : IgnoreFile(c) \/ AddFile(c)
  \/ ReadFails \/ Flush \/ WriteDelta \/ EndList

\* Flush runs to its end: nothing but the end of the program stops it.
Merging == WriteDelta \/ EndList

Spec == Init /\ [][Next]_vars /\ WF_vars(Merging)

-----------------------------------------------------------------------------
(***************************************************************************)
(* Reading.                                                                *)
(***************************************************************************)
\* findList with sort.Search: the first list at or after the trigram.
FindList(t) ==
  LET at == {i \in DOMAIN lists : lists[i].tri >= t}
      i == CHOOSE k \in at : \A j \in at : k <= j
  IN  IF at = {} \/ lists[i].tri # t THEN 0 ELSE i

\* The file ids that postReader.next gives for a list, from the deltas.
Decode(list) ==
  LET at[k \in 0..list.nfile] ==
        IF k = 0 THEN Ids - 1 ELSE (at[k - 1] + list.deltas[k]) % Ids
  IN  [k \in 1..list.nfile |-> at[k]]

PostingList(t, restrict) ==
  LET i == FindList(t)
  IN  IF i = 0 THEN <<>>
      ELSE SelectSeq(Decode(lists[i]), LAMBDA id : restrict = Nil \/ id \in Range(restrict))

\* postingAnd: the loop over both sorted lists.
PostingAnd(list, t, restrict) ==
  SelectSeq(PostingList(t, restrict), LAMBDA id : id \in Range(list))

\* mergeOr and postingOr: a merge of sorted lists without duplicates.
RECURSIVE MergeOr(_, _)
MergeOr(l1, l2) ==
  IF l1 = <<>> THEN l2 ELSE IF l2 = <<>> THEN l1
  ELSE IF Head(l1) < Head(l2) THEN <<Head(l1)>> \o MergeOr(Tail(l1), l2)
  ELSE IF Head(l1) > Head(l2) THEN <<Head(l2)>> \o MergeOr(l1, Tail(l2))
  ELSE <<Head(l1)>> \o MergeOr(Tail(l1), Tail(l2))

Elems(l) == IF l = Nil THEN <<>> ELSE l

\* Mutant: a list that became empty is taken for one not made yet.
AndTrigramRestarted(list, t, restrict) ==
  IF list = Nil \/ list = <<>> THEN PostingList(t, restrict) ELSE PostingAnd(list, t, restrict)

AndTrigram(list, t, restrict) ==
  IF list = Nil THEN PostingList(t, restrict) ELSE PostingAnd(list, t, restrict)

RECURSIVE PostingQuery(_, _)

QueryAnd(q, restrict) ==
  LET byTrigram == FoldLeft(LAMBDA l, t : AndTrigram(l, t, restrict), Nil, q.trigrams)
      from == IF byTrigram = Nil THEN restrict ELSE byTrigram
      bySub == FoldLeft(LAMBDA l, s : IF l = <<>> THEN l ELSE Elems(PostingQuery(s, l)),
                        from, q.sub)
  IN  IF Elems(bySub) = <<>> THEN Nil ELSE bySub

QueryOr(q, restrict) ==
  LET byTrigram == FoldLeft(LAMBDA l, t : MergeOr(Elems(l), PostingList(t, restrict)),
                            Nil, q.trigrams)
  IN  FoldLeft(LAMBDA l, s : MergeOr(Elems(l), Elems(PostingQuery(s, restrict))), byTrigram, q.sub)

PostingQuery(q, restrict) ==
  CASE q.op = "none" -> Nil
    [] q.op = "all" -> IF restrict # Nil THEN restrict ELSE [i \in 1..Len(names) |-> i - 1]
    [] q.op = "and" -> QueryAnd(q, restrict)
    [] q.op = "or" -> QueryOr(q, restrict)

-----------------------------------------------------------------------------
FileIds == 0..Len(names)-1
TrigramsOf(id) == Range(Dense(names[id + 1]))

RECURSIVE Satisfies(_, _)
Satisfies(id, q) ==
  CASE q.op = "none" -> FALSE
    [] q.op = "all" -> TRUE
    [] q.op = "and" -> /\ Range(q.trigrams) \subseteq TrigramsOf(id)
                       /\ \A s \in Range(q.sub) : Satisfies(id, s)
    [] q.op = "or" -> \/ Range(q.trigrams) \cap TrigramsOf(id) # {}
                      \/ \E s \in Range(q.sub) : Satisfies(id, s)

Ascending(s) == \A i \in 1..Len(s)-1 : s[i] < s[i + 1]

\* While the runs are merged no entry in the heap is below the one in hand:
\* the runs are sorted and next takes the least of them.
TakesLeast ==
  phase = "merge" =>
    \A i \in DOMAIN ch : Ascending(<<e>> \o ch[i])

\* The lists come in the order of their trigrams, end with the sentinel, have
\* no zero delta before their end, and decode to the files of the trigram.
ListsExact ==
  phase = "done" =>
    /\ Ascending([i \in DOMAIN lists |-> lists[i].tri])
    /\ lists[Len(lists)].tri = Sentinel
    /\ \A i \in DOMAIN lists : \A k \in DOMAIN lists[i].deltas :
         lists[i].deltas[k] = 0 <=> k = lists[i].nfile + 1
    /\ \A id \in FileIds : \A t \in TrigramsOf(id) : FindList(t) # 0
    /\ \A i \in DOMAIN lists :
         /\ Ascending(Decode(lists[i]))
         /\ Range(Decode(lists[i])) = {id \in FileIds : lists[i].tri \in TrigramsOf(id)}

\* PostingQuery gives the files that satisfy the query, in order.
QueriesExact ==
  phase = "done" =>
    \A q \in Queries :
      LET got == Elems(PostingQuery(q, Nil))
      IN  Ascending(got) /\ Range(got) = {id \in FileIds : Satisfies(id, q)}

\* What Add, flushPost, mergePost and PostingQuery come to: a query finds
\* exactly the files it is about, by lists that are exact themselves.
LocalExact == TakesLeast /\ ListsExact /\ QueriesExact

\* The merge comes to its end: each entry of the runs is taken once.
MergeEnds == [](phase = "merge" => <>(phase = "done"))
=============================================================================
