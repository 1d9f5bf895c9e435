----------------------------- MODULE IndexMerge -----------------------------
(***************************************************************************)
(* Incremental indexing with the command line tools: cindex                *)
(* (cmd/cindex/cindex.go) writes an index of the trees it is given and     *)
(* merges it into the master index (index/merge.go).  Names are sequences  *)
(* of bytes; the bytes have the shape of UTF-8 with W in the place of 64:  *)
(* below 2W one byte for a character, then continuation bytes, then the    *)
(* leading ones from 3W.  Posting lists are kept decoded (see LocalIndex). *)
(***************************************************************************)
EXTENDS Integers, Sequences, FiniteSets, SequencesExt

CONSTANTS
  W,            \* 64
  Slash,        \* the byte of the path separator
  Files,        \* the files there may be, as absolute names
  Roots,        \* the paths cindex may be called with
  Vers,         \* the versions of the content of a file
  Absent,       \* a file that is not there
  Trigrams,     \* the trigrams of a version, a set of numbers
  Sentinel,     \* the trigram \xff\xff\xff
  Trees,        \* the trees to begin with
  MaxRuns,      \* bound: the number of runs of cindex
  MaxEdits,     \* bound: the number of changes to the tree
  Nil           \* there is no index

\* What the constants must satisfy.
MergeAssumption ==
  /\ W \in Nat \ {0} /\ MaxRuns \in Nat /\ MaxEdits \in Nat
  /\ Trees \subseteq [Files -> Vers \cup {Absent}]
  /\ \A v \in Vers : \A t \in Trigrams[v] : t < Sentinel

VARIABLES
  tree,                  \* the version of each file on disk
  master,                \* the index file
  runs, edits,           \* the number of runs of cindex and of changes so far
  pc,                    \* where Merge is: its four loops, or outside
  ix2,                   \* the index of this run
  k, i1, i2, new,        \* the loop over paths2 and its counters
  map1, map2,            \* the docid maps, sequences of idranges
  mi1, mi2, paths,       \* the merged paths and the positions in both lists
  names,                 \* the merged names
  n1, n2, lists          \* triNum of both readers, the merged posting lists

vars == <<tree, master, runs, edits, pc, ix2, k, i1, i2, new, map1, map2, mi1, mi2, paths, names,
          n1, n2, lists>>
mapVars == <<k, i1, i2, new, map1, map2>>
pathVars == <<mi1, mi2, paths>>
postVars == <<n1, n2, lists>>

-----------------------------------------------------------------------------
(***************************************************************************)
(* Strings.                                                                *)
(***************************************************************************)
\* The comparison of Go: byte by byte, a prefix first.
Less(s, t) ==
  \E n \in 0..Len(s) :
    /\ n < Len(t)
    /\ \A i \in 1..n : s[i] = t[i]
    /\ n = Len(s) \/ s[n + 1] < t[n + 1]

HasPrefix(s, p) == Len(p) <= Len(s) /\ SubSeq(s, 1, Len(p)) = p

\* string(b): the encoding of the character with that number.
Encoding(b) == IF b < 2 * W THEN <<b>> ELSE <<3 * W + (b \div W), 2 * W + (b % W)>>

\* The first string after those that path is a prefix of, as Merge has it.
Limit(path) == Front(path) \o Encoding((Last(path) + 1) % (4 * W))

\* The order of filepath.Walk: the entries of a directory by name.
WalkLess(s, t) ==
  LET low(x) == [i \in DOMAIN x |-> IF x[i] = Slash THEN -1 ELSE x[i]]
  IN  Less(low(s), low(t))

Under(name, root) == name = root \/ HasPrefix(name, Append(root, Slash))

-----------------------------------------------------------------------------
(***************************************************************************)
(* cindex: the index of this run.                                          *)
(***************************************************************************)
\* The files filepath.Walk visits, one path after the other.
Walked(args) ==
  FlattenSeq([i \in DOMAIN args |->
    SetToSortSeq({f \in Files : Under(f, args[i]) /\ tree[f] # Absent}, WalkLess)])

\* What Flush writes: the lists in the order of the trigrams, then the end.
Index(args) ==
  LET files == Walked(args)
      docs == [i \in DOMAIN files |-> [name |-> files[i], ver |-> tree[files[i]]]]
      tris == SetToSortSeq(UNION {Trigrams[docs[i].ver] : i \in DOMAIN docs}, <)
      ids(t) == SelectSeq([i \in DOMAIN docs |-> i - 1], LAMBDA i : t \in Trigrams[docs[i+1].ver])
  IN  [paths |-> args, names |-> docs,
       lists |-> [j \in DOMAIN tris |-> [tri |-> tris[j], ids |-> ids(tris[j])]]
                 \o <<[tri |-> Sentinel, ids |-> <<>>]>>]

Init ==
  /\ tree \in Trees
  /\ master = Nil /\ runs = 0 /\ edits = 0
  /\ pc = "idle" /\ ix2 = Nil
  /\ k = 1 /\ i1 = 0 /\ i2 = 0 /\ new = 0 /\ map1 = <<>> /\ map2 = <<>>
  /\ mi1 = 1 /\ mi2 = 1 /\ paths = <<>>
  /\ names = <<>>
  /\ n1 = 1 /\ n2 = 1 /\ lists = <<>>

\* The files change between runs.
Edit(f, v) ==
  /\ pc = "idle" /\ runs > 0 /\ runs < MaxRuns /\ edits < MaxEdits
  /\ edits' = edits + 1
  /\ tree' = [tree EXCEPT ![f] = v]
  /\ UNCHANGED <<master, runs, pc, ix2, mapVars, pathVars, names, postVars>>

\* cindex -reset, or without a master: the index is written in its place.
Cindex(args) ==
  /\ pc = "idle" /\ runs < MaxRuns
  /\ runs' = runs + 1
  /\ master' = Index(args)
  /\ UNCHANGED <<tree, edits, pc, ix2, mapVars, pathVars, names, postVars>>

\* cindex -reset without paths.
RemoveIndex ==
  /\ pc = "idle" /\ runs < MaxRuns /\ master # Nil
  /\ runs' = runs + 1
  /\ master' = Nil
  /\ UNCHANGED <<tree, edits, pc, ix2, mapVars, pathVars, names, postVars>>

\* cindex with a master: the new index is merged into it.  Without arguments
\* the paths are those of the master.
CindexMerge(args) ==
  /\ pc = "idle" /\ runs < MaxRuns /\ master # Nil
  /\ runs' = runs + 1
  /\ ix2' = Index(IF args = <<>> THEN master.paths ELSE args)
  /\ pc' = "maps"
  /\ k' = 1 /\ i1' = 0 /\ i2' = 0 /\ new' = 0 /\ map1' = <<>> /\ map2' = <<>>
  /\ mi1' = 1 /\ mi2' = 1 /\ paths' = <<>>
  /\ names' = <<>>
  /\ n1' = 1 /\ n2' = 1 /\ lists' = <<>>
  /\ UNCHANGED <<tree, edits, master>>

-----------------------------------------------------------------------------
(***************************************************************************)
(* Merge.                                                                  *)
(***************************************************************************)
Name(ix, i) == ix.names[i + 1].name
NumName(ix) == Len(ix.names)

\* Mutant: the loop goes on over a name equal to s.
SkipEqual(ix, from, s) ==
  CHOOSE i \in from..NumName(ix) :
    /\ \A j \in from..i-1 : ~Less(s, Name(ix, j))
    /\ i = NumName(ix) \/ Less(s, Name(ix, i))

\* The counter of a loop "for i < numName && Name(i) < s { i++ }".
Skip(ix, from, s) ==
  CHOOSE i \in from..NumName(ix) :
    /\ \A j \in from..i-1 : Less(Name(ix, j), s)
    /\ i = NumName(ix) \/ ~Less(Name(ix, i), s)

Range1(m, lo, hi, at) == IF lo < hi THEN Append(m, [lo |-> lo, hi |-> hi, new |-> at]) ELSE m

Panic == pc' = "panic" /\ UNCHANGED <<mapVars, pathVars, names, postVars>>

\* One iteration over paths2: what is before the shadow, what replaces it.
Shadow ==
  /\ pc = "maps" /\ k <= Len(ix2.paths)
  /\ LET path == ix2.paths[k]
         lo == Skip(master, i1, path)
         after == Skip(ix2, i2, Limit(path))
     IN  IF i2 < NumName(ix2) /\ Less(Name(ix2, i2), path)
         THEN Panic
         ELSE /\ k' = k + 1
              /\ i1' = Skip(master, lo, Limit(path))
              /\ i2' = after
              /\ map1' = Range1(map1, i1, lo, new)
              /\ map2' = Range1(map2, i2, after, new + (lo - i1))
              /\ new' = new + (lo - i1) + (after - i2)
              /\ UNCHANGED <<pc, pathVars, names, postVars>>
  /\ UNCHANGED <<tree, master, runs, edits, ix2>>

\* After the loop: the rest of the master.
MapRest ==
  /\ pc = "maps" /\ k > Len(ix2.paths)
  /\ IF i2 < NumName(ix2)
     THEN Panic
     ELSE /\ pc' = "paths"
          /\ map1' = Range1(map1, i1, NumName(master), new)
          /\ new' = new + NumName(master) - i1
          /\ UNCHANGED <<k, i1, i2, map2, pathVars, names, postVars>>
  /\ UNCHANGED <<tree, master, runs, edits, ix2>>

\* Mutant: the loop ends with the shorter list.
PathsLeftBoth == mi1 <= Len(master.paths) /\ mi2 <= Len(ix2.paths)

PathsLeft == mi1 <= Len(master.paths) \/ mi2 <= Len(ix2.paths)

\* One path of the merged list, or the end of it.  A path with the last one
\* written as a prefix is left out.
MergePath ==
  /\ pc = "paths"
  /\ LET first == mi1 <= Len(master.paths)
                  /\ (mi2 > Len(ix2.paths) \/ ~Less(ix2.paths[mi2], master.paths[mi1]))
         p == IF first THEN master.paths[mi1] ELSE ix2.paths[mi2]
     IN  IF ~PathsLeft
         THEN pc' = "names" /\ UNCHANGED pathVars
         ELSE /\ mi1' = IF first THEN mi1 + 1 ELSE mi1
              /\ mi2' = IF first THEN mi2 ELSE mi2 + 1
              /\ paths' = IF paths # <<>> /\ HasPrefix(p, Last(paths)) THEN paths
                          ELSE Append(paths, p)
              /\ UNCHANGED pc
  /\ UNCHANGED <<tree, master, runs, edits, ix2, mapVars, names, postVars>>

\* The range of a map that starts at a new docid, the next one in turn.
From(m, id) == {j \in DOMAIN m : m[j].new = id}

\* The names of one range, or the end of the list.
MergeNames ==
  /\ pc = "names"
  /\ LET next(ix, m) == LET j == CHOOSE x \in From(m, Len(names)) : TRUE
                        IN  SubSeq(ix.names, m[j].lo + 1, m[j].hi)
     IN  CASE Len(names) >= new -> pc' = "lists" /\ UNCHANGED names
           [] Len(names) < new /\ From(map1, Len(names)) # {} ->
                names' = names \o next(master, map1) /\ UNCHANGED pc
           [] Len(names) < new /\ From(map1, Len(names)) = {} /\ From(map2, Len(names)) # {} ->
                names' = names \o next(ix2, map2) /\ UNCHANGED pc
           [] OTHER -> pc' = "panic" /\ UNCHANGED names
  /\ UNCHANGED <<tree, master, runs, edits, ix2, mapVars, pathVars, postVars>>

\* The ids nextId gives for a list: the position in the map only advances,
\* ids between two ranges are deleted, as are those after the last.
RECURSIVE NextIds(_, _)
NextIds(ids, m) ==
  IF ids = <<>> \/ m = <<>> THEN <<>>
  ELSE IF Head(m).hi <= Head(ids) THEN NextIds(ids, Tail(m))
  ELSE IF Head(ids) < Head(m).lo THEN NextIds(Tail(ids), m)
  ELSE <<Head(m).new + Head(ids) - Head(m).lo>> \o NextIds(Tail(ids), m)

\* trigram and the ids left in the list a postMapReader is at.
TrigramAt(ix, n) == IF n > Len(ix.lists) THEN Sentinel + 1 ELSE ix.lists[n].tri
IdsAt(ix, n, m) == NextIds(ix.lists[n].ids, m)

\* endTrigram: a list without an id is not written.
EndTrigram(t, ids) == IF ids = <<>> THEN lists ELSE Append(lists, [tri |-> t, ids |-> ids])

\* The loop over the ids of both readers.
RECURSIVE MergeIds(_, _)
MergeIds(l1, l2) ==
  IF l1 = <<>> THEN l2 ELSE IF l2 = <<>> THEN l1
  ELSE IF Head(l1) < Head(l2) THEN <<Head(l1)>> \o MergeIds(Tail(l1), l2)
  ELSE <<Head(l2)>> \o MergeIds(l1, Tail(l2))

\* One list, from one reader or from both, or the end of Merge: the merged
\* index replaces the master.
MergeList ==
  /\ pc = "lists"
  /\ LET t1 == TrigramAt(master, n1)
         t2 == TrigramAt(ix2, n2)
         ids1 == IF t1 > t2 THEN <<>> ELSE IdsAt(master, n1, map1)
         ids2 == IF t2 > t1 THEN <<>> ELSE IdsAt(ix2, n2, map2)
     IN  IF t1 = Sentinel + 1 /\ t2 = Sentinel + 1
         THEN /\ pc' = "idle"
              /\ master' = [paths |-> paths, names |-> names, lists |-> lists]
              /\ UNCHANGED postVars
         ELSE IF Range(ids1) \cap Range(ids2) # {}
         THEN pc' = "panic" /\ UNCHANGED <<master, postVars>>
         ELSE /\ lists' = EndTrigram(IF t1 < t2 THEN t1 ELSE t2, MergeIds(ids1, ids2))
              /\ n1' = IF t1 <= t2 THEN n1 + 1 ELSE n1
              /\ n2' = IF t2 <= t1 THEN n2 + 1 ELSE n2
              /\ UNCHANGED <<pc, master>>
  /\ UNCHANGED <<tree, runs, edits, ix2, mapVars, pathVars, names>>

Merging == Shadow \/ MapRest \/ MergePath \/ MergeNames \/ MergeList

Args == {s \in SeqOf(Roots, 2) : \A i \in 1..Len(s)-1 : ~Less(s[i + 1], s[i])}

Next ==
  \/ \E f \in Files, v \in Vers \cup {Absent} : Edit(f, v)
  \/ \E args \in Args \ {<<>>} : Cindex(args)
  \/ \E args \in Args : CindexMerge(args)
  \/ RemoveIndex
  \/ Merging

\* A run of cindex comes to its end unless the program is ended.
Spec == Init /\ [][Next]_vars /\ WF_vars(Merging)

-----------------------------------------------------------------------------
Ascending(s) == \A i \in 1..Len(s)-1 : s[i] < s[i + 1]
Sorted(ix) == \A i, j \in 0..NumName(ix)-1 : i < j => ~Less(Name(ix, j), Name(ix, i))
Claimed(name) == \E i \in DOMAIN ix2.paths : Under(name, ix2.paths[i])

\* No consistency check of Merge fails: what cindex writes and what Merge
\* writes is never called an inconsistent index.
NoPanic == pc # "panic"

\* After any number of merges the posting lists say of every file the
\* trigrams of the version that is indexed, and are in order.
PostingsFollow ==
  master # Nil =>
    /\ Ascending([i \in DOMAIN master.lists |-> master.lists[i].tri])
    /\ \A i \in DOMAIN master.lists :
         /\ Ascending(master.lists[i].ids)
         /\ Range(master.lists[i].ids) =
              {id \in 0..NumName(master)-1 : master.lists[i].tri \in Trigrams[master.names[id+1].ver]}
    /\ \A j \in DOMAIN master.names : \A t \in Trigrams[master.names[j].ver] :
         \E i \in DOMAIN master.lists : master.lists[i].tri = t

\* Merge keeps of the master what is outside the paths of this run and has
\* the files of this run for the rest, if the names of the master are in
\* byte order and no name outside a path starts with it.
MergeExact ==
  (/\ pc = "lists" /\ Sorted(master)
   /\ \A i \in DOMAIN ix2.paths, j \in DOMAIN master.names :
        LET n == master.names[j].name
        IN  ~Less(n, ix2.paths[i]) /\ Less(n, Limit(ix2.paths[i])) => Under(n, ix2.paths[i]))
  => /\ Range(names) = Range(ix2.names) \cup {d \in Range(master.names) : ~Claimed(d.name)}
     /\ Len(names) = NumName(ix2) + Len(SelectSeq(master.names, LAMBDA d : ~Claimed(d.name)))

\* A merge comes to its end.
MergeEnds == pc = "maps" ~> pc = "idle"

\* Every file that is indexed has a path of the list as a prefix of its name,
\* so that a run without arguments comes near it.  It need not be below that
\* path: a path that has another one as a string prefix is left out.
PathsReach ==
  master # Nil =>
    \A d \in Range(master.names) : \E p \in Range(master.paths) : HasPrefix(d.name, p)

\* However often merged indexes are merged again, Merge finds nothing
\* inconsistent, and lists and paths go with the names.
MergedConsistent == NoPanic /\ PostingsFollow /\ PathsReach
=============================================================================
