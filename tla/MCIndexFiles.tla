---------------------------- MODULE MCIndexFiles ----------------------------
(***************************************************************************)
(* The index files for TLC, written, merged, stored and read: instances of *)
(* LocalIndex, IndexMerge, ShardFormat and ShardRead.  A behaviour is one  *)
(* of one of them; what the others alone use is Nil.  The last two are as  *)
(* in ShardFiles, program being "local", "merge", "format" or "read"; the  *)
(* first two share its lists, seen and pc.                                 *)
(***************************************************************************)
EXTENDS Integers, Sequences, FiniteSets, SequencesExt, ShardFiles

VARIABLES
  names,                                        \* LocalIndex and IndexMerge
  phase, post, postFile, ch, e,                 \* LocalIndex
  tree, master, runs, edits, ix2, k, i1, i2, new, map1, map2, mi1, mi2, paths, n1, n2   \* IndexMerge

localVars == <<phase, post, postFile, ch, e>>
mergeVars == <<tree, master, runs, edits, ix2, k, i1, i2, new, map1, map2, mi1, mi2, paths, n1, n2>>
formatVars == <<trigram, sparseTrigrams, denseTrigrams, docs, raw, rawLength, shard>>
readVars == <<old, file, wpc, wrote, sum, ask, pos, left, wire, ended, body, late>>
vars == <<program, names, lists, seen, pc, localVars, mergeVars, formatVars, readVars>>

NoLocal == phase = Nil /\ post = Nil /\ postFile = Nil /\ ch = Nil /\ e = Nil
NoMerge ==
  /\ tree = Nil /\ master = Nil /\ runs = Nil /\ edits = Nil /\ ix2 = Nil /\ k = Nil
  /\ i1 = Nil /\ i2 = Nil /\ new = Nil /\ map1 = Nil /\ map2 = Nil /\ mi1 = Nil /\ mi2 = Nil
  /\ paths = Nil /\ n1 = Nil /\ n2 = Nil
NoFormat ==
  /\ trigram = Nil /\ sparseTrigrams = Nil /\ denseTrigrams = Nil /\ docs = Nil
  /\ raw = Nil /\ rawLength = Nil /\ shard = Nil
NoRead ==
  /\ old = Nil /\ file = Nil /\ wpc = Nil /\ wrote = Nil /\ sum = Nil /\ ask = Nil
  /\ pos = Nil /\ left = Nil /\ wire = Nil /\ ended = Nil /\ body = Nil /\ late = Nil

Query(op, trigrams, sub) == [op |-> op, trigrams |-> trigrams, sub |-> sub]

-----------------------------------------------------------------------------
(***************************************************************************)
(* LocalIndex: a = 0, newline = 1, b = 2, a continuation byte 4, a leading *)
(* byte 5 and an invalid one 7.                                            *)
(***************************************************************************)
\* Trigrams shared and not, more of them than one run holds, and texts that
\* are ignored: invalid bytes, a leading byte alone, a long line, a long text.
LocalContents ==
  {<<0, 2>>, <<2, 0, 2, 0, 1, 2>>, <<0, 0, 0, 1, 2, 0>>, <<5, 4, 0, 2>>, <<0, 2, 0, 1, 2>>,
   <<2, 2, 2, 7, 7, 7>>, <<7, 7, 7>>, <<0, 5, 0>>, <<0, 0, 0, 0, 0, 0>>}

\* aba, bab, ba\n, \nba and one that no file has
Some == {16, 130, 129, 80, 300}
Few == {Query("and", <<16>>, <<>>), Query("or", <<130, 80>>, <<>>), Query("and", <<300>>, <<>>)}
LocalQueries ==
  {Query("all", <<>>, <<>>), Query("none", <<>>, <<>>)}
  \cup {Query(op, <<s, t>>, <<>>) : op \in {"and", "or"}, s \in Some, t \in Some}
  \cup {Query(op, <<t>>, <<x, y>>) : op \in {"and", "or"}, t \in Some, x \in Few, y \in Few}
  \cup {Query(op, <<>>, <<x, y>>) : op \in {"and", "or"}, x \in Few, y \in Few}

Local ==
  INSTANCE LocalIndex WITH
    Bytes <- 8, NL <- 1, Cont <- 3, Lead <- 5, Wrong <- 7, Ids <- 8, Digit <- 23, Npost <- 3,
    maxFileLen <- 7, maxLineLen <- 5, maxTextTrigrams <- 5, MaxFiles <- 4,
    Contents <- LocalContents, Queries <- LocalQueries

-----------------------------------------------------------------------------
(***************************************************************************)
(* IndexMerge: "-" is 1, "/" is 2, "a" is 3, "b" is 4.                     *)
(***************************************************************************)
\* a/b, a-/b and ab; a, a- and ab
SomeFiles == {<<3, 2, 4>>, <<3, 1, 2, 4>>, <<3, 4>>}
SomeRoots == {<<3>>, <<3, 1>>, <<3, 4>>}

Merge ==
  INSTANCE IndexMerge WITH
    W <- 4, Slash <- 2, Files <- SomeFiles, Roots <- SomeRoots, Vers <- {1, 2},
    Trees <- {[f \in SomeFiles |-> 1]}, Trigrams <- <<{1, 2}, {2, 3}>>, Sentinel <- 9,
    MaxRuns <- 3, MaxEdits <- 1

-----------------------------------------------------------------------------
(***************************************************************************)
(* ShardFormat: a = 0, newline = 1, b = 2 and the invalid byte 3 of Base   *)
(* bytes.                                                                  *)
(***************************************************************************)
\* Shared trigrams, trigrams across a newline, a text too short to have
\* one, a refused line after a good one, a line too long.
FormatContents ==
  {<<>>, <<0, 2>>, <<0, 0, 0, 0>>, <<0, 1, 2, 0>>, <<2, 0, 1, 2>>, <<2, 0, 1, 2, 3>>,
   <<0, 2, 0, 2, 0, 2>>}

\* Trigrams of the contents above (aaa, a\nb, \nba, ba\n) and one of none.
aaa == 0
anb == 6
nba == 24
ban == 33
bbb == 42

\* The shapes of RegexpQuery below everything and nothing: and/or, nested in
\* each other.
Simple == {Query("and", <<t>>, <<>>) : t \in {anb, nba, bbb}}
          \cup {Query("or", <<t, aaa>>, <<>>) : t \in {anb, bbb}}
FormatQueries ==
  <<Simple,
    {Query("and", <<t>>, <<s>>) : t \in {nba, ban}, s \in Simple}
    \cup {Query(op, <<>>, <<s1, s2>>) : op \in {"and", "or"}, s1 \in Simple, s2 \in Simple}>>

-----------------------------------------------------------------------------
(***************************************************************************)
(* ShardRead: a byte is its version and its place.                         *)
(***************************************************************************)
File(v, n) == [i \in 1..n |-> <<v, i>>]
SomeRanges == {[start |-> 0, length |-> 0], [start |-> 1, length |-> 3],
               [start |-> 0, length |-> 5], [start |-> 4, length |-> 2]}
SomeBytes == {1, 2} \X (1..7)
SomeBefore == {Absent, File(1, 3), File(1, 5), File(1, 7)}
SomeSent == File(2, 5)

ASSUME InstancesAssumption ==
  /\ Local!LocalIndexAssumption
  /\ Merge!MergeAssumption
  /\ Format!ShardFormatAssumption
  /\ Read!ShardReadAssumption

-----------------------------------------------------------------------------
Init ==
  \/ /\ program = "local" /\ Local!Init
     /\ pc = Nil /\ NoMerge /\ NoFormat /\ NoRead
  \/ /\ program = "merge" /\ Merge!Init
     /\ seen = Nil /\ NoLocal /\ NoFormat /\ NoRead
  \/ /\ program = "format" /\ Format!Init
     /\ names = Nil /\ pc = Nil /\ NoLocal /\ NoMerge /\ NoRead
  \/ /\ program = "read" /\ Read!Init
     /\ names = Nil /\ lists = Nil /\ seen = Nil /\ NoLocal /\ NoMerge /\ NoFormat

LocalOnly ==
  program = "local" /\ UNCHANGED <<program, pc, mergeVars, formatVars, readVars>>
MergeOnly ==
  program = "merge" /\ UNCHANGED <<program, seen, localVars, formatVars, readVars>>
FormatOnly ==
  program = "format" /\ UNCHANGED <<program, names, pc, localVars, mergeVars, readVars>>
ReadOnly ==
  program = "read" /\ UNCHANGED <<program, names, lists, seen, localVars, mergeVars, formatVars>>

Next ==
  \/ LocalOnly /\ Local!Next
  \/ MergeOnly /\ Merge!Next
  \/ FormatOnly /\ Format!Next
  \/ ReadOnly /\ Read!Next

\* Each with the fairness of its own specification.
Spec ==
  /\ Init /\ [][Next]_vars
  /\ WF_vars(LocalOnly /\ Local!Merging)
  /\ WF_vars(MergeOnly /\ Merge!Merging)
  /\ WF_vars(ReadOnly /\ Read!Serving)

-----------------------------------------------------------------------------
\* The properties, each of the behaviours of its program; they are explained
\* where they are defined.  ShardExact and LoadExact are in ShardFiles.

\* LocalIndex: runs, posting lists and queries are exactly about the files.
LocalExact == program = "local" => Local!LocalExact

\* IndexMerge: the union of what is kept and what is new.
MergeExact == program = "merge" => Merge!MergeExact
\* IndexMerge: lists and paths follow the names through all merges.
MergedConsistent == program = "merge" => Merge!MergedConsistent

\* Flush, Merge and the load of a blob come to their end.
WorkEnds ==
  /\ program = "local" => Local!MergeEnds
  /\ program = "merge" => Merge!MergeEnds
  /\ program = "read" => Read!LoadEnds
=============================================================================
