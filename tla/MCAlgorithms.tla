---------------------------- MODULE MCAlgorithms ----------------------------
(***************************************************************************)
(* The algorithms that work in memory, for TLC: SparseSet, Snippets as in  *)
(* SnippetLines, and instances of ExprParse and TrigramQuery.  A behaviour *)
(* is one of one of them, algorithm being "set", "snippets", "parse" or    *)
(* "query"; what the others use is Nil, and the sparse set as it begins.   *)
(***************************************************************************)
EXTENDS SparseSet, SnippetLines

Ext == INSTANCE SequencesExt

CONSTANT Nil

VARIABLES
  pc, expr, start, pos, cur, parts, splits,     \* ExprParse
  re, todo, stack, heap, query, shared          \* TrigramQuery

snippetVars == <<text, matches, snippets>>
parseVars == <<pc, expr, start, pos, cur, parts, splits>>
queryVars == <<re, todo, stack, heap, query, shared>>
allVars == <<algorithm, vars, snippetVars, parseVars, queryVars>>

NoSnippets == text = Nil /\ matches = Nil /\ snippets = Nil
NoParse ==
  /\ pc = Nil /\ expr = Nil /\ start = Nil /\ pos = Nil /\ cur = Nil /\ parts = Nil
  /\ splits = Nil
NoQuery ==
  re = Nil /\ todo = Nil /\ stack = Nil /\ heap = Nil /\ query = Nil /\ shared = Nil

ASSUME InstancesAssumption == Lines!SnippetsAssumption

-----------------------------------------------------------------------------
(***************************************************************************)
(* ExprParse: all short texts over a few bytes each.                       *)
(***************************************************************************)
Over1 == {"a", " ", "[", "]", "(", ")", "\\"}
Over2 == {"a", " ", "+", "-", ":", "f"}
Over3 == {"a", " ", "\\", "Q", "E", "("}
Over4 == {" ", "[", "^", "]", "2", "c", "\\"}
AllTexts == Ext!SeqOf(Over1, 5) \cup Ext!SeqOf(Over2, 5) \cup Ext!SeqOf(Over3, 5) \cup Ext!SeqOf(Over4, 4)

Expr == INSTANCE ExprParse WITH Texts <- AllTexts, MaxDepth <- 1

-----------------------------------------------------------------------------
(***************************************************************************)
(* TrigramQuery: every expression of two operators over these atoms.       *)
(***************************************************************************)
a == 1
b == 2
Lit(s) == [op |-> "literal", s |-> s]
Atoms == {Lit(<<a>>), Lit(<<a, b>>), Lit(<<b, a, a>>), Lit(<<a, b, b, a>>),
          [op |-> "class", cs |-> {a, b}], [op |-> "any"], [op |-> "empty"], [op |-> "none"],
          [op |-> "star", x |-> Lit(<<a>>)]}
Over(xs, ys) == [op : {"concat", "alternate"}, x : xs, y : ys]
Unary(xs) == [op : {"plus", "quest"}, x : xs]
Depth1 == Over(Atoms, Atoms) \cup Unary(Atoms)
Depth2 == Over(Depth1, Atoms) \cup Over(Atoms, Depth1) \cup Unary(Depth1)

Trigram ==
  INSTANCE TrigramQuery WITH
    Chars <- {a, b}, Regexps <- Depth2, MaxWord <- 6, maxExact <- 2, maxSet <- 2, MaxClass <- 2

-----------------------------------------------------------------------------
AllInit ==
  /\ Init
  /\ \/ algorithm = "set" /\ NoSnippets /\ NoParse /\ NoQuery
     \/ algorithm = "snippets" /\ Lines!Init /\ NoParse /\ NoQuery
     \/ algorithm = "parse" /\ Expr!Init /\ NoSnippets /\ NoQuery
     \/ algorithm = "query" /\ Trigram!Init /\ NoSnippets /\ NoParse

ParseNext == algorithm = "parse" /\ Expr!Next /\ UNCHANGED <<algorithm, vars, snippetVars, queryVars>>

AllNext ==
  \/ algorithm = "set" /\ Next /\ UNCHANGED <<algorithm, snippetVars, parseVars, queryVars>>
  \/ algorithm = "snippets" /\ Lines!Next /\ UNCHANGED <<algorithm, vars, parseVars, queryVars>>
  \/ ParseNext
  \/ algorithm = "query" /\ Trigram!Next /\ UNCHANGED <<algorithm, vars, snippetVars, parseVars>>

\* Parse is run to its end.
AllSpec == AllInit /\ [][AllNext]_allVars /\ WF_allVars(ParseNext)

-----------------------------------------------------------------------------
\* The properties, each of the behaviours of its algorithm; they are explained
\* where they are defined.

\* ExprParse: an accepted query is cut at the spaces outside of classes and
\* groups, and every word becomes a part.
PartsExact == algorithm = "parse" => Expr!PartsExact
\* ExprParse: a query is accepted or refused.
ParseEnds == algorithm = "parse" => Expr!ParseEnds

\* TrigramQuery: infos and query let through every text the expression
\* matches.
SoundUnlessShared == algorithm = "query" => Trigram!SoundUnlessShared
=============================================================================
