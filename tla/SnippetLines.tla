---------------------------- MODULE SnippetLines ----------------------------
(***************************************************************************)
(* The snippets of a document (Snippets), beside the other algorithms that *)
(* work in memory: a behaviour is one of one of them, and algorithm says   *)
(* of which.                                                               *)
(***************************************************************************)
CONSTANTS BlockSize, MaxLength, MaxMatches

VARIABLES
  algorithm,             \* "snippets" or another one
  text, matches, snippets

Lines == INSTANCE Snippets

\* Snippets: a snippet is whole lines with the match in them, and its line
\* number is right but for one case.
SnippetsExact == algorithm = "snippets" => Lines!SnippetsExact
=============================================================================
