----------------------------- MODULE MCWebSearch -----------------------------
(* An instance of WebSearch for TLC: the files of one sum have one document  *)
(* with two snippets, those of the other none.                               *)
EXTENDS WebSearch, TLC
CONSTANTS x1, x2
SomeFound == (x1 :> <<2>>) @@ (x2 :> <<>>)
=============================================================================
