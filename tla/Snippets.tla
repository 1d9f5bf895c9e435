------------------------------ MODULE Snippets ------------------------------
(***************************************************************************)
(* How a match becomes a snippet.  When a file is indexed computeTrigrams  *)
(* (index2/write.go) records a line number per block of BlockSize bytes;   *)
(* when it is found buildSnippets (cmd/cindex-serve/main.go) cuts the      *)
(* lines around each match and numbers the first one from that record.     *)
(*                                                                         *)
(* Of the bytes only the newlines matter: a text is a sequence of "nl" and *)
(* "c".  Offsets count from 0, as in the code: byte i is text[i + 1].      *)
(***************************************************************************)
EXTENDS Integers, Sequences, FiniteSetsExt

CONSTANTS
  BlockSize,             \* 4096, the shift by 12 and the mask 0xFFF
  MaxLength,             \* bound: the length of the texts
  MaxMatches             \* bound: the matches in one document

\* What the constants must satisfy.
SnippetsAssumption ==
  /\ BlockSize \in Nat \ {0}
  /\ MaxLength \in Nat
  /\ MaxMatches \in Nat

VARIABLES
  text,                  \* DocInner.Data
  matches,               \* the argument of buildSnippets
  snippets               \* the snippets built so far

vars == <<text, matches, snippets>>

Texts == UNION {[1..n -> {"nl", "c"}] : n \in 0..MaxLength}

\* The offsets in from..to-1 that hold a newline.
Newlines(t, from, to) == {i \in from..to-1 : t[i + 1] = "nl"}

\* The line that the byte at an offset is on.
LineOf(t, offset) == Cardinality(Newlines(t, 0, offset)) + 1

-----------------------------------------------------------------------------
\* computeTrigrams: after the last byte of a block, the line that byte is on.
BlockToLine(t) == [k \in 1..(Len(t) \div BlockSize) |-> LineOf(t, k * BlockSize - 1)]

\* Mutant: the newlines are counted from the start of the block before.
FirstLineTwice(t, offset) ==
  LET block == offset \div BlockSize
  IN  IF block = 0 THEN Cardinality(Newlines(t, 0, offset)) + 1
      ELSE Cardinality(Newlines(t, (block - 1) * BlockSize, offset)) + BlockToLine(t)[block]

\* The number buildSnippets gives to the first line.
FirstLine(t, offset) ==
  LET block == offset \div BlockSize
      before == Cardinality(Newlines(t, block * BlockSize, offset))
  IN  IF block = 0 THEN before + 1 ELSE before + BlockToLine(t)[block]

\* bytes.LastIndexByte(b[:pos[0]], '\n') + 1
LineStart(t, offset) ==
  IF Newlines(t, 0, offset) = {} THEN 0 ELSE Max(Newlines(t, 0, offset)) + 1

\* bytes.IndexByte(b[pos[1]:], '\n') + pos[1] + 1, or the end of the text
LineEnd(t, offset) ==
  IF Newlines(t, offset, Len(t)) = {} THEN Len(t) ELSE Min(Newlines(t, offset, Len(t))) + 1

Snippet(t, pos) ==
  [start |-> LineStart(t, pos[1]),
   end |-> LineEnd(t, pos[2]),
   firstLine |-> FirstLine(t, pos[1]),
   match |-> <<pos[1] - LineStart(t, pos[1]), pos[2] - LineStart(t, pos[1])>>]

\* The ranges the match loop of SearchShard can find: in order, disjoint.
Ranges(t) == {p \in (0..Len(t)) \X (0..Len(t)) : p[1] < p[2]}

Init ==
  /\ text \in Texts
  /\ matches \in {m \in UNION {[1..n -> Ranges(text)] : n \in 0..MaxMatches} :
                    \A i \in 1..Len(m)-1 : m[i][2] <= m[i+1][1]}
  /\ snippets = <<>>

\* One round of the loop over the matches.
BuildSnippet ==
  /\ Len(snippets) < Len(matches)
  /\ snippets' = Append(snippets, Snippet(text, matches[Len(snippets) + 1]))
  /\ UNCHANGED <<text, matches>>

Next == BuildSnippet

Spec == Init /\ [][Next]_vars

-----------------------------------------------------------------------------
\* A snippet is whole lines, and its relative offsets cut the match out of it.
LinesHoldTheMatch ==
  \A i \in 1..Len(snippets) :
    LET s == snippets[i]
    IN  /\ s.start = 0 \/ text[s.start] = "nl"
        /\ s.end = Len(text) \/ text[s.end] = "nl"
        /\ Newlines(text, s.start, matches[i][1]) = {}
        /\ <<s.start + s.match[1], s.start + s.match[2]>> = matches[i]
        /\ matches[i][2] <= s.end

\* The line number is exact unless the block of the match begins on a new
\* line, and is then one too small (service.proto says of first_line that it
\* is the "Line number of the first line in the snippet").
FirstLineUnlessBoundary ==
  \A i \in 1..Len(snippets) :
    LET from == matches[i][1]
        block == (from \div BlockSize) * BlockSize
        late == block > 0 /\ text[block] = "nl"
    IN  snippets[i].firstLine = LineOf(text, from) - (IF late THEN 1 ELSE 0)

\* buildSnippets shows the lines of the match and says which they are, but
\* for the one case.
SnippetsExact == LinesHoldTheMatch /\ FirstLineUnlessBoundary
=============================================================================
