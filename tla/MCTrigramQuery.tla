--------------------------- MODULE MCTrigramQuery ---------------------------
(* An instance of TrigramQuery for TLC: one expression whose exact set has   *)
(* spare capacity when an alternative without one is added.                   *)
EXTENDS TrigramQuery

Lit(s) == [op |-> "literal", s |-> s]
AnyStar == [op |-> "star", x |-> [op |-> "any"]]
Cat(x, y) == [op |-> "concat", x |-> x, y |-> y]
Alt(x, y) == [op |-> "alternate", x |-> x, y |-> y]

\* ff(aa|bb|cc|dd.*ee)
Four == {Cat(Lit(<<6, 6>>),
             Alt(Alt(Alt(Lit(<<1, 1>>), Lit(<<2, 2>>)), Lit(<<3, 3>>)),
                 Cat(Cat(Lit(<<4, 4>>), AnyStar), Lit(<<5, 5>>))))}
=============================================================================
