------------------------------- MODULE MCSphinx -------------------------------
(***************************************************************************)
(* A small instance of the header for TLC: the integers modulo 5.          *)
(***************************************************************************)
EXTENDS SphinxProps

CONSTANTS n1, n2, n3

MulMod(r, s) == (r * s) % 5
Public(n) == CASE n = n1 -> 1 [] n = n2 -> 2 [] n = n3 -> 3
DhMod(n, s) == (Public(n) * s) % 5
HashMod(p, s) == 1 + ((p + 2 * s) % 4)

\* No hop, one to four, a node twice, the same node twice running, and one too many.
Routes == {<< >>, <<n1>>, <<n3, n1>>, <<n2, n2>>, <<n1, n2, n3>>, <<n2, n1, n2>>,
           <<n1, n2, n3, n1>>, <<n1, n2, n3, n1, n2>>}
=============================================================================
