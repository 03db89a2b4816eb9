----------------------------- MODULE SphinxProps -----------------------------
(***************************************************************************)
(* The properties of the header of Sphinx.                                 *)
(***************************************************************************)
EXTENDS Sphinx

\* The hop a header is for, by the number of layers it has left.
HopOf(n) == Hops - n + 1

\* Of the nodes that run process_header with their own identity, a header opens at the
\* hop it is for and at no other, as often as it is blinded on the way (sphinx.rs:197):
\* the alpha the hop finds is the one the origin sealed its layer with, and the nonce of
\* its position the one it was sealed under. It is what Peels of Circuit takes for
\* granted, and no claim of confidentiality: the key comes of the hop's public key.
OpensAtItsHop ==
  \A h \in headers, m \in Node : Opens(m, h) <=> m = route[HopOf(h.n)]

\* A hop that has opened its layer holds the traffic keys the origin keeps for it, and
\* is told the next hop of the route or that it is the last (sphinx.rs:206).
HopsAgree ==
  \A o \in joined :
    LET t == HopOf(o.n) IN
    /\ o.node = route[t]
    /\ o.keys = OriginKeys(t)
    /\ o.next = IF o.n = 1 THEN Terminal ELSE route[t + 1]

\* A header that is built goes the whole route: every hop joins, each under its own
\* keys (sphinx.rs:259), whatever scalars were drawn and whoever else is handed one.
WalkCompletes ==
  stage = "built" ~>
    \A t \in 1..Hops : \E o \in joined : o.node = route[t] /\ o.keys = OriginKeys(t)
=============================================================================
