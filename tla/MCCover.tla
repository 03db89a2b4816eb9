------------------------------- MODULE MCCover --------------------------------
(***************************************************************************)
(* A small instance of the cover traffic for TLC: one node with the loop   *)
(* on, which knows itself and another node.                                *)
(***************************************************************************)
EXTENDS LinkProps, Cover

CONSTANTS a, b

FromA == {<<a, a>>, <<a, b>>}
Everyone == [n \in Node |-> Node]

CalmEnv == {[serial |-> TRUE, patient |-> TRUE, masks |-> FALSE, stale |-> FALSE,
             faults |-> 0, restarts |-> 0]}

\* A PADDING cell that the loop counts as sent reaches another node's link (cover.rs:1:
\* PADDING keeps a background cell on the link), when UDP loses nothing and cells are
\* sent one at a time.
PaddingArrives ==
  \A n \in Covering, s \in Call : Calm /\ s \in padding[n] ~> Delivered(s)
=============================================================================
