------------------------------ MODULE MCKademlia ------------------------------
(***************************************************************************)
(* Small instances of the DHT for TLC: the nodes are their ids, numbers of *)
(* two bits.                                                               *)
(***************************************************************************)
EXTENDS KademliaProps, Bitwise, TLC

CONSTANTS e1, e2

XorDist == [e \in Node \X Node |-> e[1] ^^ e[2]]

\* Node 0 looks for nodes 1 and 2.
FromZero == (e1 :> {<<0, 1>>}) @@ (e2 :> {<<0, 1>>, <<0, 2>>})
Joins(zero, two) == (0 :> zero) @@ (1 :> << >>) @@ (2 :> two)

\* Two lookups overlap the start of another node, or of their own; or one task of a
\* node runs at a time.
OthersStart == [seeds |-> Joins(<< >>, <<0>>), serial |-> FALSE, faults |-> 1]
OwnStart == [seeds |-> Joins(<<1>>, << >>), serial |-> FALSE, faults |-> 0]
OneAtATime == [seeds |-> Joins(<<1>>, <<0, 1>>), serial |-> TRUE, faults |-> 0]

RoughOrCalm == {OthersStart, OneAtATime}
OverlapOnly == {OwnStart}
=============================================================================
