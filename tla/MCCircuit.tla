------------------------------ MODULE MCCircuit ------------------------------
(***************************************************************************)
(* Small instances of the control plane for TLC.                           *)
(***************************************************************************)
EXTENDS CircuitProps

CONSTANTS n1, n2, n3, n4, n5

Call(client, route) == [client |-> client, route |-> route]

\* One client, and a route of three relays, of one, two or four, of five or none at all.
ThreeHops == Call(n1, <<n2, n3, n4>>)
OtherLengths == {Call(n1, <<n2>>), Call(n1, <<n2, n3>>), Call(n1, <<n2, n3, n4, n5>>)}
NoRoute == Call(n1, << >>)
TooLong == Call(n1, <<n2, n3, n4, n5, n2>>)

\* Clients of the same relays, which are clients and relays for each other: shared
\* hops, opposite directions, a client in another's route.
SharedCalls == {ThreeHops, Call(n2, <<n3>>), Call(n4, <<n3, n2, n1>>)}

AllCalls == {ThreeHops, NoRoute, TooLong} \cup OtherLengths \cup SharedCalls

CONSTANTS b1, b2

\* One build of any length, calm or over a network that loses and a timer that may
\* fire early; or two builds, of which neither is that patient.
Situation ==
  \/ /\ call[b2] = NoRoute
     /\ call[b1].client = n1
     /\ env \in {[mayLose |-> TRUE, patient |-> FALSE], [mayLose |-> FALSE, patient |-> TRUE]}
  \/ /\ {call[b1], call[b2]} \subseteq SharedCalls
     /\ env = [mayLose |-> FALSE, patient |-> FALSE]

ManyInit == Init /\ Situation
ManySpec == ManyInit /\ [][Next]_vars /\ Fairness
CalmSpec == FairSpec /\ Calm

\* One client, one route.
OneCall == {ThreeHops}

\* Two clients behind the same first hop, each with a build of its own.
SharedHop == {Call(n1, <<n3, n4>>), Call(n2, <<n3, n4>>)}
TwoClients == Client(b1) # Client(b2)
CrossedSpec == CalmSpec /\ TwoClients

\* One client, whose second route starts at a relay the first did not use.
FreshRelay == {Call(n1, <<n2, n4>>), Call(n1, <<n3, n4>>)}
=============================================================================
