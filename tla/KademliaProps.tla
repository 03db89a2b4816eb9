---------------------------- MODULE KademliaProps ----------------------------
(***************************************************************************)
(* The properties of the DHT of Kademlia.                                  *)
(***************************************************************************)
EXTENDS Kademlia

Returned(t) == pc[t] = "returned"
Calm == env.serial /\ env.faults = 0

\* A lookup that ends without a descriptor has asked every contact it then held for
\* nearest (kademlia.rs:195 "until it converges"), whatever its own answers and those
\* of others do to the routing table between its rounds.
LookupExhaustive ==
  \A e \in Route : Returned(e) /\ result[e] = None => seen[e] \subseteq queried[e]

\* lookup_route returns (node.rs:389): a task whose sender is replaced or removed by
\* another's request or timeout goes on, and so does one whose answer is lost.
RouteReturns == \A e \in Route : pc[e] = "missed" ~> Returned(e)

\* When a node's tasks run one at a time and nothing is lost, a route is that of its
\* target (kademlia.rs:292), and is found if the target was ever among the nearest
\* contacts, from the start or by another's answer: it is the first to be asked, and
\* keeps its own descriptor from the start (node.rs:142).
KnownRouteFound ==
  Calm => \A e \in Route : Returned(e) =>
    \/ result[e] = Target(e)
    \/ result[e] = None /\ Target(e) \notin seen[e] \cup queried[e]

\* When nothing is lost, every seed of a node that has joined keeps its descriptor
\* (node.rs:159, store_self), although a store is never answered and each one times out.
SeedsKeep ==
  \A n \in Node : Calm /\ Returned(n) =>
    \A i \in 1..Len(env.seeds[n]) : n \in store[env.seeds[n][i]]

\* A route that is returned is that of the node asked for (kademlia.rs:292
\* "assert_eq!(d.node_id, dc.node_id)").
RouteIsTarget == \A e \in Route : Returned(e) => result[e] \in {None, Target(e)}
=============================================================================
