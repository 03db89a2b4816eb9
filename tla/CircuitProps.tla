---------------------------- MODULE CircuitProps ----------------------------
(***************************************************************************)
(* The properties of the control plane of Circuit.                         *)
(***************************************************************************)
EXTENDS Circuit

\* Every entry of a node's table was put there by the hop it says: its circuit
\* goes through this node, its links lead to the neighbours the route names, and
\* it is stored under the id of its link back (node.rs:222, node.rs:254). Needs
\* fragments of different headers never to be taken for one, whatever their order.
Wired(n, c, e) ==
  /\ e \in OriginEntry =>
       /\ n = Client(e.build)
       /\ e.next = [cid |-> c, peer |-> HopNode(e.build, 1)]
  /\ e \in RelayEntry \cup TerminalEntry =>
       /\ n = HopNode(e.build, e.hop)
       /\ e.prev = [cid |-> c, peer |-> HopNode(e.build, e.hop - 1)]
  /\ e \in RelayEntry =>
       e.hop < Hops(e.build) /\ e.next.peer = HopNode(e.build, e.hop + 1)
  /\ e \in TerminalEntry => e.hop = Hops(e.build)

HopWiring == \A n \in Node, c \in Cid : Wired(n, c, circuits[n][c])

\* Following a link forward never leads into another circuit: the entry that the
\* next hop keeps under the id of the link, if it came from this node, is the next
\* hop of the same build. It is what one u32 counter per node (node.rs:187) is for.
NoCrossedCircuits ==
  \A n \in Node, c \in Cid :
    LET e == circuits[n][c] IN
    e \in OriginEntry \cup RelayEntry =>
      LET f == circuits[e.next.peer][e.next.cid] IN
      f \in RelayEntry \cup TerminalEntry /\ f.prev.peer = n =>
        /\ f.build = e.build
        /\ f.hop = IF e \in OriginEntry THEN 1 ELSE e.hop + 1

\* The copies of CREATED in flight, the builds that one woke, and the routes that were
\* reached to their end.
InFlight == UNION {{m} \X (1..net[m]) : m \in {k \in BagToSet(net) : k.cmd = "CREATED"}}
Answered == {b \in Build : pc[b] \in {"woken", "open", "closing", "closed"}}
Connected == {b \in Build : Hops(b) # 0 /\ reached[b] = Hops(b)}

\* A CREATED is an answer: those in flight and those that woke a build are never
\* more than the terminals reached, whichever way they went (node.rs:235, 298, 313).
CreatedConserved == Cardinality(InFlight) + Cardinality(Answered) <= Cardinality(Connected)

\* The layers of a header are peeled in route order, each of them once
\* (node.rs:217), though its fragments arrive in any order among others.
HeaderPeeledOnce ==
  [][\A b \in Build : reached'[b] # reached[b] => reached'[b] = reached[b] + 1]_vars

\* build_circuit returns (builder.rs:61): a build that sent its CREATE is open or
\* failed in the end, whatever the network loses.
BuildResolves ==
  \A b \in Build : pc[b] = "sent" ~> pc[b] \in {"open", "failed"}

\* No cell is lost and the timer is long enough.
Calm == ~ env.mayLose /\ env.patient

CreateInFlight(b) ==
  \E m \in BagToSet(net) : m.cmd = "CREATE" /\ m.frag.build = b

\* An origin that is already waiting while its header travels is woken, when no cell
\* is lost and the timer is long enough: every relay hands CREATED back to its
\* previous hop (node.rs:300 "Relay: chuyen CREATED ve prev cua circuit").
RelayReturnsCreated ==
  \A b \in Build :
    Calm /\ pc[b] = "waiting" /\ CreateInFlight(b) ~> pc[b] = "open"

\* The same without the proviso that the origin is already waiting: a build whose
\* CREATE is out gets its CREATED (builder.rs:58 "Cho CREATED", node.rs:295).
HealthyBuildOpens ==
  \A b \in Build : pc[b] = "sent" ~> pc[b] = "open"

\* After close, DESTROY stops travelling and neither the client nor the first hop
\* keeps the circuit (builder.rs:147, node.rs:320), when no cell is lost. It says nothing
\* of the later hops, which DESTROY does not reach.
TeardownSettles ==
  \A b \in Build :
    Calm /\ pc[b] = "closed" ~> [](/\ pc[b] = "closed"
                           /\ net = EmptyBag
                           /\ OwnEntry(b) = None
                           /\ circuits[HopNode(b, 1)][cidOf[b]] = None)

\* An open circuit reaches its terminal (plan:35 "CREATED: xac nhan circuit da dung").
OpenImpliesAllHops ==
  \A b \in Build : pc[b] = "open" => reached[b] = Hops(b)

\* No cell travels for ever: CREATED and DESTROY are handed back from table to table
\* under an id that stays the same (node.rs:306, node.rs:323), so two relays of
\* opposite circuits could be expected to hand one to each other without end. They
\* do not, since a node heads one link with an id.
NetworkQuiets == <>[](net = EmptyBag)

\* Build b is the only one: no other has a route it may send. A build next to others
\* may be woken by their answers (OpenImpliesAllHops), and promises nothing.
Alone(b) == \A c \in Build \ {b} : ~ LegalRoute(c)

Phase(b) ==
  CASE ~ Alone(b) -> "idle"
    [] Alone(b) /\ pc[b] \in {"sent", "waiting", "woken"} -> "building"
    [] Alone(b) /\ pc[b] = "expired" -> "failed"
    [] Alone(b) /\ pc[b] \in {"closing", "closed"} -> "closed"
    [] OTHER -> pc[b]

Service == INSTANCE CircuitService WITH
  hops <- [b \in Build |-> Hops(b)],
  phase <- [b \in Build |-> Phase(b)],
  reached <- [b \in Build |-> IF Alone(b) THEN reached[b] ELSE 0]

\* The control plane keeps the promise of CircuitService to a build that is alone,
\* whatever the network loses (builder.rs:26, 131): it opens only over its whole route,
\* in order, it has failed once its timer has fired, so that an answer which is handled
\* before it leaves `pending' opens nothing (builder.rs:64), and it ends.
ImplementsService == Service!FairSpec
=============================================================================
