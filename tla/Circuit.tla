------------------------------- MODULE Circuit -------------------------------
(***************************************************************************)
(* The control plane of an NBF circuit (crates/nbf-net): an origin sends   *)
(* one Sphinx header in CREATE fragments, each hop peels its layer, wires  *)
(* itself to its neighbours and forwards the rest, the terminal answers    *)
(* CREATED, which walks back to the origin; DESTROY tears circuits down.   *)
(*                                                                         *)
(* A node IS its cell address. Every handler runs in a task of its own     *)
(* (node.rs:171), so cells are handled in any order; the Noise transport   *)
(* under them refuses a repeated datagram, so none is handled twice.       *)
(* A layer's keys are abstracted to the (build, hop) they belong to.       *)
(***************************************************************************)
EXTENDS Integers, Sequences, FiniteSets, Bags

CONSTANTS
  Node,      \* the nodes of the network, clients and relays alike
  Build,     \* the calls of build_circuit, one identifier each
  Calls,     \* the arguments such a call may have: client and route
  MaxHops,   \* nbf_crypto::MAX_HOPS
  MaxCid,    \* bound: the last circuit id a node hands out (a u32 in the code)
  None       \* no entry under a circuit id

ASSUME CallsAssumption ==
  /\ Calls \subseteq [client : Node, route : Seq(Node)]
  /\ \A c \in Calls : \A i, j \in 1..Len(c.route) : i + 1 = j => c.route[i] # c.route[j]
  /\ \A c \in Calls : c.route # << >> => c.route[1] # c.client

ASSUME BoundAssumption == MaxHops \in Nat \ {0} /\ MaxCid \in Nat \ {0}

Cid == 1..MaxCid
HopLink == [cid : Cid, peer : Node]

OriginEntry == [kind : {"origin"}, build : Build, next : HopLink]
RelayEntry ==
  [kind : {"relay"}, build : Build, hop : 1..MaxHops, prev : HopLink, next : HopLink]
TerminalEntry ==
  [kind : {"terminal"}, build : Build, hop : 1..MaxHops, prev : HopLink]
CircuitEntry == OriginEntry \cup RelayEntry \cup TerminalEntry

\* One chunk of the header that hop `hop' of `build' is to peel.
Frag == [build : Build, hop : 1..MaxHops, total : Nat \ {0}, idx : Nat]

CreateCell == [cmd : {"CREATE"}, from : Node, to : Node, cid : Cid, frag : Frag]
SignalCell == [cmd : {"CREATED", "DESTROY"}, from : Node, to : Node, cid : Cid]
Cell == CreateCell \cup SignalCell

ASSUME NoneAssumption == None \notin CircuitEntry

\* Whether a cell may be lost (UDP; a failed handshake), and whether the 5 s timer
\* outlasts every cell in flight.
Surroundings == [mayLose : BOOLEAN, patient : BOOLEAN]

VARIABLES
  env,       \* the surroundings, for the whole behaviour
  call,      \* the client and route of each build
  pc,        \* where each build_circuit / close stands
  cidOf,     \* the circuit id the client gave the build, 0 before
  nextCid,   \* Node.next_cid
  circuits,  \* Node.circuits: circuit id |-> entry
  frags,     \* Node.create_frags: circuit id |-> chunks gathered so far
  net,       \* the bag of cells in flight
  reached    \* history: the last hop of the build that peeled its layer

vars == <<env, call, pc, cidOf, nextCid, circuits, frags, net, reached>>

PCs == {"idle", "sent", "waiting", "expired", "woken", "open", "closing",
        "closed", "failed"}

TypeOK ==
  /\ env \in Surroundings
  /\ call \in [Build -> Calls]
  /\ pc \in [Build -> PCs]
  /\ cidOf \in [Build -> Cid \cup {0}]
  /\ nextCid \in [Node -> 1..(MaxCid + 1)]
  /\ circuits \in [Node -> [Cid -> CircuitEntry \cup {None}]]
  /\ frags \in [Node -> [Cid -> SUBSET Frag]]
  /\ IsABag(net) /\ BagToSet(net) \subseteq Cell
  /\ reached \in [Build -> 0..MaxHops]

Init ==
  /\ env \in Surroundings
  /\ call \in [Build -> Calls]
  /\ pc = [b \in Build |-> "idle"]
  /\ cidOf = [b \in Build |-> 0]
  /\ nextCid = [n \in Node |-> 1]
  /\ circuits = [n \in Node |-> [c \in Cid |-> None]]
  /\ frags = [n \in Node |-> [c \in Cid |-> {}]]
  /\ net = EmptyBag
  /\ reached = [b \in Build |-> 0]

-----------------------------------------------------------------------------
(* Routes, headers and their fragments.                                    *)

Client(b) == call[b].client
Hops(b) == Len(call[b].route)

\* The node at hop h of build b; hop 0 is the client.
HopNode(b, h) == IF h = 0 THEN Client(b) ELSE call[b].route[h]

\* Byte lengths: 18 fixed bytes, then an alpha and a sealed layer per hop left.
HeaderLen(n) == 18 + n * (32 + 1168)

\* Cells a header for n hops takes: 1272 - 4 payload bytes in each, at least one cell.
FragCount(n) ==
  LET cnt == (HeaderLen(n) + 1267) \div 1268 IN IF cnt < 1 THEN 1 ELSE cnt

\* The header hop h receives has the layers of hops h..Hops(b).
Fragments(b, h) ==
  LET total == FragCount(Hops(b) - h + 1) IN
  {[build |-> b, hop |-> h, total |-> total, idx |-> i] : i \in 0..(total - 1)}

CreateCells(b, h, link) ==
  {[cmd |-> "CREATE", from |-> HopNode(b, h - 1), to |-> link.peer, cid |-> link.cid,
    frag |-> f] : f \in Fragments(b, h)}

Signal(cmd, from, link) == [cmd |-> cmd, from |-> from, to |-> link.peer, cid |-> link.cid]

\* The cells S enter the network.
Send(S) == net' = net (+) SetToBag(S)

\* The cell m leaves the network and the cells S enter it.
Consume(m, S) == net' = (net (-) SetToBag({m})) (+) SetToBag(S)

\* new_cid: the circuit id that node n hands out next.
NewCid(n) == nextCid[n]
CidKept(n) == nextCid' = [nextCid EXCEPT ![n] = NewCid(n)]  \* mutant: load, not fetch_add
CidTaken(n) == nextCid' = [nextCid EXCEPT ![n] = NewCid(n) + 1]

-----------------------------------------------------------------------------
(* build_circuit and close, run by the client. Every await at which other  *)
(* tasks of the node may run ends a step.                                  *)

LegalRouteOffByOne(b) == Hops(b) \in 1..(MaxHops + 1)  \* mutant
LegalRoute(b) == Hops(b) \in 1..MaxHops

\* The route has an illegal length, or a hop has no descriptor.
BuildRefused(b) ==
  /\ pc[b] = "idle"
  /\ pc' = [pc EXCEPT ![b] = "failed"]
  /\ UNCHANGED <<env, call, cidOf, nextCid, circuits, frags, net, reached>>

\* Every hop resolved: the header is built and its fragments are sent.
BuildSend(b) ==
  LET n == Client(b)
      c == NewCid(n)
  IN
  /\ pc[b] = "idle"
  /\ LegalRoute(b)
  /\ c \in Cid
  /\ CidTaken(n)
  /\ cidOf' = [cidOf EXCEPT ![b] = c]
  /\ pc' = [pc EXCEPT ![b] = "sent"]
  /\ Send(CreateCells(b, 1, [cid |-> c, peer |-> HopNode(b, 1)]))
  /\ UNCHANGED <<env, call, circuits, frags, reached>>

\* Only now does the build register in `pending' for its CREATED.
BuildPend(b) ==
  /\ pc[b] = "sent"
  /\ pc' = [pc EXCEPT ![b] = "waiting"]
  /\ UNCHANGED <<env, call, cidOf, nextCid, circuits, frags, net, reached>>

\* Mutant: CREATED awaited without a timeout.
NoTimer(b) == FALSE /\ pc[b] = "waiting" /\ UNCHANGED vars

\* The 5 s timer elapses.
BuildTimer(b) ==
  /\ pc[b] = "waiting"
  /\ env.patient => net = EmptyBag
  /\ pc' = [pc EXCEPT ![b] = "expired"]
  /\ UNCHANGED <<env, call, cidOf, nextCid, circuits, frags, net, reached>>

\* The build leaves `pending' and returns Timeout.
BuildFail(b) ==
  /\ pc[b] = "expired"
  /\ pc' = [pc EXCEPT ![b] = "failed"]
  /\ UNCHANGED <<env, call, cidOf, nextCid, circuits, frags, net, reached>>

\* Woken in time: the Origin entry goes into the table over whatever was there.
BuildOpen(b) ==
  LET c == cidOf[b]
      origin == [kind |-> "origin", build |-> b,
                 next |-> [cid |-> c, peer |-> HopNode(b, 1)]]
  IN
  /\ pc[b] = "woken"
  /\ pc' = [pc EXCEPT ![b] = "open"]
  /\ circuits' = [circuits EXCEPT ![Client(b)][c] = origin]
  /\ UNCHANGED <<env, call, cidOf, nextCid, frags, net, reached>>

\* What the client's table holds for the build.
OwnEntry(b) == circuits[Client(b)][cidOf[b]]

HasOrigin(b) == OwnEntry(b) \in OriginEntry

\* close: DESTROY goes to the first hop.
CloseSend(b) ==
  /\ pc[b] = "open"
  /\ HasOrigin(b)
  /\ pc' = [pc EXCEPT ![b] = "closing"]
  /\ Send({Signal("DESTROY", Client(b), [cid |-> cidOf[b], peer |-> OwnEntry(b).next.peer])})
  /\ UNCHANGED <<env, call, cidOf, nextCid, circuits, frags, reached>>

\* close when the table has no Origin under the id: nothing to do.
CloseNothing(b) ==
  /\ pc[b] = "open"
  /\ ~ HasOrigin(b)
  /\ pc' = [pc EXCEPT ![b] = "closed"]
  /\ UNCHANGED <<env, call, cidOf, nextCid, circuits, frags, net, reached>>

\* After the send, close removes whatever entry the table has by then.
CloseRemove(b) ==
  /\ pc[b] = "closing"
  /\ pc' = [pc EXCEPT ![b] = "closed"]
  /\ circuits' = [circuits EXCEPT ![Client(b)][cidOf[b]] = None]
  /\ UNCHANGED <<env, call, cidOf, nextCid, frags, net, reached>>

-----------------------------------------------------------------------------
(* handle_create at the receiver of cell m.                                *)

\* reassemble: a buffer of another total is dropped, a filled slot is kept. The
\* buffer is found by the circuit id alone, whoever the sender is.
Gathered(m) ==
  LET kept == {g \in frags[m.to][m.cid] : g.total = m.frag.total} IN
  IF \E g \in kept : g.idx = m.frag.idx THEN kept ELSE kept \cup {m.frag}

\* Mutant: the last slot is not waited for.
CompleteEarly(m) == Cardinality(Gathered(m)) >= m.frag.total - 1
Complete(m) == {g.idx : g \in Gathered(m)} = 0..(m.frag.total - 1)

\* process_header opens only a header whose bytes are all of one layer, and only
\* at the node that layer was sealed for.
Peels(m) ==
  /\ \A g \in Gathered(m) : g.build = m.frag.build /\ g.hop = m.frag.hop
  /\ HopNode(m.frag.build, m.frag.hop) = m.to

PrevLinkSelf(m) == [cid |-> m.cid, peer |-> m.to]  \* mutant
PrevLink(m) == [cid |-> m.cid, peer |-> m.from]

BufferCleared(m) == frags' = [frags EXCEPT ![m.to][m.cid] = {}]

CreateWaits(m) ==
  /\ m.cmd = "CREATE"
  /\ ~ Complete(m)
  /\ frags' = [frags EXCEPT ![m.to][m.cid] = Gathered(m)]
  /\ Consume(m, {})
  /\ UNCHANGED <<env, call, pc, cidOf, nextCid, circuits, reached>>

CreateRejected(m) ==
  /\ m.cmd = "CREATE"
  /\ Complete(m)
  /\ ~ Peels(m)
  /\ BufferCleared(m)
  /\ Consume(m, {})
  /\ UNCHANGED <<env, call, pc, cidOf, nextCid, circuits, reached>>

CreateTerminal(m) ==
  LET b == m.frag.build
      h == m.frag.hop
  IN
  /\ m.cmd = "CREATE"
  /\ Complete(m)
  /\ Peels(m)
  /\ h = Hops(b)
  /\ BufferCleared(m)
  /\ circuits' = [circuits EXCEPT ![m.to][m.cid] =
                    [kind |-> "terminal", build |-> b, hop |-> h, prev |-> PrevLink(m)]]
  /\ reached' = [reached EXCEPT ![b] = h]
  /\ Consume(m, {Signal("CREATED", m.to, PrevLink(m))})
  /\ UNCHANGED <<env, call, pc, cidOf, nextCid>>

\* Mutant: a relay answers CREATED as soon as it has peeled its own layer.
RelayAnswers(m, next) ==
  CreateCells(m.frag.build, m.frag.hop + 1, next) \cup {Signal("CREATED", m.to, PrevLink(m))}

\* What a relay sends once it has peeled its layer: the rest of the header.
RelaySends(m, next) == CreateCells(m.frag.build, m.frag.hop + 1, next)

CreateRelay(m) ==
  LET b == m.frag.build
      h == m.frag.hop
      next == [cid |-> NewCid(m.to), peer |-> HopNode(b, h + 1)]
  IN
  /\ m.cmd = "CREATE"
  /\ Complete(m)
  /\ Peels(m)
  /\ h < Hops(b)
  /\ NewCid(m.to) \in Cid
  /\ BufferCleared(m)
  /\ CidTaken(m.to)
  /\ circuits' = [circuits EXCEPT ![m.to][m.cid] =
                    [kind |-> "relay", build |-> b, hop |-> h, prev |-> PrevLink(m),
                     next |-> next]]
  /\ reached' = [reached EXCEPT ![b] = h]
  /\ Consume(m, RelaySends(m, next))
  /\ UNCHANGED <<env, call, pc, cidOf>>

-----------------------------------------------------------------------------
(* handle_created and handle_destroy. Both look the cell's id up in the    *)
(* receiver's tables and ignore its sender. handle_created looks in        *)
(* `pending' and then, under another lock, in `circuits' (node.rs:296 and  *)
(* 301); it is one step here, at the first look.                           *)

\* The builds registered in `pending' under the id the cell carries.
Pending(m) == {b \in Build : /\ pc[b] \in {"waiting", "expired"}
                             /\ Client(b) = m.to
                             /\ cidOf[b] = m.cid}

\* Mutant: an answer wakes a build whose timer has already fired.
CreatedWakesLate(m) ==
  /\ m.cmd = "CREATED"
  /\ \E b \in Pending(m) : pc' = [pc EXCEPT ![b] = "woken"]
  /\ Consume(m, {})
  /\ UNCHANGED <<env, call, cidOf, nextCid, circuits, frags, reached>>

\* A build whose timer has already fired gets the answer and drops it.
CreatedWakes(m) ==
  /\ m.cmd = "CREATED"
  /\ \E b \in Pending(m) :
       pc' = [pc EXCEPT ![b] = IF pc[b] = "waiting" THEN "woken" ELSE "failed"]
  /\ Consume(m, {})
  /\ UNCHANGED <<env, call, cidOf, nextCid, circuits, frags, reached>>

Entry(m) == circuits[m.to][m.cid]

\* Mutant: CREATED is sent on to the next hop.
CreatedOnward(m) ==
  /\ m.cmd = "CREATED"
  /\ Pending(m) = {}
  /\ Entry(m) \in RelayEntry
  /\ Consume(m, {Signal("CREATED", m.to, Entry(m).next)})
  /\ UNCHANGED <<env, call, pc, cidOf, nextCid, circuits, frags, reached>>

CreatedForwarded(m) ==
  /\ m.cmd = "CREATED"
  /\ Pending(m) = {}
  /\ Entry(m) \in RelayEntry
  /\ Consume(m, {Signal("CREATED", m.to, Entry(m).prev)})
  /\ UNCHANGED <<env, call, pc, cidOf, nextCid, circuits, frags, reached>>

CreatedDropped(m) ==
  /\ m.cmd = "CREATED"
  /\ Pending(m) = {}
  /\ Entry(m) \notin RelayEntry
  /\ Consume(m, {})
  /\ UNCHANGED <<env, call, pc, cidOf, nextCid, circuits, frags, reached>>

\* Mutant: the entry is read (get) where it is to be taken out (remove).
DestroyKeepsEntry(m) ==
  /\ m.cmd = "DESTROY"
  /\ IF Entry(m) \in RelayEntry \cup TerminalEntry
       THEN Consume(m, {Signal("DESTROY", m.to, Entry(m).prev)})
       ELSE Consume(m, {})
  /\ UNCHANGED <<env, call, pc, cidOf, nextCid, circuits, frags, reached>>

\* The entry goes; a relay or terminal tells its previous hop, never the next one.
HandleDestroy(m) ==
  /\ m.cmd = "DESTROY"
  /\ circuits' = [circuits EXCEPT ![m.to][m.cid] = None]
  /\ IF Entry(m) \in RelayEntry \cup TerminalEntry
       THEN Consume(m, {Signal("DESTROY", m.to, Entry(m).prev)})
       ELSE Consume(m, {})
  /\ UNCHANGED <<env, call, pc, cidOf, nextCid, frags, reached>>

-----------------------------------------------------------------------------
HandleCreate(m) ==
  CreateWaits(m) \/ CreateRejected(m) \/ CreateTerminal(m) \/ CreateRelay(m)

HandleCreated(m) == CreatedWakes(m) \/ CreatedForwarded(m) \/ CreatedDropped(m)

\* handle_cell: node n runs the handler of some cell sent to it.
HandleCell(n) ==
  \E m \in BagToSet(net) :
    m.to = n /\ (HandleCreate(m) \/ HandleCreated(m) \/ HandleDestroy(m))

\* The network loses a cell.
LoseCell ==
  /\ env.mayLose
  /\ \E m \in BagToSet(net) : Consume(m, {})
  /\ UNCHANGED <<env, call, pc, cidOf, nextCid, circuits, frags, reached>>

\* What the caller decides, and what the runtime does once the caller has.
CallerStep(b) == BuildRefused(b) \/ BuildSend(b) \/ CloseSend(b) \/ CloseNothing(b)
RuntimeStep(b) ==
  BuildPend(b) \/ BuildTimer(b) \/ BuildFail(b) \/ BuildOpen(b) \/ CloseRemove(b)

\* Every call has returned and nothing is in flight.
Finished ==
  /\ \A b \in Build : pc[b] \in {"closed", "failed"}
  /\ net = EmptyBag
  /\ UNCHANGED vars

Next ==
  \/ \E b \in Build : CallerStep(b) \/ RuntimeStep(b)
  \/ \E n \in Node : HandleCell(n)
  \/ LoseCell
  \/ Finished

Spec == Init /\ [][Next]_vars

\* tokio runs every ready task: a node with cells to handle handles one, and an
\* awaited build goes on. Nothing makes a caller call, or the network lose.
Fairness ==
  /\ \A n \in Node : WF_vars(HandleCell(n))
  /\ \A b \in Build : WF_vars(RuntimeStep(b))

FairSpec == Spec /\ Fairness
=============================================================================
