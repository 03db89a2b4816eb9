--------------------------- MODULE Circuit_proofs ---------------------------
(***************************************************************************)
(* Proofs about the control plane, for any nodes, builds and routes: its   *)
(* types, the wiring of every table entry, and that no link crosses into   *)
(* another circuit.                                                        *)
(***************************************************************************)
EXTENDS CircuitProps, TLAPS

-----------------------------------------------------------------------------
(* Lemmas about the operators of Circuit.                                  *)

\* Sending adds cells to the network and nothing else.
LEMMA SendBag ==
  ASSUME NEW B, IsABag(B), NEW S
  PROVE  /\ IsABag(B (+) SetToBag(S))
         /\ BagToSet(B (+) SetToBag(S)) = BagToSet(B) \cup S
<1> DEFINE R == B (+) SetToBag(S)
<1>1. DOMAIN R = DOMAIN B \cup S
  BY DEF (+), SetToBag
<1>2. \A e \in DOMAIN R : R[e] \in Nat /\ R[e] > 0
  BY DEF (+), SetToBag, IsABag
<1>3. R \in [DOMAIN R -> {k \in Nat : k > 0}]
  BY <1>1, <1>2 DEF (+), SetToBag
<1> QED
  BY <1>1, <1>3 DEF IsABag, BagToSet

\* Consuming a cell brings in only the cells that are sent.
LEMMA ConsumeBag ==
  ASSUME NEW B, IsABag(B), NEW m, NEW S
  PROVE  /\ IsABag((B (-) SetToBag({m})) (+) SetToBag(S))
         /\ BagToSet((B (-) SetToBag({m})) (+) SetToBag(S)) \subseteq BagToSet(B) \cup S
<1> DEFINE D == B (-) SetToBag({m})
<1>1. DOMAIN D \subseteq DOMAIN B
  BY DEF (-), SetToBag
<1>2. \A e \in DOMAIN D : D[e] \in Nat /\ D[e] > 0
  BY DEF (-), SetToBag, IsABag
<1>3. D \in [DOMAIN D -> {k \in Nat : k > 0}]
  BY <1>1, <1>2 DEF (-), SetToBag
<1>4. IsABag(D)
  BY <1>3 DEF IsABag
<1> QED
  BY <1>1, <1>4, SendBag DEF BagToSet

\* A header takes at least one cell.
LEMMA FragCountPositive ==
  ASSUME NEW k \in Nat
  PROVE  FragCount(k) \in Nat \ {0}
<1> DEFINE x == HeaderLen(k) + 1267
<1>1. x \in Nat
  BY DEF HeaderLen
<1>2. x \div 1268 \in Nat
  <2> HIDE DEF x
  <2> QED BY <1>1
<1> QED
  BY <1>2 DEF FragCount

\* For the routes the code allows, a header of k layers takes exactly k cells.
LEMMA OneCellPerHop ==
  ASSUME NEW k \in 1..5
  PROVE  FragCount(k) = k
BY DEF FragCount, HeaderLen

LEMMA HopNodeType ==
  ASSUME call \in [Build -> Calls], NEW b \in Build, NEW h \in 0..Hops(b)
  PROVE  HopNode(b, h) \in Node
BY CallsAssumption DEF HopNode, Hops, Client

LEMMA HopsType ==
  ASSUME call \in [Build -> Calls], NEW b \in Build
  PROVE  Hops(b) \in Nat
BY CallsAssumption DEF Hops

\* The cells that carry a header to hop h of build b.
LEMMA CreateCellsType ==
  ASSUME call \in [Build -> Calls], NEW b \in Build, Hops(b) <= MaxHops,
         NEW h \in 1..Hops(b), NEW link \in HopLink, link.peer = HopNode(b, h)
  PROVE  \A m \in CreateCells(b, h, link) :
           /\ m \in CreateCell
           /\ m.cmd = "CREATE" /\ m.frag.build = b /\ m.frag.hop = h
           /\ m.from = HopNode(b, h - 1) /\ m.to = HopNode(b, h) /\ m.cid = link.cid
<1> SUFFICES ASSUME NEW m \in CreateCells(b, h, link)
             PROVE  /\ m \in CreateCell
                    /\ m.cmd = "CREATE" /\ m.frag.build = b /\ m.frag.hop = h
                    /\ m.from = HopNode(b, h - 1) /\ m.to = HopNode(b, h)
                    /\ m.cid = link.cid
  OBVIOUS
<1>1. PICK f \in Fragments(b, h) :
        m = [cmd |-> "CREATE", from |-> HopNode(b, h - 1), to |-> link.peer,
             cid |-> link.cid, frag |-> f]
  BY DEF CreateCells
<1>2. Hops(b) \in Nat /\ h \in 1..MaxHops /\ h - 1 \in 0..Hops(b) /\ Hops(b) - h + 1 \in Nat
  BY HopsType, BoundAssumption
<1>3. f \in Frag /\ f.build = b /\ f.hop = h
  <2> DEFINE total == FragCount(Hops(b) - h + 1)
  <2>1. total \in Nat \ {0}
    BY <1>2, FragCountPositive
  <2>2. PICK i \in 0..(total - 1) :
          f = [build |-> b, hop |-> h, total |-> total, idx |-> i]
    BY DEF Fragments
  <2> QED
    BY <1>2, <2>1, <2>2 DEF Frag
<1>4. HopNode(b, h - 1) \in Node
  BY <1>2, HopNodeType
<1> QED
  BY <1>1, <1>3, <1>4 DEF CreateCell, HopLink

-----------------------------------------------------------------------------
(* The inductive invariant, in four parts.                                 *)

\* A build that got as far as sending has a circuit id and a legal route.
StartedBuilds ==
  \A b \in Build : pc[b] \notin {"idle", "failed"} => cidOf[b] \in Cid /\ LegalRoute(b)

\* A CREATE cell travels from a hop to the next one of its build's legal route.
HeadersOnRoute ==
  \A m \in BagToSet(net) : m.cmd = "CREATE" =>
    /\ LegalRoute(m.frag.build)
    /\ m.frag.hop <= Hops(m.frag.build)
    /\ m.from = HopNode(m.frag.build, m.frag.hop - 1)
    /\ m.to = HopNode(m.frag.build, m.frag.hop)

Basics == TypeOK /\ StartedBuilds /\ HeadersOnRoute

\* The link that node n heads with id c, from hop h of build b to hop h + 1, is used
\* by the entry at its head and by the one at its tail,
HeadOf(e, c, b, h) ==
  \/ e \in OriginEntry /\ e.next.cid = c /\ e.build = b /\ h = 0
  \/ e \in RelayEntry /\ e.next.cid = c /\ e.build = b /\ h = e.hop

TailOf(e, n, b, h) ==
  e \in RelayEntry \cup TerminalEntry /\ e.prev.peer = n /\ e.build = b /\ e.hop = h + 1

HeadUses(n, c, b, h) == \E k \in Cid : HeadOf(circuits[n][k], c, b, h)
TailUses(n, c, b, h) == \E p \in Node : TailOf(circuits[p][c], n, b, h)

\* by the build that took the id, and by the header on its way.
BuildUses(n, c, b, h) == Client(b) = n /\ cidOf[b] = c /\ h = 0

Carries(m, n, c, b, h) ==
  /\ m.cmd = "CREATE" /\ m.from = n /\ m.cid = c
  /\ m.frag.build = b /\ m.frag.hop = h + 1

CellUses(n, c, b, h) == \E m \in BagToSet(net) : Carries(m, n, c, b, h)

Uses(n, c, b, h) ==
  HeadUses(n, c, b, h) \/ TailUses(n, c, b, h) \/ BuildUses(n, c, b, h) \/ CellUses(n, c, b, h)

\* A node gives each id to one link of one build, and only ids it has counted past.
UniqueUse ==
  \A n \in Node, c \in Cid, b \in Build, h \in Nat :
    Uses(n, c, b, h) =>
      /\ c < nextCid[n]
      /\ \A b2 \in Build, h2 \in Nat : Uses(n, c, b2, h2) => b2 = b /\ h2 = h

IInv == Basics /\ HopWiring /\ UniqueUse

-----------------------------------------------------------------------------
(* Basics is inductive.                                                    *)

LEMMA BasicsInit == Init => Basics
<1> SUFFICES ASSUME Init PROVE Basics
  OBVIOUS
<1>1. TypeOK
  <2>1. net = EmptyBag /\ IsABag(EmptyBag) /\ BagToSet(EmptyBag) = {}
    BY DEF Init, EmptyBag, SetToBag, IsABag, BagToSet
  <2>2. nextCid \in [Node -> 1..(MaxCid + 1)] /\ reached \in [Build -> 0..MaxHops]
    BY BoundAssumption DEF Init
  <2> QED
    BY <2>1, <2>2 DEF Init, TypeOK, PCs
<1>2. StartedBuilds
  BY DEF Init, StartedBuilds
<1>3. HeadersOnRoute
  BY DEF Init, HeadersOnRoute, EmptyBag, SetToBag, BagToSet
<1> QED
  BY <1>1, <1>2, <1>3 DEF Basics

\* What a step must show of the network, given the cells S it sends.
LEMMA NetworkStep ==
  ASSUME Basics, call' = call, NEW S \in SUBSET Cell,
         IsABag(net'), BagToSet(net') \subseteq BagToSet(net) \cup S,
         \A m \in S : m.cmd = "CREATE" =>
           /\ LegalRoute(m.frag.build)
           /\ m.frag.hop <= Hops(m.frag.build)
           /\ m.from = HopNode(m.frag.build, m.frag.hop - 1)
           /\ m.to = HopNode(m.frag.build, m.frag.hop)
  PROVE  (IsABag(net) /\ BagToSet(net) \subseteq Cell)' /\ HeadersOnRoute'
<1>1. (IsABag(net) /\ BagToSet(net) \subseteq Cell)'
  BY DEF Basics, TypeOK
<1>2. HeadersOnRoute'
  BY DEF Basics, HeadersOnRoute, LegalRoute, Hops, HopNode, Client
<1> QED
  BY <1>1, <1>2

\* A step that sends only answers to a cell, or nothing.
LEMMA SignalStep ==
  ASSUME Basics, call' = call, NEW m \in BagToSet(net), NEW S \in SUBSET SignalCell,
         Consume(m, S)
  PROVE  (IsABag(net) /\ BagToSet(net) \subseteq Cell)' /\ HeadersOnRoute'
<1>1. IsABag(net') /\ BagToSet(net') \subseteq BagToSet(net) \cup S
  BY ConsumeBag DEF Basics, TypeOK, Consume
<1>2. S \in SUBSET Cell /\ \A k \in S : k.cmd # "CREATE"
  BY DEF Cell, SignalCell
<1> QED
  BY <1>1, <1>2, NetworkStep

LEMMA SignalType ==
  ASSUME NEW cmd \in {"CREATED", "DESTROY"}, NEW n \in Node, NEW link \in HopLink
  PROVE  {Signal(cmd, n, link)} \in SUBSET SignalCell
BY DEF Signal, SignalCell, HopLink

\* The cell a CREATE handler works on: its header is for a hop of a legal route.
LEMMA CreateCellFacts ==
  ASSUME Basics, NEW m \in BagToSet(net), m.cmd = "CREATE"
  PROVE  /\ m \in CreateCell
         /\ m.frag.build \in Build /\ m.frag.hop \in 1..MaxHops /\ m.frag \in Frag
         /\ LegalRoute(m.frag.build)
         /\ m.frag.hop \in 1..Hops(m.frag.build)
         /\ m.from = HopNode(m.frag.build, m.frag.hop - 1)
         /\ m.to = HopNode(m.frag.build, m.frag.hop)
         /\ PrevLink(m) \in HopLink
         /\ m.to \in Node /\ m.cid \in Cid
<1>1. m \in CreateCell
  BY DEF Basics, TypeOK, Cell, SignalCell
<1>2. m.frag \in Frag /\ m.from \in Node /\ m.to \in Node /\ m.cid \in Cid
  BY <1>1 DEF CreateCell
<1>3. m.frag.build \in Build /\ m.frag.hop \in 1..MaxHops
  BY <1>2 DEF Frag
<1>4. /\ LegalRoute(m.frag.build) /\ m.frag.hop <= Hops(m.frag.build)
      /\ m.from = HopNode(m.frag.build, m.frag.hop - 1)
      /\ m.to = HopNode(m.frag.build, m.frag.hop)
  BY DEF Basics, HeadersOnRoute
<1>5. m.frag.hop \in 1..Hops(m.frag.build)
  BY <1>3, <1>4, HopsType DEF Basics, TypeOK
<1>6. PrevLink(m) \in HopLink
  BY <1>2 DEF PrevLink, HopLink
<1> QED
  BY <1>1, <1>2, <1>3, <1>4, <1>5, <1>6

LEMMA GatheredType ==
  ASSUME TypeOK, NEW m \in CreateCell
  PROVE  Gathered(m) \subseteq Frag
BY DEF Gathered, TypeOK, CreateCell

\* A relay's link to the next hop, and what it sends along it.
LEMMA NextHop ==
  ASSUME Basics, NEW m \in BagToSet(net), m.cmd = "CREATE",
         m.frag.hop < Hops(m.frag.build), NewCid(m.to) \in Cid,
         NEW next, next = [cid |-> NewCid(m.to), peer |-> HopNode(m.frag.build, m.frag.hop + 1)]
  PROVE  /\ next \in HopLink
         /\ \A k \in RelaySends(m, next) :
              /\ k \in CreateCell /\ k.cmd = "CREATE"
              /\ k.frag.build = m.frag.build /\ k.frag.hop = m.frag.hop + 1
              /\ k.from = m.to /\ k.cid = NewCid(m.to)
              /\ k.to = HopNode(m.frag.build, m.frag.hop + 1)
<1> DEFINE b == m.frag.build
           h == m.frag.hop
<1>1. call \in [Build -> Calls] /\ b \in Build /\ h \in 1..Hops(b) /\ Hops(b) \in Nat
      /\ m.to = HopNode(b, h) /\ Hops(b) <= MaxHops
  BY CreateCellFacts, HopsType DEF Basics, TypeOK, LegalRoute
<1>2. h + 1 \in 1..Hops(b) /\ h + 1 \in 0..Hops(b) /\ (h + 1) - 1 = h
  BY <1>1
<1>3. next \in HopLink
  BY <1>1, <1>2, HopNodeType DEF HopLink
<1>4. /\ next.peer = HopNode(b, h + 1)
      /\ next.cid = NewCid(m.to)
  OBVIOUS
<1>5. \A k \in CreateCells(b, h + 1, next) :
        /\ k \in CreateCell
        /\ k.cmd = "CREATE" /\ k.frag.build = b /\ k.frag.hop = h + 1
        /\ k.from = HopNode(b, h) /\ k.to = HopNode(b, h + 1) /\ k.cid = next.cid
  BY <1>1, <1>2, <1>3, <1>4, CreateCellsType
<1> QED
  BY <1>1, <1>3, <1>4, <1>5 DEF RelaySends

LEMMA BasicsNext == Basics /\ [Next]_vars => Basics'
<1> SUFFICES ASSUME Basics, [Next]_vars PROVE Basics'
  OBVIOUS
<1> USE DEF Basics
<1> DEFINE Tables == (/\ circuits \in [Node -> [Cid -> CircuitEntry \cup {None}]]
                     /\ frags \in [Node -> [Cid -> SUBSET Frag]])
           Counters == (/\ cidOf \in [Build -> Cid \cup {0}]
                       /\ nextCid \in [Node -> 1..(MaxCid + 1)]
                       /\ reached \in [Build -> 0..MaxHops])
           Network == (IsABag(net) /\ BagToSet(net) \subseteq Cell)
           Builds == pc \in [Build -> PCs] /\ StartedBuilds
<1>1. ASSUME NEW b \in Build, pc' \in [Build -> PCs],
             UNCHANGED <<env, call, cidOf, nextCid, circuits, frags, net, reached>>,
             \A d \in Build : pc'[d] \notin {"idle", "failed"} =>
               pc[d] \notin {"idle", "failed"}
      PROVE  Basics'
  BY <1>1 DEF TypeOK, StartedBuilds, HeadersOnRoute, LegalRoute, Hops, HopNode, Client
<1>2. ASSUME NEW b \in Build, BuildSend(b) PROVE Basics'
  <2> DEFINE n == Client(b)
             c == NewCid(n)
             link == [cid |-> c, peer |-> HopNode(b, 1)]
             S == CreateCells(b, 1, link)
  <2>1. call' = call /\ LegalRoute(b) /\ Hops(b) \in 1..MaxHops /\ c \in Cid /\ n \in Node
    BY <1>2, CallsAssumption DEF BuildSend, TypeOK, Client, LegalRoute
  <2>2. link \in HopLink
    BY <2>1, HopNodeType DEF HopLink, TypeOK
  <2>3. \A m \in S : /\ m \in Cell /\ m.frag.build = b /\ m.frag.hop = 1
                     /\ m.from = HopNode(b, 0) /\ m.to = HopNode(b, 1)
    <3>1. \A m \in S : /\ m \in CreateCell /\ m.frag.build = b /\ m.frag.hop = 1
                       /\ m.from = HopNode(b, 1 - 1) /\ m.to = HopNode(b, 1)
      <4>1. Hops(b) <= MaxHops /\ 1 \in 1..Hops(b) /\ link.peer = HopNode(b, 1)
        BY <2>1, BoundAssumption
      <4>2. call \in [Build -> Calls]
        BY DEF TypeOK
      <4> HIDE DEF link
      <4> QED
        BY <2>2, <4>1, <4>2, CreateCellsType, SMTT(60)
    <3> QED
      BY <3>1 DEF Cell
  <2>4. IsABag(net') /\ BagToSet(net') \subseteq BagToSet(net) \cup S
    BY <1>2, SendBag DEF BuildSend, Send, TypeOK
  <2>5. Network' /\ HeadersOnRoute'
    BY <2>1, <2>3, <2>4, NetworkStep
  <2>6. Counters'
    <3>1. c + 1 \in 1..(MaxCid + 1)
      BY <2>1, BoundAssumption DEF Cid
    <3> QED
      BY <1>2, <2>1, <3>1 DEF BuildSend, CidTaken, TypeOK
  <2>8. Builds'
    BY <1>2, <2>1 DEF BuildSend, TypeOK, PCs, StartedBuilds, LegalRoute, Hops
  <2>7. Tables'
    BY <1>2 DEF BuildSend, TypeOK
  <2> QED
    BY <1>2, <2>5, <2>6, <2>7, <2>8 DEF BuildSend, TypeOK
<1>3. ASSUME NEW b \in Build, BuildOpen(b) PROVE Basics'
  <2> DEFINE c == cidOf[b]
             origin == [kind |-> "origin", build |-> b,
                        next |-> [cid |-> c, peer |-> HopNode(b, 1)]]
  <2>1. c \in Cid /\ LegalRoute(b)
    BY <1>3 DEF BuildOpen, StartedBuilds
  <2>2. HopNode(b, 1) \in Node
    BY <2>1, HopNodeType DEF TypeOK, LegalRoute
  <2>3. origin \in CircuitEntry
    BY <2>1, <2>2 DEF CircuitEntry, OriginEntry, HopLink
  <2>4. Tables'
    BY <1>3, <2>1, <2>3 DEF BuildOpen, TypeOK
  <2>5. Builds'
    BY <1>3 DEF BuildOpen, TypeOK, PCs, StartedBuilds, LegalRoute, Hops
  <2>6. HeadersOnRoute'
    BY <1>3 DEF BuildOpen, HeadersOnRoute, LegalRoute, Hops, HopNode, Client
  <2> QED
    BY <1>3, <2>4, <2>5, <2>6 DEF BuildOpen, TypeOK
<1>4. ASSUME NEW b \in Build, CloseSend(b) PROVE Basics'
  <2> DEFINE link == [cid |-> cidOf[b], peer |-> OwnEntry(b).next.peer]
             S == {Signal("DESTROY", Client(b), link)}
  <2>1. link \in HopLink /\ Client(b) \in Node
    <3>1. cidOf[b] \in Cid
      BY <1>4 DEF CloseSend, StartedBuilds
    <3>2. OwnEntry(b).next.peer \in Node
      BY <1>4 DEF CloseSend, HasOrigin, OriginEntry, HopLink
    <3> QED
      BY <3>1, <3>2, CallsAssumption DEF HopLink, TypeOK, Client
  <2>2. S \in SUBSET SignalCell
    BY <2>1, SignalType
  <2>3. IsABag(net') /\ BagToSet(net') \subseteq BagToSet(net) \cup S
    BY <1>4, SendBag DEF CloseSend, Send, TypeOK
  <2>4. Network' /\ HeadersOnRoute'
    <3>1. S \in SUBSET Cell /\ \A k \in S : k.cmd # "CREATE"
      BY <2>2 DEF Cell, SignalCell
    <3> QED
      BY <1>4, <2>3, <3>1, NetworkStep DEF CloseSend
  <2>5. Builds'
    BY <1>4 DEF CloseSend, TypeOK, PCs, StartedBuilds, LegalRoute, Hops
  <2> QED
    BY <1>4, <2>4, <2>5 DEF CloseSend, TypeOK
<1>5. ASSUME NEW b \in Build, CloseRemove(b) PROVE Basics'
  <2>1. Tables'
    BY <1>5 DEF CloseRemove, TypeOK
  <2>2. Builds'
    BY <1>5 DEF CloseRemove, TypeOK, PCs, StartedBuilds, LegalRoute, Hops
  <2>3. HeadersOnRoute'
    BY <1>5 DEF CloseRemove, HeadersOnRoute, LegalRoute, Hops, HopNode, Client
  <2> QED
    BY <1>5, <2>1, <2>2, <2>3 DEF CloseRemove, TypeOK
<1>6. ASSUME NEW m \in BagToSet(net), CreateWaits(m) \/ CreateRejected(m) PROVE Basics'
  <2>1. m \in CreateCell /\ m.to \in Node /\ m.cid \in Cid
    BY <1>6, CreateCellFacts DEF CreateWaits, CreateRejected
  <2>2. Gathered(m) \in SUBSET Frag
    BY <2>1, GatheredType
  <2>3. Network' /\ HeadersOnRoute'
    BY <1>6, SignalStep DEF CreateWaits, CreateRejected
  <2>4. Tables'
    <3>1. PICK buffer \in SUBSET Frag : frags' = [frags EXCEPT ![m.to][m.cid] = buffer]
      BY <1>6, <2>2 DEF CreateWaits, CreateRejected, BufferCleared
    <3> QED
      BY <1>6, <2>1, <3>1 DEF CreateWaits, CreateRejected, TypeOK
  <2>5. Builds'
    BY <1>6 DEF CreateWaits, CreateRejected, TypeOK, StartedBuilds, LegalRoute, Hops
  <2> QED
    BY <1>6, <2>3, <2>4, <2>5 DEF CreateWaits, CreateRejected, TypeOK
<1>7. ASSUME NEW m \in BagToSet(net), CreateTerminal(m) PROVE Basics'
  <2> DEFINE entry == [kind |-> "terminal", build |-> m.frag.build, hop |-> m.frag.hop,
                       prev |-> PrevLink(m)]
             S == {Signal("CREATED", m.to, PrevLink(m))}
  <2>1. /\ m.to \in Node /\ m.cid \in Cid /\ PrevLink(m) \in HopLink
        /\ m.frag.build \in Build /\ m.frag.hop \in 1..MaxHops
    BY <1>7, CreateCellFacts DEF CreateTerminal
  <2>2. entry \in CircuitEntry
    BY <2>1 DEF CircuitEntry, TerminalEntry
  <2>3. S \in SUBSET SignalCell
    BY <2>1, SignalType
  <2>4. Network' /\ HeadersOnRoute'
    BY <1>7, <2>3, SignalStep DEF CreateTerminal
  <2>5. Tables'
    BY <1>7, <2>1, <2>2 DEF CreateTerminal, BufferCleared, TypeOK
  <2>6. Builds' /\ Counters'
    BY <1>7, <2>1 DEF CreateTerminal, TypeOK, StartedBuilds, LegalRoute, Hops
  <2> QED
    BY <1>7, <2>4, <2>5, <2>6 DEF CreateTerminal, TypeOK
<1>8. ASSUME NEW m \in BagToSet(net), CreateRelay(m) PROVE Basics'
  <2> DEFINE b == m.frag.build
             h == m.frag.hop
             next == [cid |-> NewCid(m.to), peer |-> HopNode(b, h + 1)]
             entry == [kind |-> "relay", build |-> b, hop |-> h, prev |-> PrevLink(m),
                       next |-> next]
             S == RelaySends(m, next)
  <2>1. /\ m.to \in Node /\ m.cid \in Cid /\ PrevLink(m) \in HopLink /\ LegalRoute(b)
        /\ b \in Build /\ h \in 1..MaxHops /\ m.to = HopNode(b, h) /\ h \in 1..Hops(b)
    BY <1>8, CreateCellFacts DEF CreateRelay
  <2>2. m.cmd = "CREATE" /\ h < Hops(b) /\ NewCid(m.to) \in Cid
    BY <1>8 DEF CreateRelay
  <2>3. /\ next \in HopLink
        /\ \A k \in S : /\ k \in CreateCell /\ k.cmd = "CREATE"
                        /\ k.frag.build = b /\ k.frag.hop = h + 1
                        /\ k.from = m.to /\ k.to = HopNode(b, h + 1)
    BY <2>2, NextHop
  <2>4. entry \in CircuitEntry
    BY <2>1, <2>3 DEF CircuitEntry, RelayEntry
  <2>5. IsABag(net') /\ BagToSet(net') \subseteq BagToSet(net) \cup S
    <3>1. Consume(m, S)
      BY <1>8 DEF CreateRelay
    <3>2. IsABag(net)
      BY DEF TypeOK
    <3> QED
      <4> HIDE DEF S
      <4> QED BY <3>1, <3>2, ConsumeBag DEF Consume
  <2>6. Network' /\ HeadersOnRoute'
    <3>1. Hops(b) \in Nat /\ h + 1 <= Hops(b) /\ (h + 1) - 1 = h
      BY <2>1, <2>2, HopsType DEF TypeOK
    <3>2. S \in SUBSET Cell
      BY <2>3 DEF Cell
    <3>3. \A k \in S : /\ LegalRoute(k.frag.build) /\ k.frag.hop <= Hops(k.frag.build)
                       /\ k.from = HopNode(k.frag.build, k.frag.hop - 1)
                       /\ k.to = HopNode(k.frag.build, k.frag.hop)
      BY <2>1, <2>3, <3>1
    <3> QED
      BY <1>8, <2>5, <3>2, <3>3, NetworkStep DEF CreateRelay
  <2>7. Tables'
    BY <1>8, <2>1, <2>4 DEF CreateRelay, BufferCleared, TypeOK
  <2>8. Builds'
    BY <1>8 DEF CreateRelay, TypeOK, StartedBuilds, LegalRoute, Hops
  <2>9. Counters'
    <3>1. NewCid(m.to) + 1 \in 1..(MaxCid + 1)
      BY <2>2, BoundAssumption DEF Cid
    <3> QED
      BY <1>8, <2>1, <3>1 DEF CreateRelay, CidTaken, TypeOK
  <2> QED
    BY <1>8, <2>6, <2>7, <2>8, <2>9 DEF CreateRelay, TypeOK
<1>9. ASSUME NEW m \in BagToSet(net), CreatedWakes(m) PROVE Basics'
  <2>1. Network' /\ HeadersOnRoute'
    BY <1>9, SignalStep DEF CreatedWakes
  <2>2. Builds'
    BY <1>9 DEF CreatedWakes, Pending, TypeOK, PCs, StartedBuilds, LegalRoute, Hops
  <2> QED
    BY <1>9, <2>1, <2>2 DEF CreatedWakes, TypeOK
<1>10. ASSUME NEW m \in BagToSet(net), CreatedForwarded(m) \/ CreatedDropped(m) PROVE Basics'
  <2>1. m \in Cell /\ m.to \in Node
    BY DEF TypeOK, Cell, CreateCell, SignalCell
  <2>2. Entry(m) \in RelayEntry => {Signal("CREATED", m.to, Entry(m).prev)} \in SUBSET SignalCell
    BY <2>1, SignalType DEF RelayEntry
  <2>3. Network' /\ HeadersOnRoute'
    BY <1>10, <2>2, SignalStep DEF CreatedForwarded, CreatedDropped
  <2>4. Builds'
    BY <1>10 DEF CreatedForwarded, CreatedDropped, TypeOK, StartedBuilds, LegalRoute, Hops
  <2> QED
    BY <1>10, <2>3, <2>4 DEF CreatedForwarded, CreatedDropped, TypeOK
<1>11. ASSUME NEW m \in BagToSet(net), HandleDestroy(m) PROVE Basics'
  <2>1. m \in Cell /\ m.to \in Node /\ m.cid \in Cid
    BY DEF TypeOK, Cell, CreateCell, SignalCell
  <2>2. Entry(m) \in RelayEntry \cup TerminalEntry =>
          {Signal("DESTROY", m.to, Entry(m).prev)} \in SUBSET SignalCell
    BY <2>1, SignalType DEF RelayEntry, TerminalEntry
  <2>3. Network' /\ HeadersOnRoute'
    BY <1>11, <2>2, SignalStep DEF HandleDestroy
  <2>4. Tables'
    BY <1>11, <2>1 DEF HandleDestroy, TypeOK
  <2>5. Builds'
    BY <1>11 DEF HandleDestroy, TypeOK, StartedBuilds, LegalRoute, Hops
  <2> QED
    BY <1>11, <2>3, <2>4, <2>5 DEF HandleDestroy, TypeOK
<1>12. CASE LoseCell
  <2>1. PICK m \in BagToSet(net) : Consume(m, {})
    BY <1>12 DEF LoseCell
  <2>2. Network' /\ HeadersOnRoute'
    BY <1>12, <2>1, SignalStep DEF LoseCell
  <2>3. Builds'
    BY <1>12 DEF LoseCell, TypeOK, StartedBuilds, LegalRoute, Hops
  <2> QED
    BY <1>12, <2>2, <2>3 DEF LoseCell, TypeOK
<1>13. CASE UNCHANGED vars
  BY <1>13 DEF vars, TypeOK, StartedBuilds, HeadersOnRoute, LegalRoute, Hops, HopNode, Client
<1>14. ASSUME NEW b \in Build, BuildRefused(b) \/ BuildPend(b) \/ BuildTimer(b) \/ BuildFail(b)
                               \/ CloseNothing(b)
       PROVE  Basics'
  <2>1. pc' \in [Build -> PCs]
    BY <1>14 DEF BuildRefused, BuildPend, BuildTimer, BuildFail, CloseNothing, TypeOK, PCs
  <2>2. \A d \in Build : pc'[d] \notin {"idle", "failed"} => pc[d] \notin {"idle", "failed"}
    BY <1>14 DEF BuildRefused, BuildPend, BuildTimer, BuildFail, CloseNothing, TypeOK
  <2> QED
    BY <1>1, <1>14, <2>1, <2>2 DEF BuildRefused, BuildPend, BuildTimer, BuildFail, CloseNothing
<1> QED
  <2> HIDE DEF Basics
  <2> QED
    BY <1>2, <1>3, <1>4, <1>5, <1>6, <1>7, <1>8, <1>9, <1>10, <1>11, <1>12, <1>13, <1>14
    DEF Next, CallerStep, RuntimeStep, HandleCell, HandleCreate, HandleCreated, Finished

\* Every variable keeps its type, for any nodes, builds and routes.
THEOREM TypeCorrect == Spec => []TypeOK
<1>1. Init => Basics
  BY BasicsInit
<1>2. Basics /\ [Next]_vars => Basics'
  BY BasicsNext
<1>3. Basics => TypeOK
  BY DEF Basics
<1> QED
  BY <1>1, <1>2, <1>3, PTL DEF Spec

-----------------------------------------------------------------------------
(* HopWiring is inductive over Basics.                                     *)

\* Only one place of one table changes in a step, and what goes there is wired.
LEMMA WiringStep ==
  ASSUME TypeOK, HopWiring, call' = call,
         NEW n \in Node, NEW c \in Cid, NEW e, Wired(n, c, e),
         circuits' = [circuits EXCEPT ![n][c] = e]
  PROVE  HopWiring'
<1> SUFFICES ASSUME NEW p \in Node, NEW k \in Cid PROVE Wired(p, k, circuits[p][k])'
  BY DEF HopWiring
<1> DEFINE x == circuits'[p][k]
<1>1. Wired(p, k, x)
  BY DEF HopWiring, TypeOK
<1>2. \A b, h : HopNode(b, h)' = HopNode(b, h) /\ Hops(b)' = Hops(b) /\ Client(b)' = Client(b)
  BY DEF HopNode, Hops, Client
<1> QED
  BY <1>1, <1>2, SMTT(30) DEF Wired

LEMMA WiringUnchanged ==
  ASSUME HopWiring, call' = call, circuits' = circuits
  PROVE  HopWiring'
<1>1. \A b, h : HopNode(b, h)' = HopNode(b, h) /\ Hops(b)' = Hops(b) /\ Client(b)' = Client(b)
  BY DEF HopNode, Hops, Client
<1> SUFFICES ASSUME NEW n \in Node, NEW c \in Cid PROVE Wired(n, c, circuits[n][c])'
  BY DEF HopWiring
<1>2. Wired(n, c, circuits[n][c])
  BY DEF HopWiring
<1> QED
  BY <1>1, <1>2, SMTT(60) DEF Wired

\* The kinds of entries exclude one another, and None is no entry.
LEMMA KindsDisjoint ==
  /\ \A e \in OriginEntry : e \notin RelayEntry /\ e \notin TerminalEntry
  /\ \A e \in RelayEntry : e \notin OriginEntry /\ e \notin TerminalEntry
  /\ \A e \in TerminalEntry : e \notin OriginEntry /\ e \notin RelayEntry
  /\ None \notin OriginEntry /\ None \notin RelayEntry /\ None \notin TerminalEntry
BY NoneAssumption DEF OriginEntry, RelayEntry, TerminalEntry, CircuitEntry

\* What each step that writes a table writes there is wired.
LEMMA OriginWired ==
  ASSUME Basics, NEW b \in Build, BuildOpen(b)
  PROVE  LET c == cidOf[b]
             e == [kind |-> "origin", build |-> b, next |-> [cid |-> c, peer |-> HopNode(b, 1)]]
         IN  /\ Client(b) \in Node /\ c \in Cid /\ e \in OriginEntry
             /\ Wired(Client(b), c, e)
             /\ circuits' = [circuits EXCEPT ![Client(b)][c] = e]
<1> DEFINE c == cidOf[b]
           e == [kind |-> "origin", build |-> b, next |-> [cid |-> c, peer |-> HopNode(b, 1)]]
<1>1. c \in Cid /\ LegalRoute(b)
  BY DEF BuildOpen, Basics, StartedBuilds
<1>2. HopNode(b, 1) \in Node /\ Client(b) \in Node
  BY <1>1, HopNodeType, CallsAssumption DEF Basics, TypeOK, LegalRoute, Client
<1>3. e \in OriginEntry
  BY <1>1, <1>2 DEF OriginEntry, HopLink
<1>4. Wired(Client(b), c, e)
  BY <1>3, KindsDisjoint DEF Wired
<1> QED
  BY <1>1, <1>2, <1>3, <1>4 DEF BuildOpen

LEMMA TerminalWired ==
  ASSUME Basics, NEW m \in BagToSet(net), CreateTerminal(m)
  PROVE  LET e == [kind |-> "terminal", build |-> m.frag.build, hop |-> m.frag.hop,
                   prev |-> PrevLink(m)]
         IN  e \in TerminalEntry /\ Wired(m.to, m.cid, e)
<1> DEFINE e == [kind |-> "terminal", build |-> m.frag.build, hop |-> m.frag.hop,
                 prev |-> PrevLink(m)]
<1>1. /\ PrevLink(m) \in HopLink /\ m.frag.build \in Build /\ m.frag.hop \in 1..MaxHops
      /\ m.to = HopNode(m.frag.build, m.frag.hop)
      /\ m.from = HopNode(m.frag.build, m.frag.hop - 1)
  BY CreateCellFacts DEF CreateTerminal
<1>2. e \in TerminalEntry
  BY <1>1 DEF TerminalEntry
<1>3. Wired(m.to, m.cid, e)
  BY <1>1, <1>2, KindsDisjoint DEF Wired, CreateTerminal, PrevLink
<1> QED
  BY <1>2, <1>3

LEMMA RelayWired ==
  ASSUME Basics, NEW m \in BagToSet(net), CreateRelay(m)
  PROVE  LET next == [cid |-> NewCid(m.to), peer |-> HopNode(m.frag.build, m.frag.hop + 1)]
             e == [kind |-> "relay", build |-> m.frag.build, hop |-> m.frag.hop,
                   prev |-> PrevLink(m), next |-> next]
         IN  e \in RelayEntry /\ Wired(m.to, m.cid, e)
<1> DEFINE next == [cid |-> NewCid(m.to), peer |-> HopNode(m.frag.build, m.frag.hop + 1)]
           e == [kind |-> "relay", build |-> m.frag.build, hop |-> m.frag.hop,
                 prev |-> PrevLink(m), next |-> next]
<1>1. /\ PrevLink(m) \in HopLink /\ m.frag.build \in Build /\ m.frag.hop \in 1..MaxHops
      /\ m.to = HopNode(m.frag.build, m.frag.hop)
      /\ m.from = HopNode(m.frag.build, m.frag.hop - 1)
  BY CreateCellFacts DEF CreateRelay
<1>2. next \in HopLink
  BY NextHop DEF CreateRelay
<1>3. e \in RelayEntry
  BY <1>1, <1>2 DEF RelayEntry
<1>4. Wired(m.to, m.cid, e)
  BY <1>1, <1>3, KindsDisjoint DEF Wired, CreateRelay, PrevLink
<1> QED
  BY <1>3, <1>4

\* A cell handled by a node names one of the node's table places.
LEMMA CellPlace ==
  ASSUME TypeOK, NEW m \in BagToSet(net)
  PROVE  m \in Cell /\ m.to \in Node /\ m.cid \in Cid
BY DEF TypeOK, Cell, CreateCell, SignalCell

\* How a step changes the tables: nowhere, or at one place, where an entry that is
\* wired goes or None is left.
LEMMA TableStep ==
  ASSUME Basics, [Next]_vars
  PROVE  /\ call' = call
         /\ \/ circuits' = circuits
            \/ \E n \in Node, c \in Cid, e \in CircuitEntry \cup {None} :
                 Wired(n, c, e) /\ circuits' = [circuits EXCEPT ![n][c] = e]
<1> DEFINE Goal == /\ call' = call
                   /\ \/ circuits' = circuits
                      \/ \E n \in Node, c \in Cid, e \in CircuitEntry \cup {None} :
                           Wired(n, c, e) /\ circuits' = [circuits EXCEPT ![n][c] = e]
<1> SUFFICES Goal
  OBVIOUS
<1>1. \A n \in Node, c \in Cid : Wired(n, c, None)
  BY KindsDisjoint DEF Wired
<1>2. ASSUME NEW b \in Build, BuildOpen(b) PROVE Goal
  BY <1>2, OriginWired DEF BuildOpen, CircuitEntry
<1>3. ASSUME NEW b \in Build, CloseRemove(b) PROVE Goal
  <2>1. Client(b) \in Node /\ cidOf[b] \in Cid
    <3>1. cidOf[b] \in Cid
      BY <1>3 DEF CloseRemove, Basics, StartedBuilds
    <3> QED
      BY <3>1, CallsAssumption DEF Basics, TypeOK, Client
  <2> QED
    BY <1>1, <1>3, <2>1 DEF CloseRemove
<1>4. ASSUME NEW m \in BagToSet(net), HandleDestroy(m) PROVE Goal
  BY <1>1, <1>4, CellPlace DEF HandleDestroy, Basics
<1>5. ASSUME NEW m \in BagToSet(net), CreateTerminal(m) PROVE Goal
  <2>1. m.to \in Node /\ m.cid \in Cid
    BY CellPlace DEF Basics
  <2>2. PICK e \in TerminalEntry :
          Wired(m.to, m.cid, e) /\ circuits' = [circuits EXCEPT ![m.to][m.cid] = e]
    BY <1>5, TerminalWired DEF CreateTerminal
  <2> QED
    BY <1>5, <2>1, <2>2, ZenonT(60) DEF CreateTerminal, CircuitEntry
<1>6. ASSUME NEW m \in BagToSet(net), CreateRelay(m) PROVE Goal
  <2>1. m.to \in Node /\ m.cid \in Cid
    BY CellPlace DEF Basics
  <2>2. PICK e \in RelayEntry :
          Wired(m.to, m.cid, e) /\ circuits' = [circuits EXCEPT ![m.to][m.cid] = e]
    <3> DEFINE next == [cid |-> NewCid(m.to), peer |-> HopNode(m.frag.build, m.frag.hop + 1)]
               entry == [kind |-> "relay", build |-> m.frag.build, hop |-> m.frag.hop,
                         prev |-> PrevLink(m), next |-> next]
    <3>1. circuits' = [circuits EXCEPT ![m.to][m.cid] = entry]
      BY <1>6 DEF CreateRelay
    <3>2. entry \in RelayEntry /\ Wired(m.to, m.cid, entry)
      BY <1>6, RelayWired
    <3> QED
      BY <3>1, <3>2
  <2> QED
    BY <1>6, <2>1, <2>2 DEF CreateRelay, CircuitEntry
<1>7. ASSUME NEW b \in Build, CallerStep(b) \/ RuntimeStep(b) PROVE Goal
  BY <1>2, <1>3, <1>7 DEF CallerStep, RuntimeStep, BuildRefused, BuildSend, CloseSend,
                         CloseNothing, BuildPend, BuildTimer, BuildFail
<1>8. ASSUME NEW m \in BagToSet(net), HandleCreate(m) \/ HandleCreated(m) \/ HandleDestroy(m)
      PROVE  Goal
  BY <1>4, <1>5, <1>6, <1>8 DEF HandleCreate, HandleCreated, CreateWaits, CreateRejected,
                               CreatedWakes, CreatedForwarded, CreatedDropped
<1>9. CASE LoseCell \/ Finished \/ UNCHANGED vars
  BY <1>9 DEF LoseCell, Finished, vars
<1> QED
  <2> HIDE DEF Goal
  <2> QED
    BY <1>7, <1>8, <1>9 DEF Next, HandleCell

LEMMA WiringNext == Basics /\ HopWiring /\ [Next]_vars => HopWiring'
BY TableStep, WiringStep, WiringUnchanged DEF Basics

\* Every table entry is wired as its build's route says, for any nodes, builds and
\* routes, in whatever order cells arrive and whichever are lost.
THEOREM EntriesWired == Spec => []HopWiring
<1>1. Init => Basics /\ HopWiring
  <2>1. Init => HopWiring
    BY KindsDisjoint DEF Init, HopWiring, Wired
  <2> QED
    BY <2>1, BasicsInit
<1>2. Basics /\ HopWiring /\ [Next]_vars => (Basics /\ HopWiring)'
  BY BasicsNext, WiringNext
<1> QED
  BY <1>1, <1>2, PTL DEF Spec

-----------------------------------------------------------------------------
(* UniqueUse is inductive over Basics: a step uses a link that was in use  *)
(* before it, or the one whose id it has just taken from the counter.      *)

LEMMA HeadStep ==
  ASSUME TypeOK, NEW n0 \in Node, NEW c0 \in Cid, NEW e,
         circuits' = [circuits EXCEPT ![n0][c0] = e],
         NEW n \in Node, NEW c, NEW b, NEW h, HeadUses(n, c, b, h)'
  PROVE  HeadUses(n, c, b, h) \/ (n = n0 /\ HeadOf(e, c, b, h))
<1>1. PICK k \in Cid : HeadOf(circuits'[n][k], c, b, h)
  BY DEF HeadUses, HeadOf
<1>2. circuits'[n][k] = IF n = n0 /\ k = c0 THEN e ELSE circuits[n][k]
  BY DEF TypeOK
<1> QED
  BY <1>1, <1>2 DEF HeadUses

LEMMA TailStep ==
  ASSUME TypeOK, NEW n0 \in Node, NEW c0 \in Cid, NEW e,
         circuits' = [circuits EXCEPT ![n0][c0] = e],
         NEW n, NEW c \in Cid, NEW b, NEW h, TailUses(n, c, b, h)'
  PROVE  TailUses(n, c, b, h) \/ (c = c0 /\ TailOf(e, n, b, h))
<1>1. PICK p \in Node : TailOf(circuits'[p][c], n, b, h)
  BY DEF TailUses, TailOf
<1>2. circuits'[p][c] = IF p = n0 /\ c = c0 THEN e ELSE circuits[p][c]
  BY DEF TypeOK
<1> QED
  BY <1>1, <1>2 DEF TailUses

LEMMA CellStep ==
  ASSUME NEW S, BagToSet(net') \subseteq BagToSet(net) \cup S,
         NEW n, NEW c, NEW b, NEW h, CellUses(n, c, b, h)'
  PROVE  CellUses(n, c, b, h) \/ \E m \in S : Carries(m, n, c, b, h)
<1>1. PICK m \in BagToSet(net') : Carries(m, n, c, b, h)
  BY DEF CellUses, Carries, BagToSet
<1> QED
  BY <1>1 DEF CellUses

LEMMA TablesUnchanged ==
  ASSUME circuits' = circuits, NEW n, NEW c, NEW b, NEW h
  PROVE  /\ HeadUses(n, c, b, h)' = HeadUses(n, c, b, h)
         /\ TailUses(n, c, b, h)' = TailUses(n, c, b, h)
BY DEF HeadUses, TailUses, HeadOf, TailOf

LEMMA BuildsUnchanged ==
  ASSUME call' = call, cidOf' = cidOf, NEW n, NEW c, NEW b, NEW h
  PROVE  BuildUses(n, c, b, h)' = BuildUses(n, c, b, h)
BY DEF BuildUses, Client

\* Every use after the step was one before it, or is of the link `new' describes.
NoNewUse ==
  \A n \in Node, c \in Cid, b \in Build, h \in Nat : Uses(n, c, b, h)' => Uses(n, c, b, h)

OneNewUse(a, b0, h0) ==
  \A n \in Node, c \in Cid, b \in Build, h \in Nat :
    Uses(n, c, b, h)' =>
      Uses(n, c, b, h) \/ (n = a /\ c = NewCid(a) /\ b = b0 /\ h = h0)

\* Steps that keep the tables and send no header.
LEMMA QuietStep ==
  ASSUME call' = call, cidOf' = cidOf, circuits' = circuits, NEW S,
         BagToSet(net') \subseteq BagToSet(net) \cup S, \A k \in S : k.cmd # "CREATE"
  PROVE  NoNewUse
<1> SUFFICES ASSUME NEW n \in Node, NEW c \in Cid, NEW b \in Build, NEW h \in Nat,
                    Uses(n, c, b, h)'
             PROVE  Uses(n, c, b, h)
  BY DEF NoNewUse
<1>1. CellUses(n, c, b, h)' => CellUses(n, c, b, h)
  BY CellStep DEF Carries
<1> QED
  BY <1>1, TablesUnchanged, BuildsUnchanged DEF Uses

\* Steps that clear a place of a table and send no header.
LEMMA ClearingStep ==
  ASSUME TypeOK, call' = call, cidOf' = cidOf, NEW n0 \in Node, NEW c0 \in Cid,
         circuits' = [circuits EXCEPT ![n0][c0] = None], NEW S,
         BagToSet(net') \subseteq BagToSet(net) \cup S, \A k \in S : k.cmd # "CREATE"
  PROVE  NoNewUse
<1> SUFFICES ASSUME NEW n \in Node, NEW c \in Cid, NEW b \in Build, NEW h \in Nat,
                    Uses(n, c, b, h)'
             PROVE  Uses(n, c, b, h)
  BY DEF NoNewUse
<1>1. CellUses(n, c, b, h)' => CellUses(n, c, b, h)
  BY CellStep DEF Carries
<1>2. ~ HeadOf(None, c, b, h) /\ ~ TailOf(None, n, b, h)
  BY KindsDisjoint DEF HeadOf, TailOf
<1>3. HeadUses(n, c, b, h)' => HeadUses(n, c, b, h)
  BY <1>2, HeadStep
<1>4. TailUses(n, c, b, h)' => TailUses(n, c, b, h)
  BY <1>2, TailStep
<1> QED
  BY <1>1, <1>3, <1>4, BuildsUnchanged DEF Uses

\* What leaves the network, and what comes in, when the cell m is handled.
LEMMA SignalCells ==
  ASSUME TypeOK, NEW m, NEW S, Consume(m, S)
  PROVE  BagToSet(net') \subseteq BagToSet(net) \cup S
BY ConsumeBag DEF Consume, TypeOK

LEMMA SendUse ==
  ASSUME Basics, NEW b0 \in Build, BuildSend(b0)
  PROVE  OneNewUse(Client(b0), b0, 0)
<1> DEFINE a == Client(b0)
           link == [cid |-> NewCid(a), peer |-> HopNode(b0, 1)]
           S == CreateCells(b0, 1, link)
<1> SUFFICES ASSUME NEW n \in Node, NEW c \in Cid, NEW b \in Build, NEW h \in Nat,
                    Uses(n, c, b, h)'
             PROVE  Uses(n, c, b, h) \/ (n = a /\ c = NewCid(a) /\ b = b0 /\ h = 0)
  BY DEF OneNewUse
<1>1. BagToSet(net') \subseteq BagToSet(net) \cup S
  BY SendBag DEF BuildSend, Send, Basics, TypeOK
<1>2. \A m \in S : m.from = a /\ m.cid = NewCid(a) /\ m.frag.build = b0 /\ m.frag.hop = 1
  BY DEF CreateCells, Fragments, HopNode
<1>3. CellUses(n, c, b, h)' => CellUses(n, c, b, h) \/ (n = a /\ c = NewCid(a) /\ b = b0 /\ h = 0)
  <2> HIDE DEF S
  <2> QED BY <1>1, <1>2, CellStep DEF Carries
<1>4. BuildUses(n, c, b, h)' => BuildUses(n, c, b, h) \/ (n = a /\ c = NewCid(a) /\ b = b0 /\ h = 0)
  BY DEF BuildUses, BuildSend, Client, Basics, TypeOK
<1> QED
  BY <1>3, <1>4, TablesUnchanged DEF Uses, BuildSend

LEMMA OpenUse ==
  ASSUME Basics, NEW b0 \in Build, BuildOpen(b0)
  PROVE  NoNewUse
<1> DEFINE c0 == cidOf[b0]
           e == [kind |-> "origin", build |-> b0, next |-> [cid |-> c0, peer |-> HopNode(b0, 1)]]
<1> SUFFICES ASSUME NEW n \in Node, NEW c \in Cid, NEW b \in Build, NEW h \in Nat,
                    Uses(n, c, b, h)'
             PROVE  Uses(n, c, b, h)
  BY DEF NoNewUse
<1>1. /\ Client(b0) \in Node /\ c0 \in Cid /\ e \in OriginEntry
      /\ circuits' = [circuits EXCEPT ![Client(b0)][c0] = e]
  BY OriginWired
<1>2. HeadOf(e, c, b, h) => c = c0 /\ b = b0 /\ h = 0
  BY <1>1, KindsDisjoint DEF HeadOf
<1>3. ~ TailOf(e, n, b, h)
  BY <1>1, KindsDisjoint DEF TailOf
<1>4. HeadUses(n, c, b, h)' => HeadUses(n, c, b, h) \/ BuildUses(n, c, b, h)
  <2> HIDE DEF e
  <2> QED BY <1>1, <1>2, HeadStep DEF BuildUses, Basics
<1>5. TailUses(n, c, b, h)' => TailUses(n, c, b, h)
  <2> HIDE DEF e
  <2> QED BY <1>1, <1>3, TailStep DEF Basics
<1>6. CellUses(n, c, b, h)' => CellUses(n, c, b, h)
  BY DEF CellUses, Carries, BuildOpen
<1> QED
  BY <1>4, <1>5, <1>6, BuildsUnchanged DEF Uses, BuildOpen

LEMMA TerminalUse ==
  ASSUME Basics, NEW m \in BagToSet(net), CreateTerminal(m)
  PROVE  NoNewUse
<1> DEFINE e == [kind |-> "terminal", build |-> m.frag.build, hop |-> m.frag.hop,
                 prev |-> PrevLink(m)]
           S == {Signal("CREATED", m.to, PrevLink(m))}
<1> SUFFICES ASSUME NEW n \in Node, NEW c \in Cid, NEW b \in Build, NEW h \in Nat,
                    Uses(n, c, b, h)'
             PROVE  Uses(n, c, b, h)
  BY DEF NoNewUse
<1>1. m.to \in Node /\ m.cid \in Cid /\ m.frag.hop \in 1..MaxHops /\ m.cmd = "CREATE"
  BY CreateCellFacts DEF CreateTerminal
<1>2. e \in TerminalEntry /\ circuits' = [circuits EXCEPT ![m.to][m.cid] = e]
  BY TerminalWired DEF CreateTerminal
<1>3. ~ HeadOf(e, c, b, h)
  BY <1>2, KindsDisjoint DEF HeadOf
<1>4. c = m.cid /\ TailOf(e, n, b, h) => CellUses(n, c, b, h)
  BY <1>1 DEF TailOf, CellUses, Carries, PrevLink
<1>5. HeadUses(n, c, b, h)' => HeadUses(n, c, b, h)
  <2> HIDE DEF e
  <2> QED BY <1>1, <1>2, <1>3, HeadStep DEF Basics
<1>6. TailUses(n, c, b, h)' => TailUses(n, c, b, h) \/ CellUses(n, c, b, h)
  <2> HIDE DEF e
  <2> QED BY <1>1, <1>2, <1>4, TailStep DEF Basics
<1>7. BagToSet(net') \subseteq BagToSet(net) \cup S
  BY SignalCells DEF CreateTerminal, Basics
<1>8. CellUses(n, c, b, h)' => CellUses(n, c, b, h)
  <2>1. \A k \in S : k.cmd # "CREATE"
    BY DEF Signal
  <2> HIDE DEF S
  <2> QED BY <1>7, <2>1, CellStep DEF Carries
<1> QED
  <2>1. call' = call /\ cidOf' = cidOf
    BY DEF CreateTerminal
  <2> QED BY <1>5, <1>6, <1>8, <2>1, BuildsUnchanged DEF Uses

LEMMA RelayUse ==
  ASSUME Basics, NEW m \in BagToSet(net), CreateRelay(m)
  PROVE  OneNewUse(m.to, m.frag.build, m.frag.hop)
<1> DEFINE a == m.to
           b0 == m.frag.build
           h0 == m.frag.hop
           next == [cid |-> NewCid(a), peer |-> HopNode(b0, h0 + 1)]
           e == [kind |-> "relay", build |-> b0, hop |-> h0, prev |-> PrevLink(m), next |-> next]
           S == RelaySends(m, next)
<1> SUFFICES ASSUME NEW n \in Node, NEW c \in Cid, NEW b \in Build, NEW h \in Nat,
                    Uses(n, c, b, h)'
             PROVE  Uses(n, c, b, h) \/ (n = a /\ c = NewCid(a) /\ b = b0 /\ h = h0)
  BY DEF OneNewUse
<1>1. m.to \in Node /\ m.cid \in Cid /\ m.frag.hop \in 1..MaxHops /\ m.cmd = "CREATE"
  BY CreateCellFacts DEF CreateRelay
<1>2. circuits' = [circuits EXCEPT ![m.to][m.cid] = e] /\ Consume(m, S)
  BY DEF CreateRelay
<1>3. e \in RelayEntry
  BY RelayWired
<1>4. HeadOf(e, c, b, h) => c = NewCid(a) /\ b = b0 /\ h = h0
  BY <1>3, KindsDisjoint DEF HeadOf
<1>5. c = m.cid /\ TailOf(e, n, b, h) => CellUses(n, c, b, h)
  BY <1>1 DEF TailOf, CellUses, Carries, PrevLink
<1>6. \A k \in S : /\ k.frag.build = b0 /\ k.frag.hop = h0 + 1
                   /\ k.from = a /\ k.cid = NewCid(a)
  BY NextHop DEF CreateRelay
<1>7. HeadUses(n, c, b, h)' =>
        HeadUses(n, c, b, h) \/ (n = a /\ c = NewCid(a) /\ b = b0 /\ h = h0)
  <2> HIDE DEF e
  <2> QED BY <1>1, <1>2, <1>4, HeadStep DEF Basics
<1>8. TailUses(n, c, b, h)' => TailUses(n, c, b, h) \/ CellUses(n, c, b, h)
  <2> HIDE DEF e
  <2> QED BY <1>1, <1>2, <1>5, TailStep DEF Basics
<1>9. CellUses(n, c, b, h)' =>
        CellUses(n, c, b, h) \/ (n = a /\ c = NewCid(a) /\ b = b0 /\ h = h0)
  <2>1. h0 \in Nat
    BY <1>1, BoundAssumption
  <2> HIDE DEF S, h0
  <2>2. BagToSet(net') \subseteq BagToSet(net) \cup S
    BY <1>2, SignalCells DEF Basics
  <2> QED
    BY <1>6, <2>1, <2>2, CellStep DEF Carries
<1> QED
  <2>1. call' = call /\ cidOf' = cidOf
    BY DEF CreateRelay
  <2> QED BY <1>7, <1>8, <1>9, <2>1, BuildsUnchanged DEF Uses

\* A step uses no new link, or the one whose id it takes from its node's counter.
LEMMA UseStep ==
  ASSUME Basics, [Next]_vars
  PROVE  \/ nextCid' = nextCid /\ NoNewUse
         \/ \E a \in Node, b0 \in Build, h0 \in Nat : CidTaken(a) /\ OneNewUse(a, b0, h0)
<1> DEFINE Goal == \/ nextCid' = nextCid /\ NoNewUse
                   \/ \E a \in Node, b0 \in Build, h0 \in Nat :
                        CidTaken(a) /\ OneNewUse(a, b0, h0)
<1> SUFFICES Goal
  OBVIOUS
<1>1. ASSUME NEW b \in Build, BuildSend(b) PROVE Goal
  <2>1. Client(b) \in Node
    BY CallsAssumption DEF Basics, TypeOK, Client
  <2> QED
    BY <1>1, <2>1, SendUse DEF BuildSend
<1>2. ASSUME NEW b \in Build, BuildOpen(b) PROVE Goal
  BY <1>2, OpenUse DEF BuildOpen
<1>3. ASSUME NEW b \in Build, CloseRemove(b) PROVE Goal
  <2>1. cidOf[b] \in Cid
    BY <1>3 DEF CloseRemove, Basics, StartedBuilds
  <2>2. Client(b) \in Node
    BY CallsAssumption DEF Basics, TypeOK, Client
  <2>3. /\ BagToSet(net') \subseteq BagToSet(net) \cup SignalCell
        /\ \A k \in SignalCell : k.cmd # "CREATE"
    BY <1>3 DEF CloseRemove, SignalCell
  <2> QED
    BY <1>3, <2>1, <2>2, <2>3, ClearingStep DEF CloseRemove, Basics
<1>4. ASSUME NEW b \in Build, CloseSend(b) PROVE Goal
  <2> DEFINE S == {Signal("DESTROY", Client(b), [cid |-> cidOf[b], peer |-> OwnEntry(b).next.peer])}
  <2>1. BagToSet(net') \subseteq BagToSet(net) \cup S
    BY <1>4, SendBag DEF CloseSend, Send, Basics, TypeOK
  <2>2. \A k \in S : k.cmd # "CREATE"
    BY DEF Signal
  <2>3. NoNewUse
    <3> HIDE DEF S
    <3> QED BY <1>4, <2>1, <2>2, QuietStep DEF CloseSend
  <2> QED
    BY <1>4, <2>3 DEF CloseSend
<1>5. ASSUME NEW b \in Build, BuildRefused(b) \/ BuildPend(b) \/ BuildTimer(b) \/ BuildFail(b)
                               \/ CloseNothing(b)
      PROVE  Goal
  <2>1. UNCHANGED <<call, cidOf, circuits, nextCid, net>>
    BY <1>5 DEF BuildRefused, BuildPend, BuildTimer, BuildFail, CloseNothing
  <2>2. /\ BagToSet(net') \subseteq BagToSet(net) \cup SignalCell
        /\ \A k \in SignalCell : k.cmd # "CREATE"
    BY <2>1 DEF SignalCell
  <2> QED
    BY <2>1, <2>2, QuietStep
<1>6. ASSUME NEW m \in BagToSet(net), CreateTerminal(m) PROVE Goal
  BY <1>6, TerminalUse DEF CreateTerminal
<1>7. ASSUME NEW m \in BagToSet(net), CreateRelay(m) PROVE Goal
  <2>1. m.to \in Node /\ m.frag.build \in Build /\ m.frag.hop \in Nat
    BY <1>7, CreateCellFacts, BoundAssumption DEF CreateRelay
  <2> QED
    BY <1>7, <2>1, RelayUse DEF CreateRelay
<1>8. ASSUME NEW m \in BagToSet(net), HandleDestroy(m) PROVE Goal
  <2>1. PICK S : Consume(m, S) /\ \A k \in S : k.cmd # "CREATE"
    <3>1. \A k \in {Signal("DESTROY", m.to, Entry(m).prev)} : k.cmd # "CREATE"
      BY DEF Signal
    <3> QED
      BY <1>8, <3>1 DEF HandleDestroy
  <2>2. BagToSet(net') \subseteq BagToSet(net) \cup S
    BY <2>1, SignalCells DEF Basics
  <2>3. m.to \in Node /\ m.cid \in Cid
    BY CellPlace DEF Basics
  <2> QED
    BY <1>8, <2>1, <2>2, <2>3, ClearingStep DEF HandleDestroy, Basics
<1>9. ASSUME NEW m \in BagToSet(net),
             CreateWaits(m) \/ CreateRejected(m) \/ HandleCreated(m)
      PROVE  Goal
  <2>1. UNCHANGED <<call, cidOf, circuits, nextCid>>
    BY <1>9 DEF CreateWaits, CreateRejected, HandleCreated, CreatedWakes, CreatedForwarded,
               CreatedDropped
  <2>2. PICK S : Consume(m, S) /\ \A k \in S : k.cmd # "CREATE"
    <3>1. \A k \in {Signal("CREATED", m.to, Entry(m).prev)} : k.cmd # "CREATE"
      BY DEF Signal
    <3> QED
      BY <1>9, <3>1 DEF CreateWaits, CreateRejected, HandleCreated, CreatedWakes,
                       CreatedForwarded, CreatedDropped
  <2>3. BagToSet(net') \subseteq BagToSet(net) \cup S
    BY <2>2, SignalCells DEF Basics
  <2> QED
    BY <2>1, <2>2, <2>3, QuietStep
<1>10. CASE LoseCell
  <2>1. PICK m \in BagToSet(net) : Consume(m, {})
    BY <1>10 DEF LoseCell
  <2>2. BagToSet(net') \subseteq BagToSet(net) \cup {}
    BY <2>1, SignalCells DEF Basics
  <2> QED
    BY <1>10, <2>2, QuietStep DEF LoseCell
<1>11. CASE Finished \/ UNCHANGED vars
  <2>1. UNCHANGED vars
    BY <1>11 DEF Finished
  <2>2. /\ BagToSet(net') \subseteq BagToSet(net) \cup SignalCell
        /\ \A k \in SignalCell : k.cmd # "CREATE"
    BY <2>1 DEF vars, SignalCell
  <2> QED
    BY <2>1, <2>2, QuietStep DEF vars
<1> QED
  <2> HIDE DEF Goal
  <2> QED
    BY <1>1, <1>2, <1>3, <1>4, <1>5, <1>6, <1>7, <1>8, <1>9, <1>10, <1>11
    DEF Next, CallerStep, RuntimeStep, HandleCell, HandleCreate

LEMMA UniqueUseNext == Basics /\ UniqueUse /\ [Next]_vars => UniqueUse'
<1> SUFFICES ASSUME Basics, UniqueUse, [Next]_vars PROVE UniqueUse'
  OBVIOUS
<1>1. nextCid \in [Node -> Nat]
  BY BoundAssumption DEF Basics, TypeOK
<1>2. Cid \subseteq Nat
  BY BoundAssumption DEF Cid
<1>3. CASE nextCid' = nextCid /\ NoNewUse
  BY <1>3 DEF UniqueUse, NoNewUse
<1>4. CASE \E a \in Node, b0 \in Build, h0 \in Nat : CidTaken(a) /\ OneNewUse(a, b0, h0)
  <2>1. PICK a \in Node, b0 \in Build, h0 \in Nat : CidTaken(a) /\ OneNewUse(a, b0, h0)
    BY <1>4
  <2>2. nextCid'[a] = nextCid[a] + 1 /\ \A n \in Node : nextCid[n] <= nextCid'[n]
    BY <1>1, <2>1 DEF CidTaken, NewCid
  <2>3. \A b \in Build, h \in Nat, c \in Cid : c = NewCid(a) => ~ Uses(a, c, b, h)
    BY <1>1, <1>2 DEF UniqueUse, NewCid
  <2> SUFFICES ASSUME NEW n \in Node, NEW c \in Cid, NEW b \in Build, NEW h \in Nat,
                      Uses(n, c, b, h)'
               PROVE  /\ c < nextCid'[n]
                      /\ \A b2 \in Build, h2 \in Nat : Uses(n, c, b2, h2)' => b2 = b /\ h2 = h
    BY DEF UniqueUse
  <2>4. CASE n = a /\ c = NewCid(a)
    <3>1. c < nextCid'[n]
      BY <1>1, <2>2, <2>4 DEF NewCid
    <3>2. \A b2 \in Build, h2 \in Nat : Uses(n, c, b2, h2)' => b2 = b0 /\ h2 = h0
      BY <2>1, <2>3, <2>4 DEF OneNewUse
    <3> QED
      BY <3>1, <3>2
  <2>5. CASE ~ (n = a /\ c = NewCid(a))
    <3>1. \A b2 \in Build, h2 \in Nat : Uses(n, c, b2, h2)' => Uses(n, c, b2, h2)
      BY <2>1, <2>5 DEF OneNewUse
    <3>2. c < nextCid[n] /\ nextCid[n] <= nextCid'[n] /\ nextCid[n] \in Nat
      BY <1>1, <2>2, <3>1 DEF UniqueUse
    <3>3. nextCid'[n] \in Nat
      BY <1>1, <2>1 DEF CidTaken, NewCid
    <3>4. c < nextCid'[n]
      BY <1>2, <3>2, <3>3
    <3> QED
      BY <3>1, <3>4 DEF UniqueUse
  <2> QED
    BY <2>4, <2>5
<1> QED
  BY <1>3, <1>4, UseStep

LEMMA UniqueUseInit == Init => UniqueUse
<1> SUFFICES ASSUME Init, NEW n \in Node, NEW c \in Cid, NEW b \in Build, NEW h \in Nat
             PROVE  ~ Uses(n, c, b, h)
  BY DEF UniqueUse
<1>1. ~ HeadUses(n, c, b, h) /\ ~ TailUses(n, c, b, h)
  BY KindsDisjoint DEF Init, HeadUses, TailUses, HeadOf, TailOf
<1>2. ~ BuildUses(n, c, b, h)
  BY BoundAssumption DEF Init, BuildUses, Cid
<1>3. ~ CellUses(n, c, b, h)
  BY DEF Init, CellUses, EmptyBag, SetToBag, BagToSet
<1> QED
  BY <1>1, <1>2, <1>3 DEF Uses

-----------------------------------------------------------------------------
(* The invariant as a whole, and what follows from it.                     *)

LEMMA OneUse ==
  ASSUME UniqueUse, NEW n \in Node, NEW c \in Cid, NEW b1 \in Build, NEW h1 \in Nat,
         NEW b2 \in Build, NEW h2 \in Nat, Uses(n, c, b1, h1), Uses(n, c, b2, h2)
  PROVE  b2 = b1 /\ h2 = h1
BY DEF UniqueUse

\* What an entry with a link ahead, or with one behind, says of its own use of the link.
LEMMA HeadOfEntry ==
  ASSUME NEW e \in OriginEntry \cup RelayEntry
  PROVE  LET h == IF e \in OriginEntry THEN 0 ELSE e.hop
         IN  /\ h \in Nat /\ e.build \in Build
             /\ e.next.cid \in Cid /\ e.next.peer \in Node
             /\ HeadOf(e, e.next.cid, e.build, h)
<1>1. CASE e \in OriginEntry
  <2>1. e.build \in Build /\ e.next \in HopLink
    BY <1>1 DEF OriginEntry
  <2> QED
    BY <1>1, <2>1 DEF HopLink, HeadOf
<1>2. CASE e \in RelayEntry
  <2>1. e.build \in Build /\ e.next \in HopLink /\ e.hop \in 1..MaxHops
    BY <1>2 DEF RelayEntry
  <2>2. e \notin OriginEntry
    BY <1>2, KindsDisjoint
  <2> QED
    BY <1>2, <2>1, <2>2 DEF HopLink, HeadOf
<1> QED
  BY <1>1, <1>2

LEMMA TailOfEntry ==
  ASSUME NEW f \in RelayEntry \cup TerminalEntry
  PROVE  /\ f.build \in Build /\ f.hop \in Nat /\ f.hop - 1 \in Nat
         /\ TailOf(f, f.prev.peer, f.build, f.hop - 1)
<1>1. f.build \in Build /\ f.hop \in 1..MaxHops
  <2>1. CASE f \in RelayEntry
    BY <2>1 DEF RelayEntry
  <2>2. CASE f \in TerminalEntry
    BY <2>2 DEF TerminalEntry
  <2> QED
    BY <2>1, <2>2
<1>2. f.hop = (f.hop - 1) + 1 /\ f.hop \in Nat /\ f.hop - 1 \in Nat
  BY <1>1
<1> QED
  BY <1>1, <1>2 DEF TailOf

LEMMA OneAfter ==
  ASSUME NEW g \in Nat, NEW h \in Nat, g - 1 = h
  PROVE  g = h + 1 /\ (h = 0 => g = 1)
OBVIOUS

\* No link of one circuit leads into another: both ends use the same id of the same
\* node, and a node uses an id once.
LEMMA UniqueUseSeparates == Basics /\ HopWiring /\ UniqueUse => NoCrossedCircuits
<1> SUFFICES ASSUME UniqueUse, NEW n \in Node, NEW c \in Cid,
                    circuits[n][c] \in OriginEntry \cup RelayEntry,
                    LET e == circuits[n][c]
                        f == circuits[e.next.peer][e.next.cid]
                    IN  f \in RelayEntry \cup TerminalEntry /\ f.prev.peer = n
             PROVE  LET e == circuits[n][c]
                        f == circuits[e.next.peer][e.next.cid]
                    IN  /\ f.build = e.build
                        /\ f.hop = IF e \in OriginEntry THEN 1 ELSE e.hop + 1
  BY Zenon DEF NoCrossedCircuits
<1> DEFINE e == circuits[n][c]
           id == e.next.cid
           peer == e.next.peer
           f == circuits[peer][id]
           h1 == IF e \in OriginEntry THEN 0 ELSE e.hop
           h2 == f.hop - 1
<1>1. /\ h1 \in Nat /\ e.build \in Build /\ id \in Cid /\ peer \in Node
      /\ HeadOf(e, id, e.build, h1)
  BY HeadOfEntry, Zenon
<1>2. /\ f.build \in Build /\ f.hop \in Nat /\ h2 \in Nat /\ f.prev.peer = n
      /\ TailOf(f, n, f.build, h2)
  BY TailOfEntry, Zenon
<1>3. Uses(n, id, e.build, h1)
  <2> HIDE DEF id, h1
  <2> QED BY <1>1, Zenon DEF Uses, HeadUses
<1>4. Uses(n, id, f.build, h2)
  <2> HIDE DEF id, peer, h2
  <2> QED BY <1>1, <1>2, Zenon DEF Uses, TailUses, f
<1>5. f.build = e.build /\ h2 = h1
  <2> HIDE DEF e, f, id, h1, h2
  <2> QED BY <1>1, <1>2, <1>3, <1>4, OneUse, Zenon
<1>6. f.hop = h1 + 1 /\ (h1 = 0 => f.hop = 1)
  <2> HIDE DEF f, h1
  <2> QED BY <1>1, <1>2, <1>5, OneAfter, Zenon DEF h2
<1>7. f.hop = IF e \in OriginEntry THEN 1 ELSE e.hop + 1
  <2> HIDE DEF e, f
  <2> QED BY <1>6, Zenon
<1> QED
  BY <1>5, <1>7, Zenon

\* No circuit's link leads into another circuit, for any nodes, builds and routes.
THEOREM CircuitsSeparate == Spec => []NoCrossedCircuits
<1>1. Init => IInv
  <2>1. Init => HopWiring
    BY KindsDisjoint DEF Init, HopWiring, Wired
  <2> QED
    BY <2>1, BasicsInit, UniqueUseInit DEF IInv
<1>2. IInv /\ [Next]_vars => IInv'
  BY BasicsNext, WiringNext, UniqueUseNext DEF IInv
<1>3. IInv => NoCrossedCircuits
  BY UniqueUseSeparates DEF IInv
<1> QED
  BY <1>1, <1>2, <1>3, PTL DEF Spec
=============================================================================
