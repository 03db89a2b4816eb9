------------------------ MODULE CircuitService_proofs ------------------------
(***************************************************************************)
(* Proofs that the control plane keeps the promise of CircuitService, for  *)
(* any nodes, builds and routes: headers are peeled in order and once, no  *)
(* CREATED is made of nothing, and a build that is alone opens only over   *)
(* its whole route.                                                        *)
(***************************************************************************)
EXTENDS Circuit_proofs, FiniteSetTheorems

-----------------------------------------------------------------------------
(* Copies of cells.                                                        *)

\* What consuming one copy of m, and sending S, makes of the copies of every cell.
LEMMA ConsumeCopies ==
  ASSUME NEW B, IsABag(B), NEW m \in BagToSet(B), NEW S,
         NEW R, R = (B (-) SetToBag({m})) (+) SetToBag(S)
  PROVE  /\ \A k \in BagToSet(R) : k \notin S =>
              /\ k \in BagToSet(B)
              /\ k # m => R[k] = B[k]
              /\ k = m => R[k] = B[k] - 1 /\ B[k] # 1
         /\ \A k \in S : k \in BagToSet(R) /\ (k \notin BagToSet(B) => R[k] = 1)
         /\ \A k \in S \cap BagToSet(B) :
              R[k] = IF k = m THEN B[k] ELSE B[k] + 1
<1> DEFINE D == B (-) SetToBag({m})
<1>1. /\ \A k \in DOMAIN B : B[k] \in Nat /\ B[k] > 0
      /\ m \in DOMAIN B
  BY DEF IsABag, BagToSet
<1>2. /\ DOMAIN D = {k \in DOMAIN B : k # m \/ B[k] - 1 > 0}
      /\ \A k \in DOMAIN D : D[k] = IF k = m THEN B[k] - 1 ELSE B[k]
  BY <1>1 DEF (-), SetToBag
<1>3. /\ DOMAIN R = DOMAIN D \cup S
      /\ \A k \in DOMAIN R :
           R[k] = (IF k \in DOMAIN D THEN D[k] ELSE 0) + (IF k \in S THEN 1 ELSE 0)
  BY DEF (+), SetToBag
<1> HIDE DEF D
<1>4. ASSUME NEW k \in DOMAIN R, k \notin S
      PROVE  /\ k \in DOMAIN B
             /\ k # m => R[k] = B[k]
             /\ k = m => R[k] = B[k] - 1 /\ B[k] # 1
  <2>1. k \in DOMAIN D /\ k \in DOMAIN B /\ R[k] = D[k] + 0
    BY <1>2, <1>3, <1>4
  <2>2. B[k] \in Nat /\ B[k] > 0 /\ D[k] = (IF k = m THEN B[k] - 1 ELSE B[k])
    BY <1>1, <1>2, <2>1
  <2>3. k # m \/ B[k] - 1 > 0
    BY <1>2, <2>1
  <2> QED
    BY <2>1, <2>2, <2>3
<1>5. ASSUME NEW k \in S
      PROVE  /\ k \in DOMAIN R
             /\ k \notin DOMAIN B => R[k] = 1
             /\ k \in DOMAIN B => R[k] = IF k = m THEN B[k] ELSE B[k] + 1
  <2>1. k \in DOMAIN R /\ R[k] = (IF k \in DOMAIN D THEN D[k] ELSE 0) + 1
    BY <1>3, <1>5
  <2>2. CASE k \notin DOMAIN B
    BY <1>2, <2>1, <2>2
  <2>3. CASE k \in DOMAIN B
    <3>1. B[k] \in Nat /\ B[k] > 0
      BY <1>1, <2>3
    <3>2. CASE k \notin DOMAIN D
      <4>1. k = m /\ B[k] = 1 /\ R[k] = 1
        BY <1>2, <2>1, <2>3, <3>1, <3>2
      <4> QED
        BY <2>1, <2>3, <4>1
    <3>3. CASE k \in DOMAIN D
      <4>1. D[k] = (IF k = m THEN B[k] - 1 ELSE B[k]) /\ R[k] = D[k] + 1
        BY <1>2, <2>1, <3>3
      <4> QED
        BY <2>1, <2>3, <3>1, <4>1
    <3> QED
      BY <3>2, <3>3
  <2> QED
    BY <2>2, <2>3
<1> QED
  BY <1>4, <1>5 DEF BagToSet

LEMMA SendCopies ==
  ASSUME NEW B, IsABag(B), NEW S, NEW R, R = B (+) SetToBag(S)
  PROVE  /\ \A k \in BagToSet(R) : k \notin S => k \in BagToSet(B) /\ R[k] = B[k]
         /\ \A k \in S : k \in BagToSet(R) /\ (k \notin BagToSet(B) => R[k] = 1)
<1>1. \A k \in DOMAIN B : B[k] \in Nat /\ B[k] > 0
  BY DEF IsABag
<1>2. /\ DOMAIN R = DOMAIN B \cup S
      /\ \A k \in DOMAIN R :
           R[k] = (IF k \in DOMAIN B THEN B[k] ELSE 0) + (IF k \in S THEN 1 ELSE 0)
  BY DEF (+), SetToBag
<1> QED
  BY <1>1, <1>2 DEF BagToSet

-----------------------------------------------------------------------------
(* Where the fragments of a header are.                                    *)

Creates == {m \in BagToSet(net) : m.cmd = "CREATE"}

\* The fragment is of the header that the next hop of its build is to peel.
ToPeel(f) == f \in Fragments(f.build, reached[f.build] + 1) /\ pc[f.build] # "idle"

Buffered(f) == \E n \in Node, c \in Cid : f \in frags[n][c]
Somewhere(f) == (\E m \in Creates : m.frag = f) \/ Buffered(f)

NextLayer == \A f \in Frag : Somewhere(f) => ToPeel(f)

\* A fragment is in one cell of which there is one copy, or in one buffer.
OneCell == \A m \in Creates : net[m] = 1 /\ \A k \in Creates : m.frag = k.frag => m = k

OneBuffer ==
  \A n \in Node, c \in Cid : \A g \in frags[n][c] :
    /\ \A m \in Creates : m.frag # g
    /\ \A p \in Node, k \in Cid : g \in frags[p][k] => p = n /\ k = c

NotBegun == \A b \in Build : pc[b] = "idle" => reached[b] = 0

FInv == NextLayer /\ OneCell /\ OneBuffer /\ NotBegun

\* What a step must show of the fragments, given the CREATE cells S it sends: they hold
\* fragments that were nowhere, and a buffer gains only what a cell it consumes held.
LEMMA FragmentsStep ==
  ASSUME TypeOK, TypeOK', FInv, NEW S,
         \A k \in Creates' : \/ k \in Creates \ S /\ net'[k] = net[k]
                             \/ k \in S /\ net'[k] = 1,
         \A k \in S : ~ Somewhere(k.frag),
         \A k, l \in S : k.frag = l.frag => k = l,
         \A n \in Node, c \in Cid : \A g \in frags'[n][c] :
           \/ g \in frags[n][c]
           \/ \E m \in Creates \ Creates' : m.frag = g /\ m.to = n /\ m.cid = c,
         \A f \in Frag : Somewhere(f)' => ToPeel(f)',
         NotBegun'
  PROVE  FInv'
<1>0. OneCell /\ OneBuffer
  BY DEF FInv
<1>1. OneCell'
  <2> SUFFICES ASSUME NEW m \in Creates', NEW k \in Creates'
               PROVE  net'[m] = 1 /\ (m.frag = k.frag => m = k)
    BY DEF OneCell
  <2>1. \A x \in Creates : Somewhere(x.frag)
    BY DEF Somewhere
  <2> QED
    BY <1>0, <2>1 DEF OneCell
<1>2. ASSUME NEW n \in Node, NEW c \in Cid, NEW g \in frags'[n][c], NEW m \in Creates'
      PROVE  m.frag # g
  <2>1. Somewhere(g) /\ (m \in Creates => m.frag # g)
    <3>1. CASE g \in frags[n][c]
      BY <1>0, <3>1 DEF OneBuffer, Somewhere, Buffered
    <3>2. CASE \E x \in Creates \ Creates' : x.frag = g
      BY <1>0, <3>2 DEF OneCell, Somewhere
    <3> QED
      BY <3>1, <3>2
  <2> QED
    BY <2>1
<1>3. ASSUME NEW n \in Node, NEW c \in Cid, NEW g \in frags'[n][c],
             NEW p \in Node, NEW k \in Cid, g \in frags'[p][k]
      PROVE  p = n /\ k = c
  BY <1>0, <1>3 DEF OneCell, OneBuffer
<1>4. OneBuffer'
  BY <1>2, <1>3 DEF OneBuffer
<1> QED
  BY <1>1, <1>4 DEF FInv, NextLayer

\* Nothing is sent, and no layer is peeled: what is left of the fragments is to be peeled.
LEMMA FragmentsLeft ==
  ASSUME TypeOK, TypeOK', FInv, call' = call, reached' = reached,
         \A b \in Build : pc'[b] = "idle" <=> pc[b] = "idle",
         \A k \in Creates' : k \in Creates /\ net'[k] = net[k],
         \A n \in Node, c \in Cid : \A g \in frags'[n][c] :
           \/ g \in frags[n][c]
           \/ \E m \in Creates \ Creates' : m.frag = g /\ m.to = n /\ m.cid = c
  PROVE  FInv'
<1>1. \A f \in Frag : Somewhere(f)' => Somewhere(f)
  BY DEF Somewhere, Buffered
<1>2. ASSUME NEW f \in Frag, Somewhere(f) PROVE ToPeel(f)'
  <2>1. ToPeel(f) /\ f.build \in Build
    BY <1>2 DEF FInv, NextLayer, Frag
  <2> QED
    BY <2>1 DEF ToPeel, Fragments, Hops
<1>3. NotBegun'
  BY DEF FInv, NotBegun
<1> DEFINE S == {}
<1>4. /\ \A k \in Creates' :
           (k \in Creates \ S /\ net'[k] = net[k]) \/ (k \in S /\ net'[k] = 1)
      /\ \A k \in S : ~ Somewhere(k.frag)
      /\ \A k, l \in S : k.frag = l.frag => k = l
  OBVIOUS
<1>5. \A f \in Frag : Somewhere(f)' => ToPeel(f)'
  BY <1>1, <1>2
<1> HIDE DEF S
<1> QED
  BY <1>3, <1>4, <1>5, FragmentsStep

\* The CREATE cells that are left when m is handled, and the cells S sent.
LEMMA CreatesConsumed ==
  ASSUME TypeOK, FInv, NEW m \in BagToSet(net), NEW S, Consume(m, S)
  PROVE  /\ \A k \in Creates' : k \notin S =>
              k \in Creates /\ net'[k] = net[k] /\ (m.cmd = "CREATE" => k # m)
         /\ \A k \in S : k \notin Creates /\ k.cmd = "CREATE" => net'[k] = 1
<1>1. IsABag(net)
  BY DEF TypeOK
<1>2. /\ \A k \in BagToSet(net') : k \notin S =>
           /\ k \in BagToSet(net)
           /\ k # m => net'[k] = net[k]
           /\ k = m => net'[k] = net[k] - 1 /\ net[k] # 1
      /\ \A k \in S : k \in BagToSet(net') /\ (k \notin BagToSet(net) => net'[k] = 1)
  BY <1>1, ConsumeCopies DEF Consume
<1>3. m.cmd = "CREATE" => net[m] = 1
  BY DEF FInv, OneCell, Creates
<1> QED
  BY <1>2, <1>3 DEF Creates

\* A step that handles no CREATE and sends none moves no fragment.
LEMMA NoCreateHandled ==
  ASSUME TypeOK, TypeOK', FInv, UNCHANGED <<call, reached, frags>>,
         \A b \in Build : pc'[b] = "idle" <=> pc[b] = "idle",
         NEW m \in BagToSet(net), NEW S, \A k \in S : k.cmd # "CREATE", Consume(m, S)
  PROVE  FInv'
<1>1. \A k \in Creates' : k \in Creates /\ net'[k] = net[k]
  BY CreatesConsumed DEF Creates
<1> QED
  BY <1>1, FragmentsLeft

\* A CREATE cell that completes nothing, or completes no header, sends nothing.
LEMMA CreateNotPeeled ==
  ASSUME TypeOK, TypeOK', FInv, NEW m \in BagToSet(net), CreateWaits(m) \/ CreateRejected(m)
  PROVE  FInv'
<1>0. /\ m.cmd = "CREATE" /\ Consume(m, {}) /\ UNCHANGED <<call, pc, reached>>
      /\ m \in Cell /\ m.to \in Node /\ m.cid \in Cid
  BY CellPlace DEF CreateWaits, CreateRejected
<1>1. /\ \A k \in Creates' : k \in Creates /\ net'[k] = net[k]
      /\ m \in Creates \ Creates'
  BY <1>0, CreatesConsumed DEF Creates
<1>2. PICK buffer \in SUBSET Gathered(m) : frags' = [frags EXCEPT ![m.to][m.cid] = buffer]
  BY DEF CreateWaits, CreateRejected, BufferCleared
<1>3. \A g \in Gathered(m) : g \in frags[m.to][m.cid] \/ g = m.frag
  BY DEF Gathered
<1>4. ASSUME NEW n \in Node, NEW c \in Cid, NEW g \in frags'[n][c]
      PROVE  \/ g \in frags[n][c]
             \/ \E k \in Creates \ Creates' : k.frag = g /\ k.to = n /\ k.cid = c
  <2>1. frags'[n][c] = IF n = m.to /\ c = m.cid THEN buffer ELSE frags[n][c]
    BY <1>0, <1>2 DEF TypeOK
  <2> QED
    BY <1>0, <1>1, <1>2, <1>3, <2>1
<1> QED
  BY <1>0, <1>1, <1>4, FragmentsLeft

LEMMA HeaderCells ==
  ASSUME NEW b, NEW h, NEW link
  PROVE  /\ \A k \in CreateCells(b, h, link) :
              /\ k.cmd = "CREATE" /\ k.frag \in Fragments(b, h)
              /\ k.frag.build = b /\ k.frag.hop = h
         /\ \A k, l \in CreateCells(b, h, link) : k.frag = l.frag => k = l
BY DEF CreateCells, Fragments

\* Whatever is in a CREATE cell or in a buffer is a fragment.
LEMMA SomewhereTyped ==
  ASSUME TypeOK
  PROVE  \A m \in Creates : m.frag \in Frag /\ Somewhere(m.frag)
BY DEF TypeOK, Creates, Cell, CreateCell, SignalCell, Somewhere

\* The header of a build that begins has no fragments anywhere yet.
LEMMA HeaderSent ==
  ASSUME TypeOK, TypeOK', FInv, NEW b \in Build, BuildSend(b)
  PROVE  FInv'
<1> DEFINE link == [cid |-> NewCid(Client(b)), peer |-> HopNode(b, 1)]
           S == CreateCells(b, 1, link)
<1>0. /\ pc[b] = "idle" /\ pc' = [pc EXCEPT ![b] = "sent"] /\ reached[b] = 0
      /\ UNCHANGED <<call, frags, reached>> /\ IsABag(net) /\ net' = net (+) SetToBag(S)
      /\ NextLayer /\ NotBegun
  BY DEF BuildSend, Send, FInv, NotBegun, TypeOK
<1>1. /\ \A k \in S : k.cmd = "CREATE" /\ k.frag \in Fragments(b, 1) /\ k.frag.build = b
      /\ \A k, l \in S : k.frag = l.frag => k = l
  BY HeaderCells
<1> HIDE DEF S
<1>2. /\ \A k \in BagToSet(net') : k \notin S => k \in BagToSet(net) /\ net'[k] = net[k]
      /\ \A k \in S : k \in BagToSet(net') /\ (k \notin BagToSet(net) => net'[k] = 1)
  BY <1>0, SendCopies
<1>3. \A f \in Frag : Somewhere(f) => f.build # b
  BY <1>0 DEF NextLayer, ToPeel
<1>4. \A k \in S : k \in Creates' /\ k.frag \in Frag
  BY <1>1, <1>2, SomewhereTyped DEF Creates, TypeOK, Cell, CreateCell, SignalCell
<1>5. \A k \in S : ~ Somewhere(k.frag)
  BY <1>1, <1>3, <1>4
<1>6. \A k \in S : k \notin Creates
  BY <1>5 DEF Somewhere
<1>7. \A k \in Creates' : (k \in Creates \ S /\ net'[k] = net[k]) \/ (k \in S /\ net'[k] = 1)
  BY <1>2, <1>6 DEF Creates
<1>8. ASSUME NEW f \in Frag, Somewhere(f)' PROVE ToPeel(f)'
  <2>1. Somewhere(f) \/ \E k \in S : k.frag = f
    BY <1>0, <1>7, <1>8 DEF Somewhere, Buffered
  <2>2. CASE Somewhere(f)
    <3>1. ToPeel(f) /\ f.build # b /\ f.build \in Build
      BY <1>0, <1>3, <2>2 DEF NextLayer, Frag
    <3> QED
      BY <1>0, <3>1 DEF ToPeel, Fragments, Hops, TypeOK
  <2>3. CASE \E k \in S : k.frag = f
    <3>1. f \in Fragments(b, 1) /\ f.build = b
      BY <1>1, <2>3
    <3>2. pc'[b] # "idle" /\ reached'[b] + 1 = 1 /\ Fragments(b, 1)' = Fragments(b, 1)
      BY <1>0 DEF TypeOK, Fragments, Hops
    <3> QED
      BY <3>1, <3>2 DEF ToPeel, Fragments
  <2> QED
    BY <2>1, <2>2, <2>3
<1>9. NotBegun'
  BY <1>0 DEF NotBegun, TypeOK
<1> QED
  BY <1>0, <1>1, <1>5, <1>7, <1>8, <1>9, FragmentsStep

\* A header that is peeled has all its fragments in one buffer.
LEMMA AllGathered ==
  ASSUME TypeOK, NEW m \in Creates, ToPeel(m.frag), Complete(m), Peels(m),
         NEW g \in Fragments(m.frag.build, m.frag.hop) \cap Frag
  PROVE  g = m.frag \/ g \in frags[m.to][m.cid]
<1>1. m \in CreateCell /\ m.frag \in Frag
  BY SomewhereTyped DEF TypeOK, Creates, Cell, SignalCell
<1>2. /\ g.build = m.frag.build /\ g.hop = m.frag.hop /\ g.total = m.frag.total
      /\ g.idx \in 0..(m.frag.total - 1)
  BY DEF ToPeel, Fragments
<1>3. PICK x \in Gathered(m) : x.idx = g.idx
  BY <1>2 DEF Complete
<1>4. /\ x \in Frag /\ x.build = m.frag.build /\ x.hop = m.frag.hop
      /\ x = m.frag \/ (x \in frags[m.to][m.cid] /\ x.total = m.frag.total)
  BY <1>1, GatheredType DEF Peels, Gathered
<1>5. x = g
  <2>1. x.total = g.total
    BY <1>2, <1>4
  <2> QED
    BY <1>2, <1>3, <1>4, <2>1 DEF Frag
<1> QED
  BY <1>4, <1>5

\* Once a layer is peeled, none of its fragments is left, and those of the next are new.
LEMMA HeaderPeeled ==
  ASSUME Basics, TypeOK', FInv, NEW m \in Creates, Complete(m), Peels(m),
         UNCHANGED <<call, pc>>, BufferCleared(m),
         reached' = [reached EXCEPT ![m.frag.build] = m.frag.hop],
         NEW S, Consume(m, S), NEW link,
         \A k \in S : k.cmd = "CREATE" => k \in CreateCells(m.frag.build, m.frag.hop + 1, link)
  PROVE  FInv' /\ m.frag.hop = reached[m.frag.build] + 1
<1> DEFINE b == m.frag.build
           h == m.frag.hop
           New == {k \in S : k.cmd = "CREATE"}
<1>0. /\ TypeOK /\ NextLayer /\ OneCell /\ OneBuffer /\ NotBegun /\ m \in BagToSet(net)
      /\ m.cmd = "CREATE" /\ b \in Build /\ h \in Nat /\ m.to \in Node /\ m.cid \in Cid
  BY CreateCellFacts DEF Basics, FInv, Creates
<1>1. m.frag \in Frag /\ m.frag \in Fragments(b, h) /\ h = reached[b] + 1 /\ pc[b] # "idle"
  <2>1. ToPeel(m.frag) /\ m.frag \in Frag
    BY <1>0, SomewhereTyped DEF NextLayer
  <2>2. m.frag.hop = reached[b] + 1
    BY <2>1 DEF ToPeel, Fragments
  <2> QED
    BY <2>1, <2>2 DEF ToPeel
<1>2. \A g \in Fragments(b, h) \cap Frag : g = m.frag \/ g \in frags[m.to][m.cid]
  BY <1>0, <1>1, AllGathered DEF ToPeel
<1>3. /\ \A k \in New : k.frag \in Fragments(b, h + 1) /\ k.frag.build = b /\ k.frag.hop = h + 1
      /\ \A k, l \in New : k.frag = l.frag => k = l
  BY HeaderCells
<1>4. \A k \in Creates' : k \notin S => k \in Creates /\ net'[k] = net[k] /\ k # m
  BY <1>0, CreatesConsumed
<1>5. \A f \in Frag : Somewhere(f) /\ f.build = b => f \in Fragments(b, h)
  BY <1>0, <1>1 DEF NextLayer, ToPeel
<1>6. \A k \in Creates' : k \in S => k \in New /\ k.frag \in Frag
  BY SomewhereTyped, <1>0 DEF TypeOK, Creates, Cell, CreateCell, SignalCell
<1>7. \A k \in Creates' : k \in New => ~ Somewhere(k.frag) /\ k \notin Creates /\ net'[k] = 1
  <2> SUFFICES ASSUME NEW k \in Creates', k \in New
               PROVE  ~ Somewhere(k.frag) /\ k \notin Creates /\ net'[k] = 1
    OBVIOUS
  <2>1. k.frag \notin Fragments(b, h)
    BY <1>0, <1>3 DEF Fragments
  <2>2. ~ Somewhere(k.frag)
    BY <1>3, <1>5, <1>6, <2>1
  <2>3. k \notin Creates
    BY <2>2 DEF Somewhere
  <2> QED
    BY <1>0, <2>2, <2>3, CreatesConsumed
<1>8. \A n \in Node, c \in Cid :
        frags'[n][c] = IF n = m.to /\ c = m.cid THEN {} ELSE frags[n][c]
  BY <1>0 DEF BufferCleared, TypeOK
<1> DEFINE Sent == New \cap Creates'
<1>9. \A k \in Creates' : (k \in Creates \ Sent /\ net'[k] = net[k]) \/ (k \in Sent /\ net'[k] = 1)
  BY <1>4, <1>6, <1>7
<1>10. ASSUME NEW g \in Fragments(b, h) \cap Frag PROVE ~ Somewhere(g)'
  <2>1. ASSUME NEW k \in Creates', k.frag = g PROVE FALSE
    <3>1. k \notin New
      BY <1>0, <1>3, <2>1 DEF Fragments
    <3>2. k \in Creates /\ k # m
      BY <1>4, <1>6, <3>1
    <3> QED
      BY <1>0, <1>2, <2>1, <3>2 DEF OneCell, OneBuffer
  <2>2. ASSUME NEW n \in Node, NEW c \in Cid, g \in frags'[n][c] PROVE FALSE
    BY <1>0, <1>2, <1>8, <2>2 DEF OneBuffer
  <2> QED
    BY <2>1, <2>2 DEF Somewhere, Buffered
<1>11. ASSUME NEW f \in Frag, Somewhere(f)' PROVE ToPeel(f)'
  <2>1. Somewhere(f) \/ \E k \in New : k.frag = f
    BY <1>8, <1>9, <1>11 DEF Somewhere, Buffered
  <2>2. CASE Somewhere(f)
    <3>1. ToPeel(f) /\ f.build # b /\ f.build \in Build
      BY <1>0, <1>5, <1>10, <1>11, <2>2 DEF NextLayer, Frag
    <3> QED
      BY <1>0, <3>1 DEF ToPeel, Fragments, Hops, TypeOK
  <2>3. CASE \E k \in New : k.frag = f
    <3>1. f \in Fragments(b, h + 1) /\ f.build = b
      BY <1>3, <2>3
    <3>2. reached'[b] = h
      BY <1>0 DEF TypeOK
    <3> QED
      BY <1>1, <3>1, <3>2 DEF ToPeel, Fragments, Hops
  <2> QED
    BY <2>1, <2>2, <2>3
<1>12. NotBegun'
  BY <1>0, <1>1 DEF NotBegun, TypeOK
<1>13. \A n \in Node, c \in Cid : \A g \in frags'[n][c] : g \in frags[n][c]
  BY <1>8
<1>14. \A k, l \in Sent : ~ Somewhere(k.frag) /\ (k.frag = l.frag => k = l)
  BY <1>3, <1>7
<1> HIDE DEF Sent
<1> QED
  BY <1>0, <1>1, <1>9, <1>11, <1>12, <1>13, <1>14, FragmentsStep

\* The two handlers that peel a layer.
LEMMA PeelStep ==
  ASSUME Basics, Basics', FInv, NEW m \in BagToSet(net), CreateTerminal(m) \/ CreateRelay(m)
  PROVE  /\ FInv'
         /\ m \in Creates /\ m.frag.build \in Build
         /\ reached' = [reached EXCEPT ![m.frag.build] = m.frag.hop]
         /\ m.frag.hop = reached[m.frag.build] + 1
         /\ m.frag.hop <= Hops(m.frag.build)
         /\ pc[m.frag.build] # "idle"
<1> DEFINE b == m.frag.build
           h == m.frag.hop
           next == [cid |-> NewCid(m.to), peer |-> HopNode(b, h + 1)]
<1>1. /\ m \in Creates /\ Complete(m) /\ Peels(m) /\ UNCHANGED <<call, pc>> /\ BufferCleared(m)
      /\ reached' = [reached EXCEPT ![b] = h]
  BY DEF CreateTerminal, CreateRelay, Creates
<1>2. PICK S : /\ Consume(m, S)
               /\ \A k \in S : k.cmd = "CREATE" => k \in CreateCells(b, h + 1, next)
  <2>1. CASE CreateTerminal(m)
    <3>1. /\ Consume(m, {Signal("CREATED", m.to, PrevLink(m))})
          /\ Signal("CREATED", m.to, PrevLink(m)).cmd = "CREATED"
      BY <2>1 DEF CreateTerminal, Signal
    <3> QED
      BY <3>1
  <2>2. CASE CreateRelay(m)
    <3>1. Consume(m, CreateCells(b, h + 1, next))
      BY <2>2 DEF CreateRelay, RelaySends
    <3> QED
      BY <3>1
  <2> QED
    BY <2>1, <2>2
<1> HIDE DEF next
<1>3. FInv' /\ h = reached[b] + 1
  BY <1>1, <1>2, HeaderPeeled DEF Basics
<1>4. b \in Build /\ h <= Hops(b)
  BY <1>1, CreateCellFacts, HopsType DEF Basics, TypeOK, Creates
<1>5. pc[b] # "idle"
  BY <1>1, SomewhereTyped DEF FInv, NextLayer, ToPeel, Basics
<1> QED
  BY <1>1, <1>3, <1>4, <1>5

\* A handler that peels none answers with signals, if at all.
LEMMA SignalHandled ==
  ASSUME Basics, NEW m \in BagToSet(net),
         HandleCreated(m) \/ HandleDestroy(m)
  PROVE  /\ \E S : Consume(m, S) /\ \A k \in S : k.cmd # "CREATE"
         /\ UNCHANGED <<call, reached, frags>>
         /\ \A b \in Build : pc'[b] = "idle" <=> pc[b] = "idle"
<1>1. Consume(m, {}) \/ \E cmd \in {"CREATED", "DESTROY"} : \E link :
        Consume(m, {Signal(cmd, m.to, link)})
  BY DEF HandleCreated, HandleDestroy, CreatedWakes, CreatedForwarded, CreatedDropped
<1>2. \A cmd, link : Signal(cmd, m.to, link).cmd = cmd
  BY DEF Signal
<1>3. \E S : Consume(m, S) /\ \A k \in S : k.cmd # "CREATE"
  <2>1. CASE Consume(m, {})
    BY <2>1
  <2>2. CASE \E cmd \in {"CREATED", "DESTROY"} : \E link :
               Consume(m, {Signal(cmd, m.to, link)})
    <3>1. PICK cmd \in {"CREATED", "DESTROY"} : \E link : Consume(m, {Signal(cmd, m.to, link)})
      BY <2>2
    <3>2. PICK link : Consume(m, {Signal(cmd, m.to, link)})
      BY <3>1
    <3>3. \A k \in {Signal(cmd, m.to, link)} : k.cmd # "CREATE"
      BY <1>2
    <3> QED
      BY <3>2, <3>3
  <2> QED
    BY <1>1, <2>1, <2>2
<1>4. \A b \in Build : pc'[b] = "idle" <=> pc[b] = "idle"
  BY DEF HandleCreated, HandleDestroy, CreatedWakes, CreatedForwarded, CreatedDropped, Pending,
         Basics, TypeOK
<1> QED
  BY <1>3, <1>4 DEF HandleCreated, HandleDestroy, CreatedWakes, CreatedForwarded, CreatedDropped

LEMMA FragmentsNext ==
  ASSUME Basics, Basics', FInv, [Next]_vars
  PROVE  FInv'
<1>0. TypeOK /\ TypeOK'
  BY DEF Basics
\* Where no cell moves.
<1>1. ASSUME UNCHANGED <<call, frags, net, reached>>,
             \A b \in Build : pc'[b] = "idle" => pc[b] = "idle"
      PROVE  FInv'
  <2>1. Creates' = Creates
    BY <1>1 DEF Creates
  <2>2. \A f \in Frag : Somewhere(f)' => ToPeel(f)'
    <3>1. ASSUME NEW f \in Frag, Somewhere(f)' PROVE ToPeel(f)'
      <4>1. ToPeel(f) /\ f.build \in Build
        BY <1>1, <2>1, <3>1 DEF FInv, NextLayer, Somewhere, Buffered, Frag
      <4> QED
        BY <1>1, <4>1 DEF ToPeel, Fragments, Hops
    <3> QED
      BY <3>1
  <2>3. OneCell' /\ OneBuffer' /\ NotBegun'
    BY <1>1, <2>1 DEF FInv, OneCell, OneBuffer, NotBegun
  <2> QED
    BY <2>2, <2>3 DEF FInv, NextLayer
<1>2. ASSUME NEW b \in Build, CallerStep(b) \/ RuntimeStep(b) PROVE FInv'
  <2>1. CASE BuildSend(b)
    BY <1>0, <2>1, HeaderSent
  <2>2. CASE CloseSend(b)
    <3> DEFINE k == Signal("DESTROY", Client(b), [cid |-> cidOf[b], peer |-> OwnEntry(b).next.peer])
    <3>1. /\ net' = net (+) SetToBag({k}) /\ k.cmd = "DESTROY" /\ IsABag(net)
          /\ UNCHANGED <<call, frags, reached>>
          /\ \A d \in Build : pc'[d] = "idle" <=> pc[d] = "idle"
      BY <1>0, <2>2 DEF CloseSend, Send, Signal, TypeOK
    <3> HIDE DEF k
    <3>2. \A x \in Creates' : x \in Creates /\ net'[x] = net[x]
      BY <3>1, SendCopies DEF Creates
    <3> QED
      BY <1>0, <3>1, <3>2, FragmentsLeft
  <2>3. CASE ~ BuildSend(b) /\ ~ CloseSend(b)
    <3>1. UNCHANGED <<call, frags, net, reached>>
      BY <1>2, <2>3 DEF CallerStep, RuntimeStep, BuildRefused, CloseNothing, BuildPend, BuildTimer,
                        BuildFail, BuildOpen, CloseRemove
    <3>2. \A d \in Build : pc'[d] = "idle" => pc[d] = "idle"
      BY <1>0, <1>2, <2>3
      DEF CallerStep, RuntimeStep, BuildRefused, CloseNothing, BuildPend, BuildTimer,
          BuildFail, BuildOpen, CloseRemove, TypeOK
    <3> QED
      BY <1>1, <3>1, <3>2
  <2> QED
    BY <2>1, <2>2, <2>3
<1>3. ASSUME NEW m \in BagToSet(net), HandleCreate(m) PROVE FInv'
  BY <1>0, <1>3, CreateNotPeeled, PeelStep DEF HandleCreate
<1>4. ASSUME NEW m \in BagToSet(net), HandleCreated(m) \/ HandleDestroy(m) PROVE FInv'
  BY <1>0, <1>4, SignalHandled, NoCreateHandled
<1>5. CASE LoseCell
  <2>1. PICK m \in BagToSet(net) : Consume(m, {})
    BY <1>5 DEF LoseCell
  <2>2. UNCHANGED <<call, pc, reached, frags>>
    BY <1>5 DEF LoseCell
  <2> QED
    BY <1>0, <2>1, <2>2, NoCreateHandled
<1>6. CASE Finished \/ UNCHANGED vars
  BY <1>1, <1>6 DEF Finished, vars
<1> QED
  BY <1>2, <1>3, <1>4, <1>5, <1>6 DEF Next, HandleCell

LEMMA FragmentsInit == Init => FInv
<1> SUFFICES ASSUME Init PROVE FInv
  OBVIOUS
<1>1. Creates = {} /\ \A n \in Node, c \in Cid : frags[n][c] = {}
  BY DEF Init, Creates, EmptyBag, SetToBag, BagToSet
<1>2. NotBegun
  BY DEF Init, NotBegun
<1> QED
  BY <1>1, <1>2 DEF FInv, NextLayer, OneCell, OneBuffer, Somewhere, Buffered

LEMMA FragmentsInvariant == Spec => [](Basics /\ FInv)
<1>1. Init => Basics /\ FInv
  BY BasicsInit, FragmentsInit
<1>2. Basics /\ FInv /\ [Next]_vars => (Basics /\ FInv)'
  BY BasicsNext, FragmentsNext
<1> QED
  BY <1>1, <1>2, PTL DEF Spec

\* What a step does to the layers that have been peeled.
LEMMA LayersPeeled ==
  ASSUME Basics, Basics', FInv, [Next]_vars
  PROVE  \/ reached' = reached
         \/ \E m \in BagToSet(net) : CreateTerminal(m) \/ CreateRelay(m)
BY DEF Next, CallerStep, RuntimeStep, HandleCell, HandleCreate, HandleCreated, HandleDestroy,
       BuildRefused, BuildSend, CloseSend, CloseNothing, BuildPend, BuildTimer, BuildFail,
       BuildOpen, CloseRemove, CreateWaits, CreateRejected, CreatedWakes, CreatedForwarded,
       CreatedDropped, LoseCell, Finished, vars

\* The layers of a header are peeled in route order and once (node.rs:217), for any nodes,
\* builds and routes, in whatever order fragments arrive, next to those of other headers
\* under the same id, and whichever are lost.
THEOREM LayersPeeledInOrder == Spec => HeaderPeeledOnce
<1>1. ASSUME Basics, Basics', FInv, [Next]_vars
      PROVE  \A b \in Build : reached'[b] # reached[b] => reached'[b] = reached[b] + 1
  <2>1. CASE \E m \in BagToSet(net) : CreateTerminal(m) \/ CreateRelay(m)
    <3>1. PICK m \in BagToSet(net) : CreateTerminal(m) \/ CreateRelay(m)
      BY <2>1
    <3> QED
      BY <1>1, <3>1, PeelStep DEF Basics, TypeOK
  <2> QED
    BY <1>1, <2>1, LayersPeeled
<1> QED
  BY <1>1, FragmentsInvariant, PTL DEF HeaderPeeledOnce, Spec

-----------------------------------------------------------------------------
(* The answers to headers.                                                 *)

LEMMA InFlightIs ==
  \A x : x \in InFlight <=>
    \E m \in BagToSet(net) : m.cmd = "CREATED" /\ \E i \in 1..net[m] : x = <<m, i>>
BY DEF InFlight

\* The copies of CREATED that are left when m is consumed and S sent, of which k alone may
\* be a CREATED.
LEMMA CopiesConsumed ==
  ASSUME TypeOK, NEW m \in BagToSet(net), NEW S, NEW k, Consume(m, S),
         \A x \in S : x.cmd = "CREATED" => x = k
  PROVE  LET kept == InFlight \ {<<m, net[m]>>}
         IN  InFlight' \subseteq IF k \in S /\ k.cmd = "CREATED" THEN kept \cup {<<k, net'[k]>>}
                                                                 ELSE kept
<1>1. /\ IsABag(net) /\ \A x \in BagToSet(net) : net[x] \in Nat /\ net[x] > 0
  BY DEF TypeOK, IsABag, BagToSet
<1>2. /\ \A x \in BagToSet(net') : x \notin S =>
           /\ x \in BagToSet(net)
           /\ x # m => net'[x] = net[x]
           /\ x = m => net'[x] = net[m] - 1
      /\ \A x \in S : x \notin BagToSet(net) => net'[x] = 1
      /\ \A x \in S \cap BagToSet(net) : net'[x] = IF x = m THEN net[x] ELSE net[x] + 1
  BY <1>1, ConsumeCopies DEF Consume
<1> SUFFICES ASSUME NEW x \in BagToSet(net'), x.cmd = "CREATED", NEW i \in 1..net'[x],
                    k \in S /\ k.cmd = "CREATED" => <<x, i>> # <<k, net'[k]>>
             PROVE  <<x, i>> \in InFlight /\ <<x, i>> # <<m, net[m]>>
  BY InFlightIs DEF InFlight
<1>3. CASE x \notin S
  <2>1. x \in BagToSet(net) /\ net[x] \in Nat /\ net'[x] = IF x = m THEN net[x] - 1 ELSE net[x]
    BY <1>1, <1>2, <1>3
  <2>2. i \in 1..net[x] /\ (x = m => i # net[m])
    BY <2>1
  <2> QED
    BY <2>1, <2>2, InFlightIs
<1>4. CASE x \in S
  <2>1. x = k /\ i # net'[x]
    BY <1>4
  <2>2. CASE x \in BagToSet(net)
    <3>1. net[x] \in Nat /\ net'[x] = IF x = m THEN net[x] ELSE net[x] + 1
      BY <1>1, <1>2, <1>4, <2>2
    <3>2. i \in 1..net[x] /\ (x = m => i # net[m])
      BY <2>1, <3>1
    <3> QED
      BY <2>2, <3>2, InFlightIs
  <2>3. CASE x \notin BagToSet(net)
    BY <1>2, <1>4, <2>1, <2>3
  <2> QED
    BY <2>2, <2>3
<1> QED
  BY <1>3, <1>4

\* A cell that is in flight has a copy of its own.
LEMMA LastCopy ==
  ASSUME TypeOK, NEW m \in BagToSet(net), m.cmd = "CREATED"
  PROVE  <<m, net[m]>> \in InFlight
<1>1. net[m] \in Nat /\ net[m] > 0
  BY DEF TypeOK, IsABag, BagToSet
<1> QED
  BY <1>1, InFlightIs

\* Sending anything else adds no CREATED.
LEMMA NoCreatedSent ==
  ASSUME TypeOK, NEW S, Send(S), \A k \in S : k.cmd # "CREATED"
  PROVE  InFlight' \subseteq InFlight
<1>1. \A k \in BagToSet(net') : k \notin S => k \in BagToSet(net) /\ net'[k] = net[k]
  BY SendCopies DEF TypeOK, Send
<1> QED
  BY <1>1 DEF InFlight

\* Cardinalities of sets that lose or gain an element.
LEMMA Fewer ==
  ASSUME NEW A, IsFiniteSet(A), NEW x \in A, NEW A2 \in SUBSET (A \ {x})
  PROVE  /\ IsFiniteSet(A2) /\ Cardinality(A2) \in Nat /\ Cardinality(A) \in Nat
         /\ Cardinality(A2) + 1 <= Cardinality(A)
<1>1. IsFiniteSet(A \ {x}) /\ Cardinality(A \ {x}) = Cardinality(A) - 1
  BY FS_RemoveElement
<1>2. IsFiniteSet(A2) /\ Cardinality(A2) <= Cardinality(A \ {x})
  BY <1>1, FS_Subset
<1>3. Cardinality(A2) \in Nat /\ Cardinality(A) \in Nat
  BY <1>2, FS_CardinalityType
<1> QED
  BY <1>1, <1>2, <1>3

LEMMA More ==
  ASSUME NEW A, IsFiniteSet(A), NEW x, NEW A2 \in SUBSET (A \cup {x})
  PROVE  /\ IsFiniteSet(A2) /\ Cardinality(A2) \in Nat /\ Cardinality(A) \in Nat
         /\ Cardinality(A2) <= Cardinality(A) + 1
<1>1. /\ IsFiniteSet(A \cup {x})
      /\ Cardinality(A \cup {x}) = IF x \in A THEN Cardinality(A) ELSE Cardinality(A) + 1
  BY FS_AddElement
<1>2. IsFiniteSet(A2) /\ Cardinality(A2) <= Cardinality(A \cup {x})
  BY <1>1, FS_Subset
<1>3. Cardinality(A2) \in Nat /\ Cardinality(A) \in Nat
  BY <1>2, FS_CardinalityType
<1> QED
  BY <1>1, <1>2, <1>3

AInv ==
  /\ IsFiniteSet(InFlight) /\ IsFiniteSet(Answered) /\ IsFiniteSet(Connected)
  /\ CreatedConserved

LEMMA AnswersInit == Init => AInv
<1> SUFFICES ASSUME Init PROVE AInv
  OBVIOUS
<1>1. InFlight = {} /\ Answered = {} /\ Connected = {}
  <2>1. BagToSet(net) = {}
    BY DEF Init, EmptyBag, SetToBag, BagToSet
  <2> QED
    BY <2>1 DEF Init, InFlight, Answered, Connected
<1> QED
  BY <1>1, FS_EmptySet DEF AInv, CreatedConserved

\* No answer is given, and no route is reached to its end.
LEMMA AnswersLeft ==
  ASSUME AInv, InFlight' \subseteq InFlight, Answered' \subseteq Answered, Connected' = Connected
  PROVE  AInv'
<1>1. /\ IsFiniteSet(InFlight') /\ Cardinality(InFlight') <= Cardinality(InFlight)
      /\ IsFiniteSet(Answered') /\ Cardinality(Answered') <= Cardinality(Answered)
  BY FS_Subset DEF AInv
<1>2. /\ Cardinality(InFlight') \in Nat /\ Cardinality(InFlight) \in Nat
      /\ Cardinality(Answered') \in Nat /\ Cardinality(Answered) \in Nat
      /\ Cardinality(Connected) \in Nat
  BY <1>1, FS_CardinalityType DEF AInv
<1> QED
  BY <1>1, <1>2 DEF AInv, CreatedConserved

\* The terminal answers, which is the one answer of the build.
LEMMA TerminalAnswers ==
  ASSUME AInv, Basics, Basics', FInv, NEW m \in BagToSet(net), CreateTerminal(m)
  PROVE  AInv'
<1> DEFINE b == m.frag.build
           k == Signal("CREATED", m.to, PrevLink(m))
<1>0. TypeOK /\ TypeOK' /\ Consume(m, {k}) /\ UNCHANGED <<call, pc>> /\ m.frag.hop = Hops(b)
  BY DEF Basics, CreateTerminal
<1>1. /\ b \in Build /\ reached' = [reached EXCEPT ![b] = Hops(b)]
      /\ Hops(b) = reached[b] + 1
  BY <1>0, PeelStep
<1>2. Connected' = Connected \cup {b} /\ b \notin Connected
  BY <1>0, <1>1 DEF TypeOK, Connected, Hops
<1>3. InFlight' \subseteq InFlight \cup {<<k, net'[k]>>}
  <2> HIDE DEF k
  <2> QED
    BY <1>0, CopiesConsumed
<1>4. Answered' = Answered
  BY <1>0 DEF Answered
<1>5. /\ IsFiniteSet(InFlight') /\ Cardinality(InFlight') \in Nat /\ Cardinality(InFlight) \in Nat
      /\ Cardinality(InFlight') <= Cardinality(InFlight) + 1
  BY <1>3, More DEF AInv
<1>6. IsFiniteSet(Connected') /\ Cardinality(Connected') = Cardinality(Connected) + 1
  BY <1>2, FS_AddElement DEF AInv
<1>7. Cardinality(Answered) \in Nat /\ Cardinality(Connected) \in Nat
  BY FS_CardinalityType DEF AInv
<1> QED
  BY <1>4, <1>5, <1>6, <1>7 DEF AInv, CreatedConserved

\* A CREATED wakes one build at most.
LEMMA CreatedTaken ==
  ASSUME AInv, Basics, NEW m \in BagToSet(net), CreatedWakes(m)
  PROVE  AInv'
<1>0. TypeOK /\ m.cmd = "CREATED" /\ Consume(m, {}) /\ UNCHANGED <<call, reached>>
  BY DEF Basics, CreatedWakes
<1>1. InFlight' \subseteq InFlight \ {<<m, net[m]>>}
  <2> DEFINE S == {}
  <2>1. Consume(m, S) /\ m \notin S /\ \A x \in S : x.cmd = "CREATED" => x = m
    BY <1>0
  <2> HIDE DEF S
  <2> QED
    BY <1>0, <2>1, CopiesConsumed
<1>2. PICK b \in Build : Answered' \subseteq Answered \cup {b}
  BY DEF CreatedWakes, Pending, Answered
<1>3. Connected' = Connected
  BY <1>0 DEF Connected, Hops
<1>4. /\ IsFiniteSet(InFlight') /\ Cardinality(InFlight') \in Nat /\ Cardinality(InFlight) \in Nat
      /\ Cardinality(InFlight') + 1 <= Cardinality(InFlight)
  BY <1>0, <1>1, LastCopy, Fewer DEF AInv
<1>5. /\ IsFiniteSet(Answered') /\ Cardinality(Answered') \in Nat /\ Cardinality(Answered) \in Nat
      /\ Cardinality(Answered') <= Cardinality(Answered) + 1
  BY <1>2, More DEF AInv
<1>6. Cardinality(Connected) \in Nat
  BY FS_CardinalityType DEF AInv
<1> QED
  BY <1>3, <1>4, <1>5, <1>6 DEF AInv, CreatedConserved

\* A relay hands on the CREATED it was handed.
LEMMA CreatedHandedBack ==
  ASSUME AInv, Basics, NEW m \in BagToSet(net), CreatedForwarded(m)
  PROVE  AInv'
<1> DEFINE k == Signal("CREATED", m.to, Entry(m).prev)
           x == <<m, net[m]>>
           y == <<k, net'[k]>>
           kept == InFlight \ {x}
<1>0. TypeOK /\ m.cmd = "CREATED" /\ Consume(m, {k}) /\ UNCHANGED <<call, pc, reached>>
  BY DEF Basics, CreatedForwarded
<1>1. InFlight' \subseteq kept \cup {y}
  <2> HIDE DEF k
  <2> QED
    BY <1>0, CopiesConsumed
<1>2. Answered' = Answered /\ Connected' = Connected
  BY <1>0 DEF Answered, Connected, Hops
<1>3. x \in InFlight
  BY <1>0, LastCopy
<1> HIDE DEF x, y
<1>4. /\ IsFiniteSet(kept) /\ Cardinality(kept) \in Nat /\ Cardinality(InFlight) \in Nat
      /\ Cardinality(kept) + 1 <= Cardinality(InFlight)
  BY <1>3, Fewer DEF AInv
<1> HIDE DEF kept
<1>5. /\ IsFiniteSet(InFlight') /\ Cardinality(InFlight') \in Nat
      /\ Cardinality(InFlight') <= Cardinality(kept) + 1
  BY <1>1, <1>4, More
<1>6. Cardinality(Connected) \in Nat /\ Cardinality(Answered) \in Nat
  BY FS_CardinalityType DEF AInv
<1> QED
  BY <1>2, <1>4, <1>5, <1>6 DEF AInv, CreatedConserved

\* A handler that sends no CREATED and wakes nobody gives no answer.
LEMMA NothingAnswered ==
  ASSUME AInv, Basics, NEW m \in BagToSet(net), NEW S, Consume(m, S),
         \A k \in S : k.cmd # "CREATED", UNCHANGED <<call, pc>>, Connected' = Connected
  PROVE  AInv'
<1>1. InFlight' \subseteq InFlight
  <2>1. \A k \in S : k.cmd = "CREATED" => k = m
    OBVIOUS
  <2>2. m \in S => m.cmd # "CREATED"
    OBVIOUS
  <2> QED
    BY <2>1, <2>2, CopiesConsumed DEF Basics
<1>2. Answered' = Answered
  BY DEF Answered
<1> QED
  BY <1>1, <1>2, AnswersLeft

LEMMA AnswersNext ==
  ASSUME AInv, Basics, Basics', FInv, [Next]_vars
  PROVE  AInv'
<1>0. TypeOK /\ TypeOK'
  BY DEF Basics
<1>1. UNCHANGED <<call, reached>> => Connected' = Connected
  BY DEF Connected, Hops
<1>2. ASSUME NEW b \in Build, CallerStep(b) \/ RuntimeStep(b) PROVE AInv'
  <2>1. Answered' \subseteq Answered
    BY <1>0, <1>2
    DEF CallerStep, RuntimeStep, BuildRefused, BuildSend, CloseSend, CloseNothing, BuildPend,
        BuildTimer, BuildFail, BuildOpen, CloseRemove, TypeOK, Answered
  <2>2. InFlight' \subseteq InFlight
    <3>1. CASE BuildSend(b)
      <4>1. PICK link : Send(CreateCells(b, 1, link))
        BY <3>1 DEF BuildSend
      <4>2. \A k \in CreateCells(b, 1, link) : k.cmd # "CREATED"
        BY HeaderCells
      <4> QED
        BY <1>0, <4>1, <4>2, NoCreatedSent
    <3>2. CASE CloseSend(b)
      <4>1. PICK link : Send({Signal("DESTROY", Client(b), link)})
        BY <3>2 DEF CloseSend
      <4>2. \A k \in {Signal("DESTROY", Client(b), link)} : k.cmd # "CREATED"
        BY DEF Signal
      <4> QED
        BY <1>0, <4>1, <4>2, NoCreatedSent
    <3>3. CASE net' = net
      BY <3>3 DEF InFlight
    <3> QED
      BY <1>2, <3>1, <3>2, <3>3 DEF CallerStep, RuntimeStep, BuildRefused, CloseNothing,
         BuildPend, BuildTimer, BuildFail, BuildOpen, CloseRemove
  <2>3. UNCHANGED <<call, reached>>
    BY <1>2 DEF CallerStep, RuntimeStep, BuildRefused, BuildSend, CloseSend, CloseNothing,
       BuildPend, BuildTimer, BuildFail, BuildOpen, CloseRemove
  <2> QED
    BY <1>1, <2>1, <2>2, <2>3, AnswersLeft
<1>3. ASSUME NEW m \in BagToSet(net), CreateRelay(m) PROVE AInv'
  <2> DEFINE b == m.frag.build
             h == m.frag.hop
  <2>1. PICK link : Consume(m, CreateCells(b, h + 1, link))
    BY <1>3 DEF CreateRelay, RelaySends
  <2>2. \A k \in CreateCells(b, h + 1, link) : k.cmd # "CREATED"
    BY HeaderCells
  <2>3. Connected' = Connected
    <3>1. /\ b \in Build /\ reached' = [reached EXCEPT ![b] = h] /\ h = reached[b] + 1
          /\ h < Hops(b) /\ Hops(b) \in Nat /\ call' = call
      BY <1>0, <1>3, PeelStep, HopsType DEF CreateRelay, TypeOK
    <3>2. \A d \in Build : d # b => reached'[d] = reached[d]
      BY <1>0, <3>1 DEF TypeOK
    <3>3. reached'[b] = h /\ reached[b] \in Nat /\ h \in Nat
      BY <1>0, <3>1 DEF TypeOK
    <3>4. reached'[b] # Hops(b) /\ reached[b] # Hops(b)
      BY <3>1, <3>3
    <3> QED
      BY <3>1, <3>2, <3>4 DEF Connected, Hops
  <2>4. UNCHANGED <<call, pc>>
    BY <1>3 DEF CreateRelay
  <2> QED
    BY <2>1, <2>2, <2>3, <2>4, NothingAnswered
<1>4. ASSUME NEW m \in BagToSet(net), Consume(m, {}), UNCHANGED <<call, pc, reached>> PROVE AInv'
  <2>1. \A k \in {} : k.cmd # "CREATED"
    OBVIOUS
  <2> QED
    BY <1>1, <1>4, <2>1, NothingAnswered
<1>5. ASSUME NEW m \in BagToSet(net), HandleDestroy(m) PROVE AInv'
  <2>1. UNCHANGED <<call, pc, reached>>
    BY <1>5 DEF HandleDestroy
  <2>2. CASE Consume(m, {})
    BY <1>4, <2>1, <2>2
  <2>3. CASE Consume(m, {Signal("DESTROY", m.to, Entry(m).prev)})
    <3>1. \A k \in {Signal("DESTROY", m.to, Entry(m).prev)} : k.cmd # "CREATED"
      BY DEF Signal
    <3> QED
      BY <1>1, <2>1, <2>3, <3>1, NothingAnswered
  <2> QED
    BY <1>5, <2>2, <2>3 DEF HandleDestroy
<1>6. ASSUME NEW m \in BagToSet(net), CreateWaits(m) \/ CreateRejected(m) \/ CreatedDropped(m)
      PROVE  AInv'
  BY <1>4, <1>6 DEF CreateWaits, CreateRejected, CreatedDropped
<1>7. CASE LoseCell
  BY <1>4, <1>7 DEF LoseCell
<1>8. CASE Finished \/ UNCHANGED vars
  <2>1. UNCHANGED <<call, pc, net, reached>>
    BY <1>8 DEF Finished, vars
  <2>2. InFlight' = InFlight /\ Answered' = Answered /\ Connected' = Connected
    BY <1>1, <2>1 DEF InFlight, Answered
  <2> QED
    BY <2>2, AnswersLeft
<1>9. ASSUME NEW m \in BagToSet(net), HandleCreate(m) \/ HandleCreated(m) PROVE AInv'
  BY <1>3, <1>6, <1>9, TerminalAnswers, CreatedTaken, CreatedHandedBack
  DEF HandleCreate, HandleCreated
<1> QED
  BY <1>2, <1>5, <1>7, <1>8, <1>9 DEF Next, HandleCell

LEMMA AnswersInvariant == Spec => [](Basics /\ FInv /\ AInv)
<1>1. Init => Basics /\ FInv /\ AInv
  BY BasicsInit, FragmentsInit, AnswersInit
<1>2. Basics /\ FInv /\ AInv /\ [Next]_vars => (Basics /\ FInv /\ AInv)'
  BY BasicsNext, FragmentsNext, AnswersNext
<1> QED
  BY <1>1, <1>2, PTL DEF Spec

\* No CREATED is made of nothing (node.rs:235, 298, 313): those in flight and those that
\* woke a build are never more than the routes reached to their end, for any nodes, builds
\* and routes, whichever way they went and whichever builds they woke.
THEOREM AnswersConserved == Spec => []CreatedConserved
<1>1. AInv => CreatedConserved
  BY DEF AInv
<1> QED
  BY <1>1, AnswersInvariant, PTL

-----------------------------------------------------------------------------
(* Every step of the control plane is a step of the service, or none.      *)

HopsMap == [b \in Build |-> Hops(b)]
PhaseMap == [b \in Build |-> Phase(b)]
ReachedMap == [b \in Build |-> IF Alone(b) THEN reached[b] ELSE 0]

LEMMA RoutesStay ==
  ASSUME call' = call
  PROVE  /\ HopsMap' = HopsMap
         /\ \A b : Hops(b)' = Hops(b) /\ Alone(b)' = Alone(b)
<1>1. \A b : Hops(b)' = Hops(b) /\ LegalRoute(b)' = LegalRoute(b)
  BY DEF Hops, LegalRoute
<1> QED
  BY <1>1 DEF HopsMap, Alone

\* What the phase of a build is made of.
PhaseOf(alone, p) ==
  IF ~ alone THEN "idle"
  ELSE IF p \in {"sent", "waiting", "woken"} THEN "building"
  ELSE IF p = "expired" THEN "failed"
  ELSE IF p \in {"closing", "closed"} THEN "closed"
  ELSE p

LEMMA PhaseIs ==
  ASSUME NEW b
  PROVE  /\ Phase(b) = PhaseOf(Alone(b), pc[b])
         /\ Phase(b)' = PhaseOf(Alone(b)', pc'[b])
<1>1. Phase(b) = PhaseOf(Alone(b), pc[b])
  BY DEF Phase, PhaseOf
<1>2. Phase(b)' = PhaseOf(Alone(b)', pc'[b])
  BY DEF Phase, PhaseOf
<1> QED
  BY <1>1, <1>2

LEMMA ServiceInit == Init => Service!Init
<1> SUFFICES ASSUME Init PROVE Service!Init
  OBVIOUS
<1>1. HopsMap \in [Build -> Nat]
  BY HopsType DEF Init, HopsMap
<1>2. PhaseMap = [b \in Build |-> "idle"]
  BY PhaseIs DEF Init, PhaseMap, PhaseOf
<1>3. ReachedMap = [b \in Build |-> 0]
  BY DEF Init, ReachedMap
<1> QED
  BY <1>1, <1>2, <1>3 DEF Service!Init, HopsMap, PhaseMap, ReachedMap

\* Where one build goes on, its phase alone may change.
LEMMA PhaseMoves ==
  ASSUME TypeOK, NEW b \in Build, NEW p, pc' = [pc EXCEPT ![b] = p], UNCHANGED <<call, reached>>
  PROVE  /\ Service!To(b, Phase(b)')
         /\ Phase(b)' = Phase(b) => UNCHANGED Service!vars
         /\ ~ Alone(b) => Phase(b)' = Phase(b)
<1>1. HopsMap' = HopsMap /\ \A d : Alone(d)' = Alone(d)
  BY RoutesStay
<1>2. \A d \in Build : d # b => Phase(d)' = Phase(d)
  BY <1>1, PhaseIs DEF TypeOK, PhaseOf
<1>3. PhaseMap' = [PhaseMap EXCEPT ![b] = Phase(b)']
  BY <1>2 DEF PhaseMap
<1>4. ReachedMap' = ReachedMap
  BY <1>1 DEF ReachedMap
<1>5. Phase(b)' = Phase(b) => PhaseMap' = PhaseMap
  BY <1>2 DEF PhaseMap
<1>6. ~ Alone(b) => Phase(b)' = Phase(b)
  BY <1>1, PhaseIs DEF PhaseOf
<1>7. Service!To(b, Phase(b)')
  BY <1>1, <1>3, <1>4 DEF Service!To, HopsMap, PhaseMap, ReachedMap
<1>8. Phase(b)' = Phase(b) => UNCHANGED Service!vars
  BY <1>1, <1>4, <1>5 DEF Service!vars, HopsMap, PhaseMap, ReachedMap
<1> QED
  BY <1>6, <1>7, <1>8

LEMMA ServiceStutters ==
  ASSUME UNCHANGED <<call, pc, reached>>
  PROVE  UNCHANGED Service!vars
<1>1. HopsMap' = HopsMap /\ \A d : Alone(d)' = Alone(d)
  BY RoutesStay
<1>2. PhaseMap' = PhaseMap /\ ReachedMap' = ReachedMap
  BY <1>1, PhaseIs DEF PhaseMap, PhaseOf, ReachedMap
<1> QED
  BY <1>1, <1>2 DEF Service!vars, HopsMap, PhaseMap, ReachedMap

\* A build that is alone and was woken has reached every hop: it was its own answer.
LEMMA WokenByItsOwn ==
  ASSUME Basics, AInv, NEW b \in Answered, Alone(b)
  PROVE  reached[b] = Hops(b)
<1>1. /\ IsFiniteSet(InFlight) /\ IsFiniteSet(Answered) /\ IsFiniteSet(Connected)
      /\ Cardinality(InFlight) + Cardinality(Answered) <= Cardinality(Connected)
  BY DEF AInv, CreatedConserved
<1>2. /\ Cardinality(InFlight) \in Nat /\ Cardinality(Answered) \in Nat
      /\ Cardinality(Connected) \in Nat /\ Cardinality(Answered) # 0
  BY <1>1, FS_CardinalityType, FS_EmptySet
<1>3. Cardinality(Connected) # 0
  BY <1>1, <1>2
<1>4. PICK c \in Connected : TRUE
  BY <1>1, <1>3, FS_EmptySet
<1>5. c \in Build /\ reached[c] = Hops(c) /\ Hops(c) # 0 /\ reached[c] \in 0..MaxHops
  BY <1>4 DEF Connected, Basics, TypeOK
<1>6. LegalRoute(c)
  BY <1>5, BoundAssumption DEF LegalRoute
<1> QED
  BY <1>5, <1>6 DEF Alone

\* The steps of a build.
LEMMA BuildMaps ==
  ASSUME Basics, AInv, NEW b \in Build, CallerStep(b) \/ RuntimeStep(b)
  PROVE  [Service!Next]_(Service!vars)
<1>0. TypeOK /\ UNCHANGED <<call, reached>> /\ pc \in [Build -> PCs] /\ Alone(b)' = Alone(b)
      /\ HopsMap[b] = Hops(b) /\ PhaseMap[b] = Phase(b)
      /\ ReachedMap[b] = IF Alone(b) THEN reached[b] ELSE 0
  BY RoutesStay
  DEF CallerStep, RuntimeStep, BuildRefused, BuildSend, CloseSend, CloseNothing, BuildPend,
      BuildTimer, BuildFail, BuildOpen, CloseRemove, Basics, TypeOK, HopsMap, PhaseMap, ReachedMap
<1>1. PICK p \in PCs : pc' = [pc EXCEPT ![b] = p]
  BY DEF CallerStep, RuntimeStep, BuildRefused, BuildSend, CloseSend, CloseNothing, BuildPend,
      BuildTimer, BuildFail, BuildOpen, CloseRemove, PCs
<1>2. pc'[b] = p
  BY <1>0, <1>1
<1>3. /\ Service!To(b, Phase(b)')
      /\ Phase(b)' = Phase(b) => UNCHANGED Service!vars
      /\ ~ Alone(b) => Phase(b)' = Phase(b)
  BY <1>0, <1>1, PhaseMoves
<1>4. CASE ~ Alone(b)
  BY <1>3, <1>4
<1>5. CASE Alone(b) /\ BuildRefused(b)
  <2>1. Phase(b) = "idle" /\ Phase(b)' = "failed"
    BY <1>0, <1>5, PhaseIs DEF BuildRefused, PhaseOf
  <2>2. Service!Refuse(b)
    BY <1>0, <1>3, <2>1 DEF Service!Refuse, PhaseMap
  <2> QED
    BY <2>2 DEF Service!Next
<1>6. CASE Alone(b) /\ BuildSend(b)
  <2>1. Phase(b) = "idle" /\ Phase(b)' = "building" /\ Hops(b) \in 1..MaxHops
    BY <1>0, <1>6, PhaseIs DEF BuildSend, PhaseOf, LegalRoute
  <2>2. Service!Start(b)
    BY <1>0, <1>3, <2>1 DEF Service!Start, PhaseMap, HopsMap
  <2> QED
    BY <2>2 DEF Service!Next
<1>7. CASE Alone(b) /\ (BuildPend(b) \/ BuildFail(b) \/ CloseRemove(b))
  <2>1. Phase(b)' = Phase(b)
    BY <1>0, <1>7, PhaseIs DEF BuildPend, BuildFail, CloseRemove, PhaseOf
  <2> QED
    BY <1>3, <2>1
<1>8. CASE Alone(b) /\ BuildTimer(b)
  <2>1. Phase(b) = "building" /\ Phase(b)' = "failed"
    BY <1>0, <1>8, PhaseIs DEF BuildTimer, PhaseOf
  <2>2. Service!GiveUp(b)
    BY <1>0, <1>3, <2>1 DEF Service!GiveUp, PhaseMap
  <2> QED
    BY <2>2 DEF Service!Next
<1>9. CASE Alone(b) /\ BuildOpen(b)
  <2>1. Phase(b) = "building" /\ Phase(b)' = "open" /\ b \in Answered
    BY <1>0, <1>9, PhaseIs DEF BuildOpen, PhaseOf, Answered
  <2>2. reached[b] = Hops(b)
    BY <1>9, <2>1, WokenByItsOwn
  <2>3. Service!Open(b)
    BY <1>0, <1>3, <1>9, <2>1, <2>2 DEF Service!Open, PhaseMap, HopsMap, ReachedMap
  <2> QED
    BY <2>3 DEF Service!Next
<1>10. CASE Alone(b) /\ (CloseSend(b) \/ CloseNothing(b))
  <2>1. Phase(b) = "open" /\ Phase(b)' = "closed"
    BY <1>0, <1>10, PhaseIs DEF CloseSend, CloseNothing, PhaseOf
  <2>2. Service!Close(b)
    BY <1>0, <1>3, <2>1 DEF Service!Close, PhaseMap
  <2> QED
    BY <2>2 DEF Service!Next
<1> QED
  BY <1>4, <1>5, <1>6, <1>7, <1>8, <1>9, <1>10 DEF CallerStep, RuntimeStep

\* A layer is peeled.
LEMMA PeelMaps ==
  ASSUME Basics, Basics', FInv, NEW m \in BagToSet(net), CreateTerminal(m) \/ CreateRelay(m)
  PROVE  [Service!Next]_(Service!vars)
<1> DEFINE b == m.frag.build
<1>0. /\ b \in Build /\ reached' = [reached EXCEPT ![b] = m.frag.hop] /\ UNCHANGED <<call, pc>>
      /\ m.frag.hop = reached[b] + 1 /\ m.frag.hop <= Hops(b) /\ pc[b] # "idle"
      /\ TypeOK /\ reached[b] \in Nat /\ Hops(b) \in Nat
  <2>1. /\ b \in Build /\ reached' = [reached EXCEPT ![b] = m.frag.hop]
        /\ m.frag.hop = reached[b] + 1 /\ m.frag.hop <= Hops(b) /\ pc[b] # "idle"
    BY PeelStep
  <2>2. UNCHANGED <<call, pc>>
    BY DEF CreateTerminal, CreateRelay
  <2>3. TypeOK /\ reached[b] \in Nat /\ Hops(b) \in Nat
    BY <2>1, HopsType DEF Basics, TypeOK
  <2> QED
    BY <2>1, <2>2, <2>3
<1> HIDE DEF b
<1>1. HopsMap' = HopsMap /\ \A d : Alone(d)' = Alone(d)
  BY <1>0, RoutesStay
<1>2. PhaseMap' = PhaseMap
  BY <1>0, <1>1, PhaseIs DEF PhaseMap, PhaseOf
<1>3. \A d \in Build : reached'[d] = IF d = b THEN reached[b] + 1 ELSE reached[d]
  BY <1>0 DEF TypeOK
<1>4. CASE ~ Alone(b)
  <2>1. ReachedMap' = ReachedMap
    BY <1>1, <1>3, <1>4 DEF ReachedMap
  <2> QED
    BY <1>1, <1>2, <2>1 DEF Service!vars, HopsMap, PhaseMap, ReachedMap
<1>5. CASE Alone(b)
  <2>1. ReachedMap' = [ReachedMap EXCEPT ![b] = ReachedMap[b] + 1]
    BY <1>0, <1>1, <1>3, <1>5 DEF ReachedMap
  <2>2. Phase(b) # "idle"
    BY <1>0, <1>5, PhaseIs DEF PhaseOf, TypeOK, PCs
  <2>3. PhaseMap[b] # "idle" /\ ReachedMap[b] < HopsMap[b]
    BY <1>0, <1>5, <2>2 DEF PhaseMap, ReachedMap, HopsMap
  <2>4. Service!Extend(b)
    BY <1>1, <1>2, <2>1, <2>3 DEF Service!Extend, PhaseMap, ReachedMap, HopsMap
  <2> QED
    BY <1>0, <2>4 DEF Service!Next
<1> QED
  BY <1>4, <1>5

\* An answer wakes a build, which goes on building, or one that has failed, which has.
LEMMA WakesMaps ==
  ASSUME Basics, NEW m \in BagToSet(net), CreatedWakes(m)
  PROVE  [Service!Next]_(Service!vars)
<1>1. PICK b \in Pending(m) : pc' = [pc EXCEPT ![b] = IF pc[b] = "waiting" THEN "woken" ELSE "failed"]
  BY DEF CreatedWakes
<1>2. /\ TypeOK /\ UNCHANGED <<call, reached>> /\ b \in Build /\ pc[b] \in {"waiting", "expired"}
      /\ Alone(b)' = Alone(b) /\ PhaseMap[b] = Phase(b)
  BY RoutesStay DEF Basics, CreatedWakes, Pending, PhaseMap
<1>3. /\ Service!To(b, Phase(b)')
      /\ Phase(b)' = Phase(b) => UNCHANGED Service!vars
      /\ ~ Alone(b) => Phase(b)' = Phase(b)
  BY <1>1, <1>2, PhaseMoves
<1>4. pc'[b] = IF pc[b] = "waiting" THEN "woken" ELSE "failed"
  BY <1>1, <1>2 DEF TypeOK
<1>5. Phase(b)' = Phase(b)
  BY <1>2, <1>4, PhaseIs DEF PhaseOf
<1> QED
  BY <1>3, <1>5

\* The control plane keeps its promise to a build that is alone (builder.rs:26, 131): it
\* opens only over its whole route, hop by hop, and never after its timer has fired, also
\* when an answer comes before it leaves `pending'; for any nodes, builds and routes,
\* whatever the network loses.
THEOREM ControlPlaneServes == Spec => Service!Spec
<1>1. ASSUME Basics, Basics', FInv, AInv, [Next]_vars PROVE [Service!Next]_(Service!vars)
  <2>1. ASSUME NEW b \in Build, CallerStep(b) \/ RuntimeStep(b)
        PROVE  [Service!Next]_(Service!vars)
    BY <1>1, <2>1, BuildMaps
  <2>2. ASSUME NEW m \in BagToSet(net), HandleCreate(m) \/ HandleCreated(m) \/ HandleDestroy(m)
        PROVE  [Service!Next]_(Service!vars)
    <3>1. CASE CreateTerminal(m) \/ CreateRelay(m)
      BY <1>1, <3>1, PeelMaps
    <3>2. CASE CreatedWakes(m)
      BY <1>1, <3>2, WakesMaps
    <3>3. CASE CreateWaits(m) \/ CreateRejected(m) \/ CreatedForwarded(m) \/ CreatedDropped(m)
               \/ HandleDestroy(m)
      BY <3>3, ServiceStutters
      DEF CreateWaits, CreateRejected, CreatedForwarded, CreatedDropped, HandleDestroy
    <3> QED
      BY <2>2, <3>1, <3>2, <3>3 DEF HandleCreate, HandleCreated
  <2>3. CASE LoseCell \/ Finished \/ UNCHANGED vars
    BY <2>3, ServiceStutters DEF LoseCell, Finished, vars
  <2> QED
    BY <1>1, <2>1, <2>2, <2>3 DEF Next, HandleCell
<1> QED
  BY ServiceInit, <1>1, AnswersInvariant, PTL DEF Spec, Service!Spec
=============================================================================
