---------------------------- MODULE Sphinx_proofs ----------------------------
(***************************************************************************)
(* Proofs about the header, for every curve with the assumed laws, every   *)
(* route and every draw of scalars: a header opens at the hop it is for,   *)
(* and that hop agrees with the origin.                                    *)
(***************************************************************************)
EXTENDS SphinxProps, SequenceTheorems, TLAPS

-----------------------------------------------------------------------------
(* The inductive invariant.                                                *)

\* The scalar hop t uses: the one drawn for it, blinded by the hops before it.
Eff(t) == Mul(rawX[t], accs[t])

\* What the first loop of build_header has computed.
Drawn ==
  /\ Hops \in Nat /\ \A t \in 1..Hops : route[t] \in Node
  /\ rawX \in Seq(Scalar) /\ ssX \in Seq(Point) /\ accs \in Seq(Scalar)
  /\ Len(ssX) = Len(rawX) /\ Len(accs) = Len(rawX) + 1 /\ Len(rawX) <= Hops
  /\ accs[1] = One
  /\ \A t \in 1..Len(rawX) :
       ssX[t] = Dh(route[t], Eff(t)) /\ accs[t + 1] = Mul(accs[t], Hash(ssX[t], Eff(t)))

\* What the second has: the layers of the last hops, in route order.
Sealed ==
  /\ Len(rawX) = Hops /\ Hops >= 1
  /\ blobs \in Seq(Layer)
  /\ Len(blobs) <= Hops
  /\ \A k \in 1..Len(blobs) : blobs[k] = LayerOf(Hops - Len(blobs) + k)

\* The header that hop t = HopOf(n) is to find: its own alpha and those behind it are
\* blinded by the hops before t, and its layer is the first of those left.
OnItsWay(h) ==
  /\ h.n \in 1..Hops
  /\ h = [n |-> h.n,
          alphas |-> [k \in 1..h.n |-> Mul(rawX[Hops - h.n + k], accs[HopOf(h.n)])],
          tail |-> [k \in 1..h.n |-> LayerOf(Hops - h.n + k)]]

Agrees(o) ==
  LET t == HopOf(o.n) IN
  /\ o.n \in 1..Hops
  /\ o = [node |-> route[t], n |-> o.n, keys |-> OriginKeys(t), next |-> NextOf(t)]

IInv ==
  /\ route \in Route
  /\ Drawn
  /\ stage = "draw" /\ Hops # 0 => Len(rawX) < Hops
  /\ stage \in {"draw", "refused"} => blobs = << >> /\ headers = {} /\ joined = {}
  /\ stage = "seal" => Sealed /\ headers = {} /\ joined = {}
  /\ stage = "built" =>
       /\ Sealed
       /\ \A h \in headers : OnItsWay(h)
       /\ \A o \in joined : Agrees(o)
  /\ stage \in {"draw", "seal", "built", "refused"}

-----------------------------------------------------------------------------
(* Lemmas about the layers and the headers on their way.                   *)

\* A layer of the route is a layer.
LEMMA LayerType ==
  ASSUME Drawn, Len(rawX) = Hops, NEW t \in 1..Hops
  PROVE  LayerOf(t) \in Layer
<1>1. ssX[t] \in Point /\ route[t] \in Node /\ t \in Nat /\ NonceOf(t) \in Nat
  BY DEF Drawn, NonceOf
<1>2. NextOf(t) \in Node \cup {Terminal}
  BY DEF Drawn, NextOf
<1> QED
  BY <1>1, <1>2 DEF LayerOf, Layer, Ct

\* The parts of a header on its way, as the hop it is for finds them.
LEMMA WayFacts ==
  ASSUME Drawn, Len(rawX) = Hops, NEW h, OnItsWay(h)
  PROVE  LET t == HopOf(h.n) IN
         /\ t \in 1..Hops
         /\ h.alphas \in Seq(Scalar) /\ Len(h.alphas) = h.n
         /\ h.tail \in Seq(Layer) /\ Len(h.tail) = h.n
         /\ h.alphas[1] = Eff(t)
         /\ h.tail[1] = LayerOf(t)
         /\ \A k \in 1..h.n : /\ h.alphas[k] = Mul(rawX[Hops - h.n + k], accs[t])
                              /\ h.tail[k] = LayerOf(Hops - h.n + k)
<1> DEFINE t == HopOf(h.n)
<1>1. t \in 1..Hops /\ h.n \in 1..Hops /\ Hops \in Nat /\ t = Hops - h.n + 1
  BY DEF OnItsWay, HopOf, Drawn
<1>2. \A k \in 1..h.n : Hops - h.n + k \in 1..Hops
  BY <1>1
<1>3. \A k \in 1..h.n : Mul(rawX[Hops - h.n + k], accs[t]) \in Scalar
  <2>1. \A i \in 1..Hops : rawX[i] \in Scalar /\ accs[i] \in Scalar
    BY DEF Drawn
  <2> QED
    BY <1>1, <1>2, <2>1, ScalarAssumption
<1>4. h.alphas = [k \in 1..h.n |-> Mul(rawX[Hops - h.n + k], accs[t])]
  BY DEF OnItsWay
<1>5. h.tail = [k \in 1..h.n |-> LayerOf(Hops - h.n + k)]
  BY DEF OnItsWay
<1>6. \A k \in 1..h.n : LayerOf(Hops - h.n + k) \in Layer
  BY <1>2, LayerType
<1>7. h.alphas \in Seq(Scalar) /\ Len(h.alphas) = h.n
  BY <1>1, <1>3, <1>4
<1>8. h.tail \in Seq(Layer) /\ Len(h.tail) = h.n
  <2> DEFINE L(k) == LayerOf(Hops - h.n + k)
  <2>1. h.tail = [k \in 1..h.n |-> L(k)] /\ \A k \in 1..h.n : L(k) \in Layer
    BY <1>5, <1>6
  <2> HIDE DEF L
  <2> QED
    BY <1>1, <2>1
<1>9. \A k \in 1..h.n : /\ h.alphas[k] = Mul(rawX[Hops - h.n + k], accs[t])
                        /\ h.tail[k] = LayerOf(Hops - h.n + k)
  BY <1>4, <1>5
<1>10. 1 \in 1..h.n
  BY <1>1
<1> QED
  BY <1>1, <1>7, <1>8, <1>9, <1>10 DEF Eff

\* Only the node of the hop it is for opens a header on its way.
LEMMA OpensThere ==
  ASSUME Drawn, Len(rawX) = Hops, NEW h, OnItsWay(h), NEW m \in Node
  PROVE  Opens(m, h) <=> m = route[HopOf(h.n)]
<1> DEFINE t == HopOf(h.n)
<1>1. /\ t \in 1..Hops /\ h.n \in 1..Hops /\ Hops \in Nat
      /\ Len(h.alphas) = h.n /\ Len(h.tail) = h.n
      /\ h.alphas[1] = Eff(t) /\ h.tail[1] = LayerOf(t)
  BY WayFacts DEF OnItsWay, Drawn
<1>2. WellFormed(h)
  BY <1>1 DEF WellFormed
<1>3. h.tail[1].nonce = h.n
  BY <1>1 DEF LayerOf, NonceOf, HopOf
<1>4. h.tail[1].ss = Dh(route[t], Eff(t))
  BY <1>1 DEF LayerOf, Drawn
<1>5. Eff(t) \in Scalar /\ route[t] \in Node
  <2>1. rawX[t] \in Scalar /\ accs[t] \in Scalar /\ route[t] \in Node
    BY <1>1 DEF Drawn
  <2> QED
    BY <2>1, ScalarAssumption DEF Eff
<1> QED
  BY <1>1, <1>2, <1>3, <1>4, <1>5, PointAssumption DEF Opens, SharedPoint

\* The places of a sequence without its first.
LEMMA TailAt ==
  ASSUME NEW S, NEW s \in Seq(S), NEW n \in Nat, Len(s) = n + 1
  PROVE  Tail(s) = [k \in 1..n |-> s[k + 1]]
<1>1. s # << >>
  OBVIOUS
<1>2. Tail(s) \in Seq(S) /\ Len(Tail(s)) = n
  BY <1>1
<1>3. \A k \in 1..n : Tail(s)[k] = s[k + 1]
  BY <1>1
<1>4. Tail(s) \in [1..n -> S]
  BY <1>2, LenProperties
<1> QED
  BY <1>3, <1>4

\* Places in a header that is one hop shorter.
LEMMA Shift ==
  ASSUME NEW H \in Nat, NEW N \in 1..H, NEW k \in 1..(N - 1)
  PROVE  k + 1 \in 1..N /\ H - N + (k + 1) = H - (N - 1) + k /\ H - (N - 1) + k \in 1..H
OBVIOUS

\* The hop behind the one that opens a header finds its own, as blinded as it expects.
LEMMA HandedOn ==
  ASSUME Drawn, Len(rawX) = Hops, NEW h, OnItsWay(h), h.n > 1,
         NEW m, m = route[HopOf(h.n)]
  PROVE  OnItsWay(NewHeader(m, h))
<1> DEFINE t == HopOf(h.n)
           n == h.n - 1
           b == Hash(SharedPoint(m, h), h.alphas[1])
           new == NewHeader(m, h)
<1>1. /\ t \in 1..Hops /\ h.n \in 1..Hops /\ Hops \in Nat /\ n \in 1..Hops
      /\ t = Hops - h.n + 1 /\ HopOf(n) = t + 1 /\ t + 1 \in 1..Hops
  BY WayFacts DEF OnItsWay, Drawn, HopOf
<1>2. /\ h.alphas[1] = Eff(t)
      /\ h.tail \in Seq(Layer) /\ Len(h.tail) = h.n
      /\ \A k \in 1..h.n : /\ h.alphas[k] = Mul(rawX[Hops - h.n + k], accs[t])
                           /\ h.tail[k] = LayerOf(Hops - h.n + k)
  BY WayFacts
<1>3. b = Hash(ssX[t], Eff(t)) /\ accs[t + 1] = Mul(accs[t], b)
  BY <1>1, <1>2 DEF Drawn, SharedPoint
<1>4. b \in Scalar /\ accs[t] \in Scalar /\ \A i \in 1..Hops : rawX[i] \in Scalar
  <2>1. ssX[t] \in Point /\ accs[t] \in Scalar /\ \A i \in 1..Hops : rawX[i] \in Scalar
    BY <1>1 DEF Drawn
  <2>2. Eff(t) \in Scalar
    BY <1>1, <2>1, ScalarAssumption DEF Eff
  <2> QED
    BY <1>3, <2>1, <2>2, PointAssumption
<1>5. \A k \in 1..n : Mul(h.alphas[k + 1], b) = Mul(rawX[Hops - n + k], accs[HopOf(n)])
  <2> TAKE k \in 1..n
  <2>1. k + 1 \in 1..h.n /\ Hops - h.n + (k + 1) = Hops - n + k /\ Hops - n + k \in 1..Hops
    BY <1>1, Shift
  <2>2. h.alphas[k + 1] = Mul(rawX[Hops - n + k], accs[t]) /\ rawX[Hops - n + k] \in Scalar
    BY <1>2, <1>4, <2>1
  <2>3. Mul(Mul(rawX[Hops - n + k], accs[t]), b) = Mul(rawX[Hops - n + k], Mul(accs[t], b))
    <3> DEFINE r == rawX[Hops - n + k]
               a == accs[t]
    <3>1. r \in Scalar /\ a \in Scalar /\ b \in Scalar
      BY <1>4, <2>2
    <3> SUFFICES Mul(Mul(r, a), b) = Mul(r, Mul(a, b))
      OBVIOUS
    <3> HIDE DEF r, a, b
    <3> QED
      BY <3>1, ScalarAssumption
  <2> QED
    BY <1>1, <1>3, <2>2, <2>3
<1>6. Tail(h.tail) = [k \in 1..n |-> LayerOf(Hops - n + k)]
  <2>1. \A k \in 1..n : h.tail[k + 1] = LayerOf(Hops - n + k)
    <3> TAKE k \in 1..n
    <3>1. k + 1 \in 1..h.n /\ Hops - h.n + (k + 1) = Hops - n + k
      BY <1>1, Shift
    <3> QED
      BY <1>2, <3>1
  <2>2. h.tail \in Seq(Layer) /\ Len(h.tail) = n + 1 /\ n \in Nat
    BY <1>1, <1>2
  <2>3. Tail(h.tail) = [k \in 1..n |-> h.tail[k + 1]]
    BY <2>2, TailAt
  <2> QED
    <3> DEFINE L(k) == LayerOf(Hops - n + k)
    <3> SUFFICES \A k \in 1..n : h.tail[k + 1] = L(k)
      BY <2>3
    <3> QED
      BY <2>1
<1>7. new = [n |-> n, alphas |-> BlindRest(h, b), tail |-> Tail(h.tail)]
  BY DEF NewHeader
<1>8. BlindRest(h, b) = [k \in 1..n |-> Mul(rawX[Hops - n + k], accs[HopOf(n)])]
  BY <1>5 DEF BlindRest
<1>9. new.n = n
  BY <1>7
<1> QED
  BY <1>1, <1>6, <1>7, <1>8, <1>9 DEF OnItsWay

-----------------------------------------------------------------------------
(* The steps.                                                              *)

LEMMA InitIInv == Init => IInv
<1> SUFFICES ASSUME Init PROVE IInv
  OBVIOUS
<1>1. Hops \in Nat /\ \A t \in 1..Hops : route[t] \in Node
  BY RouteAssumption DEF Init, Hops
<1>2. accs \in Seq(Scalar) /\ Len(accs) = 1 /\ accs[1] = One
  BY ScalarAssumption DEF Init
<1>3. rawX \in Seq(Scalar) /\ ssX \in Seq(Point) /\ Len(rawX) = 0 /\ Len(ssX) = 0
  BY DEF Init
<1> QED
  BY <1>1, <1>2, <1>3 DEF Init, IInv, Drawn

\* One more hop is drawn for: the facts about those before it stay.
LEMMA DrawIInv == IInv /\ Draw => IInv'
<1> SUFFICES ASSUME IInv, Draw PROVE IInv'
  OBVIOUS
<1> DEFINE i == Len(rawX) + 1
           acc == accs[i]
<1>1. PICK x \in Scalar :
        /\ rawX' = Append(rawX, x)
        /\ ssX' = Append(ssX, Dh(route[i], Mul(x, acc)))
        /\ accs' = Append(accs, Mul(acc, Hash(Dh(route[i], Mul(x, acc)), Mul(x, acc))))
  BY DEF Draw
<1> DEFINE eff == Mul(x, acc)
           pt == Dh(route[i], eff)
           new == Mul(acc, Hash(pt, eff))
<1>2. route' = route /\ Hops' = Hops
  BY DEF Draw, Hops
<1>3. Drawn /\ Hops \in 1..MaxHops /\ blobs = << >> /\ headers = {} /\ joined = {}
  BY DEF IInv, Draw
<1>4. i <= Hops
  <2>1. Len(rawX) < Hops
    BY <1>3 DEF IInv, Draw, Drawn
  <2> QED
    BY <2>1, <1>3 DEF Drawn
<1>5. i \in Nat /\ i \in 1..Hops /\ Hops \in Nat /\ Len(accs) = i /\ acc \in Scalar
  BY <1>3, <1>4 DEF Drawn
<1>6. eff \in Scalar /\ pt \in Point /\ new \in Scalar
  <2>1. route[i] \in Node /\ eff \in Scalar
    BY <1>3, <1>5, ScalarAssumption DEF Drawn
  <2>2. pt \in Point
    BY <2>1, PointAssumption
  <2> QED
    BY <1>5, <2>1, <2>2, ScalarAssumption, PointAssumption
<1> HIDE DEF eff, pt, new
<1>7. /\ rawX' \in Seq(Scalar) /\ Len(rawX') = i /\ rawX'[i] = x
      /\ ssX' \in Seq(Point) /\ Len(ssX') = i /\ ssX'[i] = pt
      /\ accs' \in Seq(Scalar) /\ Len(accs') = i + 1 /\ accs'[i + 1] = new
      /\ \A t \in 1..(i - 1) : rawX'[t] = rawX[t] /\ ssX'[t] = ssX[t]
      /\ \A t \in 1..i : accs'[t] = accs[t]
  <2>1. rawX' = Append(rawX, x) /\ ssX' = Append(ssX, pt) /\ accs' = Append(accs, new)
    BY <1>1 DEF eff, pt, new
  <2> QED
    BY <1>3, <1>5, <1>6, <2>1 DEF Drawn
<1>8. Drawn'
  <2>1. \A t \in 1..i :
          ssX'[t] = Dh(route[t], Eff(t)') /\ accs'[t + 1] = Mul(accs'[t], Hash(ssX'[t], Eff(t)'))
    <3> TAKE t \in 1..i
    <3>1. CASE t = i
      BY <1>5, <1>7, <3>1 DEF Eff, eff, pt, new
    <3>2. CASE t # i
      <4>1. t \in 1..(i - 1) /\ t \in 1..Len(rawX) /\ t + 1 \in 1..i /\ t \in 1..i
        BY <1>5, <3>2
      <4>2. Eff(t)' = Eff(t) /\ ssX'[t] = ssX[t] /\ accs'[t + 1] = accs[t + 1] /\ accs'[t] = accs[t]
        BY <1>7, <4>1 DEF Eff
      <4> QED
        BY <1>3, <4>1, <4>2 DEF Drawn
    <3> QED
      BY <3>1, <3>2
  <2>2. accs'[1] = One
    BY <1>3, <1>5, <1>7 DEF Drawn
  <2> QED
    BY <1>2, <1>3, <1>5, <1>7, <2>1, <2>2 DEF Drawn
<1>9. CASE i = Hops
  <2>1. Sealed' /\ stage' = "seal"
    BY <1>2, <1>3, <1>5, <1>7, <1>9 DEF Sealed, Draw
  <2> QED
    BY <1>2, <1>3, <1>8, <2>1 DEF IInv, Draw
<1>10. CASE i # Hops
  <2>1. stage' = "draw" /\ Len(rawX') < Hops'
    BY <1>2, <1>5, <1>7, <1>10 DEF Draw
  <2> QED
    BY <1>2, <1>3, <1>8, <2>1 DEF IInv, Draw
<1> QED
  BY <1>9, <1>10

\* The layer sealed around the others is that of the hop before them.
LEMMA SealIInv == IInv /\ Seal => IInv'
<1> SUFFICES ASSUME IInv, Seal PROVE IInv'
  OBVIOUS
<1> DEFINE t == Hops - Len(blobs)
           L == LayerOf(t)
<1>1. Drawn /\ Sealed /\ headers = {} /\ joined = {} /\ Hops \in Nat /\ stage = "seal"
  BY DEF IInv, Seal, Drawn
<1>2. t \in 1..Hops /\ Len(blobs) \in Nat /\ Len(blobs) < Hops
  BY <1>1 DEF Seal, Sealed
<1>3. L \in Layer
  BY <1>1, <1>2, LayerType DEF Sealed
<1>4. UNCHANGED <<route, rawX, ssX, accs, headers, joined, stage>> /\ Hops' = Hops
  BY DEF Seal, Hops
<1>5. blobs' = <<L>> \o blobs /\ blobs \in Seq(Layer)
  BY <1>1 DEF Seal, Sealed
<1>6. /\ blobs' \in Seq(Layer) /\ Len(blobs') = Len(blobs) + 1 /\ blobs'[1] = L
      /\ \A k \in 1..Len(blobs) : blobs'[k + 1] = blobs[k]
  <2> HIDE DEF L
  <2> QED
    BY <1>3, <1>5
<1>7. \A k \in Nat : LayerOf(k)' = LayerOf(k)
  BY <1>4 DEF LayerOf, NonceOf, NextOf
<1>8. \A k \in 1..Len(blobs') : blobs'[k] = LayerOf(Hops - Len(blobs') + k)
  <2> TAKE k \in 1..Len(blobs')
  <2>1. CASE k = 1
    BY <1>1, <1>2, <1>6, <2>1
  <2>2. CASE k # 1
    <3>1. k - 1 \in 1..Len(blobs) /\ (k - 1) + 1 = k
          /\ Hops - Len(blobs) + (k - 1) = Hops - Len(blobs') + k
      BY <1>1, <1>2, <1>6, <2>2
    <3> QED
      BY <1>1, <1>6, <3>1 DEF Sealed
  <2> QED
    BY <2>1, <2>2
<1>9. Sealed'
  <2>1. \A k \in 1..Len(blobs') : blobs'[k] = LayerOf(Hops - Len(blobs) + k)'
    <3> TAKE k \in 1..Len(blobs')
    <3>1. Hops - Len(blobs') + k \in Nat
      BY <1>1, <1>2, <1>6
    <3>2. (LayerOf(Hops - Len(blobs) + k))' = LayerOf(Hops - Len(blobs') + k)
      BY <1>4 DEF LayerOf, NonceOf, NextOf
    <3> QED
      BY <1>8, <3>2
  <2> QED
    BY <1>1, <1>2, <1>4, <1>6, <2>1 DEF Sealed
<1>10. Drawn'
  BY <1>1, <1>4 DEF Drawn, Eff
<1> QED
  BY <1>1, <1>4, <1>9, <1>10 DEF IInv

\* What the origin keeps does not change once its header is built.
LEMMA KeptFacts ==
  ASSUME UNCHANGED <<route, rawX, ssX, accs, blobs>>
  PROVE  /\ Hops' = Hops
         /\ Drawn => Drawn'
         /\ Sealed => Sealed'
         /\ \A h : OnItsWay(h) => OnItsWay(h)'
         /\ \A o : Agrees(o) => Agrees(o)'
<1>1. Hops' = Hops
  BY DEF Hops
<1>2. \A t : LayerOf(t)' = LayerOf(t) /\ OriginKeys(t)' = OriginKeys(t) /\ NextOf(t)' = NextOf(t)
  BY <1>1 DEF LayerOf, NonceOf, NextOf, OriginKeys
<1>3. Drawn => Drawn'
  BY <1>1 DEF Drawn, Eff
<1>4. Sealed => Sealed'
  BY <1>1, <1>2 DEF Sealed
<1>5. \A h : OnItsWay(h) => OnItsWay(h)'
  BY <1>1, <1>2 DEF OnItsWay, HopOf
<1>6. \A o : Agrees(o) => Agrees(o)'
  BY <1>1, <1>2 DEF Agrees, HopOf
<1> QED
  BY <1>1, <1>3, <1>4, <1>5, <1>6

LEMMA AssembleIInv == IInv /\ Assemble => IInv'
<1> SUFFICES ASSUME IInv, Assemble PROVE IInv'
  OBVIOUS
<1> DEFINE h == [n |-> Hops, alphas |-> rawX, tail |-> blobs]
<1>1. /\ Drawn /\ Sealed /\ joined = {} /\ Len(blobs) = Hops /\ Len(rawX) = Hops
      /\ Hops \in Nat /\ stage = "seal" /\ headers' = {h} /\ joined' = {} /\ stage' = "built"
  BY DEF IInv, Assemble, Drawn, Sealed, Alphas
<1>2. UNCHANGED <<route, rawX, ssX, accs, blobs>>
  BY DEF Assemble
<1>3. Hops >= 1
  BY <1>1 DEF Sealed
<1>4. HopOf(h.n) = 1 /\ h.n = Hops
  BY <1>1 DEF HopOf
<1>5. \A k \in 1..Hops : Mul(rawX[Hops - Hops + k], accs[1]) = rawX[k]
  <2> TAKE k \in 1..Hops
  <2>1. rawX[k] \in Scalar /\ Hops - Hops + k = k /\ accs[1] = One
    BY <1>1 DEF Drawn
  <2> QED
    BY <2>1, ScalarAssumption
<1>6. rawX = [k \in 1..Hops |-> Mul(rawX[Hops - Hops + k], accs[1])]
  BY <1>1, <1>5 DEF Drawn
<1>7. blobs = [k \in 1..Hops |-> LayerOf(Hops - Hops + k)]
  BY <1>1 DEF Sealed
<1>8. OnItsWay(h)
  BY <1>1, <1>3, <1>4, <1>6, <1>7 DEF OnItsWay
<1>9. Drawn' /\ Sealed' /\ \A g \in headers' : OnItsWay(g)'
  <2> SUFFICES ASSUME NEW g, g = h PROVE Drawn' /\ Sealed' /\ OnItsWay(g)'
    BY <1>1
  <2> QED
    BY <1>1, <1>2, <1>8, KeptFacts
<1> QED
  BY <1>1, <1>2, <1>9 DEF IInv

\* Whoever opens a header is the hop it is for, agrees with the origin, and hands on
\* the header the next hop is to find.
LEMMA ProcessIInv == IInv /\ ProcessHeader => IInv'
<1> SUFFICES ASSUME IInv, NEW h \in headers, NEW m \in Node, Process(m, h) PROVE IInv'
  BY DEF ProcessHeader
<1> DEFINE t == HopOf(h.n)
           o == [node |-> m, n |-> h.n, keys |-> TrafficKeys(m, h), next |-> h.tail[1].next]
<1>1. Drawn /\ Sealed /\ OnItsWay(h) /\ stage = "built" /\ Len(rawX) = Hops
  BY DEF IInv, Sealed
<1>2. UNCHANGED <<route, stage, rawX, ssX, accs, blobs>> /\ Opens(m, h)
  BY DEF Process
<1>3. m = route[t]
  BY <1>1, <1>2, OpensThere
<1>4. /\ t \in 1..Hops /\ h.alphas[1] = Eff(t) /\ h.tail[1] = LayerOf(t)
      /\ h.n \in 1..Hops /\ Hops \in Nat /\ t = Hops - h.n + 1
  BY <1>1, WayFacts DEF OnItsWay, Drawn, HopOf
<1>5. SharedPoint(m, h) = ssX[t]
  BY <1>1, <1>3, <1>4 DEF SharedPoint, Drawn
<1>6. TrafficKeys(m, h) = OriginKeys(t)
  BY <1>3, <1>4, <1>5 DEF TrafficKeys, OriginKeys, LayerOf, Decap
<1>7. Agrees(o)
  BY <1>3, <1>4, <1>6 DEF Agrees, LayerOf
<1>8. h.tail[1].next # Terminal => OnItsWay(NewHeader(m, h))
  <2> SUFFICES ASSUME h.tail[1].next # Terminal PROVE OnItsWay(NewHeader(m, h))
    OBVIOUS
  <2>1. t < Hops
    BY <1>4 DEF LayerOf, NextOf
  <2>2. h.n > 1
    BY <1>4, <2>1
  <2> QED
    BY <1>1, <1>3, <2>2, HandedOn
<1>9. /\ joined' = joined \cup {o}
      /\ headers' \subseteq headers \cup {NewHeader(m, h)}
      /\ h.tail[1].next = Terminal => headers' = headers
  BY DEF Process
<1>10. (\A g \in headers' : OnItsWay(g)) /\ \A p \in joined' : Agrees(p)
  BY <1>1, <1>7, <1>8, <1>9 DEF IInv
<1>11. (\A g \in headers' : OnItsWay(g)') /\ \A p \in joined' : Agrees(p)'
  BY <1>2, <1>10, KeptFacts
<1>12. Drawn' /\ Sealed'
  BY <1>1, <1>2, KeptFacts
<1> QED
  BY <1>1, <1>2, <1>11, <1>12 DEF IInv

LEMMA NextIInv == IInv /\ [Next]_vars => IInv'
<1> SUFFICES ASSUME IInv, [Next]_vars PROVE IInv'
  OBVIOUS
<1>1. CASE Refuse
  <2>1. UNCHANGED <<route, rawX, ssX, accs, blobs>> /\ Drawn
    BY <1>1 DEF Refuse, IInv
  <2> QED
    BY <1>1, <2>1, KeptFacts DEF Refuse, IInv
<1>2. CASE Draw
  BY <1>2, DrawIInv
<1>3. CASE Seal
  BY <1>3, SealIInv
<1>4. CASE Assemble
  BY <1>4, AssembleIInv
<1>5. CASE ProcessHeader
  BY <1>5, ProcessIInv
<1>6. CASE UNCHANGED vars
  <2>1. UNCHANGED <<route, rawX, ssX, accs, blobs>> /\ UNCHANGED <<stage, headers, joined>>
    BY <1>6 DEF vars
  <2> QED
    BY <2>1, KeptFacts DEF IInv
<1> QED
  BY <1>1, <1>2, <1>3, <1>4, <1>5, <1>6 DEF Next, BuildHeader

-----------------------------------------------------------------------------
(* The theorems.                                                           *)

LEMMA Always == Spec => []IInv
<1>1. Init => IInv
  BY InitIInv
<1>2. IInv /\ [Next]_vars => IInv'
  BY NextIInv
<1> QED
  BY <1>1, <1>2, PTL DEF Spec

\* What build_header and process_header compute has the types they claim.
THEOREM TypeCorrect == Spec => []TypeOK
<1>1. IInv => TypeOK
  <2> SUFFICES ASSUME IInv PROVE TypeOK
    OBVIOUS
  <2>1. headers \subseteq Header
    <3> SUFFICES ASSUME NEW h \in headers PROVE h \in Header
      OBVIOUS
    <3>1. Drawn /\ Len(rawX) = Hops /\ OnItsWay(h)
      BY DEF IInv, Sealed
    <3>2. h.n \in Nat /\ h.alphas \in Seq(Scalar) /\ h.tail \in Seq(Layer)
      <4>1. h.alphas \in Seq(Scalar) /\ h.tail \in Seq(Layer)
        BY <3>1, WayFacts
      <4>2. h.n \in Nat
        BY <3>1 DEF OnItsWay, Drawn
      <4> QED
        BY <4>1, <4>2
    <3>3. h = [n |-> h.n, alphas |-> h.alphas, tail |-> h.tail]
      BY <3>1 DEF OnItsWay
    <3> QED
      BY <3>2, <3>3 DEF Header
  <2>2. joined \subseteq Outcome
    <3> SUFFICES ASSUME NEW o \in joined PROVE o \in Outcome
      OBVIOUS
    <3> DEFINE t == HopOf(o.n)
    <3>1. Drawn /\ Len(rawX) = Hops /\ Agrees(o)
      BY DEF IInv, Sealed
    <3>2. t \in 1..Hops /\ Hops \in Nat /\ o.n \in Nat
      BY <3>1 DEF Agrees, HopOf, Drawn
    <3>3. route[t] \in Node /\ OriginKeys(t) \in Keys
      BY <3>1, <3>2 DEF Drawn, OriginKeys, Keys
    <3>4. NextOf(t) \in Node \cup {Terminal}
      BY <3>1, <3>2 DEF Drawn, NextOf
    <3> QED
      BY <3>1, <3>2, <3>3, <3>4 DEF Agrees, Outcome
  <2>3. blobs \in Seq(Layer)
    <3>1. stage \in {"draw", "refused"} => blobs = << >>
      BY DEF IInv
    <3>2. stage \in {"seal", "built"} => blobs \in Seq(Layer)
      BY DEF IInv, Sealed
    <3>3. << >> \in Seq(Layer)
      OBVIOUS
    <3> QED
      BY <3>1, <3>2, <3>3 DEF IInv
  <2> QED
    BY <2>1, <2>2, <2>3 DEF IInv, Drawn, TypeOK
<1> QED
  BY <1>1, Always, PTL

\* Of the nodes that run process_header with their own identity, a header on its way
\* opens at the hop it is for and nowhere else, for every route, curve and draw
\* (sphinx.rs:197). The key comes of public values, so this is about who accepts a
\* header, not about who could read it.
THEOREM LayersMatchHops == Spec => []OpensAtItsHop
<1>1. IInv => OpensAtItsHop
  BY OpensThere DEF IInv, OpensAtItsHop, Sealed
<1> QED
  BY <1>1, Always, PTL

\* A hop that has opened its layer has the origin's keys and the route's next hop
\* (sphinx.rs:206).
THEOREM HopsAgreeWithOrigin == Spec => []HopsAgree
<1>1. IInv => HopsAgree
  <2> SUFFICES ASSUME IInv, NEW o \in joined
               PROVE  LET t == HopOf(o.n) IN
                      /\ o.node = route[t]
                      /\ o.keys = OriginKeys(t)
                      /\ o.next = IF o.n = 1 THEN Terminal ELSE route[t + 1]
    BY DEF HopsAgree
  <2> DEFINE t == HopOf(o.n)
  <2>1. Agrees(o) /\ Hops \in Nat
    BY DEF IInv, Drawn
  <2>2. o.n \in 1..Hops /\ t = Hops - o.n + 1 /\ (o.n = 1 <=> ~ (t < Hops))
    BY <2>1 DEF Agrees, HopOf
  <2> QED
    BY <2>1, <2>2 DEF Agrees, NextOf
<1> QED
  BY <1>1, Always, PTL
=============================================================================
