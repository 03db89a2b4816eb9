-------------------------------- MODULE Sphinx --------------------------------
(***************************************************************************)
(* The Sphinx header of nbf-crypto (sphinx.rs), followed from the origin   *)
(* that builds it to the last hop that opens it. build_header is a loop    *)
(* over the hops that draws and blinds scalars, then one from the last hop *)
(* inwards that seals a layer around those behind it; process_header takes *)
(* one layer off and blinds the scalars left.                              *)
(*                                                                         *)
(* A behaviour has one header, so its tag is in every key and not written. *)
(* The curve is a constant: scalars, their product, the shared point of a  *)
(* node's public key and a scalar, and the hash that blinds. A sealed blob *)
(* is the sequence of its layers, of which only the first can be opened.   *)
(* A node runs process_header with its own identity. As a layer's key      *)
(* comes of its hop's public key (sphinx.rs:185), and not of its private   *)
(* one, who else could compute it is not what this module is about.        *)
(***************************************************************************)
EXTENDS Integers, Sequences

CONSTANTS
  Node,        \* whoever may be on a route, or be handed a header
  Route,       \* the routes a caller may ask for
  MaxHops,     \* MAX_HOPS
  Terminal,    \* TERMINAL_ID
  Scalar, One, \* the scalars of the curve
  Point,       \* what a key agreement may yield
  Mul(_, _),   \* the product of two scalars
  Dh(_, _),    \* a node's sphinx_pub times a scalar
  Hash(_, _)   \* the blinding scalar of a shared point and the alpha it came from

ASSUME RouteAssumption == Route \subseteq Seq(Node) /\ MaxHops \in Nat /\ Terminal \notin Node

ASSUME ScalarAssumption ==
  /\ One \in Scalar
  /\ \A r, s \in Scalar : Mul(r, s) \in Scalar /\ Mul(r, One) = r
  /\ \A r, s, t \in Scalar : Mul(Mul(r, s), t) = Mul(r, Mul(s, t))

\* Public keys of different nodes differ, and a scalar is invertible.
ASSUME PointAssumption ==
  /\ \A n \in Node, s \in Scalar : Dh(n, s) \in Point
  /\ \A p \in Point, s \in Scalar : Hash(p, s) \in Scalar
  /\ \A m, n \in Node, s \in Scalar : Dh(m, s) = Dh(n, s) => m = n

\* The encapsulation of secret number `secret' under a node's kem_pk, the secret 0
\* being what any other node decapsulates.
Ct == [to : Node, secret : Nat]
Decap(m, ct) == IF ct.to = m THEN ct.secret ELSE 0

\* A layer, sealed under a key made of a shared point and under a nonce.
Layer == [ss : Point, nonce : Nat, next : Node \cup {Terminal}, ct : Ct]
Header == [n : Nat, alphas : Seq(Scalar), tail : Seq(Layer)]

\* The traffic keys of a hop come from both shared secrets.
Keys == [ss : Point, kem : Nat]
Outcome == [node : Node, n : Nat, keys : Keys, next : Node \cup {Terminal}]

VARIABLES
  route,    \* the route asked for
  stage,    \* of build_header
  rawX,     \* raw_x: the scalars drawn so far
  ssX,      \* ss_x: the shared points of the hops passed so far
  accs,     \* the values blind_acc has had, the present one last
  blobs,    \* the layers sealed so far, the outermost first
  headers,  \* every header there has been: the origin's and those of the relays
  joined    \* what each processed header came to, at the node that processed it

vars == <<route, stage, rawX, ssX, accs, blobs, headers, joined>>

TypeOK ==
  /\ route \in Route
  /\ stage \in {"draw", "seal", "built", "refused"}
  /\ rawX \in Seq(Scalar) /\ ssX \in Seq(Point) /\ accs \in Seq(Scalar)
  /\ blobs \in Seq(Layer)
  /\ headers \subseteq Header
  /\ joined \subseteq Outcome

Init ==
  /\ route \in Route
  /\ stage = "draw"
  /\ rawX = << >> /\ ssX = << >> /\ accs = <<One>>
  /\ blobs = << >>
  /\ headers = {}
  /\ joined = {}

Hops == Len(route)

-----------------------------------------------------------------------------
(* build_header, by the origin.                                            *)

Refuse ==
  /\ stage = "draw"
  /\ Hops \notin 1..MaxHops
  /\ stage' = "refused"
  /\ UNCHANGED <<route, rawX, ssX, accs, blobs, headers, joined>>

\* The next hop's scalar, made effective by the blinding of the hops before it.
Draw ==
  LET i == Len(rawX) + 1
      acc == accs[i]
  IN
  /\ stage = "draw"
  /\ Hops \in 1..MaxHops
  /\ \E x \in Scalar :
       LET eff == Mul(x, acc)
           pt == Dh(route[i], eff)
       IN /\ rawX' = Append(rawX, x)
          /\ ssX' = Append(ssX, pt)
          /\ accs' = Append(accs, Mul(acc, Hash(pt, eff)))
  /\ stage' = IF i = Hops THEN "seal" ELSE "draw"
  /\ UNCHANGED <<route, blobs, headers, joined>>

\* What hop t is told of the hop behind it.
NextOf(t) == IF t < Hops THEN route[t + 1] ELSE Terminal

\* The nonce of a layer is the number of hops left, which the hop will see as n.
NonceOfLow(t) == Hops - t - 1  \* mutant
NonceOf(t) == Hops - t + 1

\* The layer of hop t, with the encapsulation for it.
LayerOf(t) ==
  [ss |-> ssX[t], nonce |-> NonceOf(t), next |-> NextOf(t),
   ct |-> [to |-> route[t], secret |-> t]]

\* Layers are sealed from the last hop inwards, each around the ones behind it.
Seal ==
  /\ stage = "seal"
  /\ Len(blobs) < Hops
  /\ blobs' = <<LayerOf(Hops - Len(blobs))>> \o blobs
  /\ UNCHANGED <<route, stage, rawX, ssX, accs, headers, joined>>

\* The alphas are the scalars as drawn: the hops on the way make them effective.
AlphasEffective == [i \in 1..Hops |-> Mul(rawX[i], accs[i])]  \* mutant
Alphas == rawX

Assemble ==
  /\ stage = "seal"
  /\ Len(blobs) = Hops
  /\ stage' = "built"
  /\ headers' = {[n |-> Hops, alphas |-> Alphas, tail |-> blobs]}
  /\ UNCHANGED <<route, rawX, ssX, accs, blobs, joined>>

\* fwd_keys and bwd_keys of hop t, which the origin keeps.
OriginKeysRaw(t) == [ss |-> Dh(route[t], rawX[t]), kem |-> t]  \* mutant
OriginKeys(t) == [ss |-> ssX[t], kem |-> t]

-----------------------------------------------------------------------------
(* process_header, by whichever node m is handed the header h.             *)

WellFormed(h) ==
  h.n # 0 /\ Len(h.alphas) * 32 + Len(h.tail) * 1168 = h.n * 32 + h.n * 1168

SharedPoint(m, h) == Dh(m, h.alphas[1])

\* The first layer opens under the node's key and the nonce of its position.
Opens(m, h) ==
  /\ WellFormed(h)
  /\ h.tail[1].ss = SharedPoint(m, h)
  /\ h.tail[1].nonce = h.n

TrafficKeys(m, h) == [ss |-> SharedPoint(m, h), kem |-> Decap(m, h.tail[1].ct)]

\* Mutant: only the alpha of the next hop is blinded.
BlindNext(h, b) ==
  [i \in 1..(h.n - 1) |-> IF i = 1 THEN Mul(h.alphas[2], b) ELSE h.alphas[i + 1]]

\* Every alpha left is blinded, so that the first is the effective one of the next hop.
BlindRest(h, b) == [i \in 1..(h.n - 1) |-> Mul(h.alphas[i + 1], b)]

NewHeader(m, h) ==
  LET b == Hash(SharedPoint(m, h), h.alphas[1])
  IN [n |-> h.n - 1, alphas |-> BlindRest(h, b), tail |-> Tail(h.tail)]

\* The last hop has nothing to hand on; a header that does not open changes nothing.
Process(m, h) ==
  LET next == h.tail[1].next IN
  /\ Opens(m, h)
  /\ joined' = joined \cup {[node |-> m, n |-> h.n, keys |-> TrafficKeys(m, h), next |-> next]}
  /\ headers' = IF next = Terminal THEN headers ELSE headers \cup {NewHeader(m, h)}
  /\ UNCHANGED <<route, stage, rawX, ssX, accs, blobs>>

-----------------------------------------------------------------------------
BuildHeader == Refuse \/ Draw \/ Seal \/ Assemble

\* A header may be processed again, and by any node it is brought to.
ProcessHeader == \E h \in headers, m \in Node : Process(m, h)

Next == BuildHeader \/ ProcessHeader

Spec == Init /\ [][Next]_vars

\* build_header runs to its end, and a header that is handed on is processed.
Fairness == WF_vars(BuildHeader) /\ WF_vars(ProcessHeader)

FairSpec == Spec /\ Fairness
=============================================================================
