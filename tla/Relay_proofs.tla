---------------------------- MODULE Relay_proofs ----------------------------
(***************************************************************************)
(* Proofs about the data plane, for any number of hops and any calls: its  *)
(* types, the layers of every onion, that no answer is handed to two       *)
(* echoes, and that no seq is taken twice until the counter wraps.         *)
(***************************************************************************)
EXTENDS RelayProps, FiniteSetTheorems, TLAPS

-----------------------------------------------------------------------------
(* Onions: what sealing and opening do to the layers of hops h..L.         *)

LEMMA LayersType ==
  ASSUME NEW d \in {"fwd", "bwd"}, NEW h \in 1..(L + 1)
  PROVE  Layers(d, h) \in Seq(Key) /\ Len(Layers(d, h)) = L - h + 1
BY HopsAssumption DEF Layers, Key, HopKey, Hop

\* Opening the outermost layer leaves those of the hops behind.
LEMMA LayersOpen ==
  ASSUME NEW d \in {"fwd", "bwd"}, NEW h \in Hop
  PROVE  /\ Layers(d, h) # << >>
         /\ Head(Layers(d, h)) = HopKey(d, h)
         /\ Tail(Layers(d, h)) = Layers(d, h + 1)
<1> USE HopsAssumption DEF Hop
<1>1. h \in 1..(L + 1) /\ h + 1 \in 1..(L + 1)
  OBVIOUS
<1>2. Len(Layers(d, h)) = L - h + 1 /\ Layers(d, h) \in Seq(Key)
  BY <1>1, LayersType
<1>3. Layers(d, h)[1] = HopKey(d, h)
  BY DEF Layers, HopKey
<1>4. Tail(Layers(d, h)) = Layers(d, h + 1)
  <2>1. Len(Tail(Layers(d, h))) = L - (h + 1) + 1 /\ Tail(Layers(d, h)) \in Seq(Key)
    BY <1>2
  <2>2. Len(Layers(d, h + 1)) = L - (h + 1) + 1 /\ Layers(d, h + 1) \in Seq(Key)
    BY <1>1, LayersType
  <2>3. \A i \in 1..(L - (h + 1) + 1) : Tail(Layers(d, h))[i] = Layers(d, h + 1)[i]
    <3> TAKE i \in 1..(L - (h + 1) + 1)
    <3>1. Tail(Layers(d, h))[i] = Layers(d, h)[i + 1]
      BY <1>2
    <3> QED
      BY <3>1 DEF Layers, HopKey
  <2> QED
    BY <2>1, <2>2, <2>3
<1> QED
  BY <1>2, <1>3, <1>4

\* Sealing with the key of hop h puts its layer outside those of the hops behind.
LEMMA LayersSeal ==
  ASSUME NEW d \in {"fwd", "bwd"}, NEW h \in Hop
  PROVE  Sealed(HopKey(d, h), Layers(d, h + 1)) = Layers(d, h)
<1> USE HopsAssumption DEF Hop
<1>1. h \in 1..(L + 1) /\ h + 1 \in 1..(L + 1)
  OBVIOUS
<1>2. /\ Layers(d, h) \in Seq(Key) /\ Len(Layers(d, h)) = L - h + 1
      /\ Layers(d, h + 1) \in Seq(Key) /\ Len(Layers(d, h + 1)) = L - h
  <2>1. Layers(d, h) \in Seq(Key) /\ Len(Layers(d, h)) = L - h + 1
    BY <1>1, LayersType
  <2>2. Layers(d, h + 1) \in Seq(Key) /\ Len(Layers(d, h + 1)) = L - (h + 1) + 1
    BY <1>1, LayersType
  <2> QED
    BY <2>1, <2>2
<1>3. HopKey(d, h) \in Key
  BY DEF HopKey, Key
<1> DEFINE S == <<HopKey(d, h)>> \o Layers(d, h + 1)
<1>4. S \in Seq(Key) /\ Len(S) = L - h + 1
  BY <1>2, <1>3
<1>5. \A i \in 1..(L - h + 1) : S[i] = Layers(d, h)[i]
  <2> TAKE i \in 1..(L - h + 1)
  <2>1. S[i] = IF i = 1 THEN HopKey(d, h) ELSE Layers(d, h + 1)[i - 1]
    BY <1>2, <1>3
  <2>2. Layers(d, h)[i] = HopKey(d, h + i - 1)
    BY DEF Layers
  <2>3. CASE i = 1
    BY <2>1, <2>2, <2>3
  <2>4. CASE i # 1
    <3>1. i - 1 \in 1..(L - (h + 1) + 1) /\ (h + 1) + (i - 1) - 1 = h + i - 1
      BY <2>4
    <3>2. Layers(d, h + 1)[i - 1] = HopKey(d, (h + 1) + (i - 1) - 1)
      BY <3>1 DEF Layers
    <3> QED
      BY <2>1, <2>2, <2>4, <3>1, <3>2
  <2> QED
    BY <2>3, <2>4
<1> HIDE DEF S
<1>6. S = Layers(d, h)
  BY <1>2, <1>4, <1>5, SMTT(60)
<1> QED
  BY <1>6 DEF S, Sealed

LEMMA NoLayers == \A d \in {"fwd", "bwd"} : Layers(d, L + 1) = << >>
BY HopsAssumption DEF Layers

-----------------------------------------------------------------------------
(* The inductive invariant.                                                *)

\* Forward cells are at hops; answers are to echoes, behind the terminal.
Placed ==
  /\ \A m \in net : IF m.dir = "fwd" THEN m.at \in Hop ELSE m.at \in 0..(L - 1) /\ m.msg \in Echo
  /\ \A t \in tasks : t.at \in Hop

\* A message is in one place at a time: on the way, with a hop, in a channel or
\* returned; and only once its call has sent it.
Sent(s) == pc[s] \in {"waiting", "done"}
Travels(s) == \E m \in net \cup tasks : m.msg = s
InChannel(s, e, i) == i \in 1..Len(inbox[e]) /\ inbox[e][i] = s

OnePlace ==
  /\ \A m \in net \cup tasks : Sent(m.msg)
  /\ \A m, n \in net : m.msg = n.msg => m = n
  /\ \A m, n \in tasks : m.msg = n.msg => m = n
  /\ \A m \in net, t \in tasks : m.msg # t.msg
  /\ \A e, x \in Echo, i \in Nat : InChannel(x, e, i) => Sent(x) /\ ~ Travels(x)
  /\ \A e, f, x \in Echo, i, j \in Nat :
       InChannel(x, e, i) /\ InChannel(x, f, j) => e = f /\ i = j
  /\ \A e, x \in Echo : reply[e] = x =>
       /\ Sent(x)
       /\ ~ Travels(x)
       /\ \A f \in Echo, i \in Nat : ~ InChannel(x, f, i)
  /\ RepliesNotShared

IInv == TypeOK /\ Placed /\ OnionLayers /\ OnePlace

LEMMA InitIInv == Init => IInv
<1> SUFFICES ASSUME Init PROVE IInv
  OBVIOUS
<1>1. TypeOK
  <2>1. 0 \in Seq32 /\ FirstSeq \in Seq32
    BY SeqAssumption DEF Seq32
  <2>2. << >> \in Seq(Echo)
    OBVIOUS
  <2> QED
    BY <2>1, <2>2 DEF Init, TypeOK
<1>2. Placed /\ OnionLayers
  BY DEF Init, Placed, OnionLayers
<1>3. OnePlace
  <2>1. \A e, x \in Echo, i \in Nat : ~ InChannel(x, e, i)
    BY DEF Init, InChannel
  <2>2. \A e, x \in Echo : reply[e] # x /\ reply[e] = None
    BY SenderAssumption DEF Init
  <2>3. net = {} /\ tasks = {}
    BY DEF Init
  <2> QED
    BY <2>1, <2>2, <2>3 DEF OnePlace, RepliesNotShared
<1> QED
  BY <1>1, <1>2, <1>3 DEF IInv

-----------------------------------------------------------------------------
(* Types, places and layers.                                               *)

LEMMA TypeStep == IInv /\ [Next]_vars => TypeOK' /\ Placed' /\ OnionLayers'
<1> SUFFICES ASSUME IInv, [Next]_vars PROVE TypeOK' /\ Placed' /\ OnionLayers'
  OBVIOUS
<1>t. TypeOK
  BY DEF IInv
<1>p. Placed
  BY DEF IInv
<1>o. OnionLayers
  BY DEF IInv
<1> USE HopsAssumption, SeqAssumption
\* A step that leaves the cells alone, or takes some away, leaves the places and layers.
<1>k. ASSUME net' \subseteq net, tasks' \subseteq tasks
      PROVE  Placed' /\ OnionLayers'
  BY <1>k, <1>p, <1>o DEF Placed, OnionLayers
<1>1. ASSUME NEW s \in Sender, CallStarts(s) \/ CallProceeds(s)
      PROVE  TypeOK' /\ Placed' /\ OnionLayers'
  <2>1. CASE Refuse(s)
    BY <2>1, <1>t, <1>k DEF TypeOK, Refuse, circuit
  <2>2. CASE s \in Echo /\ OpenStream(s)
    BY <2>2, <1>t, <1>k DEF TypeOK, OpenStream, circuit
  <2>3. CASE TakeSeq(s)
    <3>1. (seqOrigin + 1) % SeqMod \in Seq32
      BY <1>t DEF TypeOK, Seq32
    <3> QED
      BY <2>3, <3>1, <1>t, <1>k DEF TypeOK, TakeSeq, SeqTaken, circuit
  <2>4. CASE SendCell(s)
    <3> DEFINE m == [dir |-> "fwd", at |-> 1, msg |-> s, seq |-> seqOf[s],
                     onion |-> SealOnion]
    <3>1. net' = net \cup {m} /\ tasks' = tasks
      BY <2>4 DEF SendCell
    <3>2. m.dir = "fwd" /\ m.at = 1 /\ m.onion = Layers("fwd", 1)
      BY DEF SealOnion
    <3>3. m \in Cell
      <4>1. 1 \in 1..(L + 1) /\ 1 \in 0..L
        OBVIOUS
      <4>2. Layers("fwd", 1) \in Seq(Key)
        BY <4>1, LayersType
      <4> QED
        BY <4>1, <4>2, <1>t DEF TypeOK, Cell, SealOnion
    <3>4. TypeOK'
      BY <2>4, <3>1, <3>3, <1>t DEF TypeOK, SendCell, circuit
    <3>5. Placed' /\ OnionLayers'
      BY <3>1, <3>2, <1>p, <1>o DEF Placed, OnionLayers, Hop
    <3> QED
      BY <3>4, <3>5
  <2>5. CASE SendFails(s)
    BY <2>5, <1>t, <1>k DEF TypeOK, SendFails, circuit
  <2>6. CASE s \in Echo /\ Receive(s)
    <3>1. Head(inbox[s]) \in Echo /\ Tail(inbox[s]) \in Seq(Echo)
      BY <2>6, <1>t DEF TypeOK, Receive
    <3> QED
      BY <2>6, <3>1, <1>t, <1>k DEF TypeOK, Receive, circuit
  <2>7. CASE s \in Echo /\ Disconnect(s)
    BY <2>7, <1>t, <1>k DEF TypeOK, Disconnect, circuit
  <2>8. CASE s \in Echo /\ TimeOut(s)
    BY <2>8, <1>t, <1>k DEF TypeOK, TimeOut, circuit
  <2> QED
    BY <1>1, <2>1, <2>2, <2>3, <2>4, <2>5, <2>6, <2>7, <2>8 DEF CallStarts, CallProceeds
<1>2. ASSUME NEW m \in net, Peel(m) PROVE TypeOK' /\ Placed' /\ OnionLayers'
  <2> DEFINE t == [m EXCEPT !.onion = Tail(m.onion)]
  <2>1. m \in Cell /\ m.dir = "fwd" /\ m.at \in Hop /\ m.onion = Layers("fwd", m.at)
    BY <1>2, <1>t, <1>p, <1>o DEF TypeOK, Placed, OnionLayers, Peel
  <2>2. Tail(m.onion) = Layers("fwd", m.at + 1)
    BY <2>1, LayersOpen
  <2>3. Layers("fwd", m.at + 1) \in Seq(Key)
    <3>1. m.at + 1 \in 1..(L + 1)
      BY <2>1 DEF Hop
    <3> QED
      BY <3>1, LayersType
  <2>4. t \in Cell /\ t.dir = "fwd" /\ t.at = m.at /\ t.onion = Layers("fwd", m.at + 1)
    BY <2>1, <2>2, <2>3 DEF Cell
  <2>5. net' = net \ {m} /\ tasks' = tasks \cup {t}
    BY <1>2 DEF Peel
  <2>6. TypeOK'
    BY <1>2, <2>4, <2>5, <1>t DEF TypeOK, Peel, circuit, calls
  <2>7. Placed' /\ OnionLayers'
    BY <2>1, <2>4, <2>5, <1>p, <1>o DEF Placed, OnionLayers
  <2> QED
    BY <2>6, <2>7
<1>3. ASSUME NEW m \in net, DropForward(m) PROVE TypeOK' /\ Placed' /\ OnionLayers'
  BY <1>3, <1>t, <1>k DEF TypeOK, DropForward, circuit, calls
<1>4. ASSUME NEW m \in net, Backward(m) PROVE TypeOK' /\ Placed' /\ OnionLayers'
  <2> DEFINE n == [m EXCEPT !.at = m.at - 1, !.onion = Sealed(HopKey("bwd", m.at), m.onion)]
  <2>1. m \in Cell /\ m.dir = "bwd" /\ m.at \in 1..(L - 1) /\ m.msg \in Echo
        /\ m.onion = Layers("bwd", m.at + 1)
    BY <1>4, <1>t, <1>p, <1>o DEF TypeOK, Placed, OnionLayers, Backward
  <2>2. Sealed(HopKey("bwd", m.at), m.onion) = Layers("bwd", m.at)
    BY <2>1, LayersSeal DEF Hop
  <2>3. Layers("bwd", m.at) \in Seq(Key) /\ m.at - 1 \in 0..(L - 1) /\ m.at - 1 \in 0..L
    <3>1. m.at \in 1..(L + 1) /\ m.at - 1 \in 0..(L - 1) /\ m.at - 1 \in 0..L
      BY <2>1
    <3> QED
      BY <3>1, LayersType
  <2>4. n \in Cell /\ n.dir = "bwd" /\ n.at = m.at - 1 /\ n.msg \in Echo
        /\ n.onion = Layers("bwd", m.at)
    BY <2>1, <2>2, <2>3 DEF Cell
  <2>5. n.onion = Layers("bwd", n.at + 1)
    <3>1. n.at + 1 = m.at
      BY <2>1, <2>4
    <3> QED
      BY <2>4, <3>1
  <2>6. net' \subseteq net \cup {n} /\ tasks' = tasks
    BY <1>4 DEF Backward
  <2>7. TypeOK'
    BY <1>4, <2>4, <2>6, <1>t DEF TypeOK, Backward, circuit, calls
  <2>8. Placed' /\ OnionLayers'
    BY <2>3, <2>4, <2>5, <2>6, <1>p, <1>o DEF Placed, OnionLayers
  <2> QED
    BY <2>7, <2>8
<1>5. ASSUME NEW m \in net, OriginReceives(m) PROVE TypeOK' /\ Placed' /\ OnionLayers'
  <2>1. m.msg \in Echo
    BY <1>5, <1>p DEF Placed, OriginReceives
  <2>2. inbox' \in [Echo -> Seq(Echo)]
    BY <1>5, <2>1, <1>t DEF TypeOK, OriginReceives
  <2> QED
    BY <1>5, <2>2, <1>t, <1>k DEF TypeOK, OriginReceives, Taken, circuit
<1>6. ASSUME NEW t \in tasks, PassOn(t) PROVE TypeOK' /\ Placed' /\ OnionLayers'
  <2>1. t \in Cell /\ t.at \in Hop /\ t.dir = "fwd" /\ t.onion = Layers("fwd", t.at + 1)
    BY <1>t, <1>p, <1>o DEF TypeOK, Placed, OnionLayers
  <2>2. \A n \in Outgoing(t) :
          /\ n \in Cell
          /\ IF n.dir = "fwd" THEN n.at \in Hop ELSE n.at \in 0..(L - 1) /\ n.msg \in Echo
          /\ n.onion = IF n.dir = "fwd" THEN Layers("fwd", n.at) ELSE Layers("bwd", n.at + 1)
    <3>1. CASE t.at < L
      <4> DEFINE n == [t EXCEPT !.at = t.at + 1]
      <4>1. Outgoing(t) = {n}
        BY <3>1 DEF Outgoing
      <4>2. n \in Cell /\ n.dir = "fwd" /\ n.at = t.at + 1 /\ n.onion = t.onion /\ n.at \in Hop
        BY <2>1, <3>1 DEF Cell, Hop
      <4> QED
        BY <2>1, <4>1, <4>2
    <3>2. CASE t.at = L /\ t.msg \in Echo
      <4> DEFINE n == [t EXCEPT !.dir = "bwd", !.at = L - 1,
                                !.onion = Sealed(HopKey("bwd", L), t.onion)]
      <4>1. Outgoing(t) = {n}
        BY <3>2 DEF Outgoing
      <4>2. t.onion = Layers("bwd", L + 1)
        BY <2>1, <3>2, NoLayers
      <4>3. Sealed(HopKey("bwd", L), t.onion) = Layers("bwd", L)
        BY <4>2, LayersSeal DEF Hop
      <4>4. Layers("bwd", L) \in Seq(Key) /\ L - 1 \in 0..L
        BY LayersType
      <4>5. n \in Cell /\ n.dir = "bwd" /\ n.at = L - 1 /\ n.msg \in Echo
            /\ n.onion = Layers("bwd", L)
        BY <2>1, <3>2, <4>3, <4>4 DEF Cell
      <4>6. n.at + 1 = L
        BY <4>5
      <4>7. n.onion = Layers("bwd", n.at + 1)
        BY <4>5, <4>6
      <4>8. n.at \in 0..(L - 1)
        BY <4>5
      <4> HIDE DEF n
      <4> QED
        BY <4>1, <4>5, <4>7, <4>8
    <3>3. CASE t.at = L /\ t.msg \notin Echo
      <4>1. Outgoing(t) = {}
        BY <3>3 DEF Outgoing
      <4> QED
        BY <4>1
    <3> QED
      BY <2>1, <3>1, <3>2, <3>3 DEF Hop
  <2>3. net' = net \cup Outgoing(t) /\ tasks' = tasks \ {t}
    BY <1>6 DEF PassOn
  <2>4. lastFwd' \in [Hop -> Seq32]
    <3>1. t.seq \in Seq32
      BY <2>1 DEF Cell
    <3> QED
      BY <1>6, <2>1, <3>1, <1>t DEF TypeOK, PassOn, LastFwdWritten
  <2>5. TypeOK'
    BY <1>6, <2>2, <2>3, <2>4, <1>t DEF TypeOK, PassOn, calls
  <2>6. Placed' /\ OnionLayers'
    BY <2>2, <2>3, <1>p, <1>o DEF Placed, OnionLayers
  <2> QED
    BY <2>5, <2>6
<1>7. ASSUME NEW h \in {0, 1}, Remove(h) PROVE TypeOK' /\ Placed' /\ OnionLayers'
  BY <1>7, <1>t, <1>k DEF TypeOK, Remove
<1>8. CASE Close
  BY <1>8, <1>t, <1>k DEF TypeOK, Close, calls
<1>9. ASSUME NEW m \in net, LoseCell(m) PROVE TypeOK' /\ Placed' /\ OnionLayers'
  BY <1>9, <1>t, <1>k DEF TypeOK, LoseCell, circuit, calls
<1>10. CASE UNCHANGED vars
  BY <1>10, <1>t, <1>k DEF TypeOK, vars
<1> QED
  BY <1>1, <1>2, <1>3, <1>4, <1>5, <1>6, <1>7, <1>8, <1>9, <1>10
  DEF Next, HandlesAt, Handle, Finished

-----------------------------------------------------------------------------
(* One place for each message.                                             *)

\* Sent is stable: no call is started over.
LEMMA SentStable ==
  ASSUME TypeOK, [Next]_vars, NEW s \in Sender, Sent(s)
  PROVE  Sent(s)'
<1>1. ASSUME NEW r \in Sender, CallStarts(r) \/ CallProceeds(r) PROVE Sent(s)'
  <2>1. pc' = [pc EXCEPT ![r] = pc'[r]]
    BY <1>1 DEF CallStarts, CallProceeds, Refuse, OpenStream, TakeSeq, SendCell, SendFails,
       Receive, Disconnect, TimeOut, TypeOK
  <2>2. r = s => pc'[r] = "done"
    BY <1>1 DEF Sent, CallStarts, CallProceeds, Refuse, OpenStream, TakeSeq, SendCell,
       SendFails, Receive, Disconnect, TimeOut, TypeOK
  <2> QED
    BY <2>1, <2>2 DEF Sent, TypeOK
<1>2. ASSUME UNCHANGED pc PROVE Sent(s)'
  BY <1>2 DEF Sent
<1> QED
  BY <1>1, <1>2 DEF Next, HandlesAt, Handle, Peel, DropForward, Backward, OriginReceives,
     PassOn, Remove, Close, LoseCell, Finished, vars, calls

\* A step keeps every message in one place if the cells it leaves are old ones or
\* stand for old ones, and the channels and answers stay.
LEMMA CellsMove ==
  ASSUME IInv, [Next]_vars,
         UNCHANGED <<inbox, reply>>,
         \A m \in (net \cup tasks)' : m.msg \in Sender /\ Travels(m.msg),
         \A m, n \in net' : m.msg = n.msg => m = n,
         \A m, n \in tasks' : m.msg = n.msg => m = n,
         \A m \in net', t \in tasks' : m.msg # t.msg
  PROVE  OnePlace'
<1>0. TypeOK /\ OnePlace
  BY DEF IInv
<1>1. \A s \in Sender : Travels(s)' => Travels(s)
  BY DEF Travels
<1>2. \A m \in (net \cup tasks)' : Sent(m.msg)'
  <2>1. \A m \in (net \cup tasks)' : Sent(m.msg) /\ m.msg \in Sender
    BY <1>0 DEF OnePlace, Travels
  <2> QED
    BY <1>0, <2>1, SentStable
<1>3. \A e, x \in Echo, i \in Nat : InChannel(x, e, i)' <=> InChannel(x, e, i)
  BY DEF InChannel
<1>4. \A x \in Echo : x \in Sender
  BY DEF Sender
<1>5. \A e, x \in Echo, i \in Nat : InChannel(x, e, i)' => Sent(x)' /\ ~ Travels(x)'
  BY <1>0, <1>1, <1>3, <1>4, SentStable DEF OnePlace
<1>6. \A e, f, x \in Echo, i, j \in Nat :
        InChannel(x, e, i)' /\ InChannel(x, f, j)' => e = f /\ i = j
  BY <1>0, <1>3 DEF OnePlace
<1>7. \A e, x \in Echo : (reply[e])' = x =>
        Sent(x)' /\ ~ Travels(x)' /\ \A f \in Echo, i \in Nat : ~ InChannel(x, f, i)'
  BY <1>0, <1>1, <1>3, <1>4, SentStable DEF OnePlace
<1>8. RepliesNotShared'
  BY <1>0 DEF OnePlace, RepliesNotShared
<1> QED
  BY <1>2, <1>5, <1>6, <1>7, <1>8 DEF OnePlace

LEMMA ReceiveStep ==
  ASSUME IInv, [Next]_vars, NEW e \in Echo, Receive(e)
  PROVE  OnePlace'
<1>0. TypeOK /\ OnePlace /\ \A y \in Echo : y \in Sender
  BY DEF IInv, Sender
<1>1. inbox[e] \in Seq(Echo) /\ inbox[e] # << >>
  BY <1>0 DEF TypeOK, Receive
<1>x. PICK x \in Echo : x = Head(inbox[e])
  BY <1>1
<1>2. x \in Echo /\ InChannel(x, e, 1)
  BY <1>1, <1>x DEF InChannel
<1>3. /\ net' = net /\ tasks' = tasks
      /\ inbox' = [inbox EXCEPT ![e] = Tail(inbox[e])]
      /\ reply' = [reply EXCEPT ![e] = x]
  BY <1>x DEF Receive
<1>4. \A y \in Sender : Travels(y)' <=> Travels(y)
  BY <1>3 DEF Travels
<1>5. \A y, f \in Echo, i \in Nat :
        InChannel(y, f, i)' => InChannel(y, f, IF f = e THEN i + 1 ELSE i)
  <2> SUFFICES ASSUME NEW y \in Echo, NEW f \in Echo, NEW i \in Nat, InChannel(y, f, i)'
               PROVE  InChannel(y, f, IF f = e THEN i + 1 ELSE i)
    OBVIOUS
  <2>1. CASE f # e
    <3>1. inbox'[f] = inbox[f]
      BY <1>0, <1>3, <2>1 DEF TypeOK
    <3> QED
      BY <2>1, <3>1 DEF InChannel
  <2>2. CASE f = e
    <3>1. inbox'[f] = Tail(inbox[e])
      BY <1>0, <1>3, <2>2 DEF TypeOK
    <3>2. i \in 1..Len(Tail(inbox[e])) /\ Tail(inbox[e])[i] = y
      BY <3>1 DEF InChannel
    <3>3. i + 1 \in 1..Len(inbox[e]) /\ inbox[e][i + 1] = y
      BY <1>1, <3>2
    <3> QED
      BY <2>2, <3>3 DEF InChannel
  <2> QED
    BY <2>1, <2>2
<1>6. \A f \in Echo, i \in Nat : ~ InChannel(x, f, i)'
  <2> SUFFICES ASSUME NEW f \in Echo, NEW i \in Nat, InChannel(x, f, i)' PROVE FALSE
    OBVIOUS
  <2>1. i # 0
    BY DEF InChannel
  <2>2. InChannel(x, f, IF f = e THEN i + 1 ELSE i)
    BY <1>2, <1>5
  <2>3. f = e /\ (IF f = e THEN i + 1 ELSE i) = 1
    BY <1>0, <1>2, <2>2 DEF OnePlace
  <2> QED
    BY <2>1, <2>3
<1>7. \A d \in Echo : reply'[d] = IF d = e THEN x ELSE reply[d]
  BY <1>0, <1>3 DEF TypeOK
<1>8. \A m \in (net \cup tasks)' : Sent(m.msg)'
  <2>1. \A m \in net \cup tasks : m.msg \in Sender /\ Sent(m.msg)
    BY <1>0 DEF TypeOK, Cell, OnePlace
  <2> QED
    BY <1>0, <1>3, <2>1, SentStable
<1>9. \A f, y \in Echo, i \in Nat : InChannel(y, f, i)' => Sent(y)' /\ ~ Travels(y)'
  <2> SUFFICES ASSUME NEW f \in Echo, NEW y \in Echo, NEW i \in Nat, InChannel(y, f, i)'
               PROVE  Sent(y)' /\ ~ Travels(y)'
    OBVIOUS
  <2>1. InChannel(y, f, IF f = e THEN i + 1 ELSE i)
    BY <1>5
  <2>2. Sent(y) /\ ~ Travels(y)
    BY <1>0, <2>1 DEF OnePlace
  <2> QED
    BY <1>0, <1>4, <2>2, SentStable
<1>10. \A f, g, y \in Echo, i, j \in Nat :
         InChannel(y, f, i)' /\ InChannel(y, g, j)' => f = g /\ i = j
  <2> SUFFICES ASSUME NEW f \in Echo, NEW g \in Echo, NEW y \in Echo, NEW i \in Nat,
                      NEW j \in Nat, InChannel(y, f, i)', InChannel(y, g, j)'
               PROVE  f = g /\ i = j
    OBVIOUS
  <2>1. InChannel(y, f, IF f = e THEN i + 1 ELSE i) /\ InChannel(y, g, IF g = e THEN j + 1 ELSE j)
    BY <1>5
  <2>2. f = g /\ (IF f = e THEN i + 1 ELSE i) = (IF g = e THEN j + 1 ELSE j)
    BY <1>0, <2>1 DEF OnePlace
  <2> QED
    BY <2>2
<1>11. \A d, y \in Echo : (reply[d])' = y =>
         Sent(y)' /\ ~ Travels(y)' /\ \A f \in Echo, i \in Nat : ~ InChannel(y, f, i)'
  <2> SUFFICES ASSUME NEW d \in Echo, NEW y \in Echo, (reply[d])' = y
               PROVE  Sent(y)' /\ ~ Travels(y)' /\ \A f \in Echo, i \in Nat : ~ InChannel(y, f, i)'
    OBVIOUS
  <2>1. CASE d = e
    <3>1. y = x
      BY <1>7, <2>1
    <3>2. Sent(x) /\ ~ Travels(x)
      BY <1>0, <1>2 DEF OnePlace
    <3> QED
      BY <1>0, <1>2, <1>4, <1>6, <3>1, <3>2, SentStable
  <2>2. CASE d # e
    <3>1. Sent(y) /\ ~ Travels(y) /\ \A f \in Echo, i \in Nat : ~ InChannel(y, f, i)
      BY <1>0, <1>7, <2>2 DEF OnePlace
    <3>2. \A f \in Echo, i \in Nat : ~ InChannel(y, f, i)'
      BY <1>5, <3>1
    <3> QED
      BY <1>0, <1>4, <3>1, <3>2, SentStable
  <2> QED
    BY <2>1, <2>2
<1>12. RepliesNotShared'
  <2>1. \A d \in Echo : reply[d] # x
    BY <1>0, <1>2 DEF OnePlace
  <2> QED
    BY <1>0, <1>7, <2>1 DEF OnePlace, RepliesNotShared
<1>13. /\ \A m, n \in net' : m.msg = n.msg => m = n
       /\ \A m, n \in tasks' : m.msg = n.msg => m = n
       /\ \A m \in net', t \in tasks' : m.msg # t.msg
  BY <1>0, <1>3 DEF OnePlace
<1> QED
  BY <1>8, <1>9, <1>10, <1>11, <1>12, <1>13 DEF OnePlace

LEMMA OriginStep ==
  ASSUME IInv, [Next]_vars, NEW m \in net, OriginReceives(m), inbox' # inbox
  PROVE  OnePlace'
<1> DEFINE x == m.msg
<1> DEFINE k == Len(inbox[stream]) + 1
<1>0. TypeOK /\ Placed /\ OnePlace /\ \A y \in Echo : y \in Sender
  BY DEF IInv, Sender
<1>1. /\ stream \in Echo /\ x \in Echo
      /\ inbox' = [inbox EXCEPT ![stream] = Append(@, x)]
      /\ net' = net \ {m} /\ tasks' = tasks /\ reply' = reply
  BY <1>0 DEF TypeOK, Placed, OriginReceives, Taken
<1>2. Travels(x) /\ Sent(x)
  BY <1>0 DEF Travels, OnePlace
<1>3. ~ Travels(x)'
  BY <1>0, <1>1 DEF Travels, OnePlace
<1> HIDE DEF x
<1>4. \A y \in Sender : Travels(y)' => Travels(y)
  BY <1>1 DEF Travels
<1>5. \A y, f \in Echo, i \in Nat :
        InChannel(y, f, i)' => InChannel(y, f, i) \/ (y = x /\ f = stream /\ i = k)
  <2> SUFFICES ASSUME NEW y \in Echo, NEW f \in Echo, NEW i \in Nat, InChannel(y, f, i)'
               PROVE  InChannel(y, f, i) \/ (y = x /\ f = stream /\ i = k)
    OBVIOUS
  <2>1. inbox[stream] \in Seq(Echo)
    BY <1>0, <1>1 DEF TypeOK
  <2>2. CASE f # stream
    <3>1. inbox'[f] = inbox[f]
      BY <1>0, <1>1, <2>2 DEF TypeOK
    <3> QED
      BY <3>1 DEF InChannel
  <2>3. CASE f = stream
    <3>1. inbox'[f] = Append(inbox[stream], x)
      BY <1>0, <1>1, <2>3 DEF TypeOK
    <3>2. i \in 1..Len(Append(inbox[stream], x)) /\ Append(inbox[stream], x)[i] = y
      BY <3>1 DEF InChannel
    <3>3. i = k \/ i \in 1..Len(inbox[stream])
      BY <2>1, <3>2
    <3>4. /\ i = k => y = x
          /\ i \in 1..Len(inbox[stream]) => inbox[stream][i] = y
      BY <2>1, <1>1, <3>2
    <3> QED
      BY <2>3, <3>3, <3>4 DEF InChannel
  <2> QED
    BY <2>2, <2>3
<1>6. \A f \in Echo, i \in Nat : ~ InChannel(x, f, i)
  BY <1>0, <1>1, <1>2 DEF OnePlace
<1>7. \A n \in (net \cup tasks)' : Sent(n.msg)'
  <2>1. \A n \in net \cup tasks : n.msg \in Sender /\ Sent(n.msg)
    BY <1>0 DEF TypeOK, Cell, OnePlace
  <2> QED
    BY <1>0, <1>1, <2>1, SentStable
<1>8. \A f, y \in Echo, i \in Nat : InChannel(y, f, i)' => Sent(y)' /\ ~ Travels(y)'
  <2> SUFFICES ASSUME NEW f \in Echo, NEW y \in Echo, NEW i \in Nat, InChannel(y, f, i)'
               PROVE  Sent(y)' /\ ~ Travels(y)'
    OBVIOUS
  <2>1. CASE InChannel(y, f, i)
    BY <1>0, <1>4, <2>1, SentStable DEF OnePlace
  <2>2. CASE y = x
    BY <1>0, <1>1, <1>2, <1>3, <2>2, SentStable
  <2> QED
    BY <1>5, <2>1, <2>2
<1>9. \A f, g, y \in Echo, i, j \in Nat :
        InChannel(y, f, i)' /\ InChannel(y, g, j)' => f = g /\ i = j
  BY <1>0, <1>5, <1>6 DEF OnePlace
<1>10. \A d, y \in Echo : (reply[d])' = y =>
         Sent(y)' /\ ~ Travels(y)' /\ \A f \in Echo, i \in Nat : ~ InChannel(y, f, i)'
  <2> SUFFICES ASSUME NEW d \in Echo, NEW y \in Echo, (reply[d])' = y
               PROVE  Sent(y)' /\ ~ Travels(y)' /\ \A f \in Echo, i \in Nat : ~ InChannel(y, f, i)'
    OBVIOUS
  <2>1. Sent(y) /\ ~ Travels(y) /\ \A f \in Echo, i \in Nat : ~ InChannel(y, f, i)
    BY <1>0, <1>1 DEF OnePlace
  <2>2. y # x
    BY <1>2, <2>1
  <2> QED
    BY <1>0, <1>4, <1>5, <2>1, <2>2, SentStable
<1>11. RepliesNotShared'
  BY <1>0, <1>1 DEF OnePlace, RepliesNotShared
<1>12. /\ \A n, o \in net' : n.msg = o.msg => n = o
       /\ \A n, o \in tasks' : n.msg = o.msg => n = o
       /\ \A n \in net', t \in tasks' : n.msg # t.msg
  BY <1>0, <1>1 DEF OnePlace
<1> QED
  BY <1>7, <1>8, <1>9, <1>10, <1>11, <1>12 DEF OnePlace

LEMMA SendStep ==
  ASSUME IInv, [Next]_vars, NEW s \in Sender, SendCell(s)
  PROVE  OnePlace'
<1> DEFINE m == [dir |-> "fwd", at |-> 1, msg |-> s, seq |-> seqOf[s], onion |-> SealOnion]
<1>0. TypeOK /\ OnePlace /\ \A y \in Echo : y \in Sender
  BY DEF IInv, Sender
<1>1. ~ Sent(s)
  BY DEF SendCell, Sent
<1>2. /\ net' = net \cup {m} /\ tasks' = tasks /\ inbox' = inbox /\ reply' = reply
      /\ m.msg = s
  BY DEF SendCell
<1>3. Sent(s)'
  BY <1>0 DEF SendCell, Sent, TypeOK
<1> HIDE DEF m
<1>4. \A n \in net \cup tasks : n.msg \in Sender /\ n.msg # s /\ Sent(n.msg)
  BY <1>0, <1>1 DEF TypeOK, Cell, OnePlace
<1>5. \A n \in (net \cup tasks)' : Sent(n.msg)'
  BY <1>0, <1>2, <1>3, <1>4, SentStable
<1>6. /\ \A n, o \in net' : n.msg = o.msg => n = o
      /\ \A n, o \in tasks' : n.msg = o.msg => n = o
      /\ \A n \in net', t \in tasks' : n.msg # t.msg
  BY <1>0, <1>2, <1>4 DEF OnePlace
<1>7. \A x \in Echo : Sent(x) /\ ~ Travels(x) => Sent(x)' /\ ~ Travels(x)'
  BY <1>0, <1>1, <1>2, SentStable DEF Travels
<1>8. \A e, x \in Echo, i \in Nat : InChannel(x, e, i)' <=> InChannel(x, e, i)
  BY <1>2 DEF InChannel
<1>9. \A e, x \in Echo, i \in Nat : InChannel(x, e, i)' => Sent(x)' /\ ~ Travels(x)'
  BY <1>0, <1>7, <1>8 DEF OnePlace
<1>10. \A e, f, x \in Echo, i, j \in Nat :
         InChannel(x, e, i)' /\ InChannel(x, f, j)' => e = f /\ i = j
  BY <1>0, <1>8 DEF OnePlace
<1>11. \A e, x \in Echo : (reply[e])' = x =>
         Sent(x)' /\ ~ Travels(x)' /\ \A f \in Echo, i \in Nat : ~ InChannel(x, f, i)'
  BY <1>0, <1>2, <1>7, <1>8 DEF OnePlace
<1>12. RepliesNotShared'
  BY <1>0, <1>2 DEF OnePlace, RepliesNotShared
<1> QED
  BY <1>5, <1>6, <1>9, <1>10, <1>11, <1>12 DEF OnePlace

LEMMA OnePlaceStep == IInv /\ [Next]_vars => OnePlace'
<1> SUFFICES ASSUME IInv, [Next]_vars PROVE OnePlace'
  OBVIOUS
<1>0. /\ TypeOK /\ OnePlace
      /\ \A m \in net \cup tasks : m.msg \in Sender /\ Travels(m.msg)
  BY DEF IInv, TypeOK, Cell, Travels
\* Cells that stay or go.
<1>k. ASSUME net' \subseteq net, tasks' \subseteq tasks, UNCHANGED <<inbox, reply>>
      PROVE  OnePlace'
  <2>1. /\ \A m \in (net \cup tasks)' : m.msg \in Sender /\ Travels(m.msg)
        /\ \A m, n \in net' : m.msg = n.msg => m = n
        /\ \A m, n \in tasks' : m.msg = n.msg => m = n
        /\ \A m \in net', t \in tasks' : m.msg # t.msg
    BY <1>0, <1>k DEF OnePlace
  <2> QED
    BY <1>k, <2>1, CellsMove
\* A cell m of the network is replaced by at most one for the same message, n.
<1>n. ASSUME NEW m \in net, NEW n, n.msg = m.msg, net' \subseteq (net \ {m}) \cup {n},
             tasks' = tasks, UNCHANGED <<inbox, reply>>
      PROVE  OnePlace'
  <2>1. /\ \A x \in (net \cup tasks)' : x.msg \in Sender /\ Travels(x.msg)
        /\ \A x, y \in net' : x.msg = y.msg => x = y
        /\ \A x, y \in tasks' : x.msg = y.msg => x = y
        /\ \A x \in net', t \in tasks' : x.msg # t.msg
    BY <1>0, <1>n DEF OnePlace
  <2> QED
    BY <1>n, <2>1, CellsMove
<1>1. ASSUME NEW s \in Sender, CallStarts(s) \/ CallProceeds(s)
      PROVE  OnePlace'
  <2>1. CASE SendCell(s)
    BY <2>1, SendStep
  <2>2. CASE s \in Echo /\ Receive(s)
    BY <2>2, ReceiveStep
  <2>3. CASE \/ Refuse(s) \/ OpenStream(s) \/ TakeSeq(s) \/ SendFails(s)
             \/ Disconnect(s) \/ TimeOut(s)
    <3>1. UNCHANGED <<inbox, reply, net, tasks>>
      BY <2>3 DEF Refuse, OpenStream, TakeSeq, SendFails, Disconnect, TimeOut
    <3> QED
      BY <3>1, <1>k
  <2> QED
    BY <1>1, <2>1, <2>2, <2>3 DEF CallStarts, CallProceeds
<1>2. ASSUME NEW m \in net, Peel(m) PROVE OnePlace'
  <2> DEFINE t == [m EXCEPT !.onion = Tail(m.onion)]
  <2>1. net' = net \ {m} /\ tasks' = tasks \cup {t} /\ UNCHANGED <<inbox, reply>>
    BY <1>2 DEF Peel, calls
  <2>2. t.msg = m.msg
    BY <1>0 DEF TypeOK, Cell
  <2> HIDE DEF t
  <2>3. /\ \A x \in (net \cup tasks)' : x.msg \in Sender /\ Travels(x.msg)
        /\ \A x, y \in net' : x.msg = y.msg => x = y
        /\ \A x, y \in tasks' : x.msg = y.msg => x = y
        /\ \A x \in net', y \in tasks' : x.msg # y.msg
    BY <1>0, <2>1, <2>2 DEF OnePlace
  <2> QED
    BY <2>1, <2>3, CellsMove
<1>3. ASSUME NEW m \in net, DropForward(m) \/ LoseCell(m) PROVE OnePlace'
  BY <1>3, <1>k DEF DropForward, LoseCell, calls
<1>4. ASSUME NEW m \in net, Backward(m) PROVE OnePlace'
  <2> DEFINE n == [m EXCEPT !.at = m.at - 1, !.onion = Sealed(HopKey("bwd", m.at), m.onion)]
  <2>1. net' \subseteq (net \ {m}) \cup {n} /\ tasks' = tasks /\ UNCHANGED <<inbox, reply>>
    BY <1>4 DEF Backward, calls
  <2>2. n.msg = m.msg
    BY <1>0 DEF TypeOK, Cell
  <2> HIDE DEF n
  <2> QED
    BY <2>1, <2>2, <1>n
<1>5. ASSUME NEW m \in net, OriginReceives(m) PROVE OnePlace'
  <2>1. CASE inbox' = inbox
    BY <1>5, <2>1, <1>k DEF OriginReceives, Taken
  <2>2. CASE inbox' # inbox
    BY <1>5, <2>2, OriginStep
  <2> QED
    BY <2>1, <2>2
<1>6. ASSUME NEW t \in tasks, PassOn(t) PROVE OnePlace'
  <2>1. net' = net \cup Outgoing(t) /\ tasks' = tasks \ {t} /\ UNCHANGED <<inbox, reply>>
    BY <1>6 DEF PassOn, calls
  <2>2. \A m \in Outgoing(t) : m.msg = t.msg
    BY <1>0 DEF Outgoing, TypeOK, Cell
  <2>3. \A m, n \in Outgoing(t) : m = n
    BY DEF Outgoing
  <2>4. /\ \A x \in (net \cup tasks)' : x.msg \in Sender /\ Travels(x.msg)
        /\ \A x, y \in net' : x.msg = y.msg => x = y
        /\ \A x, y \in tasks' : x.msg = y.msg => x = y
        /\ \A x \in net', y \in tasks' : x.msg # y.msg
    BY <1>0, <2>1, <2>2, <2>3 DEF OnePlace
  <2> QED
    BY <2>1, <2>4, CellsMove
<1>7. ASSUME NEW h \in {0, 1}, Remove(h) PROVE OnePlace'
  BY <1>7, <1>k DEF Remove
<1>8. CASE Close \/ UNCHANGED vars
  BY <1>8, <1>k DEF Close, vars, calls
<1> QED
  BY <1>1, <1>2, <1>3, <1>4, <1>5, <1>6, <1>7, <1>8 DEF Next, HandlesAt, Handle, Finished

-----------------------------------------------------------------------------
(* Nonces: the counter has counted the calls that took a seq.              *)

Numbered == {s \in Sender : seqOf[s] # 0}

\* A call has no seq before it takes one; the seqs taken are different and below the
\* counter, which stands where the calls numbered so far have brought it.
SeqsCounted ==
  /\ \A s \in Sender : pc[s] \in {"idle", "registered"} => seqOf[s] = 0
  /\ \A s \in Numbered : seqOf[s] < FirstSeq + Cardinality(Numbered)
  /\ FirstSeq + Cardinality(Numbered) < SeqMod => seqOrigin = FirstSeq + Cardinality(Numbered)
  /\ NonceFresh

\* Only TakeSeq touches a call's seq or the counter.
LEMMA SeqStays ==
  ASSUME [Next]_vars, \A s \in Sender : ~ TakeSeq(s)
  PROVE  UNCHANGED <<seqOrigin, seqOf>>
BY DEF Next, CallStarts, CallProceeds, Refuse, OpenStream, SendCell, SendFails, Receive,
   Disconnect, TimeOut, HandlesAt, Handle, Peel, DropForward, Backward, OriginReceives,
   PassOn, Remove, Close, LoseCell, Finished, vars, calls

\* No call goes back to where it has no seq.
LEMMA NoRestart ==
  ASSUME TypeOK, [Next]_vars, NEW s \in Sender, pc'[s] \in {"idle", "registered"}
  PROVE  pc[s] \in {"idle", "registered"}
<1>1. ASSUME NEW r \in Sender, CallStarts(r) \/ CallProceeds(r)
      PROVE  pc[s] \in {"idle", "registered"}
  <2>1. pc' = [pc EXCEPT ![r] = pc'[r]]
    BY <1>1 DEF CallStarts, CallProceeds, Refuse, OpenStream, TakeSeq, SendCell, SendFails,
       Receive, Disconnect, TimeOut, TypeOK
  <2>2. pc'[r] \in {"idle", "registered"} => pc[r] = "idle"
    BY <1>1 DEF CallStarts, CallProceeds, Refuse, OpenStream, TakeSeq, SendCell,
       SendFails, Receive, Disconnect, TimeOut, TypeOK
  <2> QED
    BY <2>1, <2>2 DEF TypeOK
<1>2. ASSUME UNCHANGED pc PROVE pc[s] \in {"idle", "registered"}
  BY <1>2
<1> QED
  BY <1>1, <1>2 DEF Next, HandlesAt, Handle, Peel, DropForward, Backward, OriginReceives,
     PassOn, Remove, Close, LoseCell, Finished, vars, calls

LEMMA SeqStep ==
  ASSUME IsFiniteSet(Sender), FirstSeq + Cardinality(Sender) <= SeqMod,
         TypeOK, SeqsCounted, [Next]_vars
  PROVE  SeqsCounted'
<1> DEFINE n == Cardinality(Numbered)
<1>1. IsFiniteSet(Numbered) /\ n \in Nat
  <2>1. Numbered \subseteq Sender
    BY DEF Numbered
  <2> QED
    BY <2>1, FS_Subset, FS_CardinalityType
<1>2. \A s \in Sender : pc'[s] \in {"idle", "registered"} => pc[s] \in {"idle", "registered"}
  BY NoRestart
<1>3. ASSUME NEW s \in Sender, TakeSeq(s) PROVE SeqsCounted'
  <2>1. seqOf[s] = 0
    BY <1>3 DEF TakeSeq, SeqsCounted
  <2>2. n < Cardinality(Sender)
    <3>1. Numbered \subseteq Sender /\ Numbered # Sender
      BY <2>1 DEF Numbered
    <3>2. n <= Cardinality(Sender) /\ n # Cardinality(Sender)
      BY <3>1, FS_Subset
    <3>3. Cardinality(Sender) \in Nat
      BY FS_CardinalityType
    <3> QED
      BY <1>1, <3>2, <3>3
  <2>3. Cardinality(Sender) \in Nat /\ FirstSeq \in Nat /\ FirstSeq > 0 /\ SeqMod \in Nat
    BY SeqAssumption, FS_CardinalityType
  <2>4. seqOrigin = FirstSeq + n
    BY <1>1, <2>2, <2>3 DEF SeqsCounted
  <2>5. seqOf' = [seqOf EXCEPT ![s] = FirstSeq + n] /\ seqOf \in [Sender -> Seq32]
    BY <1>3, <2>4 DEF TakeSeq, TypeOK
  <2>6. Numbered' = Numbered \cup {s}
    BY <1>1, <2>3, <2>5 DEF Numbered
  <2>7. Cardinality(Numbered)' = n + 1
    <3>1. s \notin Numbered
      BY <2>1 DEF Numbered
    <3> QED
      BY <1>1, <2>6, <3>1, FS_AddElement
  <2>8. seqOrigin' = (FirstSeq + n + 1) % SeqMod
    BY <1>3, <2>4 DEF TakeSeq, SeqTaken
  <2>9. \A r \in Sender : seqOf[r] \in Int
    BY <2>3, <2>5 DEF Seq32
  <2> HIDE DEF n
  <2>10. \A r \in Sender : pc'[r] \in {"idle", "registered"} => seqOf'[r] = 0
    <3>1. pc'[s] = "numbered"
      BY <1>3 DEF TakeSeq, TypeOK
    <3> QED
      BY <1>2, <2>5, <3>1 DEF SeqsCounted
  <2>11. \A r \in Numbered' : seqOf'[r] < FirstSeq + (n + 1)
    BY <1>1, <2>3, <2>5, <2>6, <2>9 DEF SeqsCounted, n, Numbered
  <2>12. FirstSeq + (n + 1) < SeqMod => seqOrigin' = FirstSeq + (n + 1)
    BY <1>1, <2>3, <2>8
  <2>13. NonceFresh'
    <3>1. \A r \in Sender \ {s} : seqOf'[r] = seqOf[r] /\ seqOf[r] # FirstSeq + n
      <4>1. \A r \in Numbered : seqOf[r] < FirstSeq + n
        BY DEF SeqsCounted, n
      <4> QED
        BY <1>1, <2>3, <2>5, <2>9, <4>1 DEF Numbered
    <3>2. seqOf'[s] = FirstSeq + n
      BY <2>5
    <3> QED
      BY <3>1, <3>2 DEF SeqsCounted, NonceFresh
  <2> QED
    BY <2>7, <2>10, <2>11, <2>12, <2>13 DEF SeqsCounted
<1>4. ASSUME UNCHANGED <<seqOrigin, seqOf>> PROVE SeqsCounted'
  BY <1>2, <1>4 DEF SeqsCounted, Numbered, NonceFresh
<1> QED
  BY <1>3, <1>4, SeqStays

-----------------------------------------------------------------------------
(* Calls in turn: each echo's cell is gone before the next one starts.     *)

InTurn == ~ env.overlap /\ env.patient
Active(s) == pc[s] \in {"registered", "numbered", "waiting"}

\* With calls in turn one is active at a time. As long as the origin has its entry, an
\* active echo has the stream, and only a waiting one has a cell or answer on the way,
\* so that each channel and each reply is of its own echo.
TurnInv ==
  InTurn =>
    /\ \A s, t \in Sender : Active(s) /\ Active(t) => s = t
    /\ \A e \in Echo : Active(e) /\ 0 \in entry => stream = e
    /\ \A e \in Echo : Travels(e) /\ 0 \in entry => pc[e] = "waiting"
    /\ \A e, x \in Echo, i \in Nat : InChannel(x, e, i) => x = e
    /\ \A e \in Echo : reply[e] \in {None, e}

\* A message that is on the way was before, or has just been sent.
LEMMA TravelsOn ==
  ASSUME TypeOK, [Next]_vars, NEW s \in Sender, Travels(s)'
  PROVE  Travels(s) \/ SendCell(s)
<1>0. \A m \in net \cup tasks : m \in Cell
  BY DEF TypeOK
<1>1. ASSUME NEW r \in Sender, CallStarts(r) \/ CallProceeds(r)
      PROVE  Travels(s) \/ SendCell(s)
  <2>1. CASE SendCell(r)
    <3> DEFINE m == [dir |-> "fwd", at |-> 1, msg |-> r, seq |-> seqOf[r], onion |-> SealOnion]
    <3>1. net' = net \cup {m} /\ tasks' = tasks /\ m.msg = r
      BY <2>1 DEF SendCell
    <3> HIDE DEF m
    <3> QED
      BY <2>1, <3>1 DEF Travels
  <2>2. CASE ~ SendCell(r)
    BY <1>1, <2>2 DEF CallStarts, CallProceeds, Refuse, OpenStream, TakeSeq, SendFails, Receive,
       Disconnect, TimeOut, Travels
  <2> QED
    BY <2>1, <2>2
<1>2. ASSUME NEW m \in net, Peel(m) PROVE Travels(s)
  <2> DEFINE t == [m EXCEPT !.onion = Tail(m.onion)]
  <2>1. net' = net \ {m} /\ tasks' = tasks \cup {t} /\ t.msg = m.msg
    BY <1>0, <1>2 DEF Peel, Cell
  <2> HIDE DEF t
  <2> QED
    BY <2>1 DEF Travels
<1>3. ASSUME NEW m \in net, Backward(m) PROVE Travels(s)
  <2> DEFINE n == [m EXCEPT !.at = m.at - 1, !.onion = Sealed(HopKey("bwd", m.at), m.onion)]
  <2>1. net' \subseteq (net \ {m}) \cup {n} /\ tasks' = tasks
    BY <1>3 DEF Backward, calls
  <2>2. n.msg = m.msg
    BY <1>0 DEF Cell
  <2> HIDE DEF n
  <2> QED
    BY <2>1, <2>2 DEF Travels
<1>4. ASSUME NEW t \in tasks, PassOn(t) PROVE Travels(s)
  <2>1. \A m \in Outgoing(t) : m.msg = t.msg
    <3>1. t \in Cell
      BY <1>0
    <3> QED
      BY <3>1 DEF Outgoing, Cell
  <2>2. net' = net \cup Outgoing(t) /\ tasks' = tasks \ {t}
    BY <1>4 DEF PassOn
  <2>3. PICK m \in net \cup Outgoing(t) \cup tasks : m.msg = s
    BY <2>2 DEF Travels
  <2> QED
    BY <2>1, <2>3 DEF Travels
<1>5. ASSUME NEW m \in net, DropForward(m) \/ OriginReceives(m) \/ LoseCell(m) PROVE Travels(s)
  BY <1>5 DEF DropForward, OriginReceives, Taken, LoseCell, Travels
<1>6. ASSUME UNCHANGED <<net, tasks>> PROVE Travels(s)
  BY <1>6 DEF Travels
<1> QED
  BY <1>1, <1>2, <1>3, <1>4, <1>5, <1>6 DEF Next, HandlesAt, Handle, Remove, Close, Finished, vars

\* The steps of calls.
LEMMA TurnOfCall ==
  ASSUME IInv, TurnInv, InTurn, NEW s \in Sender, CallStarts(s) \/ CallProceeds(s)
  PROVE  TurnInv'
<1>0. /\ TypeOK /\ OnePlace /\ UNCHANGED <<env, entry>>
      /\ [Next]_vars /\ \A e \in Echo : e \in Sender
  BY DEF IInv, CallStarts, CallProceeds, Refuse, OpenStream, TakeSeq, SendCell, SendFails, Receive,
     Disconnect, TimeOut, circuit, Next, Sender
<1>1. \A r \in Sender : pc'[r] = IF r = s THEN pc'[s] ELSE pc[r]
  BY <1>0 DEF CallStarts, CallProceeds, Refuse, OpenStream, TakeSeq, SendCell, SendFails, Receive,
     Disconnect, TimeOut, TypeOK
<1>2. \A r \in Sender : Active(r)' => Active(r) \/ (r = s /\ MayStart /\ pc[s] = "idle")
  BY <1>0, <1>1 DEF CallStarts, CallProceeds, Refuse, OpenStream, TakeSeq, SendCell, SendFails, Receive,
     Disconnect, TimeOut, TypeOK, Active
<1>3. MayStart => \A r \in Sender : ~ Active(r)
  BY DEF MayStart, InTurn, Active
<1>4. \A r, t \in Sender : Active(r)' /\ Active(t)' => r = t
  BY <1>2, <1>3 DEF TurnInv
<1>5. \A e \in Echo : Active(e)' /\ 0 \in entry' => stream' = e
  <2>1. CASE s \in Echo /\ OpenStream(s)
    <3>1. Active(s)' /\ (0 \in entry => stream' = s)
      BY <1>0, <2>1 DEF OpenStream, Active, TypeOK
    <3> QED
      BY <1>0, <1>4, <3>1
  <2>2. CASE ~ (s \in Echo /\ OpenStream(s))
    <3>1. stream' = stream /\ (MayStart /\ pc[s] = "idle" /\ Active(s)' => s \in Data)
      BY <1>0, <2>2 DEF CallStarts, CallProceeds, Refuse, TakeSeq, SendCell, SendFails, Receive,
         Disconnect, TimeOut, TypeOK, Active
    <3> QED
      BY <1>0, <1>2, <3>1, SenderAssumption DEF TurnInv
  <2> QED
    BY <2>1, <2>2
<1>6. \A e, x \in Echo, i \in Nat : InChannel(x, e, i)' => x = e
  <2>1. CASE s \in Echo /\ Receive(s)
    <3> SUFFICES ASSUME NEW e \in Echo, NEW x \in Echo, NEW i \in Nat, InChannel(x, e, i)'
                 PROVE  x = e
      OBVIOUS
    <3>1. inbox[s] \in Seq(Echo) /\ inbox[s] # << >>
      BY <1>0, <2>1 DEF TypeOK, Receive
    <3>2. inbox'[e] = IF e = s THEN Tail(inbox[s]) ELSE inbox[e]
      BY <1>0, <2>1 DEF TypeOK, Receive
    <3>3. CASE e = s
      <4>1. i \in 1..Len(Tail(inbox[s])) /\ Tail(inbox[s])[i] = x
        BY <3>2, <3>3 DEF InChannel
      <4>2. i + 1 \in 1..Len(inbox[s]) /\ inbox[s][i + 1] = x
        BY <3>1, <4>1
      <4> QED
        BY <3>3, <4>2 DEF TurnInv, InChannel
    <3>4. CASE e # s
      BY <3>2, <3>4 DEF TurnInv, InChannel
    <3> QED
      BY <3>3, <3>4
  <2>2. CASE inbox' = inbox
    BY <2>2 DEF TurnInv, InChannel
  <2> QED
    BY <2>1, <2>2 DEF CallStarts, CallProceeds, Refuse, OpenStream, TakeSeq, SendCell, SendFails, Receive,
       Disconnect, TimeOut
<1>7. s \in Echo /\ Receive(s) => Head(inbox[s]) = s
  <2> SUFFICES ASSUME s \in Echo, Receive(s) PROVE Head(inbox[s]) = s
    OBVIOUS
  <2>1. inbox[s] \in Seq(Echo) /\ inbox[s] # << >>
    BY <1>0 DEF TypeOK, Receive
  <2>2. Head(inbox[s]) \in Echo /\ InChannel(Head(inbox[s]), s, 1)
    BY <2>1 DEF InChannel
  <2> QED
    BY <2>2 DEF TurnInv
<1>8. \A e \in Echo : (reply[e])' \in {None, e}
  BY <1>0, <1>7 DEF CallStarts, CallProceeds, Refuse, OpenStream, TakeSeq, SendCell, SendFails, Receive,
     Disconnect, TimeOut, TypeOK, TurnInv
<1>9. \A e \in Echo : Travels(e)' /\ 0 \in entry' => pc'[e] = "waiting"
  <2> SUFFICES ASSUME NEW e \in Echo, Travels(e)', 0 \in entry, pc'[e] # "waiting" PROVE FALSE
    BY <1>0
  <2>1. ~ SendCell(e)
    BY <1>0 DEF SendCell, TypeOK
  <2>2. Travels(e) /\ pc[e] = "waiting"
    BY <1>0, <2>1, TravelsOn DEF TurnInv
  <2>3. e = s
    BY <1>0, <1>1, <2>2
  <2>4. Receive(s) \/ Disconnect(s) \/ TimeOut(s)
    BY <1>0, <2>1, <2>2, <2>3 DEF CallStarts, CallProceeds, Refuse, OpenStream, TakeSeq, SendCell, SendFails
  <2>5. CASE Receive(s)
    <3>1. InChannel(s, s, 1)
      <4>1. inbox[s] \in Seq(Echo) /\ inbox[s] # << >>
        BY <1>0, <2>3, <2>5 DEF TypeOK, Receive
      <4> QED
        BY <1>7, <2>3, <2>5, <4>1 DEF InChannel
    <3> QED
      BY <1>0, <2>2, <2>3, <3>1 DEF OnePlace
  <2>6. CASE Disconnect(s)
    BY <2>2, <2>3, <2>6 DEF Disconnect, TurnInv, Active
  <2>7. CASE TimeOut(s)
    BY <2>2, <2>3, <2>7 DEF TimeOut, InTurn, Travels
  <2> QED
    BY <2>4, <2>5, <2>6, <2>7
<1> QED
  BY <1>4, <1>5, <1>6, <1>8, <1>9 DEF TurnInv

\* The steps of nodes, the network and the circuit's end.
LEMMA TurnElsewhere ==
  ASSUME IInv, TurnInv, InTurn, [Next]_vars, UNCHANGED pc,
         \/ \E h \in 0..L : HandlesAt(h)
         \/ \E h \in {0, 1} : Remove(h)
         \/ Close
         \/ \E m \in net : LoseCell(m)
         \/ UNCHANGED vars
  PROVE  TurnInv'
<1>0. TypeOK /\ Placed /\ \A e \in Echo : e \in Sender
  BY DEF IInv, Sender
<1>1. \A s \in Sender : Active(s)' <=> Active(s)
  BY DEF Active
<1>2. /\ reply' = reply
      /\ 0 \in entry' => 0 \in entry /\ stream' = stream
  BY DEF HandlesAt, Handle, Peel, DropForward, Backward, OriginReceives, PassOn, Remove, Close,
     LoseCell, vars, circuit, calls
<1>3. \A e \in Echo : Travels(e)' => Travels(e)
  <2>1. \A e \in Echo : ~ SendCell(e)
    BY <1>0 DEF SendCell, TypeOK
  <2> QED
    BY <1>0, <2>1, TravelsOn
<1>4. \A e, x \in Echo, i \in Nat : InChannel(x, e, i)' => x = e
  <2>1. CASE inbox' = inbox
    BY <2>1 DEF InChannel, TurnInv
  <2>2. CASE inbox' # inbox
    <3>1. PICK m \in net : OriginReceives(m)
      BY <2>2 DEF HandlesAt, Handle, Peel, DropForward, Backward, PassOn, Remove, Close,
         LoseCell, vars, circuit, calls
    <3>2. /\ m.msg \in Echo /\ 0 \in entry /\ stream \in Echo /\ pc[stream] # "done"
          /\ inbox' = [inbox EXCEPT ![stream] = Append(@, m.msg)]
      BY <1>0, <2>2, <3>1 DEF OriginReceives, TypeOK, Placed
    <3>3. Travels(m.msg)
      BY DEF Travels
    <3>4. m.msg = stream
      BY <1>0, <3>2, <3>3 DEF TurnInv, Active
    <3> SUFFICES ASSUME NEW e \in Echo, NEW x \in Echo, NEW i \in Nat, InChannel(x, e, i)'
                 PROVE  x = e
      OBVIOUS
    <3>5. inbox'[e] = IF e = stream THEN Append(inbox[e], stream) ELSE inbox[e]
      BY <1>0, <3>2, <3>4 DEF TypeOK
    <3>6. inbox[e] \in Seq(Echo)
      BY <1>0 DEF TypeOK
    <3>7. CASE e = stream
      <4>1. i \in 1..Len(Append(inbox[e], e)) /\ Append(inbox[e], e)[i] = x
        BY <3>5, <3>7 DEF InChannel
      <4>2. x = e \/ (i \in 1..Len(inbox[e]) /\ inbox[e][i] = x)
        BY <3>6, <4>1
      <4> QED
        BY <4>2 DEF TurnInv, InChannel
    <3>8. CASE e # stream
      BY <3>5, <3>8 DEF TurnInv, InChannel
    <3> QED
      BY <3>7, <3>8
  <2> QED
    BY <2>1, <2>2
<1> QED
  BY <1>0, <1>1, <1>2, <1>3, <1>4 DEF TurnInv

LEMMA TurnStep == IInv /\ TurnInv /\ [Next]_vars => TurnInv'
<1> SUFFICES ASSUME IInv, TurnInv, [Next]_vars PROVE TurnInv'
  OBVIOUS
<1>1. env' = env
  BY DEF Next, CallStarts, CallProceeds, Refuse, OpenStream, TakeSeq, SendCell, SendFails, Receive,
     Disconnect, TimeOut, HandlesAt, Handle, Peel, DropForward, Backward, OriginReceives, PassOn,
     Remove, Close, LoseCell, Finished, vars, circuit
<1>2. CASE ~ InTurn
  BY <1>1, <1>2 DEF TurnInv, InTurn
<1>3. CASE InTurn /\ \E s \in Sender : CallStarts(s) \/ CallProceeds(s)
  BY <1>3, TurnOfCall
<1>4. CASE InTurn /\ ~ \E s \in Sender : CallStarts(s) \/ CallProceeds(s)
  <2>1. UNCHANGED pc
    BY <1>4 DEF Next, HandlesAt, Handle, Peel, DropForward, Backward, OriginReceives, PassOn,
       Remove, Close, LoseCell, Finished, vars, calls
  <2> QED
    BY <1>4, <2>1, TurnElsewhere DEF Next, Finished
<1> QED
  BY <1>2, <1>3, <1>4

-----------------------------------------------------------------------------
(* The theorems.                                                           *)

LEMMA Invariance == Spec => []IInv
<1>1. IInv /\ [Next]_vars => IInv'
  BY TypeStep, OnePlaceStep DEF IInv
<1> QED
  BY InitIInv, <1>1, PTL DEF Spec

\* Every variable of the data plane keeps its type, for any number of hops.
THEOREM TypeCorrect == Spec => []TypeOK
BY Invariance, PTL DEF IInv

\* On every circuit, whatever is lost, closed or overtaken, a cell carries exactly the
\* layers of the hops it has still to pass, or has passed on its way back.
THEOREM OnionsWellLayered == Spec => []OnionLayers
BY Invariance, PTL DEF IInv

\* No answer is returned by two echoes, however many share the stream.
THEOREM AnswersNotShared == Spec => []RepliesNotShared
<1>1. IInv => RepliesNotShared
  BY DEF IInv, OnePlace
<1> QED
  BY Invariance, <1>1, PTL

\* When calls are made in turn and wait until nothing of theirs is on the way, an echo
\* returns no answer but its own (builder.rs:102), for any number of hops and calls,
\* whatever is lost and although the circuit is closed under them.
THEOREM AnswersOwn == Spec => []ReplyOwn
<1>1. Init => TurnInv
  <2> SUFFICES ASSUME Init PROVE TurnInv
    OBVIOUS
  <2>1. /\ \A s \in Sender : ~ Active(s)
        /\ \A s \in Sender : ~ Travels(s)
        /\ \A e \in Echo : e \in Sender /\ inbox[e] = << >> /\ reply[e] = None
    BY DEF Init, Active, Travels, Sender
  <2>2. \A e, x \in Echo, i \in Nat : ~ InChannel(x, e, i)
    BY <2>1 DEF InChannel
  <2> QED
    BY <2>1, <2>2 DEF TurnInv
<1>2. IInv /\ TurnInv /\ [Next]_vars => TurnInv'
  BY TurnStep
<1>3. TurnInv => ReplyOwn
  BY DEF TurnInv, InTurn, ReplyOwn
<1> QED
  BY <1>1, <1>2, <1>3, Invariance, PTL DEF Spec

\* Two messages never share keys and nonce, whatever calls overlap: the seq each takes
\* is its own as long as no more messages are sent than the u32 has left (builder.rs:118).
THEOREM NoncesFresh ==
  ASSUME IsFiniteSet(Sender), FirstSeq + Cardinality(Sender) <= SeqMod
  PROVE  Spec => []NonceFresh
<1>1. Init => SeqsCounted
  <2> SUFFICES ASSUME Init PROVE SeqsCounted
    OBVIOUS
  <2>1. Numbered = {} /\ NonceFresh /\ \A s \in Sender : seqOf[s] = 0
    BY DEF Init, Numbered, NonceFresh
  <2>2. Cardinality(Numbered) = 0
    BY <2>1, FS_EmptySet
  <2>3. FirstSeq + 0 = FirstSeq /\ seqOrigin = FirstSeq
    BY SeqAssumption DEF Init
  <2> QED
    BY <2>1, <2>2, <2>3 DEF SeqsCounted
<1>2. TypeOK /\ SeqsCounted /\ [Next]_vars => SeqsCounted'
  BY SeqStep
<1>3. SeqsCounted => NonceFresh
  BY DEF SeqsCounted
<1> QED
  BY <1>1, <1>2, <1>3, TypeCorrect, PTL DEF Spec
=============================================================================
