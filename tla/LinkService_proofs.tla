-------------------------- MODULE LinkService_proofs --------------------------
(***************************************************************************)
(* Proofs that the link is the channel of LinkService, for any nodes and   *)
(* calls and any number of lost, repeated and delayed datagrams and of     *)
(* restarts, and that no nonce is used twice.                              *)
(***************************************************************************)
EXTENDS Link_proofs

-----------------------------------------------------------------------------
(* The inductive invariant.                                                *)

Elems(s) == {s[i] : i \in 1..Len(s)}

\* Every ciphertext there is: encrypted, on its way or read.
Made ==
  {c \in Cipher : \/ \E s \in Call : c = sealed[s]
                  \/ \E e \in Pair : c \in Elems(wire[e]) \cup Elems(read[e])}

\* A ciphertext is of a call that has encrypted it, and where that call sends it.
CellsPlaced ==
  /\ \A s \in Call : sealed[s] # None => sealed[s].cell = s /\ pc[s] = "sealed"
  /\ \A e \in Pair : \A c \in Elems(wire[e]) \cap Cipher : ends[c.cell] = e /\ pc[c.cell] = "sent"
  /\ \A e \in Pair : \A c \in Elems(read[e]) : ends[c.cell] = Back(e) /\ pc[c.cell] = "sent"
  /\ \A c \in Made : c.cell \in Elems(order)

\* Every answer is younger than the handshake it answers.
AnswersYounger ==
  \A e \in Pair : \A d \in Elems(wire[e]) : d.kind = "hs2" => d.key.hs < d.key.answer

\* The keys that have been used are old.
KeysOld == \A c \in Made : Old(c.key, fresh)

\* No two handshakes under way are the same, and none has an initiator's session yet.
HandshakesDiffer ==
  \A e \in Pair : inflight[e] # None =>
    /\ \A f \in Pair : inflight[f] = inflight[e] => f = e
    /\ \A c \in Made : c.role = "initiator" => c.key.hs # inflight[e]
    /\ \A f \in Pair : session[f] # None /\ session[f].role = "initiator" =>
         session[f].key.hs # inflight[e]

\* One end of a session is in one place.
SessionsDiffer ==
  \A e, f \in Pair :
    session[e] # None /\ session[f] # None
      /\ session[e].key = session[f].key /\ session[e].role = session[f].role => e = f

\* The next nonce of a session has not been used.
NoncesBelow ==
  \A e \in Pair : session[e] # None =>
    \A c \in Made : c.key = session[e].key /\ c.role = session[e].role => c.nonce < session[e].tx

NoncesOnce ==
  \A c, d \in Made : c.key = d.key /\ c.role = d.role /\ c.nonce = d.nonce => c = d

\* What a node has encrypted for or read from an address is of its session with it or of an older one.
KeysGrow ==
  \A e \in Pair :
    /\ \A c \in Made : ends[c.cell] = e \/ c \in Elems(read[e]) =>
         /\ session[e] # None =>
              c.key = session[e].key \/ c.key.answer < session[e].key.answer
         /\ inflight[e] # None => c.key.answer < inflight[e]
    /\ session[e] # None /\ inflight[e] # None => session[e].key.answer < inflight[e]

\* A session reads what the other end has encrypted.
RolesDiffer ==
  \A e \in Pair : session[e] # None =>
    \A c \in Elems(read[e]) : c.key = session[e].key => c.role # session[e].role

\* Call r encrypted before call s.
Ahead(r, s) == \E i, j \in 1..Len(order) : i < j /\ order[i] = r /\ order[j] = s

\* Older sessions and smaller nonces were encrypted before.
OrderFollows ==
  \A c, d \in Made :
    /\ ends[c.cell] = ends[d.cell]
    /\ \/ c.key.answer < d.key.answer
       \/ c.key = d.key /\ c.role = d.role /\ c.nonce < d.nonce
    => Ahead(c.cell, d.cell)

CInv ==
  /\ CellsPlaced /\ AnswersYounger /\ KeysOld /\ HandshakesDiffer /\ SessionsDiffer
  /\ NoncesBelow /\ NoncesOnce /\ KeysGrow /\ RolesDiffer /\ OrderFollows

-----------------------------------------------------------------------------
(* Elements of sequences.                                                  *)

LEMMA ElemsOf ==
  ASSUME NEW S, NEW s \in Seq(S)
  PROVE  /\ Elems(s) \subseteq S
         /\ Elems(<< >>) = {}
         /\ \A x \in S : Elems(<<x>>) = {x}
         /\ \A x \in S : Elems(Append(s, x)) = Elems(s) \cup {x}
         /\ s # << >> => Head(s) \in Elems(s) /\ Elems(Tail(s)) \subseteq Elems(s)
<1>1. \A i \in 1..Len(s) : s[i] \in S
  OBVIOUS
<1>2. ASSUME NEW x \in S PROVE Elems(Append(s, x)) = Elems(s) \cup {x}
  <2>1. /\ Len(Append(s, x)) = Len(s) + 1 /\ Len(s) \in Nat
        /\ \A i \in 1..(Len(s) + 1) : Append(s, x)[i] = IF i = Len(s) + 1 THEN x ELSE s[i]
    OBVIOUS
  <2>2. Elems(Append(s, x)) \subseteq Elems(s) \cup {x}
    BY <2>1 DEF Elems
  <2>3. Elems(s) \cup {x} \subseteq Elems(Append(s, x))
    <3>1. x = Append(s, x)[Len(s) + 1] /\ Len(s) + 1 \in 1..(Len(s) + 1)
      BY <2>1
    <3>2. \A i \in 1..Len(s) : i \in 1..(Len(s) + 1) /\ s[i] = Append(s, x)[i]
      BY <2>1
    <3> QED
      BY <2>1, <3>1, <3>2 DEF Elems
  <2> QED
    BY <2>2, <2>3
<1>3. ASSUME s # << >> PROVE Head(s) \in Elems(s) /\ Elems(Tail(s)) \subseteq Elems(s)
  <2>1. /\ Len(s) \in Nat \ {0} /\ Head(s) = s[1] /\ Len(Tail(s)) = Len(s) - 1
        /\ \A i \in 1..(Len(s) - 1) : Tail(s)[i] = s[i + 1]
    BY <1>3
  <2> QED
    BY <2>1 DEF Elems
<1>4. Elems(<< >>) = {} /\ \A x \in S : Elems(<<x>>) = {x}
  BY DEF Elems
<1> QED
  BY <1>1, <1>2, <1>3, <1>4 DEF Elems

LEMMA ElemsOfConcat ==
  ASSUME NEW S, NEW s \in Seq(S), NEW t \in Seq(S)
  PROVE  Elems(s \o t) = Elems(s) \cup Elems(t)
<1>1. /\ Len(s) \in Nat /\ Len(t) \in Nat /\ Len(s \o t) = Len(s) + Len(t)
      /\ \A i \in 1..(Len(s) + Len(t)) :
           (s \o t)[i] = IF i \leq Len(s) THEN s[i] ELSE t[i - Len(s)]
  OBVIOUS
<1>2. Elems(s \o t) \subseteq Elems(s) \cup Elems(t)
  BY <1>1 DEF Elems
<1>3. Elems(s) \subseteq Elems(s \o t)
  BY <1>1 DEF Elems
<1>4. Elems(t) \subseteq Elems(s \o t)
  <2>1. \A i \in 1..Len(t) : /\ Len(s) + i \in 1..(Len(s) + Len(t))
                             /\ t[i] = (s \o t)[Len(s) + i]
    BY <1>1
  <2>2. \A i \in 1..Len(t) : t[i] \in Elems(s \o t)
    BY <1>1, <2>1 DEF Elems
  <2> QED
    BY <2>2 DEF Elems
<1> QED
  BY <1>2, <1>3, <1>4

LEMMA ElemsOfSubSeq ==
  ASSUME NEW S, NEW s \in Seq(S), NEW i \in 1..(Len(s) + 1), NEW j \in 0..Len(s)
  PROVE  SubSeq(s, i, j) \in Seq(S) /\ Elems(SubSeq(s, i, j)) \subseteq Elems(s)
<1>1. SubSeq(s, i, j) \in Seq(S)
  OBVIOUS
<1>2. /\ Len(s) \in Nat
      /\ Len(SubSeq(s, i, j)) = IF i \leq j THEN j - i + 1 ELSE 0
      /\ \A k \in 1..(j - i + 1) : SubSeq(s, i, j)[k] = s[i + k - 1]
  OBVIOUS
<1> QED
  BY <1>1, <1>2 DEF Elems

LEMMA ElemsOfRemoveAt ==
  ASSUME NEW S, NEW s \in Seq(S), NEW i \in 1..Len(s)
  PROVE  Elems(RemoveAt(s, i)) \subseteq Elems(s)
<1> DEFINE p == SubSeq(s, 1, i - 1)
           q == SubSeq(s, i + 1, Len(s))
<1>1. /\ 1 \in 1..(Len(s) + 1) /\ i - 1 \in 0..Len(s)
      /\ i + 1 \in 1..(Len(s) + 1) /\ Len(s) \in 0..Len(s)
  OBVIOUS
<1>2. /\ p \in Seq(S) /\ Elems(p) \subseteq Elems(s)
      /\ q \in Seq(S) /\ Elems(q) \subseteq Elems(s)
  BY <1>1, ElemsOfSubSeq
<1>3. RemoveAt(s, i) = p \o q
  BY DEF RemoveAt
<1> HIDE DEF p, q
<1> QED
  BY <1>2, <1>3, ElemsOfConcat

-----------------------------------------------------------------------------
(* What is known of ciphertexts and sessions.                              *)

LEMMA MadeTyped ==
  ASSUME NEW c \in Made
  PROVE  /\ c \in Cipher /\ c.kind = "cell" /\ c.key \in Key /\ c.key.hs \in Nat
         /\ c.key.answer \in Nat /\ c.role \in Role /\ c.nonce \in Nat /\ c.cell \in Call
BY DEF Made, Cipher, Key

LEMMA SessionTyped ==
  ASSUME TypeOK, NEW e \in Pair, session[e] # None
  PROVE  /\ session[e].key \in Key /\ session[e].key.hs \in Nat /\ session[e].key.answer \in Nat
         /\ session[e].role \in Role /\ session[e].tx \in Nat /\ session[e].rx \in Nat
BY DEF TypeOK, Session, Key

\* The ciphertexts there are, by where they are.
LEMMA WhereMade ==
  ASSUME TypeOK
  PROVE  /\ \A s \in Call : sealed[s] # None => sealed[s] \in Made
         /\ \A e \in Pair : Elems(wire[e]) \cap Cipher \subseteq Made
         /\ \A e \in Pair : Elems(read[e]) \subseteq Made
<1>1. \A s \in Call : sealed[s] # None => sealed[s] \in Cipher
  BY DEF TypeOK
<1>2. \A e \in Pair : Elems(read[e]) \subseteq Cipher
  BY ElemsOf DEF TypeOK
<1> QED
  BY <1>1, <1>2 DEF Made

\* A new datagram is a handshake message, or what a call has encrypted and hands over.
Handed(e, d) == \E s \in Call : d = sealed[s] /\ ends[s] = e /\ pc'[s] = "sent"

\* No ciphertext is made: those there were are moved, or are lost.
LEMMA Moved ==
  ASSUME TypeOK, TypeOK', CInv,
         ends' = ends,
         \A s \in Call : pc[s] = "sent" => pc'[s] = "sent",
         \A s \in Call : sealed'[s] # None => sealed'[s] = sealed[s] /\ pc'[s] = pc[s],
         \A e \in Pair : \A d \in Elems(wire'[e]) :
           \/ d \in Elems(wire[e])
           \/ d.kind = "hs1"
           \/ d.kind = "hs2" /\ d.key.hs < d.key.answer
           \/ Handed(e, d),
         \A e \in Pair : \A d \in Elems(read'[e]) :
           d \in Elems(read[e]) \/ d \in Elems(wire[Back(e)]) \cap Cipher,
         Elems(order) \subseteq Elems(order')
  PROVE  CellsPlaced' /\ AnswersYounger' /\ Made' \subseteq Made
<1>0. CellsPlaced /\ AnswersYounger
  BY DEF CInv
<1>1. \A e \in Pair : Back(e) \in Pair /\ Back(Back(e)) = e
  BY BackPair
<1>2. \A e \in Pair : \A d \in Elems(wire'[e]) \cap Cipher :
        d \in Elems(wire[e]) \/ Handed(e, d)
  BY DEF Cipher
<1>3. ASSUME NEW e \in Pair, NEW d \in Cipher, Handed(e, d)
      PROVE  d \in Made /\ ends[d.cell] = e /\ pc'[d.cell] = "sent"
  <2>1. PICK s \in Call : d = sealed[s] /\ ends[s] = e /\ pc'[s] = "sent"
    BY <1>3 DEF Handed
  <2>2. d # None /\ d \in Made
    BY <1>3, <2>1, NoneAssumption DEF Made, Datagram
  <2>3. d.cell = s
    BY <1>0, <2>1, <2>2 DEF CellsPlaced
  <2> QED
    BY <2>1, <2>2, <2>3
<1>4. Made' \subseteq Made
  <2> SUFFICES ASSUME NEW c \in Made' PROVE c \in Made
    OBVIOUS
  <2>1. c \in Cipher /\ c # None
    BY NoneAssumption DEF Made, Datagram
  <2>2. ASSUME NEW s \in Call, c = sealed'[s] PROVE c \in Made
    BY <2>1, <2>2, WhereMade
  <2>3. ASSUME NEW e \in Pair, c \in Elems(wire'[e]) PROVE c \in Made
    BY <1>2, <1>3, <2>1, <2>3, WhereMade
  <2>4. ASSUME NEW e \in Pair, c \in Elems(read'[e]) PROVE c \in Made
    BY <1>1, <2>1, <2>4, WhereMade
  <2> QED
    BY <2>2, <2>3, <2>4 DEF Made
<1>5. \A s \in Call : sealed'[s] # None => sealed'[s].cell = s /\ pc'[s] = "sealed"
  BY <1>0 DEF CellsPlaced
<1>6. ASSUME NEW e \in Pair, NEW c \in Elems(wire'[e]) \cap Cipher
      PROVE  ends'[c.cell] = e /\ pc'[c.cell] = "sent"
  <2>1. CASE c \in Elems(wire[e])
    <3>1. c.cell \in Call
      BY DEF Cipher
    <3> QED
      BY <1>0, <2>1, <3>1 DEF CellsPlaced
  <2> QED
    BY <1>2, <1>3, <2>1
<1>7. ASSUME NEW e \in Pair, NEW c \in Elems(read'[e])
      PROVE  ends'[c.cell] = Back(e) /\ pc'[c.cell] = "sent"
  <2>1. c \in Elems(read[e]) \/ c \in Elems(wire[Back(e)]) \cap Cipher
    OBVIOUS
  <2>2. c \in Cipher /\ c.cell \in Call
    <3>1. c \in Cipher
      BY <2>1, WhereMade, MadeTyped
    <3> QED
      BY <3>1 DEF Cipher
  <2>3. ends[c.cell] = Back(e) /\ pc[c.cell] = "sent"
    BY <1>0, <1>1, <2>1 DEF CellsPlaced
  <2> QED
    BY <2>2, <2>3
<1>8. \A c \in Made' : c.cell \in Elems(order')
  BY <1>0, <1>4 DEF CellsPlaced
<1>9. CellsPlaced'
  BY <1>5, <1>6, <1>7, <1>8 DEF CellsPlaced
<1>10. AnswersYounger'
  <2> SUFFICES ASSUME NEW e \in Pair, NEW d \in Elems(wire'[e]), d.kind = "hs2"
               PROVE  d.key.hs < d.key.answer
    BY DEF AnswersYounger
  <2>1. ~ Handed(e, d)
    <3> SUFFICES ASSUME NEW s \in Call, d = sealed[s] PROVE FALSE
      BY DEF Handed
    <3>1. wire'[e] \in Seq(Datagram) /\ d \in Datagram
      <4>1. wire'[e] \in Seq(Datagram)
        BY DEF TypeOK
      <4> QED
        BY <4>1, ElemsOf
    <3>2. d # None
      BY <3>1, NoneAssumption
    <3> QED
      BY <3>2, WhereMade, MadeTyped
  <2> QED
    BY <1>0, <2>1 DEF AnswersYounger
<1> QED
  BY <1>4, <1>9, <1>10

\* What CInv says of keys and nonces.
Used ==
  /\ KeysOld /\ HandshakesDiffer /\ SessionsDiffer /\ NoncesBelow /\ NoncesOnce
  /\ KeysGrow /\ RolesDiffer /\ OrderFollows

\* Nothing new is made and no session is: what was used stays used.
LEMMA Carried ==
  ASSUME TypeOK, Used,
         Made' \subseteq Made, ends' = ends, fresh \in Nat, fresh' \in {fresh, fresh + 1},
         \A e \in Pair : \A c \in Elems(read'[e]) :
           \/ c \in Elems(read[e])
           \/ session[e] # None /\ c.key = session[e].key /\ c.role # session[e].role,
         \A e \in Pair : session'[e] # None =>
           /\ session[e] # None
           /\ session'[e].key = session[e].key /\ session'[e].role = session[e].role
           /\ session'[e].tx = session[e].tx,
         \A e \in Pair : inflight'[e] # None => inflight'[e] = inflight[e],
         \A r, s : Ahead(r, s) => Ahead(r, s)'
  PROVE  Used'
<1>0. KeysOld /\ HandshakesDiffer /\ SessionsDiffer /\ NoncesBelow /\ NoncesOnce
      /\ KeysGrow /\ RolesDiffer /\ OrderFollows
  BY DEF Used
<1>1. KeysOld'
  BY <1>0, MadeTyped DEF KeysOld, Old
<1>2. HandshakesDiffer'
  BY <1>0 DEF HandshakesDiffer
<1>3. SessionsDiffer'
  BY <1>0 DEF SessionsDiffer
<1>4. NoncesBelow'
  BY <1>0 DEF NoncesBelow
<1>5. NoncesOnce'
  BY <1>0 DEF NoncesOnce
<1>6. KeysGrow'
  <2>1. ASSUME NEW e \in Pair, NEW c \in Made', ends'[c.cell] = e \/ c \in Elems(read'[e])
        PROVE  /\ session'[e] # None =>
                    c.key = session'[e].key \/ c.key.answer < session'[e].key.answer
               /\ inflight'[e] # None => c.key.answer < inflight'[e]
    <3>1. CASE ends[c.cell] = e \/ c \in Elems(read[e])
      BY <1>0, <3>1 DEF KeysGrow
    <3>2. CASE session[e] # None /\ c.key = session[e].key
      BY <1>0, <3>2 DEF KeysGrow
    <3> QED
      BY <2>1, <3>1, <3>2
  <2>2. \A e \in Pair : session'[e] # None /\ inflight'[e] # None =>
          session'[e].key.answer < inflight'[e]
    BY <1>0 DEF KeysGrow
  <2> QED
    BY <2>1, <2>2 DEF KeysGrow
<1>7. RolesDiffer'
  BY <1>0 DEF RolesDiffer
<1>8. OrderFollows'
  BY <1>0 DEF OrderFollows
<1> QED
  BY <1>1, <1>2, <1>3, <1>4, <1>5, <1>6, <1>7, <1>8 DEF Used

\* A session under keys that were never used: it is the youngest at its place.
LEMMA Begun ==
  ASSUME TypeOK, Used,
         Made' \subseteq Made, ends' = ends, read' = read, order' = order,
         fresh \in Nat, fresh' \in {fresh, fresh + 1},
         NEW b \in Pair, NEW key \in Key, NEW role \in Role,
         \A e \in Pair : session'[e] = IF e = b
           THEN [key |-> key, role |-> role, tx |-> 0, rx |-> 0] ELSE session[e],
         \A e \in Pair : inflight'[e] = IF e = b THEN None ELSE inflight[e],
         \A c \in Made : ~ (c.key = key /\ c.role = role),
         \A e \in Pair : session[e] # None => ~ (session[e].key = key /\ session[e].role = role),
         \A c \in Made : ends[c.cell] = b \/ c \in Elems(read[b]) => c.key.answer < key.answer,
         role = "initiator" => \A e \in Pair : e # b => inflight[e] # key.hs
  PROVE  Used'
<1>0. KeysOld /\ HandshakesDiffer /\ SessionsDiffer /\ NoncesBelow /\ NoncesOnce
      /\ KeysGrow /\ RolesDiffer /\ OrderFollows
  BY DEF Used
<1>1. KeysOld'
  BY <1>0, MadeTyped DEF KeysOld, Old
<1>2. HandshakesDiffer'
  <2> SUFFICES ASSUME NEW e \in Pair, inflight'[e] # None
               PROVE  /\ \A f \in Pair : inflight'[f] = inflight'[e] => f = e
                      /\ \A c \in Made' : c.role = "initiator" => c.key.hs # inflight'[e]
                      /\ \A f \in Pair : session'[f] # None /\ session'[f].role = "initiator" =>
                           session'[f].key.hs # inflight'[e]
    BY DEF HandshakesDiffer
  <2>1. e # b /\ inflight'[e] = inflight[e] /\ inflight[e] # None
    OBVIOUS
  <2>2. \A f \in Pair : inflight'[f] = inflight'[e] => f = e
    BY <1>0, <2>1 DEF HandshakesDiffer
  <2>3. \A c \in Made' : c.role = "initiator" => c.key.hs # inflight'[e]
    BY <1>0, <2>1 DEF HandshakesDiffer
  <2>4. \A f \in Pair : session'[f] # None /\ session'[f].role = "initiator" =>
          session'[f].key.hs # inflight'[e]
    BY <1>0, <2>1 DEF HandshakesDiffer
  <2> QED
    BY <2>2, <2>3, <2>4
<1>3. SessionsDiffer'
  <2> SUFFICES ASSUME NEW e \in Pair, NEW f \in Pair,
                      session'[e] # None, session'[f] # None,
                      session'[e].key = session'[f].key, session'[e].role = session'[f].role
               PROVE  e = f
    BY DEF SessionsDiffer
  <2>1. CASE e = b
    BY <2>1
  <2>2. CASE f = b
    BY <2>2
  <2>3. CASE e # b /\ f # b
    BY <1>0, <2>3 DEF SessionsDiffer
  <2> QED
    BY <2>1, <2>2, <2>3
<1>4. NoncesBelow'
  <2> SUFFICES ASSUME NEW e \in Pair, session'[e] # None, NEW c \in Made',
                      c.key = session'[e].key, c.role = session'[e].role
               PROVE  c.nonce < session'[e].tx
    BY DEF NoncesBelow
  <2>1. e # b
    OBVIOUS
  <2> QED
    BY <1>0, <2>1 DEF NoncesBelow
<1>5. NoncesOnce'
  BY <1>0 DEF NoncesOnce
<1>6. KeysGrow'
  <2>1. ASSUME NEW e \in Pair, NEW c \in Made', ends'[c.cell] = e \/ c \in Elems(read'[e])
        PROVE  /\ session'[e] # None =>
                    c.key = session'[e].key \/ c.key.answer < session'[e].key.answer
               /\ inflight'[e] # None => c.key.answer < inflight'[e]
    <3>1. CASE e = b
      BY <2>1, <3>1
    <3>2. CASE e # b
      BY <1>0, <2>1, <3>2 DEF KeysGrow
    <3> QED
      BY <3>1, <3>2
  <2>2. \A e \in Pair : session'[e] # None /\ inflight'[e] # None =>
          session'[e].key.answer < inflight'[e]
    BY <1>0 DEF KeysGrow
  <2> QED
    BY <2>1, <2>2 DEF KeysGrow
<1>7. RolesDiffer'
  <2> SUFFICES ASSUME NEW e \in Pair, session'[e] # None, NEW c \in Elems(read'[e]),
                      c.key = session'[e].key
               PROVE  c.role # session'[e].role
    BY DEF RolesDiffer
  <2>1. c \in Made
    BY WhereMade
  <2>2. CASE e = b
    BY <2>1, <2>2
  <2>3. CASE e # b
    BY <1>0, <2>3 DEF RolesDiffer
  <2> QED
    BY <2>2, <2>3
<1>8. OrderFollows'
  BY <1>0 DEF OrderFollows, Ahead
<1> QED
  BY <1>1, <1>2, <1>3, <1>4, <1>5, <1>6, <1>7, <1>8 DEF Used

LEMMA Assembled == CInv <=> CellsPlaced /\ AnswersYounger /\ Used
BY DEF CInv, Used

-----------------------------------------------------------------------------
(* The steps of a call.                                                    *)

\* Most of them touch no ciphertext.
LEMMA CallWaits ==
  ASSUME IInv, IInv', CInv, NEW s \in Call, pc[s] \notin {"sealed", "sent"},
         NEW p, pc' = [pc EXCEPT ![s] = p],
         \A e \in Pair : inflight'[e] # None => inflight'[e] = inflight[e],
         UNCHANGED <<ends, sealed, session, wire, fresh, read, order>>
  PROVE  CInv'
<1>1. /\ TypeOK /\ TypeOK' /\ fresh \in Nat /\ Used
      /\ sealed[s] = None
      /\ \A t \in Call : t # s => pc'[t] = pc[t]
  BY Assembled DEF IInv, TypeOK, CInv, CellsPlaced
<1>2. CellsPlaced' /\ AnswersYounger' /\ Made' \subseteq Made
  BY <1>1, Moved
<1>3. Used'
  BY <1>1, <1>2, Carried DEF Ahead
<1> QED
  BY <1>2, <1>3, Assembled DEF CInv, Used

LEMMA HandshakeBegins ==
  ASSUME IInv, IInv', CInv, NEW s \in Call, Initiate(s), inflight[ends[s]] = None
  PROVE  CInv'
<1> DEFINE e == ends[s]
           d == [kind |-> "hs1", hs |-> fresh, from |-> life[e[1]], to |-> pubk[s]]
<1>0. /\ TypeOK /\ TypeOK' /\ IdsIssued /\ Used /\ CellsPlaced /\ fresh \in Nat
      /\ e \in Pair
  BY CallsAssumption DEF IInv, TypeOK, CInv, Used
<1>1. /\ pc[s] = "connecting" /\ pc' = [pc EXCEPT ![s] = "waiting"]
      /\ inflight' = [inflight EXCEPT ![e] = fresh]
      /\ wire' = [wire EXCEPT ![e] = Append(wire[e], d)]
      /\ fresh' = fresh + 1
      /\ UNCHANGED <<ends, sealed, session, read, order>>
  BY <1>0 DEF Initiate
<1>2. d \in Datagram /\ d.kind = "hs1"
  <2>1. pubk[s] \in Nat /\ life[e[1]] \in Nat
    BY <1>0, <1>1 DEF IInv, TypeOK, CallsHaveWhatTheyNeed, Pair
  <2> QED
    BY <1>0, <2>1 DEF Datagram, Hs1
<1> HIDE DEF d
<1>3. CellsPlaced' /\ AnswersYounger' /\ Made' \subseteq Made
  <2>1. \A f \in Pair : \A x \in Elems(wire'[f]) : x \in Elems(wire[f]) \/ x.kind = "hs1"
    <3>1. /\ wire[e] \in Seq(Datagram) /\ wire'[e] = Append(wire[e], d)
          /\ \A f \in Pair : f # e => wire'[f] = wire[f]
      BY <1>0, <1>1 DEF TypeOK
    <3>2. Elems(wire'[e]) = Elems(wire[e]) \cup {d}
      BY <1>2, <3>1, ElemsOf
    <3> HIDE DEF e
    <3> QED
      BY <1>2, <3>1, <3>2
  <2>2. sealed[s] = None /\ \A t \in Call : t # s => pc'[t] = pc[t]
    BY <1>0, <1>1 DEF TypeOK, CellsPlaced
  <2> QED
    BY <1>0, <1>1, <2>1, <2>2, Moved
\* All that was used is older than the handshake.
<1>4. /\ KeysOld /\ HandshakesDiffer /\ SessionsDiffer /\ NoncesBelow /\ NoncesOnce
      /\ KeysGrow /\ RolesDiffer /\ OrderFollows
  BY <1>0 DEF Used
<1>5. /\ \A c \in Made : c.key.hs < fresh /\ c.key.answer < fresh
      /\ \A f \in Pair : session[f] # None => session[f].key.hs < fresh /\ session[f].key.answer < fresh
      /\ \A f \in Pair : inflight[f] # None => inflight[f] < fresh
  BY <1>0, <1>4 DEF KeysOld, IdsIssued, Old
<1>6. \A f \in Pair : inflight'[f] = IF f = e THEN fresh ELSE inflight[f]
  BY <1>0, <1>1 DEF TypeOK
<1>7. /\ fresh # None
      /\ \A c \in Made : c.key.hs \in Nat /\ c.key.answer \in Nat
      /\ \A f \in Pair : session[f] # None => session[f].key.hs \in Nat
      /\ \A f \in Pair : inflight[f] # None => inflight[f] \in Nat
  <2>1. fresh # None
    BY <1>0, NoneAssumption
  <2>2. \A f \in Pair : inflight[f] # None => inflight[f] \in Nat
    BY <1>0 DEF TypeOK
  <2> QED
    BY <1>0, <2>1, <2>2, MadeTyped, SessionTyped
<1> HIDE DEF e
<1>8. KeysOld'
  BY <1>0, <1>1, <1>3, <1>4, MadeTyped DEF KeysOld, Old
<1>9. HandshakesDiffer'
  <2> SUFFICES ASSUME NEW f \in Pair, inflight'[f] # None
               PROVE  /\ \A g \in Pair : inflight'[g] = inflight'[f] => g = f
                      /\ \A c \in Made' : c.role = "initiator" => c.key.hs # inflight'[f]
                      /\ \A g \in Pair : session'[g] # None /\ session'[g].role = "initiator" =>
                           session'[g].key.hs # inflight'[f]
    BY DEF HandshakesDiffer
  <2>1. CASE f = e
    BY <1>0, <1>1, <1>3, <1>5, <1>6, <1>7, <2>1
  <2>2. CASE f # e
    <3>1. inflight'[f] = inflight[f] /\ inflight[f] # None /\ inflight[f] # fresh
      BY <1>5, <1>6, <1>7, <2>2
    <3> QED
      BY <1>1, <1>3, <1>4, <1>6, <3>1 DEF HandshakesDiffer
  <2> QED
    BY <2>1, <2>2
<1>10. SessionsDiffer' /\ NoncesBelow' /\ NoncesOnce' /\ RolesDiffer' /\ OrderFollows'
  BY <1>1, <1>3, <1>4
  DEF SessionsDiffer, NoncesBelow, NoncesOnce, RolesDiffer, OrderFollows, Ahead
<1>11. KeysGrow'
  <2>1. ASSUME NEW f \in Pair
        PROVE  /\ \A c \in Made' : ends'[c.cell] = f \/ c \in Elems(read'[f]) =>
                    /\ session'[f] # None =>
                         c.key = session'[f].key \/ c.key.answer < session'[f].key.answer
                    /\ inflight'[f] # None => c.key.answer < inflight'[f]
               /\ session'[f] # None /\ inflight'[f] # None =>
                    session'[f].key.answer < inflight'[f]
    <3>1. CASE f = e
      BY <1>1, <1>3, <1>4, <1>5, <1>6, <3>1 DEF KeysGrow
    <3>2. CASE f # e
      BY <1>1, <1>3, <1>4, <1>6, <3>2 DEF KeysGrow
    <3> QED
      BY <3>1, <3>2
  <2> QED
    BY <2>1 DEF KeysGrow
<1> QED
  BY <1>3, <1>8, <1>9, <1>10, <1>11 DEF CInv

LEMMA CellEncrypted ==
  ASSUME IInv, IInv', CInv, NEW s \in Call, Encrypt(s)
  PROVE  CInv'
<1> DEFINE e == ends[s]
<1>0. /\ TypeOK /\ TypeOK' /\ CallsHaveWhatTheyNeed /\ IdsIssued /\ CellsPlaced
      /\ AnswersYounger /\ fresh \in Nat /\ e \in Pair /\ pc[s] = "ready"
      /\ UNCHANGED <<ends, inflight, wire, fresh, read>>
  BY CallsAssumption DEF IInv, TypeOK, CInv, Encrypt
<1>1. PICK mask \in BOOLEAN : sealed' = [sealed EXCEPT ![s] =
        [kind |-> "cell", key |-> session[e].key, role |-> session[e].role,
         nonce |-> session[e].tx, cell |-> s, mask |-> mask]]
  BY DEF Encrypt
<1> DEFINE d == [kind |-> "cell", key |-> session[e].key, role |-> session[e].role,
                 nonce |-> session[e].tx, cell |-> s, mask |-> mask]
<1>2. /\ pc' = [pc EXCEPT ![s] = "sealed"]
      /\ session' = [session EXCEPT ![e].tx = session[e].tx + 1]
      /\ order' = Append(order, s)
  BY DEF Encrypt, NonceTaken
<1>3. /\ session[e] # None /\ session[e] \in Session
      /\ session[e].tx \in Nat /\ session[e].key \in Key /\ session[e].role \in Role
  BY <1>0, SessionTyped DEF TypeOK, CallsHaveWhatTheyNeed
<1>4. /\ d.key = session[e].key /\ d.role = session[e].role /\ d.nonce = session[e].tx
      /\ d.cell = s /\ d \in Cipher /\ d.kind = "cell"
  BY <1>3 DEF Cipher
<1>5. \A t \in Call : sealed'[t] = IF t = s THEN d ELSE sealed[t]
  BY <1>0, <1>1 DEF TypeOK
<1> HIDE DEF d
<1>6. \A f \in Pair :
        /\ session'[f] # None => session[f] # None
        /\ session[f] # None => /\ session'[f].key = session[f].key
                                /\ session'[f].role = session[f].role
                                /\ session'[f].tx = IF f = e THEN session[f].tx + 1
                                                    ELSE session[f].tx
  <2>1. session'[e] = [session[e] EXCEPT !.tx = session[e].tx + 1]
    BY <1>0, <1>2 DEF TypeOK
  <2>2. ASSUME NEW ss \in Session, NEW s2, s2 = [ss EXCEPT !.tx = ss.tx + 1]
        PROVE  s2.key = ss.key /\ s2.role = ss.role /\ s2.tx = ss.tx + 1
    BY <2>2 DEF Session
  <2>3. \A f \in Pair : f # e => session'[f] = session[f]
    BY <1>0, <1>2 DEF TypeOK
  <2> HIDE DEF e
  <2> QED
    BY <1>3, <2>1, <2>2, <2>3
<1>7. Elems(order') = Elems(order) \cup {s}
  BY <1>0, <1>2, ElemsOf DEF TypeOK
<1>8. Made' \subseteq Made \cup {d}
  <2> SUFFICES ASSUME NEW c \in Made' PROVE c \in Made \cup {d}
    OBVIOUS
  <2>1. c \in Cipher
    BY DEF Made
  <2>2. ASSUME NEW t \in Call, c = sealed'[t] PROVE c \in Made \cup {d}
    BY <1>5, <2>1, <2>2 DEF Made
  <2>3. ASSUME NEW f \in Pair, c \in Elems(wire'[f]) \cup Elems(read'[f]) PROVE c \in Made \cup {d}
    BY <1>0, <2>1, <2>3 DEF Made
  <2> QED
    BY <2>2, <2>3 DEF Made
<1>9. CellsPlaced'
  <2>1. ASSUME NEW t \in Call, sealed'[t] # None PROVE sealed'[t].cell = t /\ pc'[t] = "sealed"
    BY <1>0, <1>2, <1>4, <1>5, <2>1 DEF TypeOK, CellsPlaced
  <2>2. ASSUME NEW t \in Call, pc[t] = "sent" PROVE pc'[t] = "sent"
    BY <1>0, <1>2, <2>2 DEF TypeOK
  <2>3. \A f \in Pair : \A c \in Elems(wire'[f]) \cap Cipher :
          ends'[c.cell] = f /\ pc'[c.cell] = "sent"
    BY <1>0, <2>2, WhereMade, MadeTyped DEF CellsPlaced
  <2>4. \A f \in Pair : \A c \in Elems(read'[f]) :
          ends'[c.cell] = Back(f) /\ pc'[c.cell] = "sent"
    BY <1>0, <2>2, WhereMade, MadeTyped DEF CellsPlaced
  <2>5. \A c \in Made' : c.cell \in Elems(order')
    BY <1>0, <1>4, <1>7, <1>8 DEF CellsPlaced
  <2> QED
    BY <2>1, <2>3, <2>4, <2>5 DEF CellsPlaced
<1>10. AnswersYounger'
  BY <1>0 DEF AnswersYounger
<1>11. /\ KeysOld /\ HandshakesDiffer /\ SessionsDiffer /\ NoncesBelow /\ NoncesOnce
       /\ KeysGrow /\ RolesDiffer /\ OrderFollows
  BY DEF CInv
<1>12. KeysOld'
  BY <1>0, <1>3, <1>4, <1>8, <1>11 DEF KeysOld, IdsIssued
<1>13. HandshakesDiffer'
  <2> SUFFICES ASSUME NEW f \in Pair, inflight[f] # None
               PROVE  /\ \A g \in Pair : inflight[g] = inflight[f] => g = f
                      /\ \A c \in Made' : c.role = "initiator" => c.key.hs # inflight[f]
                      /\ \A g \in Pair : session'[g] # None /\ session'[g].role = "initiator" =>
                           session'[g].key.hs # inflight[f]
    BY <1>0 DEF HandshakesDiffer
  <2>1. \A g \in Pair : inflight[g] = inflight[f] => g = f
    BY <1>11 DEF HandshakesDiffer
  <2>2. \A c \in Made' : c.role = "initiator" => c.key.hs # inflight[f]
    BY <1>0, <1>3, <1>4, <1>8, <1>11 DEF HandshakesDiffer
  <2>3. \A g \in Pair : session'[g] # None /\ session'[g].role = "initiator" =>
          session'[g].key.hs # inflight[f]
    BY <1>6, <1>11 DEF HandshakesDiffer
  <2> QED
    BY <2>1, <2>2, <2>3
<1>14. SessionsDiffer'
  BY <1>6, <1>11 DEF SessionsDiffer
<1>15. NoncesBelow'
  <2> SUFFICES ASSUME NEW f \in Pair, session'[f] # None, NEW c \in Made',
                      c.key = session'[f].key, c.role = session'[f].role
               PROVE  c.nonce < session'[f].tx
    BY DEF NoncesBelow
  <2>0. session[f] # None /\ c.key = session[f].key /\ c.role = session[f].role
    BY <1>6
  <2>1. CASE c \in Made
    <3>1. c.nonce < session[f].tx /\ c.nonce \in Nat /\ session[f].tx \in Nat
      BY <1>0, <1>11, <2>0, <2>1, MadeTyped, SessionTyped DEF NoncesBelow
    <3> QED
      BY <1>6, <2>0, <3>1
  <2>2. CASE c = d
    <3>1. f = e
      BY <1>0, <1>3, <1>4, <1>11, <2>0, <2>2 DEF SessionsDiffer
    <3> QED
      BY <1>3, <1>4, <1>6, <2>0, <2>2, <3>1
  <2> QED
    BY <1>8, <2>1, <2>2
<1>16. \A c \in Made : c.key = d.key /\ c.role = d.role => c.nonce < d.nonce
  BY <1>0, <1>3, <1>4, <1>11 DEF NoncesBelow
<1>17. NoncesOnce'
  <2>1. \A c \in Made : ~ (c.key = d.key /\ c.role = d.role /\ c.nonce = d.nonce)
    BY <1>3, <1>4, <1>16
  <2> QED
    BY <1>8, <1>11, <2>1 DEF NoncesOnce
<1>18. KeysGrow'
  <2>1. ASSUME NEW f \in Pair, NEW c \in Made', ends'[c.cell] = f \/ c \in Elems(read'[f])
        PROVE  /\ session'[f] # None =>
                    c.key = session'[f].key \/ c.key.answer < session'[f].key.answer
               /\ inflight'[f] # None => c.key.answer < inflight'[f]
    <3>1. CASE c \in Made
      BY <1>0, <1>6, <1>11, <2>1, <3>1 DEF KeysGrow
    <3>2. CASE c = d /\ c \notin Made
      <4>1. f = e
        BY <1>0, <1>4, <2>1, <3>2, WhereMade
      <4> QED
        BY <1>0, <1>3, <1>4, <1>6, <1>11, <3>2, <4>1 DEF KeysGrow
    <3> QED
      BY <1>8, <3>1, <3>2
  <2>2. \A f \in Pair : session'[f] # None /\ inflight'[f] # None =>
          session'[f].key.answer < inflight'[f]
    BY <1>0, <1>6, <1>11 DEF KeysGrow
  <2> QED
    BY <2>1, <2>2 DEF KeysGrow
<1>19. RolesDiffer'
  BY <1>0, <1>6, <1>11 DEF RolesDiffer
\* The new ciphertext comes after all the others of its sender, and before none.
<1>20. OrderFollows'
  <2>1. /\ order \in Seq(Call) /\ Len(order) \in Nat /\ Len(order') = Len(order) + 1
        /\ order'[Len(order) + 1] = s /\ \A i \in 1..Len(order) : order'[i] = order[i]
    BY <1>0, <1>2 DEF TypeOK
  <2>2. \A r, t : Ahead(r, t) => Ahead(r, t)'
    BY <2>1 DEF Ahead
  <2>3. \A r \in Elems(order) : Ahead(r, s)'
    BY <2>1 DEF Elems, Ahead
  <2>4. ASSUME NEW c \in Made', NEW x \in Made', ends'[c.cell] = ends'[x.cell],
               \/ c.key.answer < x.key.answer
               \/ c.key = x.key /\ c.role = x.role /\ c.nonce < x.nonce
        PROVE  Ahead(c.cell, x.cell)'
    <3>1. CASE c \in Made /\ x \in Made
      BY <1>0, <1>11, <2>2, <2>4, <3>1 DEF OrderFollows
    <3>2. CASE c \in Made /\ x = d
      BY <1>0, <1>4, <2>3, <3>2 DEF CellsPlaced
    <3>3. CASE c = d /\ x \in Made
      <4>1. x.key = d.key \/ x.key.answer < d.key.answer
        BY <1>0, <1>3, <1>4, <1>11, <2>4, <3>3 DEF KeysGrow
      <4>2. x.key.answer \in Nat /\ d.key.answer \in Nat /\ x.nonce \in Nat /\ d.nonce \in Nat
        BY <1>0, <1>3, <1>4, <3>3, MadeTyped, SessionTyped
      <4>3. x.key = d.key /\ x.role = d.role => x.nonce < d.nonce
        BY <1>16, <3>3
      <4> QED
        BY <2>4, <3>3, <4>1, <4>2, <4>3
    <3>4. CASE c = d /\ x = d
      BY <1>0, <1>3, <1>4, <2>4, <3>4, SessionTyped
    <3> QED
      BY <1>8, <3>1, <3>2, <3>3, <3>4
  <2> QED
    BY <2>4 DEF OrderFollows
<1> QED
  BY <1>9, <1>10, <1>12, <1>13, <1>14, <1>15, <1>17, <1>18, <1>19, <1>20 DEF CInv

LEMMA CellTransmitted ==
  ASSUME IInv, IInv', CInv, NEW s \in Call, Transmit(s)
  PROVE  CInv'
<1> DEFINE e == ends[s]
<1>0. /\ TypeOK /\ TypeOK' /\ Used /\ fresh \in Nat /\ e \in Pair
      /\ UNCHANGED <<ends, session, inflight, fresh, read, order>>
  BY CallsAssumption DEF IInv, TypeOK, CInv, Used, Transmit
<1>1. /\ pc[s] = "sealed" /\ pc' = [pc EXCEPT ![s] = "sent"]
      /\ wire' = [wire EXCEPT ![e] = Append(wire[e], sealed[s])]
      /\ sealed' = [sealed EXCEPT ![s] = None]
  BY <1>0 DEF Transmit
<1>2. sealed[s] \in Cipher
  BY <1>0, <1>1 DEF IInv, TypeOK, CallsHaveWhatTheyNeed
<1>3. \A f \in Pair : \A x \in Elems(wire'[f]) : x \in Elems(wire[f]) \/ Handed(f, x)
  <2>1. /\ wire[e] \in Seq(Datagram) /\ wire'[e] = Append(wire[e], sealed[s])
        /\ \A f \in Pair : f # e => wire'[f] = wire[f]
    BY <1>0, <1>1 DEF TypeOK
  <2>2. Elems(wire'[e]) = Elems(wire[e]) \cup {sealed[s]}
    BY <1>2, <2>1, ElemsOf DEF Datagram
  <2>3. Handed(e, sealed[s])
    BY <1>0, <1>1 DEF TypeOK, Handed
  <2> HIDE DEF e
  <2>4. ASSUME NEW f \in Pair, NEW x \in Elems(wire'[f])
        PROVE  x \in Elems(wire[f]) \/ Handed(f, x)
    <3>1. CASE f = e
      BY <2>2, <2>3, <2>4, <3>1
    <3>2. CASE f # e
      BY <2>1, <2>4, <3>2
    <3> QED
      BY <3>1, <3>2
  <2> QED
    BY <2>4
<1>4. \A t \in Call : /\ pc[t] = "sent" => pc'[t] = "sent"
                      /\ sealed'[t] # None => sealed'[t] = sealed[t] /\ pc'[t] = pc[t]
  BY <1>0, <1>1 DEF TypeOK
<1>5. CellsPlaced' /\ AnswersYounger' /\ Made' \subseteq Made
  BY <1>0, <1>3, <1>4, Moved
<1>6. Used'
  BY <1>0, <1>5, Carried DEF Ahead
<1> QED
  BY <1>5, <1>6, Assembled DEF CInv, Used

LEMMA CallKeepsOrder ==
  ASSUME IInv, IInv', CInv, NEW s \in Call, Start(s) \/ Proceeds(s)
  PROVE  CInv'
<1>1. CASE Start(s)
  <2>1. PICK p : pc' = [pc EXCEPT ![s] = p]
    BY <1>1 DEF Start
  <2>2. /\ pc[s] = "idle"
        /\ UNCHANGED <<ends, sealed, session, inflight, wire, fresh, read, order>>
    BY <1>1 DEF Start
  <2> QED
    BY <2>1, <2>2, CallWaits
<1>2. CASE Initiate(s) /\ inflight[ends[s]] # None
  <2>1. /\ pc[s] = "connecting" /\ pc' = [pc EXCEPT ![s] = "waiting"]
        /\ UNCHANGED <<ends, sealed, session, inflight, wire, fresh, read, order>>
    BY <1>2 DEF Initiate
  <2> QED
    BY <2>1, CallWaits
<1>3. CASE Initiate(s) /\ inflight[ends[s]] = None
  BY <1>3, HandshakeBegins
<1>4. CASE Connected(s)
  <2>1. /\ pc[s] = "waiting" /\ pc' = [pc EXCEPT ![s] = "ready"]
        /\ UNCHANGED <<ends, sealed, session, inflight, wire, fresh, read, order>>
    BY <1>4 DEF Connected
  <2> QED
    BY <2>1, CallWaits
<1>5. CASE Deadline(s)
  <2>1. /\ pc[s] = "waiting" /\ pc' = [pc EXCEPT ![s] = "expired"]
        /\ UNCHANGED <<ends, sealed, session, inflight, wire, fresh, read, order>>
    BY <1>5 DEF Deadline
  <2> QED
    BY <2>1, CallWaits
<1>6. CASE GiveUp(s)
  <2>1. /\ pc[s] = "expired" /\ pc' = [pc EXCEPT ![s] = "failed"]
        /\ inflight' = [inflight EXCEPT ![ends[s]] = None]
        /\ UNCHANGED <<ends, sealed, session, wire, fresh, read, order>>
    BY <1>6 DEF GiveUp
  <2>2. \A f \in Pair : inflight'[f] # None => inflight'[f] = inflight[f]
    BY <2>1 DEF IInv, TypeOK
  <2> QED
    BY <2>1, <2>2, CallWaits
<1>7. CASE Encrypt(s)
  BY <1>7, CellEncrypted
<1>8. CASE Transmit(s)
  BY <1>8, CellTransmitted
<1> QED
  BY <1>1, <1>2, <1>3, <1>4, <1>5, <1>6, <1>7, <1>8 DEF Proceeds

-----------------------------------------------------------------------------
(* The steps of the receiving task, of the network, and the end of a       *)
(* process.                                                                *)

\* What a receiving task puts on the wire is an answer, which is young.
LEMMA ReceivedElems ==
  ASSUME IInv, IInv', NEW e \in Pair, Receive(e)
  PROVE  /\ Head(wire[e]) \in Elems(wire[e])
         /\ \A f \in Pair : \A x \in Elems(wire'[f]) :
              x \in Elems(wire[f]) \/ (x.kind = "hs2" /\ x.key.hs < x.key.answer)
<1> DEFINE d == Head(wire[e])
           A == Answer(e, d)
<1>0. /\ wire \in [Pair -> Seq(Datagram)] /\ Back(e) \in Pair /\ wire[e] # << >>
      /\ d \in Issued(fresh) /\ d \in Datagram /\ fresh \in Nat
  BY BackPair, ReceivedTyped DEF IInv, TypeOK
<1>1. /\ d \in Elems(wire[e]) /\ Elems(Tail(wire[e])) \subseteq Elems(wire[e])
      /\ Tail(wire[e]) \in Seq(Datagram)
  BY <1>0, ElemsOf
<1>2. A \in Seq(Datagram) /\ \A x \in Elems(A) : x.kind = "hs2" /\ x.key.hs < x.key.answer
  <2>1. CASE d.kind = "hs1" /\ ~ stuck[e] /\ d.to = life[e[2]]
    <3> DEFINE a == [kind |-> "hs2", key |-> [hs |-> d.hs, answer |-> fresh]]
    <3>1. d.hs \in Nat /\ d.hs < fresh
      BY <1>0, <2>1, DatagramKinds DEF Issued
    <3>2. a \in Datagram /\ a.kind = "hs2" /\ a.key.hs < a.key.answer
      BY <1>0, <3>1 DEF Datagram, Hs2, Key
    <3>3. A = <<a>>
      BY <2>1 DEF Answer
    <3> HIDE DEF a, A
    <3>4. Elems(A) = {a} /\ A \in Seq(Datagram)
      BY <3>2, <3>3, ShortSequences DEF Elems
    <3> QED
      BY <3>2, <3>4
  <2>2. CASE ~ (d.kind = "hs1" /\ ~ stuck[e] /\ d.to = life[e[2]])
    <3>1. A = << >>
      BY <2>2 DEF Answer
    <3> HIDE DEF A
    <3> QED
      BY <3>1, ShortSequences DEF Elems
  <2> QED
    BY <2>1, <2>2
<1>3. /\ Back(e) # e => wire' = [wire EXCEPT ![e] = Tail(wire[e]), ![Back(e)] = wire[Back(e)] \o A]
      /\ Back(e) = e => wire'[e] = Tail(wire[e]) \o A /\ \A f \in Pair : f # e => wire'[f] = wire[f]
  BY <1>0 DEF Receive
<1> HIDE DEF A
<1>4. ASSUME NEW f \in Pair, NEW x \in Elems(wire'[f])
      PROVE  x \in Elems(wire[f]) \/ (x.kind = "hs2" /\ x.key.hs < x.key.answer)
  <2>1. CASE Back(e) # e
    <3>1. Elems(wire[Back(e)] \o A) = Elems(wire[Back(e)]) \cup Elems(A)
      BY <1>0, <1>2, ElemsOfConcat
    <3>2. wire'[f] = IF f = e THEN Tail(wire[e])
                     ELSE IF f = Back(e) THEN wire[Back(e)] \o A ELSE wire[f]
      BY <1>0, <1>3, <2>1
    <3> QED
      BY <1>1, <1>2, <1>4, <3>1, <3>2
  <2>2. CASE Back(e) = e
    <3>1. Elems(Tail(wire[e]) \o A) = Elems(Tail(wire[e])) \cup Elems(A)
      BY <1>1, <1>2, ElemsOfConcat
    <3> QED
      BY <1>1, <1>2, <1>3, <1>4, <2>2, <3>1
  <2> QED
    BY <2>1, <2>2
<1> QED
  BY <1>1, <1>4

LEMMA NothingRead ==
  ASSUME IInv, IInv', CInv, NEW e \in Pair, Receive(e), NEW b \in Pair,
         inflight' \in {inflight, [inflight EXCEPT ![b] = None]},
         UNCHANGED <<session, fresh, read>>
  PROVE  CInv'
<1>0. /\ TypeOK /\ TypeOK' /\ Used /\ fresh \in Nat
      /\ UNCHANGED <<ends, pc, sealed, order>>
  BY DEF IInv, TypeOK, CInv, Used, Receive
<1>1. CellsPlaced' /\ AnswersYounger' /\ Made' \subseteq Made
  BY <1>0, ReceivedElems, Moved
<1>2. \A f \in Pair : inflight'[f] # None => inflight'[f] = inflight[f]
  BY <1>0 DEF TypeOK
<1>3. Used'
  BY <1>0, <1>1, <1>2, Carried DEF Ahead
<1> QED
  BY <1>1, <1>3, Assembled DEF CInv, Used

LEMMA SessionBegins ==
  ASSUME IInv, IInv', CInv, NEW e \in Pair, Receive(e),
         Respond(e, Head(wire[e])) \/ Complete(e, Head(wire[e]))
  PROVE  CInv'
<1> DEFINE d == Head(wire[e])
           b == Back(e)
<1>0. /\ TypeOK /\ TypeOK' /\ Used /\ IdsIssued /\ fresh \in Nat /\ b \in Pair
      /\ fresh' \in {fresh, fresh + 1}
      /\ UNCHANGED <<ends, pc, sealed, order, read>>
      /\ d \in Issued(fresh) /\ d \in Datagram
  BY BackPair, ReceivedTyped DEF IInv, TypeOK, CInv, Used, Receive, Respond, Complete
<1>1. CellsPlaced' /\ AnswersYounger' /\ Made' \subseteq Made
  BY <1>0, ReceivedElems, Moved
<1>2. /\ KeysOld /\ HandshakesDiffer /\ KeysGrow /\ AnswersYounger
  BY DEF CInv
<1>3. CASE Respond(e, d)
  <2> DEFINE key == [hs |-> d.hs, answer |-> fresh]
  <2>1. /\ inflight' = [inflight EXCEPT ![b] = None]
        /\ session' = [session EXCEPT ![b] =
             [key |-> key, role |-> "responder", tx |-> 0, rx |-> 0]]
    BY <1>3 DEF Respond, HandshakeTaken, NewResponder, Responder
  <2>2. key \in Key /\ key.answer = fresh
    BY <1>0, <1>3, DatagramKinds DEF Respond, Key
  <2> HIDE DEF key
  <2>3. /\ \A f \in Pair : session'[f] = IF f = b
             THEN [key |-> key, role |-> "responder", tx |-> 0, rx |-> 0] ELSE session[f]
        /\ \A f \in Pair : inflight'[f] = IF f = b THEN None ELSE inflight[f]
    BY <1>0, <2>1 DEF TypeOK
  <2>4. \A c \in Made : c.key # key /\ c.key.answer < key.answer
    BY <1>0, <1>2, <2>2, MadeTyped DEF KeysOld, Old
  <2>5. \A f \in Pair : session[f] # None => session[f].key # key
    BY <1>0, <2>2, SessionTyped DEF IdsIssued, Old
  <2>6. "responder" \in Role
    BY DEF Role
  <2>7. Used'
    BY <1>0, <1>1, <2>2, <2>3, <2>4, <2>5, <2>6, Begun
  <2> QED
    BY <1>1, <2>7 DEF CInv, Used
<1>4. CASE Complete(e, d)
  <2>1. /\ inflight' = [inflight EXCEPT ![b] = None] /\ inflight[b] = d.key.hs
        /\ session' = [session EXCEPT ![b] =
             [key |-> d.key, role |-> "initiator", tx |-> 0, rx |-> 0]]
        /\ d.kind = "hs2"
    BY <1>4 DEF Complete, HandshakeTaken
  <2>2. d.key \in Key /\ d.key.hs \in Nat /\ d.key.answer \in Nat /\ d.key.hs < d.key.answer
    BY <1>0, <1>2, <2>1, DatagramKinds, ReceivedElems DEF AnswersYounger, Key
  <2>3. inflight[b] # None
    BY <2>1, <2>2, NoneAssumption
  <2>4. /\ \A f \in Pair : session'[f] = IF f = b
             THEN [key |-> d.key, role |-> "initiator", tx |-> 0, rx |-> 0] ELSE session[f]
        /\ \A f \in Pair : inflight'[f] = IF f = b THEN None ELSE inflight[f]
    BY <1>0, <2>1 DEF TypeOK
  <2> HIDE DEF d, b
  <2>5. \A c \in Made : ~ (c.key = d.key /\ c.role = "initiator")
    BY <1>0, <1>2, <2>1, <2>3 DEF HandshakesDiffer
  <2>6. \A f \in Pair : session[f] # None =>
          ~ (session[f].key = d.key /\ session[f].role = "initiator")
    BY <1>0, <1>2, <2>1, <2>3 DEF HandshakesDiffer
  <2>7. \A c \in Made : ends[c.cell] = b \/ c \in Elems(read[b]) => c.key.answer < d.key.answer
    <3>1. \A c \in Made : c.key.answer \in Nat
      BY MadeTyped
    <3> QED
      BY <1>0, <1>2, <2>1, <2>2, <2>3, <3>1 DEF KeysGrow
  <2>8. \A f \in Pair : f # b => inflight[f] # d.key.hs
    BY <1>0, <1>2, <2>1, <2>3 DEF HandshakesDiffer
  <2>9. "initiator" \in Role
    BY DEF Role
  <2>10. Used'
    BY <1>0, <1>1, <2>2, <2>4, <2>5, <2>6, <2>7, <2>8, <2>9, Begun
  <2> QED
    BY <1>1, <2>10 DEF CInv, Used
<1> QED
  BY <1>3, <1>4

LEMMA CellRead ==
  ASSUME IInv, IInv', CInv, NEW e \in Pair, Receive(e), Read(e, Head(wire[e]))
  PROVE  CInv'
<1> DEFINE d == Head(wire[e])
           b == Back(e)
<1>0. /\ TypeOK /\ TypeOK' /\ Used /\ fresh \in Nat /\ b \in Pair /\ Back(b) = e
      /\ UNCHANGED <<ends, pc, sealed, order, inflight, fresh>>
      /\ d \in Datagram
  BY BackPair, ReceivedTyped DEF IInv, TypeOK, CInv, Used, Receive, Read
<1>1. /\ d \in Cipher
      /\ session[b] # None /\ session[b].key = d.key /\ session[b].role # d.role
      /\ session' = [session EXCEPT ![b].rx = session[b].rx + 1]
      /\ read' = [read EXCEPT ![b] = Append(read[b], d)]
  <2>1. d.kind = "cell" /\ Readable(session[b], d)
    BY DEF Read
  <2> QED
    BY <1>0, <2>1, DatagramKinds DEF Read, Readable, TypeOK
<1>2. d \in Elems(wire[Back(b)]) \cap Cipher
  BY <1>0, <1>1, ReceivedElems
<1> HIDE DEF d, b
<1>3. /\ Elems(read'[b]) = Elems(read[b]) \cup {d}
      /\ \A f \in Pair : f # b => read'[f] = read[f]
  <2>1. read[b] \in Seq(Cipher) /\ read'[b] = Append(read[b], d)
    BY <1>0, <1>1 DEF TypeOK
  <2> QED
    BY <1>0, <1>1, <2>1, ElemsOf DEF TypeOK
<1>4. \A f \in Pair : session'[f] # None =>
        /\ session[f] # None
        /\ session'[f].key = session[f].key /\ session'[f].role = session[f].role
        /\ session'[f].tx = session[f].tx
  <2>1. session[b] \in Session
    BY <1>0, <1>1 DEF TypeOK
  <2>2. session'[b] = [session[b] EXCEPT !.rx = session[b].rx + 1]
    BY <1>0, <1>1 DEF TypeOK
  <2>3. ASSUME NEW ss \in Session, NEW s2, s2 = [ss EXCEPT !.rx = ss.rx + 1]
        PROVE  s2.key = ss.key /\ s2.role = ss.role /\ s2.tx = ss.tx
    BY <2>3 DEF Session
  <2>4. \A f \in Pair : f # b => session'[f] = session[f]
    BY <1>0, <1>1 DEF TypeOK
  <2> QED
    BY <1>1, <2>1, <2>2, <2>3, <2>4
<1>5. CellsPlaced' /\ AnswersYounger' /\ Made' \subseteq Made
  <2>1. \A f \in Pair : \A x \in Elems(read'[f]) :
          x \in Elems(read[f]) \/ x \in Elems(wire[Back(f)]) \cap Cipher
    BY <1>2, <1>3
  <2> QED
    BY <1>0, <2>1, ReceivedElems, Moved
<1>6. Used'
  <2>1. \A f \in Pair : \A c \in Elems(read'[f]) :
          \/ c \in Elems(read[f])
          \/ session[f] # None /\ c.key = session[f].key /\ c.role # session[f].role
    BY <1>1, <1>3
  <2> QED
    BY <1>0, <1>4, <1>5, <2>1, Carried DEF Ahead
<1> QED
  BY <1>5, <1>6, Assembled DEF CInv, Used

LEMMA ReceiveKeepsOrder ==
  ASSUME IInv, IInv', CInv, NEW e \in Pair, Receive(e)
  PROVE  CInv'
<1> DEFINE d == Head(wire[e])
           b == Back(e)
<1>0. b \in Pair
  BY BackPair
<1>1. CASE HandshakeLost(e, d) \/ Unreadable(e, d) \/ Misread(e, d)
  <2>1. UNCHANGED <<session, inflight, fresh, read>>
    BY <1>1 DEF HandshakeLost, Unreadable, Misread
  <2> QED
    BY <1>0, <2>1, NothingRead
<1>2. CASE AnswerRefused(e, d) \/ RequestRefused(e, d)
  <2>1. inflight' = [inflight EXCEPT ![b] = None] /\ UNCHANGED <<session, fresh, read>>
    BY <1>2 DEF AnswerRefused, RequestRefused, HandshakeTaken
  <2> QED
    BY <1>0, <2>1, NothingRead
<1>3. CASE Respond(e, d) \/ Complete(e, d)
  BY <1>3, SessionBegins
<1>4. CASE Read(e, d)
  BY <1>4, CellRead
<1>5. Handles(e, d)
  BY DEF Receive
<1> QED
  BY <1>1, <1>2, <1>3, <1>4, <1>5 DEF Handles

LEMMA FaultKeepsOrder ==
  ASSUME IInv, IInv', CInv, NEW e \in Pair, Fault(e)
  PROVE  CInv'
<1>0. /\ TypeOK /\ TypeOK' /\ Used /\ fresh \in Nat
      /\ UNCHANGED <<ends, pc, sealed, session, inflight, fresh, read, order>>
  BY DEF IInv, TypeOK, CInv, Used, Fault
<1>1. \A f \in Pair : f # e => wire'[f] = wire[f]
  BY <1>0 DEF Fault, TypeOK
<1>2. Elems(wire'[e]) \subseteq Elems(wire[e])
  <2> DEFINE w == wire[e]
  <2>1. PICK i \in 1..Len(w) : \/ wire'[e] = RemoveAt(w, i)
                               \/ wire'[e] = Append(w, w[i])
                               \/ wire'[e] = Append(RemoveAt(w, i), w[i])
    BY <1>0 DEF Fault, TypeOK
  <2>2. w \in Seq(Datagram)
    BY <1>0 DEF TypeOK
  <2> HIDE DEF w
  <2>3. w[i] \in Elems(w) /\ w[i] \in Datagram
    BY <2>2 DEF Elems
  <2>5. RemoveAt(w, i) \in Seq(Datagram) /\ Elems(RemoveAt(w, i)) \subseteq Elems(w)
    BY <2>2, RemoveAtType, ElemsOfRemoveAt
  <2>4. /\ Elems(Append(w, w[i])) = Elems(w) \cup {w[i]}
        /\ Elems(Append(RemoveAt(w, i), w[i])) = Elems(RemoveAt(w, i)) \cup {w[i]}
    BY <2>2, <2>3, <2>5, ElemsOf
  <2> QED
    BY <2>1, <2>3, <2>4, <2>5 DEF w
<1>3. CellsPlaced' /\ AnswersYounger' /\ Made' \subseteq Made
  <2>1. \A f \in Pair : \A x \in Elems(wire'[f]) : x \in Elems(wire[f])
    BY <1>1, <1>2
  <2> QED
    BY <1>0, <2>1, Moved
<1>4. Used'
  BY <1>0, <1>3, Carried DEF Ahead
<1> QED
  BY <1>3, <1>4, Assembled DEF CInv, Used

LEMMA RestartKeepsOrder ==
  ASSUME IInv, IInv', CInv, NEW n \in Node, Restart(n)
  PROVE  CInv'
<1>0. /\ TypeOK /\ TypeOK' /\ Used /\ fresh \in Nat
      /\ UNCHANGED <<ends, fresh, read, order>>
  BY DEF IInv, TypeOK, CInv, Used, Restart
<1>1. /\ session' = [e \in Pair |-> IF e[1] = n THEN None ELSE session[e]]
      /\ inflight' = [e \in Pair |-> IF e[1] = n THEN None ELSE inflight[e]]
      /\ pc' = [s \in Call |-> IF ends[s][1] = n /\ ~ Idle(s) THEN "failed" ELSE pc[s]]
      /\ sealed' = [s \in Call |-> IF ends[s][1] = n THEN None ELSE sealed[s]]
  BY DEF Restart
<1>2. PICK f \in Pair : \E k \in 0..Len(wire[f]) : wire' =
        [e \in Pair |-> IF e[2] = n THEN SubSeq(wire[e], k + 1, Len(wire[e])) ELSE wire[e]]
  BY DEF Restart
<1>3. PICK k \in 0..Len(wire[f]) : wire' =
        [e \in Pair |-> IF e[2] = n THEN SubSeq(wire[e], k + 1, Len(wire[e])) ELSE wire[e]]
  BY <1>2
<1>4. ASSUME NEW e \in Pair PROVE Elems(wire'[e]) \subseteq Elems(wire[e])
  <2>1. wire[e] \in Seq(Datagram) /\ Len(wire[e]) \in Nat /\ k \in Nat
    BY <1>0 DEF TypeOK
  <2>2. CASE k + 1 \leq Len(wire[e]) + 1
    <3>1. k + 1 \in 1..(Len(wire[e]) + 1) /\ Len(wire[e]) \in 0..Len(wire[e])
      BY <2>1, <2>2
    <3>2. Elems(SubSeq(wire[e], k + 1, Len(wire[e]))) \subseteq Elems(wire[e])
      BY <2>1, <3>1, ElemsOfSubSeq
    <3> QED
      BY <1>3, <3>2
  <2>3. CASE k > Len(wire[e])
    <3>1. Len(SubSeq(wire[e], k + 1, Len(wire[e]))) = 0
      BY <2>1, <2>3
    <3>2. Elems(SubSeq(wire[e], k + 1, Len(wire[e]))) = {}
      BY <3>1 DEF Elems
    <3> QED
      BY <1>3, <3>2
  <2> QED
    BY <2>1, <2>2, <2>3
<1>5. CellsPlaced' /\ AnswersYounger' /\ Made' \subseteq Made
  <2>1. ASSUME NEW s \in Call
        PROVE  /\ pc[s] = "sent" => pc'[s] = "sent"
               /\ sealed'[s] # None => sealed'[s] = sealed[s] /\ pc'[s] = pc[s]
    BY <1>1 DEF Idle, Returned
  <2>2. \A e \in Pair : \A x \in Elems(wire'[e]) : x \in Elems(wire[e])
    BY <1>4
  <2> QED
    BY <1>0, <2>1, <2>2, Moved
<1>6. \A e \in Pair : /\ session'[e] # None => session'[e] = session[e]
                      /\ inflight'[e] # None => inflight'[e] = inflight[e]
  BY <1>1
<1>7. Used'
  BY <1>0, <1>5, <1>6, Carried DEF Ahead
<1> QED
  BY <1>5, <1>7, Assembled DEF CInv, Used

LEMMA SocketFailsKeepsOrder ==
  ASSUME IInv, IInv', CInv, NEW s \in Call, SocketFails(s)
  PROVE  CInv'
<1>0. /\ TypeOK /\ TypeOK' /\ Used /\ fresh \in Nat
      /\ UNCHANGED <<ends, session, inflight, wire, fresh, read, order>>
      /\ pc[s] \in {"sealed", "connecting"} /\ pc' = [pc EXCEPT ![s] = "failed"]
      /\ sealed' = [sealed EXCEPT ![s] = None]
  BY DEF IInv, TypeOK, CInv, Used, SocketFails
<1>1. \A t \in Call : /\ pc[t] = "sent" => pc'[t] = "sent"
                      /\ sealed'[t] # None => sealed'[t] = sealed[t] /\ pc'[t] = pc[t]
  BY <1>0 DEF TypeOK
<1>2. CellsPlaced' /\ AnswersYounger' /\ Made' \subseteq Made
  BY <1>0, <1>1, Moved
<1>3. Used'
  BY <1>0, <1>2, Carried DEF Ahead
<1> QED
  BY <1>2, <1>3, Assembled DEF CInv, Used

-----------------------------------------------------------------------------
(* The invariant.                                                          *)

LEMMA InitCInv == Init => CInv
<1> SUFFICES ASSUME Init PROVE CInv
  OBVIOUS
<1>1. /\ \A s \in Call : sealed[s] = None
      /\ \A e \in Pair : /\ wire[e] = << >> /\ read[e] = << >>
                         /\ session[e] = None /\ inflight[e] = None
  BY DEF Init
<1>2. Elems(<< >>) = {}
  BY DEF Elems
<1>3. Made = {}
  BY <1>1, <1>2, NoneAssumption DEF Made, Datagram
<1>4. CellsPlaced /\ AnswersYounger /\ KeysOld /\ NoncesOnce /\ OrderFollows
  BY <1>1, <1>2, <1>3 DEF CellsPlaced, AnswersYounger, KeysOld, NoncesOnce, OrderFollows
<1>5. HandshakesDiffer /\ SessionsDiffer /\ NoncesBelow /\ KeysGrow /\ RolesDiffer
  BY <1>1, <1>3 DEF HandshakesDiffer, SessionsDiffer, NoncesBelow, KeysGrow, RolesDiffer
<1> QED
  BY <1>4, <1>5 DEF CInv

LEMMA NothingChanges ==
  ASSUME CInv, UNCHANGED vars
  PROVE  CInv'
<1>1. UNCHANGED <<ends, pc, sealed, session, inflight, wire, fresh, read, order>>
  BY DEF vars
<1>2. Made' = Made
  BY <1>1 DEF Made
<1>3. CellsPlaced' /\ AnswersYounger' /\ KeysOld' /\ HandshakesDiffer'
  BY <1>1, <1>2 DEF CInv, CellsPlaced, AnswersYounger, KeysOld, HandshakesDiffer
<1>4. SessionsDiffer' /\ NoncesBelow' /\ NoncesOnce' /\ KeysGrow' /\ RolesDiffer'
  BY <1>1, <1>2 DEF CInv, SessionsDiffer, NoncesBelow, NoncesOnce, KeysGrow, RolesDiffer
<1>5. OrderFollows'
  BY <1>1, <1>2 DEF CInv, OrderFollows, Ahead
<1> QED
  BY <1>3, <1>4, <1>5 DEF CInv

LEMMA CiphersInOrder == Spec => [](IInv /\ CInv)
<1>1. ASSUME IInv, IInv', CInv, [Next]_vars PROVE CInv'
  <2>1. ASSUME NEW s \in Call, Start(s) \/ Proceeds(s) PROVE CInv'
    BY <1>1, <2>1, CallKeepsOrder
  <2>2. ASSUME NEW e \in Pair, Receive(e) PROVE CInv'
    BY <1>1, <2>2, ReceiveKeepsOrder
  <2>3. ASSUME NEW e \in Pair, Fault(e) PROVE CInv'
    BY <1>1, <2>3, FaultKeepsOrder
  <2>4. ASSUME NEW n \in Node, Restart(n) PROVE CInv'
    BY <1>1, <2>4, RestartKeepsOrder
  <2>5. Finished => UNCHANGED vars
    BY DEF Finished
  <2>6. CASE UNCHANGED vars
    BY <1>1, <2>6, NothingChanges
  <2>7. ASSUME NEW s \in Call, SocketFails(s) PROVE CInv'
    BY <1>1, <2>7, SocketFailsKeepsOrder
  <2> QED
    BY <1>1, <2>1, <2>2, <2>3, <2>4, <2>5, <2>6, <2>7 DEF Next
<1> QED
  BY Invariance, InitCInv, <1>1, PTL DEF Spec

\* No two ciphertexts are made with one key and one nonce (link.rs:190), with any nodes
\* and calls, sessions replaced under them, and however often nodes are restarted.
THEOREM NoncesNotReused == Spec => []NoncePerCiphertext
<1>1. IInv /\ CInv => NoncePerCiphertext
  <2> SUFFICES ASSUME IInv, CInv PROVE NoncePerCiphertext
    OBVIOUS
  <2> DEFINE made == {sealed[s] : s \in Call} \ {None}
             sent == UNION {{wire[e][i] : i \in 1..Len(wire[e])} : e \in Pair}
             got == UNION {{read[e][i] : i \in 1..Len(read[e])} : e \in Pair}
  <2>1. ASSUME NEW c \in made \cup sent \cup got, c.kind = "cell" PROVE c \in Made
    <3>1. CASE c \in made
      BY <3>1, WhereMade DEF IInv
    <3>2. CASE c \in sent
      <4>1. PICK e \in Pair : c \in Elems(wire[e])
        BY <3>2 DEF Elems
      <4>2. wire[e] \in Seq(Datagram)
        BY DEF IInv, TypeOK
      <4>3. c \in Datagram
        BY <4>1, <4>2, ElemsOf
      <4>4. c \in Cipher
        BY <2>1, <4>3, DatagramKinds
      <4> QED
        BY <4>1, <4>4, WhereMade DEF IInv
    <3>3. CASE c \in got
      <4>1. PICK e \in Pair : c \in Elems(read[e])
        BY <3>3 DEF Elems
      <4> QED
        BY <4>1, WhereMade DEF IInv
    <3> QED
      BY <3>1, <3>2, <3>3
  <2>2. \A c, d \in {x \in made \cup sent \cup got : x.kind = "cell"} :
          c.key = d.key /\ c.role = d.role /\ c.nonce = d.nonce => c = d
    <3> HIDE DEF made, sent, got
    <3> QED
      BY <2>1 DEF CInv, NoncesOnce
  <2> QED
    BY <2>2 DEF NoncePerCiphertext
<1> QED
  BY <1>1, CiphersInOrder, PTL

-----------------------------------------------------------------------------
(* Every step of the link is a step of the channel, or none.               *)

PhaseMap == [s \in Call |-> Phase(s)]
InboxMap == [e \in Pair |-> Inbox(e)]

LEMMA InitMaps == Init => Channel!Init
<1> SUFFICES ASSUME Init PROVE Channel!Init
  OBVIOUS
<1>1. ends \in [Call -> Pair] /\ order = << >>
  BY CallsAssumption DEF Init
<1>2. PhaseMap = [s \in Call |-> "idle"]
  BY DEF Init, PhaseMap, Phase
<1>3. \A e \in Pair : Inbox(e) = << >>
  BY BackPair DEF Init, Inbox
<1>4. InboxMap = [e \in Pair |-> << >>]
  BY <1>3 DEF InboxMap
<1> QED
  BY <1>1, <1>2, <1>4 DEF Channel!Init, PhaseMap, InboxMap

\* Where one call goes on, its phase alone may change.
LEMMA PhaseMoves ==
  ASSUME pc = [t \in Call |-> pc[t]], NEW s \in Call, NEW p, pc' = [pc EXCEPT ![s] = p]
  PROVE  PhaseMap' = [PhaseMap EXCEPT ![s] = Phase(s)']
BY DEF PhaseMap, Phase

LEMMA NothingMoves ==
  ASSUME UNCHANGED <<ends, pc, read, order>>
  PROVE  UNCHANGED Channel!vars
BY DEF Channel!vars, Phase, Inbox

LEMMA CallMaps ==
  ASSUME IInv, NEW s \in Call, Start(s) \/ Proceeds(s)
  PROVE  [Channel!Next]_(Channel!vars)
<1>0. /\ pc = [t \in Call |-> pc[t]] /\ PhaseMap[s] = Phase(s)
      /\ UNCHANGED <<ends, read>> /\ InboxMap' = InboxMap
  <2>1. UNCHANGED <<ends, read>>
    BY DEF Start, Proceeds, Initiate, Connected, Deadline, GiveUp, Encrypt, Transmit
  <2>2. InboxMap' = InboxMap
    BY <2>1 DEF InboxMap, Inbox
  <2>3. pc = [t \in Call |-> pc[t]] /\ PhaseMap[s] = Phase(s)
    BY DEF IInv, TypeOK, PhaseMap
  <2> QED
    BY <2>1, <2>2, <2>3
\* A call that fails.
<1>1. ASSUME pc' = [pc EXCEPT ![s] = "failed"], pc[s] \in {"idle", "expired"}, order' = order
      PROVE  Channel!Next
  <2>1. PhaseMap' = [t \in Call |-> IF t \in {s} THEN "failed" ELSE PhaseMap[t]]
    BY <1>0, <1>1, PhaseMoves DEF PhaseMap, Phase
  <2>2. PhaseMap[s] \in {"idle", "asked"}
    BY <1>0, <1>1 DEF Phase
  <2>3. \E S \in SUBSET {t \in Call : PhaseMap[t] \in {"idle", "asked", "accepted"}} :
          PhaseMap' = [t \in Call |-> IF t \in S THEN "failed" ELSE PhaseMap[t]]
    BY <2>1, <2>2
  <2>4. Channel!Fail
    BY <1>0, <1>1, <2>3 DEF Channel!Fail, PhaseMap, InboxMap
  <2> QED
    BY <2>4 DEF Channel!Next
\* A call that goes on within its phase.
<1>2. ASSUME NEW p \in {"waiting", "expired", "ready"}, pc' = [pc EXCEPT ![s] = p],
             pc[s] \in {"connecting", "waiting"}, order' = order
      PROVE  UNCHANGED Channel!vars
  <2>1. Phase(s)' = Phase(s)
    BY <1>0, <1>2 DEF Phase
  <2>2. PhaseMap' = PhaseMap
    BY <1>0, <1>2, <2>1, PhaseMoves DEF PhaseMap
  <2> QED
    BY <1>0, <1>2, <2>2 DEF Channel!vars, PhaseMap, InboxMap
<1>3. CASE Start(s)
  <2>1. /\ pc[s] = "idle" /\ order' = order
        /\ \E p \in {"ready", "connecting", "failed"} : pc' = [pc EXCEPT ![s] = p]
    BY <1>3 DEF Start
  <2>2. ASSUME NEW p \in {"ready", "connecting"}, pc' = [pc EXCEPT ![s] = p]
        PROVE  Channel!Next
    <3>1. Phase(s) = "idle" /\ Phase(s)' = "asked"
      BY <1>0, <2>1, <2>2 DEF Phase
    <3>2. PhaseMap[s] = "idle" /\ PhaseMap' = [PhaseMap EXCEPT ![s] = "asked"]
      BY <1>0, <2>2, <3>1, PhaseMoves
    <3>3. Channel!Ask(s)
      BY <1>0, <2>1, <3>2 DEF Channel!Ask, Channel!Moves, PhaseMap, InboxMap
    <3> QED
      BY <3>3 DEF Channel!Next
  <2> QED
    BY <1>1, <2>1, <2>2
<1>4. CASE Initiate(s) \/ Connected(s) \/ Deadline(s)
  BY <1>2, <1>4 DEF Initiate, Connected, Deadline
<1>5. CASE GiveUp(s)
  BY <1>1, <1>5 DEF GiveUp
<1>6. CASE Encrypt(s)
  <2>1. pc[s] = "ready" /\ pc' = [pc EXCEPT ![s] = "sealed"] /\ order' = Append(order, s)
    BY <1>6 DEF Encrypt
  <2>2. Phase(s) = "asked" /\ Phase(s)' = "accepted"
    BY <1>0, <2>1 DEF Phase
  <2>3. PhaseMap[s] = "asked" /\ PhaseMap' = [PhaseMap EXCEPT ![s] = "accepted"]
    BY <1>0, <2>1, <2>2, PhaseMoves
  <2>4. Channel!Accept(s)
    BY <1>0, <2>1, <2>3 DEF Channel!Accept, Channel!Moves, PhaseMap, InboxMap
  <2> QED
    BY <2>4 DEF Channel!Next
<1>7. CASE Transmit(s)
  <2>1. pc[s] = "sealed" /\ pc' = [pc EXCEPT ![s] = "sent"] /\ order' = order
    BY <1>7 DEF Transmit
  <2>2. Phase(s) = "accepted" /\ Phase(s)' = "sent"
    BY <1>0, <2>1 DEF Phase
  <2>3. PhaseMap[s] = "accepted" /\ PhaseMap' = [PhaseMap EXCEPT ![s] = "sent"]
    BY <1>0, <2>1, <2>2, PhaseMoves
  <2>4. Channel!Send(s)
    BY <1>0, <2>1, <2>3 DEF Channel!Send, Channel!Moves, PhaseMap, InboxMap
  <2> QED
    BY <2>4 DEF Channel!Next
<1> QED
  BY <1>3, <1>4, <1>5, <1>6, <1>7 DEF Proceeds

\* What a node reads was encrypted after all that it has read from that address.
LEMMA ReadsWhatIsNext ==
  ASSUME IInv, CInv, NEW e \in Pair, NEW d \in Elems(wire[e]) \cap Cipher,
         Readable(session[Back(e)], d), NEW c \in Elems(read[Back(e)])
  PROVE  Ahead(c.cell, d.cell)
<1> DEFINE b == Back(e)
<1>0. /\ TypeOK /\ b \in Pair /\ Back(b) = e
      /\ session[b] # None /\ session[b].key = d.key /\ session[b].role # d.role
      /\ session[b].rx = d.nonce
      /\ CellsPlaced /\ KeysGrow /\ RolesDiffer /\ OrderFollows /\ ReadSoFar
  BY BackPair DEF IInv, CInv, Readable
<1>1. c \in Made /\ d \in Made
  BY <1>0, WhereMade
<1>2. ends[c.cell] = e /\ ends[d.cell] = e
  BY <1>0 DEF CellsPlaced
<1>3. c.key = d.key \/ c.key.answer < d.key.answer
  BY <1>0, <1>1 DEF KeysGrow
<1>4. ASSUME c.key = d.key PROVE c.role = d.role /\ c.nonce < d.nonce
  <2>1. c.role # session[b].role
    BY <1>0, <1>4 DEF RolesDiffer
  <2>2. c.role = d.role
    BY <1>0, <1>1, <2>1, MadeTyped, SessionTyped DEF Role
  <2>3. PICK j \in 1..Len(read[b]) : c = read[b][j]
    BY DEF Elems
  <2>4. c.nonce \in NoncesRead(b, session[b].key, Len(read[b]))
    BY <1>0, <1>4, <2>3 DEF NoncesRead
  <2>5. c.nonce \in 0..(session[b].rx - 1)
    BY <1>0, <2>4 DEF ReadSoFar
  <2>6. c.nonce \in Nat /\ d.nonce \in Nat
    BY <1>1, MadeTyped
  <2> QED
    BY <1>0, <2>2, <2>5, <2>6
<1> QED
  BY <1>0, <1>1, <1>2, <1>3, <1>4 DEF OrderFollows

LEMMA ReadMaps ==
  ASSUME IInv, CInv, NEW e \in Pair, Receive(e), Read(e, Head(wire[e]))
  PROVE  Channel!Next
<1> DEFINE d == Head(wire[e])
           b == Back(e)
<1>0. /\ TypeOK /\ CellsPlaced /\ b \in Pair /\ Back(b) = e
      /\ UNCHANGED <<ends, pc, order>> /\ order \in Seq(Call)
      /\ wire[e] \in Seq(Datagram) /\ wire[e] # << >>
  BY BackPair DEF IInv, TypeOK, CInv, Receive
<1>1. /\ d \in Elems(wire[e]) \cap Cipher /\ Readable(session[b], d)
      /\ read' = [read EXCEPT ![b] = Append(read[b], d)]
  <2>1. d \in Elems(wire[e]) /\ d \in Datagram
    BY <1>0, ElemsOf
  <2>2. d.kind = "cell"
    BY DEF Read
  <2> QED
    BY <2>1, <2>2, DatagramKinds DEF Read
<1> HIDE DEF d
<1>2. d.cell \in Call /\ ends[d.cell] = e /\ pc[d.cell] = "sent"
  BY <1>0, <1>1 DEF CellsPlaced, Cipher
<1>3. PhaseMap[d.cell] = "sent" /\ PhaseMap' = PhaseMap
  BY <1>0, <1>2 DEF PhaseMap, Phase
<1>4. ASSUME NEW r \in Channel!Range(InboxMap[e])
      PROVE  Channel!Before(r, d.cell)
  <2>1. PICK i \in 1..Len(read[b]) : r = read[b][i].cell
    BY <1>0, <1>4 DEF Channel!Range, InboxMap, Inbox
  <2>2. Ahead(r, d.cell)
    BY <1>1, <2>1, ReadsWhatIsNext DEF Elems
  <2>3. DOMAIN order = 1..Len(order)
    BY <1>0
  <2> QED
    BY <2>2, <2>3 DEF Ahead, Channel!Before
<1>5. InboxMap' = [InboxMap EXCEPT ![e] = Append(InboxMap[e], d.cell)]
  <2>1. read[b] \in Seq(Cipher) /\ read'[b] = Append(read[b], d) /\ d \in Cipher
    BY <1>0, <1>1 DEF TypeOK
  <2>2. Inbox(e)' = Append(Inbox(e), d.cell)
    <3>1. ASSUME NEW q \in Seq(Cipher), NEW x \in Cipher
          PROVE  [i \in 1..Len(Append(q, x)) |-> Append(q, x)[i].cell]
                   = Append([i \in 1..Len(q) |-> q[i].cell], x.cell)
      OBVIOUS
    <3> QED
      BY <2>1, <3>1 DEF Inbox
  <2>3. ASSUME NEW f \in Pair, f # e PROVE Inbox(f)' = Inbox(f)
    <3>1. Back(f) # b /\ Back(f) \in Pair
      BY <1>0, <2>3, BackPair
    <3>2. read'[Back(f)] = read[Back(f)]
      BY <1>0, <1>1, <3>1 DEF TypeOK
    <3> QED
      BY <3>2 DEF Inbox
  <2> QED
    BY <2>2, <2>3 DEF InboxMap
<1>6. Channel!Deliver(d.cell)
  BY <1>0, <1>2, <1>3, <1>4, <1>5 DEF Channel!Deliver, PhaseMap, InboxMap
<1> QED
  BY <1>2, <1>6 DEF Channel!Next

LEMMA ReceiveMaps ==
  ASSUME IInv, CInv, NEW e \in Pair, Receive(e)
  PROVE  [Channel!Next]_(Channel!vars)
<1> DEFINE d == Head(wire[e])
<1>1. UNCHANGED <<ends, pc, order>> /\ Handles(e, d)
  BY DEF Receive
<1>2. CASE Read(e, d)
  BY <1>2, ReadMaps
<1>3. CASE ~ Read(e, d)
  <2>1. read' = read
    BY <1>1, <1>3 DEF Handles, HandshakeLost, Respond, RequestRefused, Complete, AnswerRefused,
                      Misread, Unreadable
  <2> QED
    BY <1>1, <2>1, NothingMoves
<1> QED
  BY <1>2, <1>3

\* Calls that have not returned fail together.
LEMMA CallsFail ==
  ASSUME TypeOK, UNCHANGED <<ends, read, order>>,
         NEW S \in SUBSET {s \in Call : pc[s] \notin {"sent", "failed"}},
         pc' = [s \in Call |-> IF s \in S THEN "failed" ELSE pc[s]]
  PROVE  Channel!Next
<1>1. \A s \in S : PhaseMap[s] \in {"idle", "asked", "accepted"}
  BY DEF TypeOK, PhaseMap, Phase
<1>2. PhaseMap' = [s \in Call |-> IF s \in S THEN "failed" ELSE PhaseMap[s]]
  BY DEF PhaseMap, Phase
<1>3. InboxMap' = InboxMap
  BY DEF InboxMap, Inbox
<1>4. S \in SUBSET {s \in Call : PhaseMap[s] \in {"idle", "asked", "accepted"}}
  BY <1>1
<1>5. Channel!Fail
  BY <1>2, <1>3, <1>4 DEF Channel!Fail, PhaseMap, InboxMap
<1> QED
  BY <1>5 DEF Channel!Next

LEMMA RestartMaps ==
  ASSUME IInv, NEW n \in Node, Restart(n)
  PROVE  Channel!Next
<1> DEFINE S == {s \in Call : ends[s][1] = n /\ ~ Idle(s)}
<1>1. /\ UNCHANGED <<ends, read, order>> /\ TypeOK
      /\ pc' = [s \in Call |-> IF s \in S THEN "failed" ELSE pc[s]]
  BY DEF Restart, IInv
<1>2. S \in SUBSET {s \in Call : pc[s] \notin {"sent", "failed"}}
  BY DEF Idle, Returned
<1> HIDE DEF S
<1> QED
  BY <1>1, <1>2, CallsFail

LEMMA SocketFailsMaps ==
  ASSUME IInv, NEW s \in Call, SocketFails(s)
  PROVE  Channel!Next
<1>1. /\ UNCHANGED <<ends, read, order>> /\ TypeOK
      /\ pc[s] \in {"sealed", "connecting"} /\ pc' = [pc EXCEPT ![s] = "failed"]
  BY DEF SocketFails, IInv
<1>2. pc' = [t \in Call |-> IF t \in {s} THEN "failed" ELSE pc[t]]
  BY <1>1 DEF TypeOK
<1>3. {s} \in SUBSET {t \in Call : pc[t] \notin {"sent", "failed"}}
  BY <1>1
<1> QED
  BY <1>1, <1>2, <1>3, CallsFail

\* The link neither repeats nor reorders the cells it delivers (plan:22), and a call that
\* fails sends nothing, with any nodes and calls, whatever UDP loses, repeats or holds
\* back, sockets fail, handshakes collide and however often nodes are restarted.
THEOREM LinkIsChannel == Spec => Channel!Spec
<1>1. ASSUME IInv, CInv, [Next]_vars PROVE [Channel!Next]_(Channel!vars)
  <2>1. ASSUME NEW s \in Call, Start(s) \/ Proceeds(s) PROVE [Channel!Next]_(Channel!vars)
    BY <1>1, <2>1, CallMaps
  <2>2. ASSUME NEW e \in Pair, Receive(e) PROVE [Channel!Next]_(Channel!vars)
    BY <1>1, <2>2, ReceiveMaps
  <2>3. ASSUME NEW e \in Pair, Fault(e) PROVE [Channel!Next]_(Channel!vars)
    BY <2>3, NothingMoves DEF Fault
  <2>4. ASSUME NEW n \in Node, Restart(n) PROVE [Channel!Next]_(Channel!vars)
    BY <1>1, <2>4, RestartMaps
  <2>5. CASE UNCHANGED vars
    BY <2>5, NothingMoves DEF vars
  <2>6. Finished => UNCHANGED vars
    BY DEF Finished
  <2>7. ASSUME NEW s \in Call, SocketFails(s) PROVE [Channel!Next]_(Channel!vars)
    BY <1>1, <2>7, SocketFailsMaps
  <2> QED
    BY <1>1, <2>1, <2>2, <2>3, <2>4, <2>5, <2>6, <2>7 DEF Next
<1> QED
  BY InitMaps, <1>1, CiphersInOrder, PTL DEF Spec, Channel!Spec
=============================================================================
