----------------------------- MODULE Link_proofs -----------------------------
(***************************************************************************)
(* Proofs about the link, for any nodes and calls and any number of lost,  *)
(* repeated and delayed datagrams and of restarts: its types, and that a   *)
(* node reads each session in order, without a gap and nothing twice.      *)
(***************************************************************************)
EXTENDS LinkProps, TLAPS

-----------------------------------------------------------------------------
(* Pairs and sequences.                                                    *)

LEMMA BackPair ==
  ASSUME NEW e \in Pair
  PROVE  Back(e) \in Pair /\ Back(Back(e)) = e
BY DEF Pair, Back

LEMMA SeqSubset ==
  ASSUME NEW S, NEW T, S \subseteq T, NEW s \in Seq(S)
  PROVE  s \in Seq(T)
OBVIOUS

LEMMA ShortSequences ==
  ASSUME NEW S
  PROVE  /\ << >> \in Seq(S) /\ Len(<< >>) = 0
         /\ \A a \in S : <<a>> \in Seq(S)
OBVIOUS

LEMMA RemoveAtType ==
  ASSUME NEW S, NEW s \in Seq(S), NEW i \in 1..Len(s)
  PROVE  RemoveAt(s, i) \in Seq(S)
<1>1. SubSeq(s, 1, i - 1) \in Seq(S) /\ SubSeq(s, i + 1, Len(s)) \in Seq(S)
  OBVIOUS
<1> QED
  BY <1>1 DEF RemoveAt

LEMMA DatagramKinds ==
  ASSUME NEW d \in Datagram
  PROVE  /\ d.kind \in {"hs1", "hs2", "cell"}
         /\ d.kind = "hs1" => d \in Hs1 /\ d.hs \in Nat /\ d.from \in Nat
         /\ d.kind = "hs2" => d \in Hs2 /\ d.key \in Key
         /\ d.kind = "cell" => d \in Cipher
BY DEF Datagram, Hs1, Hs2, Cipher

-----------------------------------------------------------------------------
(* The inductive invariant.                                                *)

\* A call starts a handshake with the key it has, encrypts under a session, and sends what it has encrypted.
CallsHaveWhatTheyNeed ==
  \A s \in Call : /\ pc[s] = "ready" => session[ends[s]] # None
                  /\ pc[s] = "sealed" => sealed[s] # None
                  /\ pc[s] = "connecting" => pubk[s] # None

\* Handshakes and answers are older than the next fresh one, wherever they are.
Old(key, n) == key.hs < n /\ key.answer < n

Issued(n) ==
  {d \in Datagram : /\ d.kind = "hs1" => d.hs < n
                    /\ d.kind = "hs2" => Old(d.key, n)}

IdsIssued ==
  \A e \in Pair :
    /\ inflight[e] # None => inflight[e] < fresh
    /\ session[e] # None => Old(session[e].key, fresh)
    /\ \A i \in 1..Len(read[e]) : Old(read[e][i].key, fresh)
    /\ wire[e] \in Seq(Issued(fresh))

\* A handshake under way has led to no session yet, and nothing was read in one.
NothingReadYet ==
  \A e \in Pair : inflight[e] # None =>
    /\ session[e] # None => session[e].key.hs # inflight[e]
    /\ \A i \in 1..Len(read[e]) : read[e][i].key.hs # inflight[e]

\* What has been read in a session is what precedes the nonce it expects.
ReadSoFar ==
  \A e \in Pair : session[e] # None =>
    NoncesRead(e, session[e].key, Len(read[e])) = 0..(session[e].rx - 1)

IInv ==
  TypeOK /\ CallsHaveWhatTheyNeed /\ IdsIssued /\ NothingReadYet /\ ReadSoFar /\ ReadInOrder

LEMMA InitIInv == Init => IInv
<1> SUFFICES ASSUME Init PROVE IInv
  OBVIOUS
<1>1. TypeOK
  BY EnvAssumption DEF Init, TypeOK, Surroundings
<1>2. \A e \in Pair : /\ session[e] = None /\ inflight[e] = None
                      /\ read[e] = << >> /\ wire[e] = << >>
  BY DEF Init
<1>3. CallsHaveWhatTheyNeed
  BY DEF Init, CallsHaveWhatTheyNeed
<1>4. << >> \in Seq(Issued(fresh)) /\ Len(<< >>) = 0
  BY ShortSequences
<1>5. IdsIssued
  <2>1. \A e \in Pair : wire[e] \in Seq(Issued(fresh))
    BY <1>2, <1>4
  <2>2. \A e \in Pair : \A i \in 1..Len(read[e]) : FALSE
    BY <1>2, <1>4
  <2> QED
    BY <1>2, <2>1, <2>2 DEF IdsIssued
<1>6. NothingReadYet /\ ReadSoFar
  BY <1>2 DEF NothingReadYet, ReadSoFar
<1>7. ReadInOrder
  BY <1>2, <1>4 DEF ReadInOrder
<1> QED
  BY <1>1, <1>3, <1>5, <1>6, <1>7 DEF IInv

\* What the type invariant says of sessions and of what was read.
LEMMA Typed ==
  ASSUME TypeOK, NEW f \in Pair
  PROVE  /\ \A i \in 1..Len(read[f]) : read[f][i].key \in Key /\ read[f][i].nonce \in Nat
         /\ session[f] # None =>
              session[f] \in Session /\ session[f].key \in Key /\ session[f].rx \in Nat
         /\ inflight[f] # None => inflight[f] \in Nat
<1>1. read[f] \in Seq(Cipher)
  BY DEF TypeOK
<1>2. \A i \in 1..Len(read[f]) : read[f][i] \in Cipher
  BY <1>1
<1>3. \A c \in Cipher : c.key \in Key /\ c.nonce \in Nat
  BY DEF Cipher
<1>4. session[f] \in Session \cup {None} /\ inflight[f] \in Nat \cup {None}
  BY DEF TypeOK
<1>5. \A ss \in Session : ss.key \in Key /\ ss.rx \in Nat
  BY DEF Session
<1> QED
  BY <1>2, <1>3, <1>4, <1>5

LEMMA OldGrows ==
  ASSUME NEW n \in Nat, NEW k \in Key, Old(k, n)
  PROVE  Old(k, n + 1)
BY DEF Old, Key

\* One more fresh id changes nothing that was issued before.
LEMMA IssuedGrows ==
  ASSUME NEW n \in Nat, NEW s \in Seq(Issued(n))
  PROVE  s \in Seq(Issued(n + 1))
<1>1. Issued(n) \subseteq Issued(n + 1)
  <2> SUFFICES ASSUME NEW d \in Issued(n) PROVE d \in Issued(n + 1)
    OBVIOUS
  <2>1. d \in Datagram /\ (d.kind = "hs1" => d.hs < n) /\ (d.kind = "hs2" => Old(d.key, n))
    BY DEF Issued
  <2>2. (d.kind = "hs1" => d.hs \in Nat) /\ (d.kind = "hs2" => d.key \in Key)
    BY <2>1, DatagramKinds
  <2>3. (d.kind = "hs1" => d.hs < n + 1) /\ (d.kind = "hs2" => Old(d.key, n + 1))
    BY <2>1, <2>2 DEF Old, Key
  <2> QED
    BY <2>1, <2>3 DEF Issued
<1> QED
  BY <1>1, SeqSubset

-----------------------------------------------------------------------------
(* The steps of a call: nothing is read, and a session only counts on.     *)

\* The reading side of the invariant, when a step keeps keys and expected nonces.
LEMMA ReadingKept ==
  ASSUME IInv, read' = read,
         \A e \in Pair : /\ (session[e] = None <=> session'[e] = None)
                         /\ session[e] # None => /\ session'[e].key = session[e].key
                                                 /\ session'[e].rx = session[e].rx
  PROVE  ReadSoFar' /\ ReadInOrder'
<1>1. \A e, k, n : NoncesRead(e, k, n)' = NoncesRead(e, k, n)
  BY DEF NoncesRead
<1>2. ReadInOrder'
  BY <1>1 DEF IInv, ReadInOrder, NoncesRead
<1>3. ReadSoFar'
  BY <1>1 DEF IInv, ReadSoFar, NoncesRead
<1> QED
  BY <1>2, <1>3

LEMMA CallStep ==
  ASSUME IInv, NEW s \in Call, Start(s) \/ Proceeds(s)
  PROVE  IInv'
<1> DEFINE e == ends[s]
<1>0. /\ TypeOK /\ CallsHaveWhatTheyNeed /\ IdsIssued /\ NothingReadYet
      /\ e \in Pair /\ e \in DOMAIN session /\ e \in DOMAIN inflight /\ e \in DOMAIN wire
  BY CallsAssumption DEF IInv, TypeOK
\* Most steps change only where the call stands.
<1>1. ASSUME NEW p \in {"connecting", "waiting", "expired", "ready", "failed"},
             pc' = [pc EXCEPT ![s] = p],
             p = "ready" => session[e] # None,
             p = "connecting" => pubk'[s] # None,
             pubk' \in [Call -> Nat \cup {None}], \A t \in Call : t # s => pubk'[t] = pubk[t],
             known' \in [Pair -> Nat \cup {None}],
             UNCHANGED <<env, ends, sealed, session, inflight, stuck, wire, fresh, read, order,
                         life, faults>>
      PROVE  IInv'
  <2>1. TypeOK'
    BY <1>0, <1>1 DEF TypeOK
  <2>2. CallsHaveWhatTheyNeed'
    BY <1>0, <1>1 DEF TypeOK, CallsHaveWhatTheyNeed
  <2>3. IdsIssued' /\ NothingReadYet'
    BY <1>0, <1>1 DEF IdsIssued, NothingReadYet
  <2>4. ReadSoFar' /\ ReadInOrder'
    BY <1>1, ReadingKept
  <2> QED
    BY <2>1, <2>2, <2>3, <2>4 DEF IInv
<1>2. CASE Start(s)
  <2>1. PICK k \in {known[e]} \cup KeysOf(e[2]) :
          /\ known' = [known EXCEPT ![e] = k]
          /\ \/ session[e] # None /\ pc' = [pc EXCEPT ![s] = "ready"] /\ UNCHANGED pubk
             \/ /\ k # None /\ pc' = [pc EXCEPT ![s] = "connecting"]
                /\ pubk' = [pubk EXCEPT ![s] = k]
             \/ pc' = [pc EXCEPT ![s] = "failed"] /\ UNCHANGED pubk
    BY <1>2 DEF Start
  <2>2. k \in Nat \cup {None}
    <3>1. known[e] \in Nat \cup {None} /\ e[2] \in Node
      BY <1>0 DEF TypeOK, Pair
    <3>2. life[e[2]] \in Nat
      BY <1>0, <3>1 DEF TypeOK
    <3>3. \A l \in Nat : 0..l \subseteq Nat
      OBVIOUS
    <3> QED
      BY <3>1, <3>2, <3>3 DEF KeysOf
  <2>3. known' \in [Pair -> Nat \cup {None}]
    BY <1>0, <2>1, <2>2 DEF TypeOK
  <2>4. /\ UNCHANGED <<env, ends, sealed, session, inflight, stuck, wire, fresh, read, order,
                       life, faults>>
        /\ pubk \in [Call -> Nat \cup {None}]
    BY <1>0, <1>2 DEF Start, TypeOK
  <2>5. CASE session[e] # None /\ pc' = [pc EXCEPT ![s] = "ready"] /\ UNCHANGED pubk
    BY <1>1, <2>3, <2>4, <2>5
  <2>6. CASE /\ k # None /\ pc' = [pc EXCEPT ![s] = "connecting"]
             /\ pubk' = [pubk EXCEPT ![s] = k]
    <3>1. /\ pubk' \in [Call -> Nat \cup {None}] /\ pubk'[s] # None
          /\ \A t \in Call : t # s => pubk'[t] = pubk[t]
      BY <2>2, <2>4, <2>6
    <3> QED
      BY <1>1, <2>3, <2>4, <2>6, <3>1
  <2>7. CASE pc' = [pc EXCEPT ![s] = "failed"] /\ UNCHANGED pubk
    BY <1>1, <2>3, <2>4, <2>7
  <2> QED
    BY <2>1, <2>5, <2>6, <2>7
<1>3. CASE Connected(s)
  <2>1. /\ pc' = [pc EXCEPT ![s] = "ready"] /\ session[e] # None
        /\ UNCHANGED <<env, ends, pubk, sealed, session, inflight, known, stuck, wire, fresh, read,
                       order, life, faults>>
    BY <1>3 DEF Connected
  <2> QED
    BY <1>0, <1>1, <2>1 DEF TypeOK
<1>4. CASE Deadline(s)
  <2>1. /\ pc' = [pc EXCEPT ![s] = "expired"]
        /\ UNCHANGED <<env, ends, pubk, sealed, session, inflight, known, stuck, wire, fresh, read,
                       order, life, faults>>
    BY <1>4 DEF Deadline
  <2> QED
    BY <1>0, <1>1, <2>1 DEF TypeOK
<1>5. CASE Initiate(s) /\ inflight[e] # None
  <2>1. /\ pc' = [pc EXCEPT ![s] = "waiting"] /\ pubk' = [pubk EXCEPT ![s] = None]
        /\ UNCHANGED <<env, ends, sealed, session, inflight, known, stuck, wire, fresh, read,
                       order, life, faults>>
    BY <1>5 DEF Initiate
  <2>2. /\ pubk' \in [Call -> Nat \cup {None}] /\ known' \in [Pair -> Nat \cup {None}]
        /\ \A t \in Call : t # s => pubk'[t] = pubk[t]
    BY <1>0, <2>1 DEF TypeOK
  <2> QED
    BY <1>1, <2>1, <2>2
<1>6. CASE Initiate(s) /\ inflight[e] = None
  <2> DEFINE d == [kind |-> "hs1", hs |-> fresh, from |-> life[e[1]], to |-> pubk[s]]
  <2>1. /\ pc' = [pc EXCEPT ![s] = "waiting"]
        /\ inflight' = [inflight EXCEPT ![e] = fresh]
        /\ wire' = [wire EXCEPT ![e] = Append(wire[e], d)]
        /\ fresh' = fresh + 1
        /\ pubk' = [pubk EXCEPT ![s] = None]
        /\ UNCHANGED <<env, ends, sealed, session, known, stuck, read, order, life, faults>>
    BY <1>0, <1>6 DEF Initiate
  <2>2. d \in Datagram /\ d \in Issued(fresh + 1) /\ fresh \in Nat
    <3>1. pubk[s] \in Nat /\ life[e[1]] \in Nat /\ fresh \in Nat
      BY <1>0, <1>6 DEF TypeOK, CallsHaveWhatTheyNeed, Initiate, Pair
    <3> QED
      BY <3>1 DEF Datagram, Hs1, Issued
  <2> HIDE DEF d
  <2>3. TypeOK'
    BY <1>0, <2>1, <2>2 DEF TypeOK
  <2>4. CallsHaveWhatTheyNeed'
    BY <1>0, <2>1 DEF TypeOK, CallsHaveWhatTheyNeed
  <2>5. IdsIssued'
    <3>1. \A f \in Pair : wire[f] \in Seq(Issued(fresh + 1))
      BY <1>0, <2>2, IssuedGrows DEF IdsIssued
    <3>2. \A f \in Pair : wire'[f] \in Seq(Issued(fresh'))
      <4>1. Append(wire[e], d) \in Seq(Issued(fresh + 1))
        BY <1>0, <2>2, <3>1
      <4>2. \A f \in Pair : wire'[f] = IF f = e THEN Append(wire[e], d) ELSE wire[f]
        BY <1>0, <2>1 DEF TypeOK
      <4> HIDE DEF e
      <4> QED
        BY <2>1, <3>1, <4>1, <4>2
    <3>3. \A f \in Pair : session[f] # None => Old(session[f].key, fresh + 1)
      BY <1>0, <2>2, Typed, OldGrows DEF IdsIssued
    <3>4. \A f \in Pair : \A i \in 1..Len(read[f]) : Old(read[f][i].key, fresh + 1)
      BY <1>0, <2>2, Typed, OldGrows DEF IdsIssued
    <3>5. fresh' = fresh + 1 /\ session' = session /\ read' = read
      BY <2>1
    <3>6. \A f \in Pair : inflight'[f] # None => inflight'[f] < fresh'
      BY <1>0, <2>1, <2>2 DEF TypeOK, IdsIssued
    <3> QED
      BY <3>2, <3>3, <3>4, <3>5, <3>6 DEF IdsIssued
  <2>6. NothingReadYet'
    <3>1. session[e] # None => session[e].key.hs # fresh
      BY <1>0, <2>2 DEF TypeOK, Session, Key, IdsIssued, Old
    <3>2. \A i \in 1..Len(read[e]) : read[e][i].key.hs # fresh
      <4>1. \A i \in 1..Len(read[e]) : read[e][i].key \in Key
        BY <1>0, Typed
      <4> QED
        BY <1>0, <2>2, <4>1 DEF Key, IdsIssued, Old
    <3>3. \A f \in Pair : inflight'[f] = IF f = e THEN fresh ELSE inflight[f]
      BY <1>0, <2>1 DEF TypeOK
    <3> HIDE DEF e
    <3> QED
      BY <1>0, <2>1, <3>1, <3>2, <3>3 DEF NothingReadYet
  <2>7. ReadSoFar' /\ ReadInOrder'
    BY <2>1, ReadingKept
  <2> QED
    BY <2>3, <2>4, <2>5, <2>6, <2>7 DEF IInv
<1>7. CASE GiveUp(s)
  <2>1. /\ pc' = [pc EXCEPT ![s] = "failed"]
        /\ inflight' = [inflight EXCEPT ![e] = None]
        /\ UNCHANGED <<env, ends, pubk, sealed, session, known, stuck, wire, fresh, read, order,
                       life, faults>>
    BY <1>7 DEF GiveUp
  <2>2. TypeOK'
    BY <1>0, <2>1 DEF TypeOK
  <2>3. CallsHaveWhatTheyNeed'
    BY <1>0, <2>1 DEF TypeOK, CallsHaveWhatTheyNeed
  <2>4. \A f \in Pair : inflight'[f] = IF f = e THEN None ELSE inflight[f]
    BY <1>0, <2>1 DEF TypeOK
  <2> HIDE DEF e
  <2>5. IdsIssued' /\ NothingReadYet'
    BY <1>0, <2>1, <2>4 DEF IdsIssued, NothingReadYet
  <2>6. ReadSoFar' /\ ReadInOrder'
    BY <2>1, ReadingKept
  <2> QED
    BY <2>2, <2>3, <2>5, <2>6 DEF IInv
<1>8. CASE Encrypt(s)
  <2>0. PICK mask \in BOOLEAN : sealed' = [sealed EXCEPT ![s] =
          [kind |-> "cell", key |-> session[e].key, role |-> session[e].role,
           nonce |-> session[e].tx, cell |-> s, mask |-> mask]]
    BY <1>8 DEF Encrypt
  <2> DEFINE d == [kind |-> "cell", key |-> session[e].key, role |-> session[e].role,
                   nonce |-> session[e].tx, cell |-> s, mask |-> mask]
  <2>1. /\ pc' = [pc EXCEPT ![s] = "sealed"]
        /\ session' = [session EXCEPT ![e].tx = session[e].tx + 1]
        /\ order' = Append(order, s)
        /\ UNCHANGED <<env, ends, pubk, inflight, known, stuck, wire, fresh, read, life, faults>>
    BY <1>8 DEF Encrypt, NonceTaken
  <2>2. session[e] \in Session
    BY <1>0, <1>8 DEF TypeOK, CallsHaveWhatTheyNeed, Encrypt
  <2>3. d \in Cipher /\ d # None
    BY <2>2, NoneAssumption DEF Cipher, Session, Datagram
  <2>4. sealed' = [sealed EXCEPT ![s] = d]
    BY <2>0
  <2> HIDE DEF d
  <2>5. /\ session'[e] \in Session /\ session'[e] # None
        /\ session'[e].key = session[e].key /\ session'[e].rx = session[e].rx
    <3>1. session'[e] = [session[e] EXCEPT !.tx = session[e].tx + 1]
      BY <1>0, <2>1 DEF TypeOK
    <3>2. ASSUME NEW ss \in Session, NEW s2, s2 = [ss EXCEPT !.tx = ss.tx + 1]
          PROVE  s2 \in Session /\ s2.key = ss.key /\ s2.rx = ss.rx
      BY <3>2 DEF Session
    <3> HIDE DEF e
    <3> QED
      BY <2>2, <3>1, <3>2, NoneAssumption
  <2>6. \A f \in Pair : f # e => session'[f] = session[f]
    BY <1>0, <2>1 DEF TypeOK
  <2>7. session' \in [Pair -> Session \cup {None}]
    BY <1>0, <2>1, <2>5, <2>6 DEF TypeOK
  <2>8. session[e] # None
    BY <2>2, NoneAssumption
  <2>9. \A f \in Pair : /\ (session[f] = None <=> session'[f] = None)
                        /\ session[f] # None => /\ session'[f].key = session[f].key
                                                /\ session'[f].rx = session[f].rx
    BY <2>5, <2>6, <2>8
  <2>10. TypeOK'
    <3>1. order' \in Seq(Call)
      BY <1>0, <2>1 DEF TypeOK
    <3> QED
      BY <1>0, <2>1, <2>3, <2>4, <2>7, <3>1 DEF TypeOK
  <2>11. CallsHaveWhatTheyNeed'
    <3>1. \A r \in Call : ends[r] \in Pair
      BY <1>0, CallsAssumption DEF TypeOK
    <3> QED
      BY <1>0, <2>1, <2>3, <2>4, <2>9, <3>1 DEF TypeOK, CallsHaveWhatTheyNeed
  <2>12. IdsIssued' /\ NothingReadYet'
    BY <1>0, <2>1, <2>9 DEF IdsIssued, NothingReadYet
  <2>13. ReadSoFar' /\ ReadInOrder'
    BY <2>1, <2>9, ReadingKept
  <2> QED
    BY <2>10, <2>11, <2>12, <2>13 DEF IInv
<1>9. CASE Transmit(s)
  <2>1. /\ pc' = [pc EXCEPT ![s] = "sent"]
        /\ wire' = [wire EXCEPT ![e] = Append(wire[e], sealed[s])]
        /\ sealed' = [sealed EXCEPT ![s] = None]
        /\ UNCHANGED <<env, ends, pubk, session, inflight, known, stuck, fresh, read, order, life,
                       faults>>
    BY <1>0, <1>9 DEF Transmit
  <2>2. sealed[s] \in Cipher
    BY <1>0, <1>9 DEF TypeOK, CallsHaveWhatTheyNeed, Transmit
  <2>3. sealed[s] \in Datagram /\ sealed[s] \in Issued(fresh)
    BY <2>2 DEF Datagram, Cipher, Issued
  <2>4. TypeOK'
    BY <1>0, <2>1, <2>3 DEF TypeOK
  <2>5. CallsHaveWhatTheyNeed'
    BY <1>0, <2>1 DEF TypeOK, CallsHaveWhatTheyNeed
  <2>6. \A f \in Pair : wire'[f] \in Seq(Issued(fresh))
    BY <1>0, <2>1, <2>3 DEF TypeOK, IdsIssued
  <2>7. IdsIssued' /\ NothingReadYet'
    BY <1>0, <2>1, <2>6 DEF IdsIssued, NothingReadYet
  <2>8. ReadSoFar' /\ ReadInOrder'
    BY <2>1, ReadingKept
  <2> QED
    BY <2>4, <2>5, <2>7, <2>8 DEF IInv
<1> QED
  BY <1>2, <1>3, <1>4, <1>5, <1>6, <1>7, <1>8, <1>9 DEF Proceeds

-----------------------------------------------------------------------------
(* The steps of the receiving task.                                        *)

LEMMA ReceivedTyped ==
  ASSUME IInv, NEW e \in Pair, Receive(e)
  PROVE  /\ wire[e] # << >> /\ Head(wire[e]) \in Issued(fresh) /\ Head(wire[e]) \in Datagram
         /\ fresh' \in {fresh, fresh + 1}
         /\ wire' \in [Pair -> Seq(Datagram)]
         /\ \A f \in Pair : wire'[f] \in Seq(Issued(fresh'))
<1> DEFINE d == Head(wire[e])
           A == Answer(e, d)
<1>0. /\ TypeOK /\ IdsIssued /\ Back(e) \in Pair /\ wire[e] # << >>
      /\ fresh \in Nat
  BY BackPair DEF IInv, TypeOK, Receive
<1>1. \A f \in Pair : wire[f] \in Seq(Issued(fresh))
  BY <1>0 DEF IdsIssued
<1>2. d \in Issued(fresh)
  BY <1>0, <1>1
<1>3. d \in Datagram
  BY <1>2 DEF Issued
<1>4. Handles(e, d)
  BY DEF Receive
<1>5. fresh' \in {fresh, fresh + 1}
  BY <1>4
  DEF Handles, HandshakeLost, Respond, RequestRefused, Complete, AnswerRefused, Misread, Read,
      Unreadable
<1>6. \A f \in Pair : wire[f] \in Seq(Issued(fresh'))
  BY <1>0, <1>1, <1>5, IssuedGrows
<1>7. A \in Seq(Issued(fresh'))
  <2>1. CASE d.kind = "hs1" /\ ~ stuck[e] /\ d.to = life[e[2]]
    <3> DEFINE a == [kind |-> "hs2", key |-> [hs |-> d.hs, answer |-> fresh]]
    <3>1. Respond(e, d)
      BY <1>4, <2>1
      DEF Handles, HandshakeLost, Respond, RequestRefused, Complete, AnswerRefused, Misread, Read,
          Unreadable
    <3>2. fresh' = fresh + 1
      BY <3>1 DEF Respond
    <3>3. d.hs \in Nat /\ d.hs < fresh
      BY <1>2, <1>3, <2>1, DatagramKinds DEF Issued
    <3>4. a \in Datagram /\ Old(a.key, fresh + 1)
      BY <1>0, <3>3 DEF Datagram, Hs2, Key, Old
    <3>5. a \in Issued(fresh')
      BY <3>2, <3>4 DEF Issued
    <3>6. A = <<a>>
      BY <2>1 DEF Answer
    <3> HIDE DEF a, A
    <3> QED
      BY <3>5, <3>6, ShortSequences
  <2>2. CASE ~ (d.kind = "hs1" /\ ~ stuck[e] /\ d.to = life[e[2]])
    <3>1. A = << >>
      BY <2>2 DEF Answer
    <3> HIDE DEF A
    <3> QED
      BY <3>1, ShortSequences
  <2> QED
    BY <2>1, <2>2
<1>8. Back(e) # e => wire' = [wire EXCEPT ![e] = Tail(wire[e]), ![Back(e)] = wire[Back(e)] \o A]
  BY <1>0 DEF Receive, TypeOK
<1> HIDE DEF A
<1>9. Tail(wire[e]) \in Seq(Issued(fresh'))
  BY <1>0, <1>6
<1>10. wire[Back(e)] \o A \in Seq(Issued(fresh'))
  BY <1>0, <1>6, <1>7
<1>11. \A f \in Pair : wire'[f] \in Seq(Issued(fresh'))
  <2>1. CASE Back(e) # e
    BY <1>0, <1>6, <1>8, <1>9, <1>10, <2>1 DEF TypeOK
  <2>2. CASE Back(e) = e
    <3>1. wire'[e] = Tail(wire[e]) \o A /\ \A f \in Pair : f # e => wire'[f] = wire[f]
      BY <1>0, <2>2 DEF Receive, TypeOK, A
    <3>2. Tail(wire[e]) \o A \in Seq(Issued(fresh'))
      BY <1>7, <1>9
    <3> QED
      BY <1>6, <3>1, <3>2
  <2> QED
    BY <2>1, <2>2
<1>12. \A f \in Pair : wire'[f] \in Seq(Datagram)
  <2>1. Issued(fresh') \subseteq Datagram
    BY DEF Issued
  <2> QED
    BY <1>11, <2>1, SeqSubset
<1>13. wire' = [f \in Pair |-> wire'[f]]
  BY <1>0 DEF TypeOK, Receive
<1>14. wire' \in [Pair -> Seq(Datagram)]
  BY <1>12, <1>13
<1> QED
  BY <1>0, <1>2, <1>3, <1>5, <1>11, <1>14

\* A session is made under keys nothing was read with, and expects its first nonce.
LEMMA NewSession ==
  ASSUME IInv, NEW e \in Pair, Receive(e), NEW b \in Pair, NEW key \in Key, NEW role \in Role,
         inflight' = [inflight EXCEPT ![b] = None],
         session' = [session EXCEPT ![b] = [key |-> key, role |-> role, tx |-> 0, rx |-> 0]],
         Old(key, fresh'),
         \A i \in 1..Len(read[b]) : read[b][i].key # key,
         known' \in [Pair -> Nat \cup {None}],
         UNCHANGED <<stuck, read>>
  PROVE  IInv'
<1> DEFINE ss == [key |-> key, role |-> role, tx |-> 0, rx |-> 0]
<1>0. /\ TypeOK /\ CallsHaveWhatTheyNeed /\ IdsIssued /\ NothingReadYet /\ ReadSoFar
      /\ ReadInOrder /\ fresh \in Nat
      /\ UNCHANGED <<env, ends, pc, pubk, sealed, order, life, faults, stuck, read>>
  BY DEF IInv, Receive, TypeOK
<1>1. /\ fresh' \in {fresh, fresh + 1}
      /\ wire' \in [Pair -> Seq(Datagram)]
      /\ \A f \in Pair : wire'[f] \in Seq(Issued(fresh'))
  BY ReceivedTyped
<1>2. ss \in Session /\ ss # None /\ ss.key = key /\ ss.rx = 0
  BY NoneAssumption DEF Session
<1> HIDE DEF ss
<1>3. /\ \A f \in Pair : session'[f] = IF f = b THEN ss ELSE session[f]
      /\ \A f \in Pair : inflight'[f] = IF f = b THEN None ELSE inflight[f]
  BY <1>0 DEF TypeOK, ss
<1>4. session' \in [Pair -> Session \cup {None}] /\ inflight' \in [Pair -> Nat \cup {None}]
  <2>1. session' = [session EXCEPT ![b] = ss]
    BY DEF ss
  <2> QED
    BY <1>0, <1>2, <2>1 DEF TypeOK
<1>5. TypeOK'
  BY <1>0, <1>1, <1>4 DEF TypeOK
<1>6. CallsHaveWhatTheyNeed'
  <2>1. \A r \in Call : ends[r] \in Pair
    BY <1>0, CallsAssumption DEF TypeOK
  <2> QED
    BY <1>0, <1>2, <1>3, <2>1 DEF CallsHaveWhatTheyNeed
<1>7. IdsIssued'
  <2>1. \A f \in Pair : session[f] # None => Old(session[f].key, fresh')
    BY <1>0, <1>1, Typed, OldGrows DEF IdsIssued
  <2>2. \A f \in Pair : \A i \in 1..Len(read[f]) : Old(read[f][i].key, fresh')
    BY <1>0, <1>1, Typed, OldGrows DEF IdsIssued
  <2>3. \A f \in Pair : inflight'[f] # None => inflight'[f] < fresh'
    BY <1>0, <1>1, <1>3, Typed DEF IdsIssued
  <2>4. \A f \in Pair : session'[f] # None => Old(session'[f].key, fresh')
    BY <1>2, <1>3, <2>1
  <2> QED
    BY <1>0, <1>1, <2>2, <2>3, <2>4 DEF IdsIssued
<1>8. NothingReadYet'
  BY <1>0, <1>3 DEF NothingReadYet
<1>9. \A f, k, n : NoncesRead(f, k, n)' = NoncesRead(f, k, n)
  BY <1>0 DEF NoncesRead
<1>10. ReadInOrder'
  BY <1>0, <1>9 DEF ReadInOrder, NoncesRead
<1>11. ReadSoFar'
  <2>1. NoncesRead(b, key, Len(read[b])) = {}
    BY DEF NoncesRead
  <2>2. 0..(0 - 1) = {}
    OBVIOUS
  <2>3. \A f \in Pair : session'[f] # None =>
          NoncesRead(f, session'[f].key, Len(read[f])) = 0..(session'[f].rx - 1)
    BY <1>0, <1>2, <1>3, <2>1, <2>2, ZenonT(60) DEF ReadSoFar
  <2> QED
    BY <1>0, <2>3 DEF ReadSoFar, NoncesRead
<1> QED
  BY <1>5, <1>6, <1>7, <1>8, <1>10, <1>11 DEF IInv

\* Nothing is read, and sessions, ids and what arrived stay as they are.
LEMMA NothingTaken ==
  ASSUME IInv, NEW e \in Pair, Receive(e), NEW b \in Pair,
         inflight' \in {inflight, [inflight EXCEPT ![b] = None]},
         known' \in [Pair -> Nat \cup {None}], stuck' \in [Pair -> BOOLEAN],
         UNCHANGED <<session, fresh, read>>
  PROVE  IInv'
<1>0. /\ TypeOK /\ CallsHaveWhatTheyNeed /\ IdsIssued /\ NothingReadYet
      /\ UNCHANGED <<env, ends, pc, pubk, sealed, order, life, faults>>
  BY DEF IInv, Receive
<1>1. /\ wire' \in [Pair -> Seq(Datagram)]
      /\ \A f \in Pair : wire'[f] \in Seq(Issued(fresh'))
  BY ReceivedTyped
<1>2. \A f \in Pair : inflight'[f] # None => inflight'[f] = inflight[f]
  BY <1>0 DEF TypeOK
<1>3. TypeOK'
  BY <1>0, <1>1 DEF TypeOK
<1>4. CallsHaveWhatTheyNeed'
  BY <1>0 DEF CallsHaveWhatTheyNeed
<1>5. IdsIssued' /\ NothingReadYet'
  BY <1>0, <1>1, <1>2 DEF IdsIssued, NothingReadYet
<1>6. ReadSoFar' /\ ReadInOrder'
  BY ReadingKept
<1> QED
  BY <1>3, <1>4, <1>5, <1>6 DEF IInv

\* NoncesRead, of a sequence of ciphertexts.
NoncesOf(q, key, n) == {q[j].nonce : j \in {i \in 1..n : q[i].key = key}}

\* One more ciphertext adds its nonce to those of the key it was read under.
LEMMA OneMoreNonce ==
  ASSUME NEW r \in Seq(Cipher), NEW c \in Cipher, NEW q, q = Append(r, c)
  PROVE  /\ Len(q) = Len(r) + 1 /\ q[Len(r) + 1] = c
         /\ \A i \in 1..Len(r) : q[i] = r[i]
         /\ \A k : \A n \in 0..Len(r) : NoncesOf(q, k, n) = NoncesOf(r, k, n)
         /\ NoncesOf(q, c.key, Len(r) + 1) = NoncesOf(r, c.key, Len(r)) \cup {c.nonce}
<1>1. Len(r) \in Nat /\ Len(q) = Len(r) + 1 /\ q[Len(r) + 1] = c
  OBVIOUS
<1>2. \A i \in 1..Len(r) : q[i] = r[i]
  OBVIOUS
<1>3. ASSUME NEW k, NEW n \in 0..Len(r)
      PROVE  NoncesOf(q, k, n) = NoncesOf(r, k, n)
  <2>1. \A i \in 1..n : q[i] = r[i]
    BY <1>1, <1>2
  <2> QED
    BY <2>1 DEF NoncesOf
<1>4. NoncesOf(q, c.key, Len(r) + 1) = NoncesOf(r, c.key, Len(r)) \cup {c.nonce}
  <2> DEFINE m == Len(r) + 1
             I == 1..Len(r)
  <2>1. 1..m = I \cup {m} /\ q[m] = c /\ \A i \in I : q[i] = r[i]
    BY <1>1, <1>2
  <2>2. {q[j].nonce : j \in {i \in I \cup {m} : q[i].key = c.key}}
        = {r[j].nonce : j \in {i \in I : r[i].key = c.key}} \cup {c.nonce}
    <3> HIDE DEF m, I
    <3> QED
      BY <2>1
  <2> QED
    BY <2>1, <2>2 DEF NoncesOf
<1> QED
  BY <1>1, <1>2, <1>3, <1>4

\* The session reads the next nonce.
LEMMA ReadStep ==
  ASSUME IInv, NEW e \in Pair, Receive(e), Read(e, Head(wire[e]))
  PROVE  IInv'
<1> DEFINE d == Head(wire[e])
           b == Back(e)
<1>0. /\ TypeOK /\ CallsHaveWhatTheyNeed /\ IdsIssued /\ NothingReadYet /\ ReadSoFar
      /\ ReadInOrder /\ b \in Pair
      /\ UNCHANGED <<env, ends, pc, pubk, sealed, order, life, faults, inflight, known, stuck,
                     fresh>>
  BY BackPair DEF IInv, Receive, Read
<1>1. /\ wire' \in [Pair -> Seq(Datagram)]
      /\ \A f \in Pair : wire'[f] \in Seq(Issued(fresh'))
      /\ d \in Datagram
  BY ReceivedTyped
<1>2. d \in Cipher /\ d.key \in Key /\ d.nonce \in Nat
  <2>1. d \in Cipher
    BY <1>1, DatagramKinds DEF Read
  <2> QED
    BY <2>1 DEF Cipher
<1>3. /\ session[b] # None /\ session[b].key = d.key /\ session[b].rx = d.nonce
      /\ session' = [session EXCEPT ![b].rx = session[b].rx + 1]
      /\ read' = [read EXCEPT ![b] = Append(read[b], d)]
  BY <1>0 DEF Read, Readable, TypeOK
<1>4. session[b] \in Session /\ read[b] \in Seq(Cipher) /\ Len(read[b]) \in Nat
  BY <1>0, <1>3, Typed DEF TypeOK
<1>5. /\ session'[b] \in Session /\ session'[b] # None
      /\ session'[b].key = d.key /\ session'[b].rx = d.nonce + 1
      /\ read'[b] = Append(read[b], d)
  <2>1. /\ session'[b] = [session[b] EXCEPT !.rx = session[b].rx + 1]
        /\ read'[b] = Append(read[b], d)
    BY <1>0, <1>3 DEF TypeOK
  <2>2. ASSUME NEW ss \in Session, NEW s2, s2 = [ss EXCEPT !.rx = ss.rx + 1]
        PROVE  s2 \in Session /\ s2.key = ss.key /\ s2.rx = ss.rx + 1
    BY <2>2 DEF Session
  <2> HIDE DEF b, d
  <2> QED
    BY <1>3, <1>4, <2>1, <2>2, NoneAssumption
<1>6. \A f \in Pair : f # b => session'[f] = session[f] /\ read'[f] = read[f]
  BY <1>0, <1>3 DEF TypeOK
<1> HIDE DEF d, b
<1>7. /\ Len(read'[b]) = Len(read[b]) + 1 /\ read'[b][Len(read[b]) + 1] = d
      /\ \A i \in 1..Len(read[b]) : read'[b][i] = read[b][i]
      /\ \A k : \A n \in 0..Len(read[b]) : NoncesOf(read'[b], k, n) = NoncesOf(read[b], k, n)
      /\ NoncesOf(read'[b], d.key, Len(read[b]) + 1)
         = NoncesOf(read[b], d.key, Len(read[b])) \cup {d.nonce}
  <2>1. read[b] \in Seq(Cipher) /\ d \in Cipher /\ read'[b] = Append(read[b], d)
    BY <1>2, <1>4, <1>5
  <2> QED
    BY <2>1, OneMoreNonce, ZenonT(60)
<1>9. TypeOK'
  <2>1. session' \in [Pair -> Session \cup {None}]
    BY <1>0, <1>3, <1>5, <1>6 DEF TypeOK
  <2>2. Append(read[b], d) \in Seq(Cipher)
    BY <1>2, <1>4
  <2>3. read' \in [Pair -> Seq(Cipher)]
    BY <1>0, <1>3, <2>2 DEF TypeOK
  <2> QED
    BY <1>0, <1>1, <2>1, <2>3 DEF TypeOK
<1>10. CallsHaveWhatTheyNeed'
  <2>1. \A f \in Pair : session[f] # None => session'[f] # None
    BY <1>5, <1>6
  <2>2. \A r \in Call : ends[r] \in Pair
    BY <1>0, CallsAssumption DEF TypeOK
  <2> QED
    BY <1>0, <2>1, <2>2 DEF CallsHaveWhatTheyNeed
\* Each index of what b has read is an old one or the last.
<1>11. \A i \in 1..Len(read'[b]) : i \in 1..Len(read[b]) \/ i = Len(read[b]) + 1
  BY <1>4, <1>7
<1>12. Old(d.key, fresh)
  BY <1>0, <1>3 DEF IdsIssued
<1>13. IdsIssued'
  <2>1. \A i \in 1..Len(read'[b]) : Old(read'[b][i].key, fresh)
    BY <1>0, <1>7, <1>11, <1>12 DEF IdsIssued
  <2>2. \A f \in Pair : \A i \in 1..Len(read'[f]) : Old(read'[f][i].key, fresh)
    BY <1>0, <1>6, <2>1 DEF IdsIssued
  <2>3. \A f \in Pair : session'[f] # None => Old(session'[f].key, fresh)
    BY <1>0, <1>5, <1>6, <1>12 DEF IdsIssued
  <2>4. \A f \in Pair : inflight'[f] # None => inflight'[f] < fresh'
    BY <1>0 DEF IdsIssued
  <2> QED
    BY <1>0, <1>1, <2>2, <2>3, <2>4 DEF IdsIssued
<1>14. NothingReadYet'
  <2>1. inflight[b] # None =>
          d.key.hs # inflight[b] /\ \A i \in 1..Len(read'[b]) : read'[b][i].key.hs # inflight[b]
    BY <1>0, <1>3, <1>7, <1>11 DEF NothingReadYet
  <2>2. \A f \in Pair : inflight[f] # None =>
          /\ session'[f] # None => session'[f].key.hs # inflight[f]
          /\ \A i \in 1..Len(read'[f]) : read'[f][i].key.hs # inflight[f]
    BY <1>0, <1>5, <1>6, <2>1 DEF NothingReadYet
  <2> QED
    BY <1>0, <2>2 DEF NothingReadYet
<1>15. ReadSoFar'
  <2>1. NoncesOf(read[b], d.key, Len(read[b])) = 0..(d.nonce - 1)
    BY <1>0, <1>3 DEF ReadSoFar, NoncesRead, NoncesOf
  <2>2. 0..(d.nonce - 1) \cup {d.nonce} = 0..((d.nonce + 1) - 1)
    BY <1>2
  <2>3. NoncesOf(read'[b], session'[b].key, Len(read'[b])) = 0..(session'[b].rx - 1)
    BY <1>5, <1>7, <2>1, <2>2
  <2>4. ASSUME NEW f \in Pair, f # b, session'[f] # None
        PROVE  NoncesOf(read'[f], session'[f].key, Len(read'[f])) = 0..(session'[f].rx - 1)
    BY <1>0, <1>6, <2>4, SMTT(60) DEF ReadSoFar, NoncesRead, NoncesOf
  <2>5. \A f \in Pair : session'[f] # None =>
          NoncesOf(read'[f], session'[f].key, Len(read'[f])) = 0..(session'[f].rx - 1)
    BY <2>3, <2>4
  <2> QED
    BY <2>5 DEF ReadSoFar, NoncesRead, NoncesOf
<1>16. ReadInOrder'
  <2>1. \A f \in Pair : \A i \in 1..Len(read[f]) :
          NoncesOf(read[f], read[f][i].key, i - 1) = 0..(read[f][i].nonce - 1)
    BY <1>0 DEF ReadInOrder, NoncesRead, NoncesOf
  <2>2. ASSUME NEW i \in 1..Len(read[b])
        PROVE  NoncesOf(read'[b], read'[b][i].key, i - 1) = 0..(read'[b][i].nonce - 1)
    <3>1. i - 1 \in 0..Len(read[b]) /\ read'[b][i] = read[b][i]
      BY <1>4, <1>7
    <3> QED
      BY <1>0, <1>7, <2>1, <3>1
  <2>3. NoncesOf(read'[b], d.key, (Len(read[b]) + 1) - 1) = 0..(d.nonce - 1)
    <3>1. (Len(read[b]) + 1) - 1 = Len(read[b]) /\ Len(read[b]) \in 0..Len(read[b])
      BY <1>4
    <3>2. NoncesOf(read[b], d.key, Len(read[b])) = 0..(d.nonce - 1)
      BY <1>0, <1>3 DEF ReadSoFar, NoncesRead, NoncesOf
    <3> QED
      BY <1>7, <3>1, <3>2
  <2>4. \A i \in 1..Len(read'[b]) :
          NoncesOf(read'[b], read'[b][i].key, i - 1) = 0..(read'[b][i].nonce - 1)
    BY <1>7, <1>11, <2>2, <2>3
  <2>5. \A f \in Pair : \A i \in 1..Len(read'[f]) :
          NoncesOf(read'[f], read'[f][i].key, i - 1) = 0..(read'[f][i].nonce - 1)
    BY <1>6, <2>1, <2>4
  <2> QED
    BY <2>5 DEF ReadInOrder, NoncesRead, NoncesOf
<1> QED
  BY <1>9, <1>10, <1>13, <1>14, <1>15, <1>16 DEF IInv

LEMMA ReceiveStep ==
  ASSUME IInv, NEW e \in Pair, Receive(e)
  PROVE  IInv'
<1> DEFINE d == Head(wire[e])
           b == Back(e)
<1>0. /\ TypeOK /\ IdsIssued /\ NothingReadYet /\ b \in Pair
      /\ d \in Datagram /\ d \in Issued(fresh) /\ fresh \in Nat
  BY BackPair, ReceivedTyped DEF IInv, TypeOK
<1>1. CASE HandshakeLost(e, d) \/ Unreadable(e, d)
  <2>1. UNCHANGED <<session, inflight, known, stuck, fresh, read>>
    BY <1>1 DEF HandshakeLost, Unreadable
  <2> QED
    BY <1>0, <2>1, NothingTaken DEF TypeOK
<1>2. CASE AnswerRefused(e, d) \/ RequestRefused(e, d)
  <2>1. inflight' = [inflight EXCEPT ![b] = None] /\ UNCHANGED <<session, known, stuck, fresh, read>>
    BY <1>2 DEF AnswerRefused, RequestRefused, HandshakeTaken
  <2> QED
    BY <1>0, <2>1, NothingTaken DEF TypeOK
<1>3. CASE Misread(e, d)
  <2>1. stuck' = [stuck EXCEPT ![e] = TRUE] /\ UNCHANGED <<session, inflight, known, fresh, read>>
    BY <1>3 DEF Misread
  <2> QED
    BY <1>0, <2>1, NothingTaken DEF TypeOK
<1>4. CASE Respond(e, d)
  <2> DEFINE key == [hs |-> d.hs, answer |-> fresh]
  <2>1. /\ inflight' = [inflight EXCEPT ![b] = None]
        /\ session' = [session EXCEPT ![b] = [key |-> key, role |-> "responder", tx |-> 0, rx |-> 0]]
        /\ known' = [known EXCEPT ![b] = d.from] /\ fresh' = fresh + 1 /\ UNCHANGED <<stuck, read>>
    BY <1>4 DEF Respond, HandshakeTaken, NewResponder, Responder
  <2>2. d.hs \in Nat /\ d.hs < fresh /\ d.from \in Nat
    BY <1>0, <1>4, DatagramKinds DEF Respond, Issued
  <2>3. key \in Key /\ Old(key, fresh + 1) /\ key.answer = fresh
    BY <1>0, <2>2 DEF Key, Old
  <2> HIDE DEF key
  <2>4. \A i \in 1..Len(read[b]) : read[b][i].key # key
    BY <1>0, <2>3, Typed DEF IdsIssued, Old
  <2>5. known' \in [Pair -> Nat \cup {None}] /\ "responder" \in Role /\ Old(key, fresh')
    BY <1>0, <2>1, <2>2, <2>3 DEF TypeOK, Role
  <2> QED
    BY <1>0, <2>1, <2>3, <2>4, <2>5, NewSession
<1>5. CASE Complete(e, d)
  <2>1. /\ inflight' = [inflight EXCEPT ![b] = None]
        /\ session' = [session EXCEPT ![b] = [key |-> d.key, role |-> "initiator", tx |-> 0, rx |-> 0]]
        /\ UNCHANGED <<known, stuck, fresh, read>>
        /\ inflight[b] = d.key.hs
    BY <1>5 DEF Complete, HandshakeTaken
  <2>2. d.key \in Key /\ Old(d.key, fresh)
    BY <1>0, <1>5, DatagramKinds DEF Complete, Issued
  <2>3. inflight[b] # None
    BY <2>1, <2>2, NoneAssumption DEF Key
  <2>4. \A i \in 1..Len(read[b]) : read[b][i].key # d.key
    BY <1>0, <2>1, <2>3 DEF NothingReadYet
  <2>5. known' \in [Pair -> Nat \cup {None}] /\ "initiator" \in Role /\ Old(d.key, fresh')
    BY <1>0, <2>1, <2>2 DEF TypeOK, Role
  <2> QED
    BY <1>0, <2>1, <2>2, <2>4, <2>5, NewSession
<1>6. CASE Read(e, d)
  BY <1>6, ReadStep
<1>7. Handles(e, d)
  BY DEF Receive
<1> QED
  BY <1>1, <1>2, <1>3, <1>4, <1>5, <1>6, <1>7 DEF Handles

-----------------------------------------------------------------------------
(* The network's misbehaviour: it only moves datagrams.                    *)

LEMMA FaultStep ==
  ASSUME IInv, NEW e \in Pair, Fault(e)
  PROVE  IInv'
<1>0. /\ TypeOK /\ CallsHaveWhatTheyNeed /\ IdsIssued /\ NothingReadYet
      /\ UNCHANGED <<env, ends, pc, pubk, sealed, session, inflight, known, stuck, fresh, read,
                     order, life>>
  BY DEF IInv, Fault
<1>1. \A f \in Pair : f # e => wire'[f] = wire[f]
  BY <1>0 DEF Fault, TypeOK
<1>2. \A S : wire[e] \in Seq(S) => wire'[e] \in Seq(S)
  <2> SUFFICES ASSUME NEW S, wire[e] \in Seq(S) PROVE wire'[e] \in Seq(S)
    OBVIOUS
  <2> DEFINE w == wire[e]
  <2>1. PICK i \in 1..Len(w) : \/ wire'[e] = RemoveAt(w, i)
                               \/ wire'[e] = Append(w, w[i])
                               \/ wire'[e] = Append(RemoveAt(w, i), w[i])
    BY <1>0 DEF Fault, TypeOK
  <2>2. w \in Seq(S)
    OBVIOUS
  <2> HIDE DEF w
  <2>3. w[i] \in S /\ RemoveAt(w, i) \in Seq(S)
    BY <2>2, RemoveAtType
  <2>4. ASSUME NEW r \in Seq(S), NEW x \in S PROVE Append(r, x) \in Seq(S)
    OBVIOUS
  <2>5. Append(w, w[i]) \in Seq(S) /\ Append(RemoveAt(w, i), w[i]) \in Seq(S)
    BY <2>2, <2>3, <2>4
  <2> QED
    BY <2>1, <2>3, <2>5
<1>3. wire' = [f \in Pair |-> wire'[f]]
  BY <1>0 DEF Fault, TypeOK
<1>4. wire' \in [Pair -> Seq(Datagram)]
  BY <1>0, <1>1, <1>2, <1>3 DEF TypeOK
<1>5. \A f \in Pair : wire'[f] \in Seq(Issued(fresh))
  BY <1>0, <1>1, <1>2 DEF IdsIssued
<1>6. faults' \in 0..env.faults
  BY <1>0, EnvAssumption DEF Fault, TypeOK, Surroundings
<1>7. TypeOK'
  BY <1>0, <1>4, <1>6 DEF TypeOK
<1>8. CallsHaveWhatTheyNeed'
  BY <1>0 DEF CallsHaveWhatTheyNeed
<1>9. IdsIssued' /\ NothingReadYet'
  BY <1>0, <1>5 DEF IdsIssued, NothingReadYet
<1>10. ReadSoFar' /\ ReadInOrder'
  BY <1>0, ReadingKept
<1> QED
  BY <1>7, <1>8, <1>9, <1>10 DEF IInv

-----------------------------------------------------------------------------
(* The end of a process: what is left is what was there before.            *)

LEMMA RestartStep ==
  ASSUME IInv, NEW n \in Node, Restart(n)
  PROVE  IInv'
<1>0. /\ TypeOK /\ CallsHaveWhatTheyNeed /\ IdsIssued /\ NothingReadYet /\ ReadSoFar
      /\ ReadInOrder /\ UNCHANGED <<env, ends, fresh, read, order, faults>>
  BY DEF IInv, Restart
<1>1. /\ life' = [life EXCEPT ![n] = life[n] + 1]
      /\ session' = [e \in Pair |-> IF e[1] = n THEN None ELSE session[e]]
      /\ inflight' = [e \in Pair |-> IF e[1] = n THEN None ELSE inflight[e]]
      /\ known' = [e \in Pair |-> IF e[1] = n THEN None ELSE known[e]]
      /\ stuck' = [e \in Pair |-> stuck[e] /\ e[2] # n]
      /\ pc' = [s \in Call |-> IF ends[s][1] = n /\ ~ Idle(s) THEN "failed" ELSE pc[s]]
      /\ pubk' = [s \in Call |-> IF ends[s][1] = n THEN None ELSE pubk[s]]
      /\ sealed' = [s \in Call |-> IF ends[s][1] = n THEN None ELSE sealed[s]]
  BY <1>0 DEF Restart, TypeOK
<1>2. PICK f \in Pair : \E k \in 0..Len(wire[f]) : wire' =
        [e \in Pair |-> IF e[2] = n THEN SubSeq(wire[e], k + 1, Len(wire[e])) ELSE wire[e]]
  BY DEF Restart
<1>3. PICK k \in 0..Len(wire[f]) : wire' =
        [e \in Pair |-> IF e[2] = n THEN SubSeq(wire[e], k + 1, Len(wire[e])) ELSE wire[e]]
  BY <1>2
<1>4. ASSUME NEW S, NEW e \in Pair, wire[e] \in Seq(S)
      PROVE  wire'[e] \in Seq(S)
  <2>1. SubSeq(wire[e], k + 1, Len(wire[e])) \in Seq(S)
    BY <1>3, <1>4
  <2> QED
    BY <1>3, <1>4, <2>1
<1>5. TypeOK'
  <2>1. wire' \in [Pair -> Seq(Datagram)]
    <3>1. \A e \in Pair : wire'[e] \in Seq(Datagram)
      BY <1>0, <1>4 DEF TypeOK
    <3> QED
      BY <1>3, <3>1
  <2>2. life' \in [Node -> Nat]
    BY <1>0, <1>1 DEF TypeOK
  <2>3. /\ session' \in [Pair -> Session \cup {None}] /\ inflight' \in [Pair -> Nat \cup {None}]
        /\ known' \in [Pair -> Nat \cup {None}]
    BY <1>0, <1>1 DEF TypeOK
  <2>4. /\ pubk' \in [Call -> Nat \cup {None}] /\ sealed' \in [Call -> Cipher \cup {None}]
        /\ pc' \in [Call -> {"idle", "connecting", "waiting", "expired", "ready", "sealed",
                             "sent", "failed"}]
    BY <1>0, <1>1 DEF TypeOK
  <2>5. stuck' \in [Pair -> BOOLEAN]
    BY <1>0, <1>1 DEF TypeOK
  <2> QED
    BY <1>0, <2>1, <2>2, <2>3, <2>4, <2>5 DEF TypeOK
<1>6. CallsHaveWhatTheyNeed'
  <2>1. ASSUME NEW s \in Call, pc'[s] \in {"ready", "sealed", "connecting"}
        PROVE  /\ pc'[s] = pc[s] /\ sealed'[s] = sealed[s] /\ pubk'[s] = pubk[s]
               /\ session'[ends[s]] = session[ends[s]]
    <3>1. pc'[s] = pc[s] /\ ends[s][1] # n
      BY <1>1, <2>1 DEF Idle, Returned
    <3>2. ends[s] \in Pair
      BY <1>0, CallsAssumption DEF TypeOK
    <3> QED
      BY <1>1, <3>1, <3>2
  <2> QED
    BY <1>0, <2>1 DEF CallsHaveWhatTheyNeed
<1>7. \A e \in Pair : /\ session'[e] # None => session'[e] = session[e]
                      /\ inflight'[e] # None => inflight'[e] = inflight[e]
  BY <1>1
<1>8. \A e \in Pair : wire'[e] \in Seq(Issued(fresh))
  BY <1>0, <1>4 DEF IdsIssued
<1>9. IdsIssued' /\ NothingReadYet'
  BY <1>0, <1>7, <1>8 DEF IdsIssued, NothingReadYet
<1>10. \A e, c, m : NoncesRead(e, c, m)' = NoncesRead(e, c, m)
  BY <1>0 DEF NoncesRead
<1>11. ReadSoFar' /\ ReadInOrder'
  BY <1>0, <1>7, <1>10 DEF ReadSoFar, ReadInOrder, NoncesRead
<1> QED
  BY <1>5, <1>6, <1>9, <1>11 DEF IInv

-----------------------------------------------------------------------------
(* A socket that refuses a datagram: one call fails.                       *)

LEMMA SocketFailsStep ==
  ASSUME IInv, NEW s \in Call, SocketFails(s)
  PROVE  IInv'
<1>0. /\ TypeOK /\ CallsHaveWhatTheyNeed /\ IdsIssued /\ NothingReadYet
      /\ UNCHANGED <<env, ends, session, inflight, known, stuck, wire, fresh, read, order, life>>
      /\ pc' = [pc EXCEPT ![s] = "failed"]
      /\ pubk' = [pubk EXCEPT ![s] = None] /\ sealed' = [sealed EXCEPT ![s] = None]
  BY DEF IInv, SocketFails
<1>1. faults' \in 0..env.faults
  BY <1>0, EnvAssumption DEF SocketFails, TypeOK, Surroundings
<1>2. TypeOK'
  BY <1>0, <1>1 DEF TypeOK
<1>3. CallsHaveWhatTheyNeed'
  BY <1>0 DEF TypeOK, CallsHaveWhatTheyNeed
<1>4. IdsIssued' /\ NothingReadYet'
  BY <1>0 DEF IdsIssued, NothingReadYet
<1>5. ReadSoFar' /\ ReadInOrder'
  BY <1>0, ReadingKept
<1> QED
  BY <1>2, <1>3, <1>4, <1>5 DEF IInv

-----------------------------------------------------------------------------
(* The theorems.                                                           *)

LEMMA Invariance == Spec => []IInv
<1>1. ASSUME IInv, [Next]_vars PROVE IInv'
  <2>1. ASSUME NEW s \in Call, Start(s) \/ Proceeds(s) PROVE IInv'
    BY <1>1, <2>1, CallStep
  <2>2. ASSUME NEW e \in Pair, Receive(e) PROVE IInv'
    BY <1>1, <2>2, ReceiveStep
  <2>3. ASSUME NEW e \in Pair, Fault(e) PROVE IInv'
    BY <1>1, <2>3, FaultStep
  <2>6. ASSUME NEW n \in Node, Restart(n) PROVE IInv'
    BY <1>1, <2>6, RestartStep
  <2>7. ASSUME NEW s \in Call, SocketFails(s) PROVE IInv'
    BY <1>1, <2>7, SocketFailsStep
  <2>4. CASE UNCHANGED vars
    BY <1>1, <2>4
    DEF vars, IInv, TypeOK, CallsHaveWhatTheyNeed, IdsIssued, NothingReadYet, ReadSoFar,
        ReadInOrder, NoncesRead
  <2>5. Finished => UNCHANGED vars
    BY DEF Finished
  <2> QED
    BY <1>1, <2>1, <2>2, <2>3, <2>4, <2>5, <2>6, <2>7 DEF Next
<1> QED
  BY InitIInv, <1>1, PTL DEF Spec

\* Sessions, handshakes, calls and datagrams are what link.rs makes them in every
\* reachable state: a call encrypts only under a session there is.
THEOREM TypeCorrect == Spec => []TypeOK
<1>1. IInv => TypeOK
  BY DEF IInv
<1> QED
  BY <1>1, Invariance, PTL

\* A node reads every session in order, without a gap and nothing twice (link.rs:100),
\* with any nodes and calls, whatever UDP loses, repeats or holds back and however
\* often nodes are restarted.
THEOREM SessionsReadInOrder == Spec => []ReadInOrder
<1>1. IInv => ReadInOrder
  BY DEF IInv
<1> QED
  BY <1>1, Invariance, PTL
=============================================================================
