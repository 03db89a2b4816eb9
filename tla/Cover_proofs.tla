----------------------------- MODULE Cover_proofs -----------------------------
(***************************************************************************)
(* Proofs about the cover traffic, for any nodes, calls, tables, circuits  *)
(* and faults of the network: the loop uses the link as a caller may, so   *)
(* all that is proved of the link holds under cover traffic; and what it   *)
(* counts as PADDING was sent, once, to a node out of the table.           *)
(***************************************************************************)
EXTENDS Cover, LinkService_proofs

-----------------------------------------------------------------------------
(* The loop calls the link.                                                *)

\* Every step of the loop, and of the application, is a step of the link or none of its own.
LEMMA StepsOfLink == ASSUME [CoverNext]_allVars PROVE [Next]_vars
<1>1. ASSUME NEW n \in Covering, RunLoop(n) PROVE [Next]_vars
  <2>1. ASSUME Pad(n) \/ Drop(n) PROVE \E s \in Call : Start(s)
    BY <2>1 DEF Pad, Drop
  <2>2. ASSUME PadReturned(n) \/ NoCircuit(n) \/ Pick(n) \/ DropFails(n) \/ DropReturned(n)
        PROVE  UNCHANGED vars
    BY <2>2 DEF PadReturned, NoCircuit, Pick, DropFails, DropReturned
  <2> QED
    BY <1>1, <2>1, <2>2 DEF RunLoop, Next
<1>2. ASSUME NEW n \in Covering, Application(n) PROVE UNCHANGED vars
  BY <1>2 DEF Application
<1>3. LinkStep => Next
  BY DEF LinkStep, Next
<1> QED
  BY <1>1, <1>2, <1>3 DEF CoverNext, allVars

\* The cover traffic of a node (cover.rs:32, :50) drives the link only as a caller of
\* send_cell may: each behaviour of the two together is one of the link.
THEOREM CoverUsesLink == CoverSpec => Spec
<1>1. CoverInit => Init
  BY DEF CoverInit
<1> QED
  BY <1>1, StepsOfLink, PTL DEF CoverSpec, Spec

\* Under cover traffic as well, sessions are read in order, no nonce is used twice, and
\* the link neither repeats nor reorders cells (plan:22), with any tables and circuits.
THEOREM LinkKeptUnderCover ==
  CoverSpec => [](TypeOK /\ ReadInOrder /\ NoncePerCiphertext) /\ Channel!Spec
BY CoverUsesLink, TypeCorrect, SessionsReadInOrder, NoncesNotReused, LinkIsChannel, PTL

-----------------------------------------------------------------------------
(* What the loop counts.                                                   *)

\* The cells that the loop counts as PADDING (cover.rs:33) were all sent, by this node to
\* nodes of its table.
PaddingSent ==
  \A n \in Covering : \A s \in padding[n] :
    pc[s] = "sent" /\ ends[s][1] = n /\ ends[s][2] \in RoutePeers(n)

\* A cell under way is of the node whose loop waits for it, and not counted yet.
CellUnderWay ==
  \A n \in Covering : loop[n] = "padding" =>
    /\ sending[n] \in Call
    /\ ends[sending[n]][1] = n /\ ends[sending[n]][2] \in RoutePeers(n)
    /\ pc[sending[n]] # "idle"
    /\ \A m \in Covering : sending[n] \notin padding[m]

CoverTypeOK ==
  /\ loop \in [Covering -> {"asleep", "padding", "checking", "picked", "dropping"}]
  /\ sending \in [Covering -> Call \cup {None}]
  /\ origin \in [Covering -> Node \cup {None}]
  /\ usable \in [Covering -> BOOLEAN]
  /\ padding \in [Covering -> SUBSET Call]
  /\ drops \in [Covering -> Nat]

LInv == CoverTypeOK /\ PaddingSent /\ CellUnderWay

\* No step but the end of a process makes a call that was sent anything else, and none
\* makes a call anew; there is no such end here.
LEMMA SentStays ==
  ASSUME TypeOK, [CoverNext]_allVars
  PROVE  /\ ends' = ends
         /\ \A s \in Call : /\ pc[s] = "sent" => pc'[s] = "sent"
                            /\ pc[s] # "idle" => pc'[s] # "idle"
<1>1. ASSUME NEW s \in Call, Start(s) \/ Proceeds(s) \/ SocketFails(s)
      PROVE  /\ ends' = ends /\ pc[s] # "sent"
             /\ \E step \in {"connecting", "waiting", "expired", "ready", "sealed", "sent", "failed"} :
                  pc' = [pc EXCEPT ![s] = step]
  BY <1>1 DEF Start, Proceeds, Initiate, Connected, Deadline, GiveUp, Encrypt, Transmit,
              SocketFails
<1>2. ASSUME NEW s \in Call, Start(s) \/ Proceeds(s) \/ SocketFails(s)
      PROVE  /\ ends' = ends
             /\ \A r \in Call : /\ pc[r] = "sent" => pc'[r] = "sent"
                                /\ pc[r] # "idle" => pc'[r] # "idle"
  BY <1>1, <1>2 DEF TypeOK
<1>3. ASSUME NEW e \in Pair, Receive(e) \/ Fault(e) PROVE UNCHANGED <<ends, pc>>
  BY <1>3 DEF Receive, Fault
<1>4. ASSUME NEW n \in Covering, RunLoop(n) \/ Application(n)
      PROVE  UNCHANGED <<ends, pc>> \/ \E s \in Call : Start(s)
  BY <1>4 DEF RunLoop, Pad, PadReturned, NoCircuit, Pick, Drop, DropFails, DropReturned,
              Application, vars
<1> QED
  BY <1>2, <1>3, <1>4 DEF CoverNext, LinkStep, allVars, vars

\* Where nothing is counted and no PADDING begins, what was counted stays sent.
LEMMA NothingCounted ==
  ASSUME TypeOK, LInv, [CoverNext]_allVars, UNCHANGED padding,
         \A n \in Covering : loop'[n] = "padding" =>
           loop[n] = "padding" /\ sending'[n] = sending[n]
  PROVE  PaddingSent' /\ CellUnderWay'
<1>0. /\ ends' = ends
      /\ \A s \in Call : /\ pc[s] = "sent" => pc'[s] = "sent"
                         /\ pc[s] # "idle" => pc'[s] # "idle"
  BY SentStays
<1>1. PaddingSent'
  BY <1>0 DEF LInv, PaddingSent, RoutePeers, CoverTypeOK
<1>2. CellUnderWay'
  BY <1>0 DEF LInv, CellUnderWay, RoutePeers
<1> QED
  BY <1>1, <1>2

LEMMA PadCounts ==
  ASSUME TypeOK, LInv, NEW n \in Covering, Pad(n), [CoverNext]_allVars
  PROVE  PaddingSent' /\ CellUnderWay'
<1>0. /\ ends' = ends
      /\ \A r \in Call : /\ pc[r] = "sent" => pc'[r] = "sent"
                         /\ pc[r] # "idle" => pc'[r] # "idle"
  BY SentStays
<1>1. PICK s \in Call, p \in RoutePeers(n) : ends[s] = <<n, p>> /\ Start(s)
                                         /\ sending' = [sending EXCEPT ![n] = s]
  BY DEF Pad
<1>2. /\ padding' = padding /\ ends' = ends /\ pc[s] = "idle" /\ pc'[s] # "idle"
      /\ loop' = [loop EXCEPT ![n] = "padding"] /\ loop[n] = "asleep"
  BY <1>1 DEF Pad, Goes, Start, TypeOK
<1>3. PaddingSent'
  BY <1>0, <1>2 DEF LInv, PaddingSent, RoutePeers, CoverTypeOK
<1>4. \A m \in Covering : s \notin padding[m]
  BY <1>2 DEF LInv, PaddingSent
<1>5. ASSUME NEW m \in Covering, loop'[m] = "padding" PROVE
        /\ sending'[m] \in Call
        /\ ends[sending'[m]][1] = m /\ ends[sending'[m]][2] \in RoutePeers(m)
        /\ pc'[sending'[m]] # "idle"
        /\ \A k \in Covering : sending'[m] \notin padding[k]
  <2>1. CASE m = n
    BY <1>1, <1>2, <1>4, <2>1 DEF LInv, CoverTypeOK
  <2>2. CASE m # n
    <3>1. loop[m] = "padding" /\ sending'[m] = sending[m]
      BY <1>1, <1>2, <1>5, <2>2 DEF LInv, CoverTypeOK
    <3> QED
      BY <1>0, <3>1 DEF LInv, CellUnderWay
  <2> QED
    BY <2>1, <2>2
<1> QED
  BY <1>2, <1>3, <1>5 DEF CellUnderWay, RoutePeers

\* The cell that is counted was sent, and is of this node alone.
LEMMA PadReturnedCounts ==
  ASSUME TypeOK, LInv, NEW n \in Covering, PadReturned(n)
  PROVE  PaddingSent' /\ CellUnderWay'
<1> DEFINE s == sending[n]
<1>1. /\ UNCHANGED <<ends, pc>> /\ sending' = [sending EXCEPT ![n] = None]
      /\ loop[n] = "padding" /\ loop' = [loop EXCEPT ![n] = "checking"]
      /\ padding' = [padding EXCEPT ![n] =
                       IF pc[s] = "sent" THEN padding[n] \cup {s} ELSE padding[n]]
  BY DEF PadReturned, Goes, vars
<1>2. /\ s \in Call /\ ends[s][1] = n /\ ends[s][2] \in RoutePeers(n)
  BY <1>1 DEF LInv, CellUnderWay
<1> HIDE DEF s
<1>3. \A m \in Covering : /\ m # n => padding'[m] = padding[m]
                          /\ \/ padding'[m] = padding[m]
                             \/ padding'[m] = padding[m] \cup {s} /\ pc[s] = "sent" /\ m = n
  BY <1>1 DEF LInv, CoverTypeOK
<1>4. PaddingSent'
  BY <1>1, <1>2, <1>3 DEF LInv, PaddingSent, RoutePeers
<1>5. ASSUME NEW m \in Covering, loop'[m] = "padding"
      PROVE  /\ m # n /\ loop[m] = "padding" /\ sending'[m] = sending[m]
             /\ ends[sending[m]][1] = m
  BY <1>1, <1>5 DEF LInv, CoverTypeOK, CellUnderWay
<1>6. CellUnderWay'
  <2> SUFFICES ASSUME NEW m \in Covering, loop'[m] = "padding"
               PROVE  /\ sending[m] \in Call
                      /\ ends[sending[m]][1] = m /\ ends[sending[m]][2] \in RoutePeers(m)
                      /\ pc[sending[m]] # "idle"
                      /\ \A k \in Covering : sending[m] \notin padding'[k]
    BY <1>1, <1>5 DEF CellUnderWay, RoutePeers
  <2>1. sending[m] # s
    BY <1>2, <1>5
  <2> QED
    BY <1>3, <1>5, <2>1 DEF LInv, CellUnderWay
<1> QED
  BY <1>4, <1>6

LEMMA LoopTyped ==
  ASSUME LInv, [CoverNext]_allVars
  PROVE  CoverTypeOK'
<1>1. ASSUME NEW n \in Covering, RunLoop(n) PROVE CoverTypeOK'
  <2>1. CASE Pad(n)
    BY <2>1 DEF Pad, Goes, LInv, CoverTypeOK
  <2>2. CASE PadReturned(n)
    <3>1. Returned(sending[n]) /\ loop[n] = "padding"
      BY <2>2 DEF PadReturned, Goes
    <3>2. sending[n] \in Call
      BY <3>1 DEF LInv, CellUnderWay
    <3> QED
      BY <2>2, <3>2 DEF PadReturned, Goes, LInv, CoverTypeOK
  <2>3. CASE NoCircuit(n) \/ Pick(n)
    BY <2>3 DEF NoCircuit, Pick, Goes, LInv, CoverTypeOK
  <2>4. CASE Drop(n)
    BY <2>4 DEF Drop, Goes, LInv, CoverTypeOK
  <2>5. CASE DropFails(n) \/ DropReturned(n)
    BY <2>5 DEF DropFails, DropReturned, Goes, LInv, CoverTypeOK
  <2> QED
    BY <1>1, <2>1, <2>2, <2>3, <2>4, <2>5 DEF RunLoop
<1>2. ASSUME NEW n \in Covering, Application(n) PROVE CoverTypeOK'
  BY <1>2 DEF Application, LInv, CoverTypeOK
<1>3. LinkStep \/ UNCHANGED allVars => UNCHANGED coverVars
  BY DEF LinkStep, allVars
<1> QED
  BY <1>1, <1>2, <1>3 DEF CoverNext, coverVars, LInv, CoverTypeOK

LEMMA CountingInvariance == CoverSpec => []LInv
<1>1. CoverInit => LInv
  BY DEF CoverInit, LInv, CoverTypeOK, PaddingSent, CellUnderWay
<1>2. ASSUME TypeOK, LInv, [CoverNext]_allVars PROVE LInv'
  <2>1. ASSUME NEW n \in Covering, Pad(n) \/ PadReturned(n) PROVE PaddingSent' /\ CellUnderWay'
    BY <1>2, <2>1, PadCounts, PadReturnedCounts
  <2>2. ASSUME NEW n \in Covering,
               NoCircuit(n) \/ Pick(n) \/ Drop(n) \/ DropFails(n) \/ DropReturned(n)
        PROVE  PaddingSent' /\ CellUnderWay'
    <3>1. /\ UNCHANGED padding
          /\ \E to \in {"asleep", "picked", "dropping"} : Goes(n, loop[n], to)
          /\ \A m \in Covering \ {n} : sending'[m] = sending[m]
      BY <1>2, <2>2 DEF NoCircuit, Pick, Drop, DropFails, DropReturned, Goes, LInv, CoverTypeOK
    <3>2. \A m \in Covering : loop'[m] = "padding" =>
            loop[m] = "padding" /\ sending'[m] = sending[m]
      BY <1>2, <3>1 DEF Goes, LInv, CoverTypeOK
    <3> QED
      BY <1>2, <3>1, <3>2, NothingCounted
  <2>3. ASSUME \/ \E n \in Covering : Application(n)
               \/ LinkStep
               \/ UNCHANGED allVars
        PROVE  PaddingSent' /\ CellUnderWay'
    <3>1. UNCHANGED <<loop, sending, padding>>
      BY <2>3 DEF Application, LinkStep, coverVars, allVars
    <3> QED
      BY <1>2, <3>1, NothingCounted
  <2> QED
    BY <1>2, <2>1, <2>2, <2>3, LoopTyped DEF CoverNext, RunLoop, LInv
<1> QED
  BY <1>1, <1>2, CoverUsesLink, TypeCorrect, PTL DEF CoverSpec

\* The loop counts as PADDING no cell that it did not send, each once, and sends it to
\* nodes of its table only (cover.rs:33), with any tables, circuits and faults of UDP.
THEOREM PaddingsCounted == CoverSpec => [](PaddingSent /\ CellUnderWay)
<1>1. LInv => PaddingSent /\ CellUnderWay
  BY DEF LInv
<1> QED
  BY <1>1, CountingInvariance, PTL
=============================================================================
