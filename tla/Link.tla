--------------------------------- MODULE Link ---------------------------------
(***************************************************************************)
(* The Noise-IK link of nbf-net (link.rs): a node that has no session with *)
(* an address starts a handshake before it sends, the other end answers it *)
(* at once; both then encrypt each cell under the session's next nonce and *)
(* decrypt under the nonce they expect. Nothing ends a session but the end *)
(* of the process, and a process that starts again draws new keys          *)
(* (NodeIdentity::random): an incarnation of a node IS its static key.     *)
(*                                                                         *)
(* A node IS its address. What the snow library computes is abstracted to  *)
(* keys that match when both ends come from one handshake, and to nonces:  *)
(* a transport reads only the next nonce, and a failed read leaves it be.  *)
(***************************************************************************)
EXTENDS Integers, Sequences, SequencesExt

CONSTANTS
  Node,
  Call,        \* the calls of send_cell, one cell each
  Calls,       \* the sender and the receiver such a call may have
  Env,         \* the surroundings a behaviour may have
  None         \* no session, no handshake, no datagram

Pair == Node \X Node

\* Whether a call starts only once the others have returned, the 2 s deadline outlasts
\* every datagram in flight, a ciphertext may start with the byte 0x7F, and a caller may
\* hold a key that is out of date or no key; and bounds: how often the network loses,
\* repeats or delays a datagram or the socket refuses one, and the restarts of a node.
Surroundings ==
  [serial : BOOLEAN, patient : BOOLEAN, masks : BOOLEAN, stale : BOOLEAN,
   faults : Nat, restarts : Nat]

ASSUME CallsAssumption == Calls \subseteq Pair
ASSUME EnvAssumption == Env \subseteq Surroundings

Back(e) == <<e[2], e[1]>>

\* A session's keys: the initiator's handshake and the responder's answer to it.
Key == [hs : Nat, answer : Nat]
Role == {"initiator", "responder"}
Session == [key : Key, role : Role, tx : Nat, rx : Nat]

\* A first message holds the sender's key and is sealed for the receiver's.
Hs1 == [kind : {"hs1"}, hs : Nat, from : Nat, to : Nat]
Hs2 == [kind : {"hs2"}, key : Key]
Cipher == [kind : {"cell"}, key : Key, role : Role, nonce : Nat, cell : Call, mask : BOOLEAN]
Datagram == Hs1 \cup Hs2 \cup Cipher

ASSUME NoneAssumption == None \notin Session \cup Nat \cup Datagram

VARIABLES
  env,       \* the surroundings, for the whole behaviour
  ends,      \* who each call sends from and to
  pc,        \* where each call stands
  pubk,      \* the peer's key it has read
  sealed,    \* the datagram it has encrypted, before the socket has it
  session,   \* sessions of a node (first) with an address (second)
  inflight,  \* hs_inflight: the handshake a node has started with an address
  known,     \* peer_statics: the incarnation of the second node whose key the first has
  stuck,     \* hs_buf: a ciphertext waits among the handshake fragments
  wire,      \* datagrams under way from the first node to the second
  fresh,     \* the next fresh handshake or answer
  read,      \* history: the ciphertexts each node decrypted from each address
  order,     \* history: the calls in the order in which their cells were encrypted
  life,      \* the incarnation of each node
  faults     \* how often the network or a socket misbehaved

vars == <<env, ends, pc, pubk, sealed, session, inflight, known, stuck, wire, fresh, read,
          order, life, faults>>

TypeOK ==
  /\ env \in Env
  /\ ends \in [Call -> Calls]
  /\ pc \in [Call -> {"idle", "connecting", "waiting", "expired", "ready", "sealed",
                      "sent", "failed"}]
  /\ pubk \in [Call -> Nat \cup {None}]
  /\ sealed \in [Call -> Cipher \cup {None}]
  /\ session \in [Pair -> Session \cup {None}]
  /\ inflight \in [Pair -> Nat \cup {None}]
  /\ known \in [Pair -> Nat \cup {None}]
  /\ stuck \in [Pair -> BOOLEAN]
  /\ wire \in [Pair -> Seq(Datagram)]
  /\ fresh \in Nat
  /\ read \in [Pair -> Seq(Cipher)]
  /\ order \in Seq(Call)
  /\ life \in [Node -> Nat]
  /\ faults \in 0..env.faults

Init ==
  /\ env \in Env
  /\ ends \in [Call -> Calls]
  /\ pc = [s \in Call |-> "idle"]
  /\ pubk = [s \in Call |-> None]
  /\ sealed = [s \in Call |-> None]
  /\ session = [e \in Pair |-> None]
  /\ inflight = [e \in Pair |-> None]
  /\ known = [e \in Pair |-> None]
  /\ stuck = [e \in Pair |-> FALSE]
  /\ wire = [e \in Pair |-> << >>]
  /\ fresh = 0
  /\ read = [e \in Pair |-> << >>]
  /\ order = << >>
  /\ life = [n \in Node |-> 1]
  /\ faults = 0

-----------------------------------------------------------------------------
(* send_cell.                                                              *)

Returned(s) == pc[s] \in {"sent", "failed"}
Idle(s) == pc[s] = "idle" \/ Returned(s)
MayStart == env.serial => \A s \in Call : Idle(s)

\* The keys of node n that a caller may have: that of the descriptor it holds, or the
\* zero key, incarnation 0, for a next hop that it could not look up.
KeysOf(n) == IF env.stale THEN 0..life[n] ELSE {life[n]}

\* A caller may set the peer's key first (ensure_peer_link), over any other. Is there a
\* session, or else a key?
Start(s) ==
  LET e == ends[s] IN
  /\ pc[s] = "idle"
  /\ MayStart
  /\ \E k \in {known[e]} \cup KeysOf(e[2]) :
       /\ known' = [known EXCEPT ![e] = k]
       /\ \/ /\ session[e] # None
             /\ pc' = [pc EXCEPT ![s] = "ready"]
             /\ UNCHANGED pubk
          \/ /\ session[e] = None /\ k # None
             /\ pc' = [pc EXCEPT ![s] = "connecting"]
             /\ pubk' = [pubk EXCEPT ![s] = k]
          \/ /\ session[e] = None /\ k = None
             /\ pc' = [pc EXCEPT ![s] = "failed"]
             /\ UNCHANGED pubk
  /\ UNCHANGED <<env, ends, sealed, session, inflight, stuck, wire, fresh, read, order, life,
                 faults>>

\* Under the lock of hs_inflight: a handshake is started unless one is under way.
Initiate(s) ==
  LET e == ends[s] IN
  /\ pc[s] = "connecting"
  /\ pc' = [pc EXCEPT ![s] = "waiting"]
  /\ pubk' = [pubk EXCEPT ![s] = None]
  /\ IF inflight[e] = None
       THEN /\ inflight' = [inflight EXCEPT ![e] = fresh]
            /\ wire' = [wire EXCEPT ![e] = Append(@,
                 [kind |-> "hs1", hs |-> fresh, from |-> life[e[1]], to |-> pubk[s]])]
            /\ fresh' = fresh + 1
       ELSE UNCHANGED <<inflight, wire, fresh>>
  /\ UNCHANGED <<env, ends, sealed, session, known, stuck, read, order, life, faults>>

Connected(s) ==
  /\ pc[s] = "waiting"
  /\ session[ends[s]] # None
  /\ pc' = [pc EXCEPT ![s] = "ready"]
  /\ UNCHANGED <<env, ends, pubk, sealed, session, inflight, known, stuck, wire, fresh, read,
                 order, life, faults>>

\* Mutant: the session awaited without a deadline.
NoDeadline(s) == FALSE /\ pc[s] = "waiting" /\ UNCHANGED vars

\* Polled past the deadline without a session.
Deadline(s) ==
  /\ pc[s] = "waiting"
  /\ session[ends[s]] = None
  /\ env.patient => \A e \in Pair : wire[e] = << >>
  /\ pc' = [pc EXCEPT ![s] = "expired"]
  /\ UNCHANGED <<env, ends, pubk, sealed, session, inflight, known, stuck, wire, fresh, read,
                 order, life, faults>>

\* The handshake is given up, also for the calls that have joined it since.
GiveUp(s) ==
  /\ pc[s] = "expired"
  /\ pc' = [pc EXCEPT ![s] = "failed"]
  /\ inflight' = [inflight EXCEPT ![ends[s]] = None]
  /\ UNCHANGED <<env, ends, pubk, sealed, session, known, stuck, wire, fresh, read, order, life,
                 faults>>

NonceKept(e) == session' = [session EXCEPT ![e].tx = session[e].tx]  \* mutant
NonceDown(e) == session' = [session EXCEPT ![e].tx = session[e].tx - 1]  \* mutant
NonceTaken(e) == session' = [session EXCEPT ![e].tx = session[e].tx + 1]

\* Under the lock of the sessions: the cell takes the next nonce ...
Encrypt(s) ==
  LET e == ends[s] IN
  /\ pc[s] = "ready"
  /\ pc' = [pc EXCEPT ![s] = "sealed"]
  /\ \E mask \in IF env.masks THEN BOOLEAN ELSE {FALSE} :
       sealed' = [sealed EXCEPT ![s] =
         [kind |-> "cell", key |-> session[e].key, role |-> session[e].role,
          nonce |-> session[e].tx, cell |-> s, mask |-> mask]]
  /\ NonceTaken(e)
  /\ order' = Append(order, s)
  /\ UNCHANGED <<env, ends, pubk, inflight, known, stuck, wire, fresh, read, life, faults>>

\* ... and once the lock is released the socket takes the datagram.
Transmit(s) ==
  /\ pc[s] = "sealed"
  /\ pc' = [pc EXCEPT ![s] = "sent"]
  /\ wire' = [wire EXCEPT ![ends[s]] = Append(@, sealed[s])]
  /\ sealed' = [sealed EXCEPT ![s] = None]
  /\ UNCHANGED <<env, ends, pubk, session, inflight, known, stuck, fresh, read, order, life,
                 faults>>

\* The socket refuses the first message, and no handshake is under way; or the
\* ciphertext, and its nonce is spent.
SocketFails(s) ==
  /\ pc[s] = "sealed" \/ (pc[s] = "connecting" /\ inflight[ends[s]] = None)
  /\ faults < env.faults
  /\ faults' = faults + 1
  /\ pc' = [pc EXCEPT ![s] = "failed"]
  /\ pubk' = [pubk EXCEPT ![s] = None]
  /\ sealed' = [sealed EXCEPT ![s] = None]
  /\ UNCHANGED <<env, ends, session, inflight, known, stuck, wire, fresh, read, order, life>>

-----------------------------------------------------------------------------
(* The receiving task: the next datagram d from node e[1] at node e[2].    *)

\* Handshake fragments gather in one buffer per address, which a ciphertext that
\* looked like a fragment fills for good: the total it claims is as good as never met.
HandshakeLost(e, d) ==
  /\ d.kind \in {"hs1", "hs2"}
  /\ stuck[e]
  /\ UNCHANGED <<session, inflight, known, stuck, fresh, read>>

\* Whatever arrives while a handshake is under way ends it.
HandshakeTaken(e) == inflight' = [inflight EXCEPT ![Back(e)] = None]

Responder(key) == [key |-> key, role |-> "responder", tx |-> 0, rx |-> 0]

\* Mutant: a session that exists is kept.
RespondIfNew(e, key) ==
  session' = [session EXCEPT ![Back(e)] = IF @ = None THEN Responder(key) ELSE @]
NewResponder(e, key) == session' = [session EXCEPT ![Back(e)] = Responder(key)]

\* A first message for this node's key is answered, over any session or handshake there
\* was, and the sender's key kept ...
Respond(e, d) ==
  LET key == [hs |-> d.hs, answer |-> fresh] IN
  /\ d.kind = "hs1"
  /\ ~ stuck[e]
  /\ d.to = life[e[2]]
  /\ HandshakeTaken(e)
  /\ NewResponder(e, key)
  /\ known' = [known EXCEPT ![Back(e)] = d.from]
  /\ fresh' = fresh + 1
  /\ UNCHANGED <<stuck, read>>

\* ... any other is not understood.
RequestRefused(e, d) ==
  /\ d.kind = "hs1"
  /\ ~ stuck[e]
  /\ d.to # life[e[2]]
  /\ HandshakeTaken(e)
  /\ UNCHANGED <<session, known, stuck, fresh, read>>

\* The answer to the handshake under way makes the initiator's session ...
Complete(e, d) ==
  /\ d.kind = "hs2"
  /\ ~ stuck[e]
  /\ inflight[Back(e)] = d.key.hs
  /\ HandshakeTaken(e)
  /\ session' = [session EXCEPT ![Back(e)] =
                   [key |-> d.key, role |-> "initiator", tx |-> 0, rx |-> 0]]
  /\ UNCHANGED <<known, stuck, fresh, read>>

\* ... any other answer is not understood.
AnswerRefused(e, d) ==
  /\ d.kind = "hs2"
  /\ ~ stuck[e]
  /\ inflight[Back(e)] # d.key.hs
  /\ HandshakeTaken(e)
  /\ UNCHANGED <<session, known, stuck, fresh, read>>

\* The first byte of a ciphertext is 0x7F: it is kept as a handshake fragment.
Misread(e, d) ==
  /\ d.kind = "cell"
  /\ d.mask
  /\ stuck' = [stuck EXCEPT ![e] = TRUE]
  /\ UNCHANGED <<session, inflight, known, fresh, read>>

\* Mutant: any nonce of the session is accepted.
ReadableInAnyOrder(ss, d) == ss # None /\ ss.key = d.key /\ ss.role # d.role
Readable(ss, d) == ss # None /\ ss.key = d.key /\ ss.role # d.role /\ ss.rx = d.nonce

\* The session decrypts the next ciphertext of the other end, and the node gets a cell.
Read(e, d) ==
  /\ d.kind = "cell"
  /\ ~ d.mask
  /\ Readable(session[Back(e)], d)
  /\ session' = [session EXCEPT ![Back(e)].rx = @ + 1]
  /\ read' = [read EXCEPT ![Back(e)] = Append(@, d)]
  /\ UNCHANGED <<inflight, known, stuck, fresh>>

\* Any other ciphertext is 1296 bytes, and taken for a bare cell is no cell.
Unreadable(e, d) ==
  /\ d.kind = "cell"
  /\ ~ d.mask
  /\ ~ Readable(session[Back(e)], d)
  /\ UNCHANGED <<session, inflight, known, stuck, fresh, read>>

Handles(e, d) ==
  \/ HandshakeLost(e, d) \/ Respond(e, d) \/ RequestRefused(e, d)
  \/ Complete(e, d) \/ AnswerRefused(e, d)
  \/ Misread(e, d) \/ Read(e, d) \/ Unreadable(e, d)

\* What handling d sends back: the answer to a first message.
Answer(e, d) ==
  IF d.kind = "hs1" /\ ~ stuck[e] /\ d.to = life[e[2]]
    THEN <<[kind |-> "hs2", key |-> [hs |-> d.hs, answer |-> fresh]]>>
    ELSE << >>

Receive(e) ==
  /\ wire[e] # << >>
  /\ Handles(e, Head(wire[e]))
  /\ wire' = [wire EXCEPT ![e] = Tail(@), ![Back(e)] = @ \o Answer(e, Head(wire[e]))]
  /\ UNCHANGED <<env, ends, pc, pubk, sealed, order, life, faults>>

-----------------------------------------------------------------------------
(* UDP.                                                                    *)

\* A datagram is lost, arrives twice, or is held back behind those sent since.
Fault(e) ==
  /\ faults < env.faults
  /\ faults' = faults + 1
  /\ \E i \in 1..Len(wire[e]) :
       \/ wire' = [wire EXCEPT ![e] = RemoveAt(@, i)]
       \/ wire' = [wire EXCEPT ![e] = Append(@, @[i])]
       \/ i < Len(wire[e]) /\ wire' = [wire EXCEPT ![e] = Append(RemoveAt(@, i), @[i])]
  /\ UNCHANGED <<env, ends, pc, pubk, sealed, session, inflight, known, stuck, fresh, read,
                 order, life>>

-----------------------------------------------------------------------------
(* The end of a process and the start of the next one.                     *)

\* The node's tables and calls are gone, and of what was under way to it whatever its
\* socket held, which is what came first. Its peers notice nothing.
Restart(n) ==
  /\ life[n] <= env.restarts
  /\ env.serial => (\A s \in Call : Idle(s)) /\ (\A e \in Pair : wire[e] = << >>)
  /\ life' = [life EXCEPT ![n] = @ + 1]
  /\ session' = [e \in Pair |-> IF e[1] = n THEN None ELSE session[e]]
  /\ inflight' = [e \in Pair |-> IF e[1] = n THEN None ELSE inflight[e]]
  /\ known' = [e \in Pair |-> IF e[1] = n THEN None ELSE known[e]]
  /\ stuck' = [e \in Pair |-> stuck[e] /\ e[2] # n]
  /\ \E f \in Pair : \E k \in 0..Len(wire[f]) :
       wire' = [e \in Pair |-> IF e[2] = n THEN SubSeq(wire[e], k + 1, Len(wire[e])) ELSE wire[e]]
  /\ pc' = [s \in Call |-> IF ends[s][1] = n /\ ~ Idle(s) THEN "failed" ELSE pc[s]]
  /\ pubk' = [s \in Call |-> IF ends[s][1] = n THEN None ELSE pubk[s]]
  /\ sealed' = [s \in Call |-> IF ends[s][1] = n THEN None ELSE sealed[s]]
  /\ UNCHANGED <<env, ends, fresh, read, order, faults>>

Proceeds(s) ==
  \/ Initiate(s) \/ Connected(s) \/ Deadline(s) \/ GiveUp(s) \/ Encrypt(s) \/ Transmit(s)

Finished ==
  /\ \A s \in Call : Idle(s)
  /\ \A e \in Pair : wire[e] = << >>
  /\ UNCHANGED vars

Next ==
  \/ \E s \in Call : Start(s) \/ Proceeds(s) \/ SocketFails(s)
  \/ \E e \in Pair : Receive(e) \/ Fault(e)
  \/ \E n \in Node : Restart(n)
  \/ Finished

Spec == Init /\ [][Next]_vars

\* A call under way goes on and the receiving task takes what has arrived.
Fairness ==
  /\ \A s \in Call : WF_vars(Proceeds(s))
  /\ \A e \in Pair : WF_vars(Receive(e))

FairSpec == Spec /\ Fairness
=============================================================================
