------------------------------ MODULE LinkProps ------------------------------
(***************************************************************************)
(* The properties of the link of Link.                                     *)
(***************************************************************************)
EXTENDS Link

\* The nonces under which a node has decrypted with one key, in its first n reads.
NoncesRead(e, key, n) ==
  {read[e][j].nonce : j \in {i \in 1..n : read[e][i].key = key}}

\* A node reads the ciphertexts of a session in the order of their nonces, from the
\* first one, without a gap and none twice (plan:22: the link stops replays), whatever
\* the network repeats or holds back and however often the handshake is repeated. So
\* one lost datagram is the last a session reads.
ReadInOrder ==
  \A e \in Pair : \A i \in 1..Len(read[e]) :
    NoncesRead(e, read[e][i].key, i - 1) = 0..(read[e][i].nonce - 1)

\* No ciphertext is made twice with one key and nonce, by calls that overlap, with
\* sessions replaced under them (link.rs:190).
NoncePerCiphertext ==
  LET made == {sealed[s] : s \in Call} \ {None}
      sent == UNION {{wire[e][i] : i \in 1..Len(wire[e])} : e \in Pair}
      got == UNION {{read[e][i] : i \in 1..Len(read[e])} : e \in Pair}
  IN \A c, d \in {x \in made \cup sent \cup got : x.kind = "cell"} :
       c.key = d.key /\ c.role = d.role /\ c.nonce = d.nonce => c = d

Delivered(s) == \E e \in Pair : \E i \in 1..Len(read[e]) : read[e][i].cell = s

Calm == env.serial /\ env.patient /\ ~ env.masks /\ ~ env.stale /\ env.faults = 0

\* Both ends have the session, and no cell from the first to the second was lost.
InStep(e) ==
  /\ session[e] # None
  /\ session[Back(e)] # None
  /\ session[Back(e)].key = session[e].key
  /\ session[Back(e)].role # session[e].role
  /\ session[Back(e)].rx = session[e].tx

\* Cells sent one at a time are delivered, either way and from the first one on, when
\* no datagram is lost and none looks like a handshake, also after the sender or the
\* receiver was restarted: by a new handshake, or under a session both ends still have
\* (link.rs:182). A sender whose receiver was restarted alone keeps its session for good
\* and is promised nothing.
CellsArrive ==
  \A s \in Call :
    /\ Calm
    /\ pc[s] = "connecting" \/ (pc[s] = "ready" /\ InStep(ends[s]))
    ~> Delivered(s)

Phase(s) ==
  CASE pc[s] \in {"connecting", "waiting", "expired", "ready"} -> "asked"
    [] pc[s] = "sealed" -> "accepted"
    [] OTHER -> pc[s]

\* The calls whose cells the second node of e has read from the first.
Inbox(e) == [i \in 1..Len(read[Back(e)]) |-> read[Back(e)][i].cell]

Channel == INSTANCE LinkService WITH
  phase <- [s \in Call |-> Phase(s)],
  inbox <- [e \in Pair |-> Inbox(e)]

\* The link is a channel that neither repeats nor reorders cells (plan:22), whatever the
\* network loses, repeats or holds back or a socket refuses, however often handshakes collide, and although
\* nodes are restarted; a failed call sends nothing, and every call returns (link.rs:181).
ImplementsChannel == Channel!FairSpec

\* Two nodes that have finished connecting share one session, whichever of them began
\* (PROTOCOL.md, 8: the node with the smaller id keeps the initiator's part).
SessionsAgree ==
  (\A s \in Call : Returned(s)) /\ (\A e \in Pair : wire[e] = << >>) =>
    \A e \in Pair :
      session[e] # None /\ session[Back(e)] # None => session[e].key = session[Back(e)].key
=============================================================================
