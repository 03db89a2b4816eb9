----------------------------- MODULE RelayProps -----------------------------
(***************************************************************************)
(* The properties of the data plane of Relay.                              *)
(***************************************************************************)
EXTENDS Relay

\* The layers on a cell are those of the nodes it has still to pass, or has passed on
\* its way back, and no other (PROTOCOL.md, 5): so each hop opens one layer and none
\* but the terminal has a bare message, and the origin can open every answer.
OnionLayers ==
  /\ \A m \in net :
       m.onion = IF m.dir = "fwd" THEN Layers("fwd", m.at) ELSE Layers("bwd", m.at + 1)
  /\ \A t \in tasks : t.dir = "fwd" /\ t.onion = Layers("fwd", t.at + 1)

\* Two messages are never sealed under the same keys and nonce, since the nonce is
\* made of the seq (kdf.rs:2), whatever calls overlap. It lasts until the u32 wraps.
NonceFresh ==
  \A s, t \in Sender : s # t /\ seqOf[s] # 0 => seqOf[s] # seqOf[t]

\* One answer satisfies one echo, though echoes share stream 1 (builder.rs:99) and
\* replace each other's sender.
RepliesNotShared ==
  \A d, e \in Echo : d # e /\ reply[d] # None => reply[d] # reply[e]

\* An echo returns its own answer or none (builder.rs:102) when calls are made one at a
\* time and wait until nothing of theirs is on the way, though cells are lost, the
\* circuit is closed under them and all echoes share stream 1. A call that waits less
\* leaves a late answer to the next one.
ReplyOwn ==
  ~ env.overlap /\ env.patient => \A e \in Echo : reply[e] \in {None, e}

\* An echo returns: with an answer, or an error (builder.rs:102), whatever is lost,
\* closed or replaced under it.
EchoReturns == \A e \in Echo : pc[e] = "registered" ~> pc[e] = "done"

Calm == [mayLose |-> FALSE, mayClose |-> FALSE, overlap |-> FALSE, patient |-> TRUE]

\* An echo called once every earlier call has returned is answered with its own
\* message when nothing is lost, though cells of those calls may still be on the way
\* (tests/cover.rs:53): the cell with the highest seq is never stale anywhere.
EchoAnswered == \A e \in Echo : env = Calm /\ pc[e] = "registered" ~> reply[e] = e

\* The same while other traffic is sent (tests/cover.rs:1 "khong doi hanh vi echo").
CoverKeepsEcho == \A e \in Echo : pc[e] = "registered" ~> reply[e] = e
=============================================================================
