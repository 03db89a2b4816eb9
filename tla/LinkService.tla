----------------------------- MODULE LinkService -----------------------------
(***************************************************************************)
(* What the link promises those who send over it (link.rs:8), without      *)
(* handshakes, keys, datagrams or processes that end: a channel that may   *)
(* lose a cell, but neither repeats nor reorders those it delivers.        *)
(***************************************************************************)
EXTENDS Integers, Sequences, Functions

CONSTANTS Call, Pair

VARIABLES
  ends,    \* who each call sends from and to
  phase,   \* where each call stands
  order,   \* the calls whose cells the channel accepted, in that order
  inbox    \* the calls whose cells came out of the channel, in that order

vars == <<ends, phase, order, inbox>>

Init ==
  /\ ends \in [Call -> Pair]
  /\ phase = [s \in Call |-> "idle"]
  /\ order = << >>
  /\ inbox = [e \in Pair |-> << >>]

Moves(s, from, to) == phase[s] \in from /\ phase' = [phase EXCEPT ![s] = to]

Ask(s) == Moves(s, {"idle"}, "asked") /\ UNCHANGED <<ends, order, inbox>>

Accept(s) ==
  /\ Moves(s, {"asked"}, "accepted")
  /\ order' = Append(order, s)
  /\ UNCHANGED <<ends, inbox>>

Send(s) == Moves(s, {"accepted"}, "sent") /\ UNCHANGED <<ends, order, inbox>>

Before(r, s) == \E i, j \in DOMAIN order : i < j /\ order[i] = r /\ order[j] = s

\* A cell comes out once, behind those that were accepted before it.
Deliver(s) ==
  /\ phase[s] = "sent"
  /\ \A r \in Range(inbox[ends[s]]) : Before(r, s)
  /\ inbox' = [inbox EXCEPT ![ends[s]] = Append(@, s)]
  /\ UNCHANGED <<ends, phase, order>>

\* Calls fail, and those of a node whose process ends fail together.
Fail ==
  /\ \E S \in SUBSET {s \in Call : phase[s] \in {"idle", "asked", "accepted"}} :
       phase' = [s \in Call |-> IF s \in S THEN "failed" ELSE phase[s]]
  /\ UNCHANGED <<ends, order, inbox>>

Next == Fail \/ \E s \in Call : Ask(s) \/ Accept(s) \/ Send(s) \/ Deliver(s)

Spec == Init /\ [][Next]_vars

\* A call that was made returns; nothing makes a cell come out.
Returns(s) == phase[s] \in {"asked", "accepted"} ~> phase[s] \in {"sent", "failed"}

FairSpec == Spec /\ \A s \in Call : Returns(s)
=============================================================================
