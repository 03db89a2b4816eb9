-------------------------------- MODULE Relay --------------------------------
(***************************************************************************)
(* The data plane of one open circuit (crates/nbf-net): origin 0, relays   *)
(* 1..L-1, terminal L. The origin seals a message under the forward keys   *)
(* of all hops, each hop opens one layer; the terminal answers an ECHO and *)
(* each hop seals the answer once more under its backward key.             *)
(*                                                                         *)
(* A circuit whose own CREATED came back has one id on all of its links    *)
(* (relay.rs:28 looks a cell's id up in a table keyed by the link back),   *)
(* so the id is left out. Which way a cell goes is who it comes from: the  *)
(* previous peer, or else the next one (relay.rs:60, 88). Here no relay's  *)
(* neighbours are one node: that node would be two of the nodes 0..L, with *)
(* one entry for both under the circuit's id, and the circuit would fail.  *)
(* Handlers run in tasks of their own (node.rs:171): cells are handled in  *)
(* any order; the Noise link refuses a repeated one.                       *)
(***************************************************************************)
EXTENDS Integers, Sequences, FiniteSets

CONSTANTS
  L,         \* the number of hops
  Echo,      \* the calls of CircuitHandle.echo
  Data,      \* the calls of send_data, the application's or the cover loop's
  FirstSeq,  \* where Node.seq_origin starts (64)
  SeqMod,    \* where it wraps (2^32 for the code's u32)
  Env,       \* the surroundings a behaviour may have
  None       \* no echo

ASSUME HopsAssumption == L \in Nat \ {0}
ASSUME SeqAssumption == SeqMod \in Nat /\ FirstSeq \in 1..(SeqMod - 1)
ASSUME SenderAssumption == Echo \cap Data = {} /\ None \notin Echo \cup Data

\* Whether a cell may be lost, the origin may close the circuit, a call may start
\* while another has not returned, an echo's timeout outlasts everything in flight.
Surroundings ==
  [mayLose : BOOLEAN, mayClose : BOOLEAN, overlap : BOOLEAN, patient : BOOLEAN]

ASSUME EnvAssumption == Env \subseteq Surroundings

Sender == Echo \cup Data
Hop == 1..L
Seq32 == 0..(SeqMod - 1)

\* The key hop h has for one direction; an onion is the keys that seal it, the
\* outermost one first.
Key == [dir : {"fwd", "bwd"}, hop : Hop]
HopKey(d, h) == [dir |-> d, hop |-> h]

\* `at' is the node the cell is sent to; its direction stands for the neighbour that
\* sent it.
Cell == [dir : {"fwd", "bwd"}, at : 0..L, msg : Sender, seq : Seq32, onion : Seq(Key)]

VARIABLES
  env,        \* the surroundings, for the whole behaviour
  entry,      \* the nodes whose table has the circuit
  lastFwd,    \* last_fwd of each hop's entry
  seqOrigin,  \* Node.seq_origin
  stream,     \* the echo whose sender the Origin entry has under stream 1
  pc,         \* where each call stands
  seqOf,      \* the seq it took
  inbox,      \* the channel of each echo
  reply,      \* what the echo returned; None for an error or no return yet
  net,        \* cells in flight
  tasks,      \* cells a hop has opened and not yet sent on
  closing     \* whether close has sent its DESTROY

vars == <<env, entry, lastFwd, seqOrigin, stream, pc, seqOf, inbox, reply, net, tasks, closing>>
circuit == <<env, entry, lastFwd, closing>>
calls == <<seqOrigin, stream, pc, seqOf, inbox, reply>>

TypeOK ==
  /\ env \in Env
  /\ entry \in SUBSET (0..L)
  /\ lastFwd \in [Hop -> Seq32]
  /\ seqOrigin \in Seq32
  /\ stream \in Echo \cup {None}
  /\ pc \in [Sender -> {"idle", "registered", "numbered", "waiting", "done"}]
  /\ seqOf \in [Sender -> Seq32]
  /\ inbox \in [Echo -> Seq(Echo)]
  /\ reply \in [Echo -> Echo \cup {None}]
  /\ net \in SUBSET Cell
  /\ tasks \in SUBSET Cell
  /\ closing \in BOOLEAN

Init ==
  /\ env \in Env
  /\ entry = 0..L
  /\ lastFwd = [h \in Hop |-> 0]
  /\ seqOrigin = FirstSeq
  /\ stream = None
  /\ pc = [s \in Sender |-> "idle"]
  /\ seqOf = [s \in Sender |-> 0]
  /\ inbox = [e \in Echo |-> << >>]
  /\ reply = [e \in Echo |-> None]
  /\ net = {}
  /\ tasks = {}
  /\ closing = FALSE

-----------------------------------------------------------------------------
(* Onions.                                                                 *)

Sealed(key, onion) == <<key>> \o onion
Opens(key, onion) == onion # << >> /\ Head(onion) = key

\* What the keys of hops h..L make of a message, that of hop h outermost.
Layers(d, h) == [i \in 1..(L - h + 1) |-> HopKey(d, h + i - 1)]

SealOnionReversed == [i \in Hop |-> HopKey("fwd", L - i + 1)]  \* mutant
SealOnion == Layers("fwd", 1)

\* The origin opens bwd[0], bwd[1], ... in turn.
OpensBwd(onion) == onion = Layers("bwd", 1)

-----------------------------------------------------------------------------
(* echo and send_data.                                                     *)

MayStart == env.overlap \/ \A s \in Sender : pc[s] \in {"idle", "done"}

\* The message is longer than MSG_MAX.
Refuse(s) ==
  /\ pc[s] = "idle"
  /\ pc' = [pc EXCEPT ![s] = "done"]
  /\ UNCHANGED <<circuit, seqOrigin, stream, seqOf, inbox, reply, net, tasks>>

\* open_stream: the echo's sender replaces any other under stream 1; without an
\* Origin entry it is dropped at once.
OpenStream(e) ==
  /\ MayStart
  /\ pc[e] = "idle"
  /\ pc' = [pc EXCEPT ![e] = "registered"]
  /\ stream' = IF 0 \in entry THEN e ELSE stream
  /\ UNCHANGED <<circuit, seqOrigin, seqOf, inbox, reply, net, tasks>>

SeqKept == seqOrigin' = seqOrigin  \* mutant: load, not fetch_add
SeqTaken == seqOrigin' = (seqOrigin + 1) % SeqMod

TakeSeq(s) ==
  /\ pc[s] = "registered" \/ (s \in Data /\ pc[s] = "idle" /\ MayStart)
  /\ SeqTaken
  /\ seqOf' = [seqOf EXCEPT ![s] = seqOrigin]
  /\ pc' = [pc EXCEPT ![s] = "numbered"]
  /\ UNCHANGED <<circuit, stream, inbox, reply, net, tasks>>

\* The sealed cell leaves for hop 1.
SendCell(s) ==
  /\ pc[s] = "numbered"
  /\ 0 \in entry
  /\ net' = net \cup {[dir |-> "fwd", at |-> 1, msg |-> s, seq |-> seqOf[s],
                       onion |-> SealOnion]}
  /\ pc' = [pc EXCEPT ![s] = IF s \in Echo THEN "waiting" ELSE "done"]
  /\ UNCHANGED <<circuit, seqOrigin, stream, seqOf, inbox, reply, tasks>>

\* There is no Origin entry any more, or the link could not send.
SendFails(s) ==
  /\ pc[s] = "numbered"
  /\ 0 \notin entry \/ env.mayLose
  /\ pc' = [pc EXCEPT ![s] = "done"]
  /\ UNCHANGED <<circuit, seqOrigin, stream, seqOf, inbox, reply, net, tasks>>

Receive(e) ==
  /\ pc[e] = "waiting"
  /\ inbox[e] # << >>
  /\ reply' = [reply EXCEPT ![e] = Head(inbox[e])]
  /\ inbox' = [inbox EXCEPT ![e] = Tail(inbox[e])]
  /\ pc' = [pc EXCEPT ![e] = "done"]
  /\ UNCHANGED <<circuit, seqOrigin, stream, seqOf, net, tasks>>

\* The channel is empty and its last sender is gone: replaced, or dropped with the
\* Origin entry.
Disconnect(e) ==
  /\ pc[e] = "waiting"
  /\ inbox[e] = << >>
  /\ stream # e
  /\ pc' = [pc EXCEPT ![e] = "done"]
  /\ UNCHANGED <<circuit, seqOrigin, stream, seqOf, inbox, reply, net, tasks>>

\* Mutant: the reply awaited without a timeout.
NoTimeOut(e) == FALSE /\ pc[e] = "waiting" /\ UNCHANGED vars

TimeOut(e) ==
  /\ pc[e] = "waiting"
  /\ inbox[e] = << >>
  /\ env.patient => net = {} /\ tasks = {}
  /\ pc' = [pc EXCEPT ![e] = "done"]
  /\ UNCHANGED <<circuit, seqOrigin, stream, seqOf, inbox, reply, net, tasks>>

-----------------------------------------------------------------------------
(* relay::handle at node m.at, for a cell m that has arrived.              *)

FreshOffByOne(m) == m.seq > lastFwd[m.at] + 1  \* mutant
Fresh(m) == m.seq > lastFwd[m.at]

\* Relay and terminal alike: last_fwd is checked on a copy of the entry ...
Peel(m) ==
  /\ m.dir = "fwd"
  /\ m.at \in entry
  /\ Fresh(m)
  /\ Opens(HopKey("fwd", m.at), m.onion)
  /\ net' = net \ {m}
  /\ tasks' = tasks \cup {[m EXCEPT !.onion = Tail(m.onion)]}
  /\ UNCHANGED <<circuit, calls>>

\* ... the cell is dropped when it is stale, does not open or has no entry ...
DropForward(m) ==
  /\ m.dir = "fwd"
  /\ ~ (m.at \in entry /\ Fresh(m) /\ Opens(HopKey("fwd", m.at), m.onion))
  /\ net' = net \ {m}
  /\ UNCHANGED <<circuit, calls, tasks>>

\* ... and, under another lock, written to the entry if it is still there.
LastFwdWritten(t) ==
  lastFwd' = IF t.at \in entry THEN [lastFwd EXCEPT ![t.at] = t.seq] ELSE lastFwd

\* Mutant: the terminal sends on what it opened.
OutgoingPastEnd(t) == {[t EXCEPT !.at = t.at + 1]}

\* What the peeled cell becomes: the next hop's, or the terminal's answer to an ECHO.
Outgoing(t) ==
  CASE t.at < L -> {[t EXCEPT !.at = t.at + 1]}
    [] t.at = L /\ t.msg \in Echo ->
         {[t EXCEPT !.dir = "bwd", !.at = L - 1, !.onion = Sealed(HopKey("bwd", L), t.onion)]}
    [] OTHER -> {}

PassOn(t) ==
  /\ LastFwdWritten(t)
  /\ tasks' = tasks \ {t}
  /\ net' = net \cup Outgoing(t)
  /\ UNCHANGED <<env, entry, closing, calls>>

\* A relay seals an answer once more; without an entry it is dropped.
Backward(m) ==
  /\ m.dir = "bwd"
  /\ m.at # 0
  /\ net' = (net \ {m}) \cup
       IF m.at \in entry
         THEN {[m EXCEPT !.at = m.at - 1, !.onion = Sealed(HopKey("bwd", m.at), m.onion)]}
         ELSE {}
  /\ UNCHANGED <<circuit, calls, tasks>>

\* Mutant: the cell is handled and stays.
Redelivered(m) == net' = net
Taken(m) == net' = net \ {m}

\* The origin opens all layers and hands the answer to stream 1's sender; a channel
\* whose echo has returned is closed.
OriginReceives(m) ==
  /\ m.dir = "bwd"
  /\ m.at = 0
  /\ Taken(m)
  /\ inbox' = IF /\ 0 \in entry
                 /\ OpensBwd(m.onion)
                 /\ stream # None
                 /\ pc[stream] # "done"
                THEN [inbox EXCEPT ![stream] = Append(@, m.msg)]
                ELSE inbox
  /\ UNCHANGED <<circuit, seqOrigin, stream, pc, seqOf, reply, tasks>>

-----------------------------------------------------------------------------
(* The end of the circuit, and the network.                                *)

Close ==
  /\ env.mayClose
  /\ ~ closing
  /\ closing' = TRUE
  /\ UNCHANGED <<env, entry, lastFwd, calls, net, tasks>>

\* close removes the origin's entry, and with it the streams; DESTROY removes that
\* of hop 1 and goes no further.
Remove(h) ==
  /\ closing
  /\ h \in entry \cap {0, 1}
  /\ entry' = entry \ {h}
  /\ stream' = IF h = 0 THEN None ELSE stream
  /\ UNCHANGED <<env, lastFwd, closing, seqOrigin, pc, seqOf, inbox, reply, net, tasks>>

LoseCell(m) ==
  /\ env.mayLose
  /\ net' = net \ {m}
  /\ UNCHANGED <<circuit, calls, tasks>>

CallStarts(s) ==
  Refuse(s) \/ (s \in Echo /\ OpenStream(s)) \/ (pc[s] = "idle" /\ TakeSeq(s))

CallProceeds(s) ==
  \/ pc[s] # "idle" /\ TakeSeq(s)
  \/ SendCell(s) \/ SendFails(s)
  \/ s \in Echo /\ (Receive(s) \/ Disconnect(s) \/ TimeOut(s))

Handle(m) == Peel(m) \/ DropForward(m) \/ Backward(m) \/ OriginReceives(m)

HandlesAt(h) ==
  \/ \E m \in net : m.at = h /\ Handle(m)
  \/ \E t \in tasks : t.at = h /\ PassOn(t)

Finished ==
  /\ \A s \in Sender : pc[s] = "done"
  /\ net = {} /\ tasks = {}
  /\ UNCHANGED vars

Next ==
  \/ \E s \in Sender : CallStarts(s) \/ CallProceeds(s)
  \/ \E h \in 0..L : HandlesAt(h)
  \/ \E h \in {0, 1} : Remove(h)
  \/ Close
  \/ \E m \in net : LoseCell(m)
  \/ Finished

Spec == Init /\ [][Next]_vars

\* A call under way goes on and a node handles what has arrived; nothing makes a
\* caller call or close.
Fairness ==
  /\ \A s \in Sender : WF_vars(CallProceeds(s))
  /\ \A h \in 0..L : WF_vars(HandlesAt(h))

FairSpec == Spec /\ Fairness
=============================================================================
