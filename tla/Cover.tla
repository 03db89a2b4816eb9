-------------------------------- MODULE Cover --------------------------------
(***************************************************************************)
(* The cover traffic of nbf-net (cover.rs), over the link of Link: in turn *)
(* a PADDING cell to some node out of the routing table, and a DROP cell   *)
(* on a circuit of the node's own, if it has one. A cell is a call of      *)
(* Link, each made once; a circuit is the first hop it leads to, opened    *)
(* and closed by the application at any time.                              *)
(***************************************************************************)
EXTENDS Link

CONSTANTS
  Covering,       \* the nodes with config.cover.on
  Table, Stored   \* whose contacts, and whose descriptors, each node has (dht.rt and
                  \* dht.store): its own in any case

VARIABLES
  loop,     \* where the loop of each node stands
  sending,  \* the cell it is sending
  origin,   \* the first hop of the node's circuit, if one is open
  usable,   \* the circuit that the loop has picked is still open
  padding,  \* padding_sent: the cells counted
  drops     \* drops_sent: how often it was counted

coverVars == <<loop, sending, origin, usable, padding, drops>>
allVars == <<vars, coverVars>>

CoverInit ==
  /\ Init
  /\ loop = [n \in Covering |-> "asleep"]
  /\ sending = [n \in Covering |-> None]
  /\ origin = [n \in Covering |-> None]
  /\ usable = [n \in Covering |-> FALSE]
  /\ padding = [n \in Covering |-> {}]
  /\ drops = [n \in Covering |-> 0]

Goes(n, from, to) == loop[n] = from /\ loop' = [loop EXCEPT ![n] = to]

RoutePeers(n) == Table[n] \cap Stored[n]

\* pick_peer takes any of them; its key replaces whatever the link had.
Pad(n) ==
  /\ Goes(n, "asleep", "padding")
  /\ \E s \in Call, p \in RoutePeers(n) :
       /\ ends[s] = <<n, p>>
       /\ Start(s)
       /\ known'[ends[s]] \in KeysOf(p)
       /\ sending' = [sending EXCEPT ![n] = s]
  /\ UNCHANGED <<origin, usable, padding, drops>>

\* A PADDING that was sent is counted.
PadReturned(n) ==
  LET s == sending[n] IN
  /\ Goes(n, "padding", "checking")
  /\ Returned(s)
  /\ padding' = [padding EXCEPT ![n] = IF pc[s] = "sent" THEN @ \cup {s} ELSE @]
  /\ sending' = [sending EXCEPT ![n] = None]
  /\ UNCHANGED <<vars, origin, usable, drops>>

\* Without a circuit, seen here or under the lock of pick_origin, the turn is over.
NoCircuit(n) ==
  /\ Goes(n, "checking", "asleep")
  /\ origin[n] = None
  /\ UNCHANGED <<vars, sending, origin, usable, padding, drops>>

Pick(n) ==
  /\ Goes(n, "checking", "picked")
  /\ origin[n] # None
  /\ usable' = [usable EXCEPT ![n] = TRUE]
  /\ UNCHANGED <<vars, sending, origin, padding, drops>>

Drop(n) ==
  /\ Goes(n, "picked", "dropping")
  /\ usable[n]
  /\ \E s \in Call :
       /\ ends[s] = <<n, origin[n]>>
       /\ Start(s)
       /\ known' = known
       /\ sending' = [sending EXCEPT ![n] = s]
  /\ UNCHANGED <<origin, usable, padding, drops>>

\* The circuit was closed since: send_data fails, and the drop is counted all the same.
DropFails(n) ==
  /\ Goes(n, "picked", "asleep")
  /\ ~ usable[n]
  /\ drops' = [drops EXCEPT ![n] = @ + 1]
  /\ UNCHANGED <<vars, sending, origin, usable, padding>>

DropReturned(n) ==
  /\ Goes(n, "dropping", "asleep")
  /\ Returned(sending[n])
  /\ drops' = [drops EXCEPT ![n] = @ + 1]
  /\ sending' = [sending EXCEPT ![n] = None]
  /\ UNCHANGED <<vars, origin, usable, padding>>

\* The application opens a circuit or closes the one there is.
Application(n) ==
  /\ \E hop \in Node \ {n} :
       origin' = [origin EXCEPT ![n] = IF @ = None THEN hop ELSE None]
  /\ usable' = [usable EXCEPT ![n] = FALSE]
  /\ UNCHANGED <<vars, loop, sending, padding, drops>>

RunLoop(n) ==
  \/ Pad(n) \/ PadReturned(n) \/ NoCircuit(n) \/ Pick(n)
  \/ Drop(n) \/ DropFails(n) \/ DropReturned(n)

\* No process ends here: the loop would end with it.
LinkStep ==
  /\ \/ \E s \in Call : Proceeds(s) \/ SocketFails(s)
     \/ \E e \in Pair : Receive(e) \/ Fault(e)
  /\ UNCHANGED coverVars

CoverNext ==
  \/ \E n \in Covering : RunLoop(n) \/ Application(n)
  \/ LinkStep

\* The loop runs for ever, on top of the fairness of the link.
CoverSpec ==
  /\ CoverInit
  /\ [][CoverNext]_allVars
  /\ \A n \in Covering : WF_allVars(RunLoop(n))
  /\ \A s \in Call : WF_allVars(Proceeds(s) /\ UNCHANGED coverVars)
  /\ \A e \in Pair : WF_allVars(Receive(e) /\ UNCHANGED coverVars)
=============================================================================
