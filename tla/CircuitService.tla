--------------------------- MODULE CircuitService ---------------------------
(***************************************************************************)
(* What build_circuit and close promise their caller, without a network: a *)
(* circuit is built hop by hop, is open only when the whole route has been *)
(* reached, and every build ends, open or failed.                          *)
(***************************************************************************)
EXTENDS Naturals

CONSTANTS Build, MaxHops

VARIABLES
  hops,     \* the length of each build's route
  phase,    \* what the caller knows of the build
  reached   \* the hops that have joined the circuit

vars == <<hops, phase, reached>>

Init ==
  /\ hops \in [Build -> Nat]
  /\ phase = [b \in Build |-> "idle"]
  /\ reached = [b \in Build |-> 0]

To(b, p) == phase' = [phase EXCEPT ![b] = p] /\ UNCHANGED <<hops, reached>>

Start(b) == phase[b] = "idle" /\ hops[b] \in 1..MaxHops /\ To(b, "building")

Refuse(b) == phase[b] = "idle" /\ To(b, "failed")

\* One more hop joins, whether or not the caller still waits for it.
Extend(b) ==
  /\ phase[b] # "idle"
  /\ reached[b] < hops[b]
  /\ reached' = [reached EXCEPT ![b] = @ + 1]
  /\ UNCHANGED <<hops, phase>>

Open(b) == phase[b] = "building" /\ reached[b] = hops[b] /\ To(b, "open")

GiveUp(b) == phase[b] = "building" /\ To(b, "failed")

Close(b) == phase[b] = "open" /\ To(b, "closed")

Next ==
  \E b \in Build :
    Start(b) \/ Refuse(b) \/ Extend(b) \/ Open(b) \/ GiveUp(b) \/ Close(b)

Spec == Init /\ [][Next]_vars

\* A build that has started ends.
FairSpec == Spec /\ \A b \in Build : WF_vars(Open(b) \/ GiveUp(b))
=============================================================================
