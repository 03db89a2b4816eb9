------------------------------- MODULE MCRelay -------------------------------
(***************************************************************************)
(* Small instances of the data plane for TLC: the calls are model values   *)
(* that the configurations list.                                           *)
(***************************************************************************)
EXTENDS RelayProps

\* Everything that can go wrong; and calls made one at a time that wait long enough,
\* while cells are lost and the circuit closes, or with nothing else going wrong.
Rough == [mayLose |-> TRUE, mayClose |-> TRUE, overlap |-> TRUE, patient |-> FALSE]
InTurn == [Rough EXCEPT !.overlap = FALSE, !.patient = TRUE]
RoughOrCalm == {Rough, InTurn, Calm}

OverlapOnly ==
  {[mayLose |-> FALSE, mayClose |-> FALSE, overlap |-> TRUE, patient |-> TRUE]}
=============================================================================
