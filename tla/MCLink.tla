-------------------------------- MODULE MCLink --------------------------------
(***************************************************************************)
(* Small instances of the link for TLC: two nodes.                         *)
(***************************************************************************)
EXTENDS LinkProps

CONSTANTS a, b, s1, s2

BothWays == {<<a, b>>, <<b, a>>}

\* Calls overlap, callers may have an old key or none, and one datagram goes astray.
Rough == [serial |-> FALSE, patient |-> FALSE, masks |-> TRUE, stale |-> TRUE,
          faults |-> 1, restarts |-> 0]

\* Calls overlap the end of either process.
Restarting == [Rough EXCEPT !.masks = FALSE, !.faults = 0, !.restarts = 1]

\* One call after another, and nothing goes wrong but that nodes are restarted.
Quiet == [serial |-> TRUE, patient |-> TRUE, masks |-> FALSE, stale |-> FALSE,
          faults |-> 0, restarts |-> 1]

AllEnvs == {Rough, Restarting, Quiet}

\* The nodes are interchangeable: let the first one send s1.
SomeInit == Init /\ ends[s1] = <<a, b>>
SomeSpec == SomeInit /\ [][Next]_vars /\ Fairness

OverlapOnly == {[Quiet EXCEPT !.serial = FALSE, !.restarts = 0]}
=============================================================================
