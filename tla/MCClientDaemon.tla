--------------------------- MODULE MCClientDaemon ---------------------------
(* Two entries, one that admits sessions and one joined by hand, and one     *)
(* exit, which admits with a pass, of which there are two.  The entry joined *)
(* by hand has the exit's operator.                                          *)
EXTENDS ClientDaemon

CONSTANTS r1, r2, r3, e, g, x, o1, o2

MCOperator == [n \in Nodes |-> IF n = e THEN o1 ELSE o2]
MCPassNode == [p \in Passes |-> x]

\* A circuit; what may go on beside it; another in its place, or none at all.
MCCommands ==
  [r \in Reqs |-> CASE r = r1 -> {"rapido", "privado"}
                    [] r = r2 -> {"rotate", "get", "join", "refill", "cliget",
                                  "shutdown"}
                    [] r = r3 -> {"privado", "down"}]
=============================================================================
