--------------------------- MODULE MCSpentPasses ---------------------------
(* The spent list on a small instance.                                     *)
EXTENDS SpentPasses
=============================================================================
