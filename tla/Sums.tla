-------------------------------- MODULE Sums --------------------------------
(* The sum of what a function gives for the elements of a finite set: the    *)
(* code's counts of passes in hand, bytes held and the like.                 *)
EXTENDS Integers, FiniteSetsExt

SumOf(f, S) == MapThenSumSet(LAMBDA x : f[x], S)
=============================================================================
