---------------------------- MODULE MCOrderBook ----------------------------
(* Small instances of the issuer's orders.                                 *)
EXTENDS OrderBook, TLC

CONSTANTS tA, tB, x1, x2, c1, c2, c3

SymClaims == Permutations(Claims)

\* Whatever another claim and the operator do, a claim made is answered:
\* whoever holds the issuer's lock lets it go, and nobody waits for it for
\* ever.  Claims differ in nothing, so what holds of c1 holds of each.
FirstClaimAnswered == ClaimAnswered(c1)
=============================================================================
