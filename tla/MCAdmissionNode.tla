-------------------------- MODULE MCAdmissionNode --------------------------
(* Small instances of the admitting node.                                  *)
EXTENDS AdmissionNode, TLC

CONSTANTS p1, p2, k1, k2, k3, r1, r2, r3

\* One pass redeemed twice: a retry, or a replay.
OnePassTwice == [r \in {r1, r2} |-> p1]
OneKey       == [r \in {r1, r2} |-> k1]
BothPass     == [r \in {r1, r2} |-> "pass"]

\* That, and another pass, made for another key.
ThreePassOf == r1 :> p1 @@ r2 :> p1 @@ r3 :> p2
ThreeKeyOf  == r1 :> k1 @@ r2 :> k1 @@ r3 :> k2
ThreePass   == [r \in {r1, r2, r3} |-> "pass"]

\* An open node: a key made for one connection, and a lasting lease.
NoPasses    == [r \in {r1, r2} |-> NoPass]
OpenKeyOf   == r1 :> k1 @@ r2 :> k2
OpenKindOf  == r1 :> "session" @@ r2 :> "open"
=============================================================================
