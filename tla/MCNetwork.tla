----------------------------- MODULE MCNetwork -----------------------------
(* The parts of the HidraNet network: routing table, descriptor store and    *)
(* lookups of the DHT; handshake, cells and pool of the circuits. Each       *)
(* behaviour is of the one part `which` names; the others stay as they began.*)
EXTENDS DhtContacts, DhtServices, DhtLookup, CircuitPool, Links, TLC

CONSTANT Parts
VARIABLE which
-----------------------------------------------------------------------------
(* DhtContacts: two addresses of one network, two nodes in two buckets.      *)
MCPrefix == [a \in Addrs |-> "net"]
MCIp == [a \in Addrs |-> a]
MCBucket == [i \in DhtIds |-> IF i = "a" THEN 1 ELSE 2]

(* DhtLookup: the two nearest nodes share a network.                          *)
MCNet == [x \in Peers |-> (x + 1) \div 2]

(* The pushers, and the services of other nodes, are told apart by nothing.  *)
Alike == Permutations(Pushers) \cup Permutations(OtherSvcs)

(* NoiseHandshake: one client begins both handshakes, with two relays.        *)
MCStaticOf(x) == CASE x \in Initiators -> "client" [] x = "r1" -> "ra" [] OTHER -> "rb"
-----------------------------------------------------------------------------
Init ==
  /\ which \in Parts
  /\ CtInit /\ (which # "contacts" => at = [a \in Addrs |-> Nobody])
  /\ LkInit /\ (which # "lookup" => world = [x \in Peers |-> {}] /\ seeds = [x \in {1, 2} |-> TRUE])
  /\ SvInit /\ CcInit /\ CpInit /\ NhInit

Others(part) ==
  /\ UNCHANGED which
  /\ part # "contacts" => UNCHANGED ctVars
  /\ part # "services" => UNCHANGED svVars
  /\ part # "lookup" => UNCHANGED lkVars
  /\ part # "cells" => UNCHANGED ccVars
  /\ part # "pool" => UNCHANGED cpVars
  /\ part # "handshake" => UNCHANGED nhVars

ContactsStep == which = "contacts" /\ CtNext /\ Others("contacts")
ServicesStep == which = "services" /\ SvNext /\ Others("services")
LookupStep == which = "lookup" /\ LkNext /\ Others("lookup")
CellsStep == which = "cells" /\ CcNext /\ Others("cells")
PoolStep == which = "pool" /\ CpNext /\ Others("pool")
HandshakeStep == which = "handshake" /\ NhNext /\ Others("handshake")

Next == ContactsStep \/ ServicesStep \/ LookupStep \/ CellsStep \/ PoolStep \/ HandshakeStep

vars == <<which, ctVars, svVars, lkVars, ccVars, cpVars, nhVars>>
Spec == Init /\ [][Next]_vars
=============================================================================
