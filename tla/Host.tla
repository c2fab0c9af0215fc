-------------------------------- MODULE Host --------------------------------
(* What the client changes on the machine it runs on: the rules of its kill  *)
(* switch, and the machine's routes and resolver.                            *)
EXTENDS KillSwitch, NetPlan

HostSpec == KsSpec /\ NetSpec

\* What the client does to its machine's network keeps traffic in the tunnel
\* while it is up, and is undone after, whatever was cut short.
HostSound == KillSwitchKeeps /\ PutBack
=============================================================================
