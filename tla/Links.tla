-------------------------------- MODULE Links --------------------------------
(* What two ends of HidraNet share: the handshakes that gave them their keys,  *)
(* and the streams over the circuits built with them.                          *)
EXTENDS CircuitCells, NoiseHandshake

LinksSpec == CcSpec /\ NhSpec

\* A link and a circuit carry what was sent between the two ends that agreed on
\* it: the handshake pairs them, and the cells of a stream come out in order.
LinksSound == HandshakeAgrees /\ StreamKept
=============================================================================
