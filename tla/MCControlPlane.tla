--------------------------- MODULE MCControlPlane ---------------------------
(* ControlPlane with small sets for TLC. *)
EXTENDS ControlPlane, TLC

CONSTANTS ip1, ip2, h1, h2

OneIP == {ip1}
TwoIPs == {ip1, ip2}
OneHandler == {h1}
TwoHandlers == {h1, h2}

\* Backends are interchangeable in every safety property, and so are handlers.
MCSymmetry == Permutations(IPs) \cup Permutations(Handlers)
=============================================================================
