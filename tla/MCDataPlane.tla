---------------------------- MODULE MCDataPlane -----------------------------
(* DataPlane with small sets for TLC. *)
EXTENDS DataPlane, TLC

CONSTANTS c1, c2, b1, b2, cpu1, cpu2

Flow(p, client, port) == [proto |-> p, client |-> client, port |-> port]

MCProtos == {"tcp", "udp"}
MCBackends == {b1, b2}
MCCPUs == {cpu1, cpu2}
MCVIPPort == [p \in Protos |-> IF p = "tcp" THEN 5555 ELSE 7777]

\* Two TCP clients on different CPUs
TwoTCPFlows == {Flow("tcp", c1, 5555), Flow("tcp", c2, 5555)}

\* A TCP and a UDP flow of the same client
BothProtos == {Flow("tcp", c1, 5555), Flow("udp", c1, 7777)}

\* A client that also tries a port that is not the VIP's
TwoPorts == {Flow("tcp", c1, 5555), Flow("tcp", c1, 22)}

\* Backends are interchangeable
BackendSymmetry == Permutations(MCBackends)

\* Receive-side scaling spreads the flows over the CPUs
MCCpuOf ==
    [f \in Flows |-> IF f.client = c1 /\ f.proto = "tcp" THEN cpu1 ELSE cpu2]
=============================================================================
