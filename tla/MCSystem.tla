------------------------------ MODULE MCSystem ------------------------------
(* System with small sets for TLC. *)
EXTENDS System, TLC

CONSTANTS c1, ip1, ip2, cpu1, t1, t2, t3

Flow(p, client, port) == [proto |-> p, client |-> client, port |-> port]

TCPOnly == {"tcp"}
UDPOnly == {"udp"}
OneIP == {ip1}
TwoIPs == {ip1, ip2}
MCVIPPort == [p \in Pools |-> IF p = "tcp" THEN 5555 ELSE 7777]

OneTCPFlow == {Flow("tcp", c1, 5555)}
OneUDPFlow == {Flow("udp", c1, 7777)}
TwoThreads == {t1, t2}
ThreeThreads == {t1, t2, t3}
OneCPU == {cpu1}
AllOnOneCPU == [f \in Flows |-> cpu1]

\* Goroutines and backends are interchangeable
MCSymmetry == Permutations(Threads) \cup Permutations(IPs)
=============================================================================
