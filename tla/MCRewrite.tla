----------------------------- MODULE MCRewrite ------------------------------
(* Rewrite with bytes of four values: words of 16. *)
EXTENDS Rewrite

MCVIP == <<2, 14>>
MCVIPPort == [p \in {"tcp", "udp"} |-> IF p = "tcp" THEN 6 ELSE 7]
MCPayloads == 0 .. 15
MCBridgeIP == <<4, 1>>
MCBackends == {[ip |-> <<4, 9>>, port |-> 9], [ip |-> <<15, 2>>, port |-> 14]}
MCClients == {[ip |-> <<8, 3>>, port |-> 12]}
=============================================================================
