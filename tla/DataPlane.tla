----------------------------- MODULE DataPlane ------------------------------
(***************************************************************************)
(* The data plane: xdp_forward picks a backend for a new flow, remembers   *)
(* it in conntrack and redirects the flow's packets to it; xdp_return      *)
(* gives the backend's replies the VIP as their source.                    *)
(*                                                                         *)
(* The programs run on every CPU at once, and each map access of           *)
(* xdp_forward is an action of its own.  xdp_return reads conntrack once,  *)
(* and is one action.  Packets that do not concern the VIP, are malformed  *)
(* or go to the LB itself leave no trace (XDP_PASS) and are left out, as   *)
(* are counters and MAC addresses.  What becomes of the bytes of a packet  *)
(* is the subject of Rewrite.                                              *)
(*                                                                         *)
(* A client stands for a client address and port, a backend for an address *)
(* and port.  The pools are what PoolSpec says: Loader implements it as    *)
(* long as registrations do not overlap.                                   *)
(***************************************************************************)
EXTENDS Integers, Sequences, FiniteSets

CONSTANTS
    Protos,         \* the protocols that are balanced: "tcp" and "udp"
    Flows,          \* client-side 5-tuples: [proto, client, port]
    Backends,       \* addresses of backends
    VIPPort,        \* VIPPort[proto]: vip_tcp_port and vip_udp_port
    CPUs,
    CpuOf,          \* CpuOf[flow]: receive-side scaling keeps a flow on one CPU
    CtSize,         \* max_entries of each conntrack map (2^24)
    InsertMayFail,  \* whether bpf_map_update_elem on conntrack may fail
    MayRestart,     \* whether the control plane may be restarted
    Capacity,       \* max_entries of a pool
    Scores          \* load scores

Clients == {f.client : f \in Flows}

ASSUME ProtosAssumption == Protos \subseteq {"tcp", "udp"}
ASSUME FlowsAssumption == \A f \in Flows : f.proto \in Protos
ASSUME CpuOfAssumption == CpuOf \in [Flows -> CPUs]
ASSUME CtSizeAssumption == CtSize \in Nat \ {0}
ASSUME CapacityAssumption == Capacity \in Nat
ASSUME SwitchesAssumption == InsertMayFail \in BOOLEAN /\ MayRestart \in BOOLEAN

VARIABLES
    members,    \* members[p]: tcp_pool or udp_pool up to its active count
    fwd,        \* {tcp,udp}_conntrack_forward: slot of each known flow
    rev,        \* {tcp,udp}_conntrack_reverse: the keys present
    cpu,        \* cpu[c]: the packet CPU c is processing, and how far
    serves,     \* <<p, b, client>>: backend b has state for client (environment)
    reply       \* the last reply that left: [proto, client, source] (environment)

vars == <<members, fwd, rev, cpu, serves, reply>>
conntrack == <<fwd, rev>>
environment == <<serves, reply>>

Pool == INSTANCE PoolSpec WITH Pools <- Protos, IPs <- Backends

NoSlot == 0                         \* slots are positions in members here
Slots == 1 .. Capacity
Idle == [at |-> "idle"]
NoReply == [proto |-> "none"]
Endpoints == Protos \X Backends \X Clients      \* keys of the reverse conntrack
Kinds(f) == IF f.proto = "tcp" THEN {"syn", "data"} ELSE {"data"}

\* A packet before and after a slot is known
Fresh == [at : {"lookup", "pick"}, flow : Flows, kind : {"syn", "data"}]
Placed ==
    [at : {"insert.fwd", "insert.rev", "forward"}, flow : Flows, kind : {"syn", "data"},
     slot : Slots]

TypeOK ==
    /\ members \in [Protos -> Seq(Pool!Member)]
    /\ \A p \in Protos : Len(members[p]) <= Capacity
    /\ fwd \in [Flows -> Slots \cup {NoSlot}]
    /\ rev \subseteq Endpoints
    /\ cpu \in [CPUs -> {Idle} \cup Fresh \cup Placed]
    /\ serves \subseteq Endpoints
    /\ reply \in {NoReply} \cup
                    [proto : Protos, client : Clients,
                     source : {VIPPort[p] : p \in Protos} \cup Backends]

Init ==
    /\ Pool!Init
    /\ fwd = [f \in Flows |-> NoSlot]
    /\ rev = {}
    /\ cpu = [c \in CPUs |-> Idle]
    /\ serves = {}
    /\ reply = NoReply

\* The control plane changes the pools while packets are processed.
PoolChanges ==
    /\ Pool!Next
    /\ UNCHANGED <<conntrack, cpu, environment>>

\* No map is pinned: a restarted control plane attaches programs with maps of
\* their own, and empty.  Clients and backends go on as if nothing had happened.
Restart ==
    /\ MayRestart
    /\ \A c \in CPUs : cpu[c] = Idle
    /\ members' = [p \in Protos |-> <<>>]
    /\ fwd' = [f \in Flows |-> NoSlot]
    /\ rev' = {}
    /\ UNCHANGED <<cpu, environment>>

-----------------------------------------------------------------------------
(* xdp_forward and handle_udp_forward, on CPU c.                           *)

\* A client sends the first packet of a flow, sends it again, or sends any
\* other, for a flow that exists or not; a UDP packet has no kind.
Receive(c, f, kind) ==
    /\ cpu[c] = Idle
    /\ CpuOf[f] = c
    /\ cpu' = [cpu EXCEPT ![c] = [at |-> "lookup", flow |-> f, kind |-> kind]]
    /\ UNCHANGED <<members, conntrack, environment>>

CtHit(c) ==
    /\ cpu[c].at = "lookup"
    /\ fwd[cpu[c].flow] # NoSlot
    /\ cpu' = [cpu EXCEPT ![c] = [at |-> "forward", flow |-> @.flow, kind |-> @.kind,
                                  slot |-> fwd[@.flow]]]
    /\ UNCHANGED <<members, conntrack, environment>>

\* A TCP packet other than a SYN, of a flow that conntrack does not know
Orphan(c) == cpu[c].flow.proto = "tcp" /\ cpu[c].kind # "syn"

DropOrphan(c) ==
    /\ cpu[c].at = "lookup"
    /\ fwd[cpu[c].flow] = NoSlot
    /\ Orphan(c)
    /\ cpu' = [cpu EXCEPT ![c] = Idle]
    /\ UNCHANGED <<members, conntrack, environment>>

\* Mutant of CtMiss: a mid-flow packet picks a backend
CtMissAny(c) ==
    /\ cpu[c].at = "lookup"
    /\ fwd[cpu[c].flow] = NoSlot
    /\ cpu' = [cpu EXCEPT ![c].at = "pick"]
    /\ UNCHANGED <<members, conntrack, environment>>

\* Mutant of CtMiss: every SYN is a new flow
CtMissEverySyn(c) ==
    /\ cpu[c].at = "lookup"
    /\ fwd[cpu[c].flow] = NoSlot \/ cpu[c].kind = "syn"
    /\ ~Orphan(c)
    /\ cpu' = [cpu EXCEPT ![c].at = "pick"]
    /\ UNCHANGED <<members, conntrack, environment>>

CtMiss(c) ==
    /\ cpu[c].at = "lookup"
    /\ fwd[cpu[c].flow] = NoSlot
    /\ ~Orphan(c)
    /\ cpu' = [cpu EXCEPT ![c].at = "pick"]
    /\ UNCHANGED <<members, conntrack, environment>>

PassNoBackend(c) ==
    /\ cpu[c].at = "pick"
    /\ members[cpu[c].flow.proto] = <<>>
    /\ cpu' = [cpu EXCEPT ![c] = Idle]
    /\ UNCHANGED <<members, conntrack, environment>>

\* The less loaded of two random slots
PowerOfTwo(pool, pick1, pick2) ==
    IF pool[pick1].load_score <= pool[pick2].load_score THEN pick1 ELSE pick2

\* UDP draws one slot, TCP the better of two
PickBackend(c) ==
    /\ cpu[c].at = "pick"
    /\ LET pool == members[cpu[c].flow.proto] IN
       \E pick1, pick2 \in DOMAIN pool :
          /\ cpu[c].flow.proto = "udp" => pick1 = pick2
          /\ cpu' = [cpu EXCEPT ![c] = [at |-> "insert.fwd", flow |-> @.flow, kind |-> @.kind,
                                        slot |-> PowerOfTwo(pool, pick1, pick2)]]
    /\ UNCHANGED <<members, conntrack, environment>>

(***************************************************************************)
(* BPF_MAP_TYPE_LRU_HASH (external): an insert into a full map evicts some *)
(* other key, not always the oldest, and may still fail.                   *)
(***************************************************************************)
Evicted(keys, key) ==
    IF key \in keys \/ Cardinality(keys) < CtSize THEN {{}} ELSE {{k} : k \in keys}

InsertForward(c) ==
    /\ cpu[c].at = "insert.fwd"
    /\ LET f == cpu[c].flow
           known == {g \in Flows : g.proto = f.proto /\ fwd[g] # NoSlot}
       IN  \/ \E gone \in Evicted(known, f) :
                 fwd' = [g \in Flows |-> IF g = f THEN cpu[c].slot
                                         ELSE IF g \in gone THEN NoSlot ELSE fwd[g]]
           \/ InsertMayFail /\ fwd' = fwd
    /\ cpu' = [cpu EXCEPT ![c].at = "insert.rev"]
    /\ UNCHANGED <<members, rev, environment>>

\* Mutant of Endpoint: source and destination of the reverse key swapped
SwappedEndpoint(c) ==
    LET f == cpu[c].flow IN <<f.proto, f.client, members[f.proto][cpu[c].slot].ip>>

\* The backend's address in the slot, and the client, as its replies will show them
Endpoint(c) ==
    LET f == cpu[c].flow IN <<f.proto, members[f.proto][cpu[c].slot].ip, f.client>>

\* Mutant of InsertReverse: handle_udp_forward inserts into the TCP map
InsertReverseTCP(c) ==
    /\ cpu[c].at = "insert.rev"
    /\ rev' = rev \cup {<<"tcp", Endpoint(c)[2], Endpoint(c)[3]>>}
    /\ cpu' = [cpu EXCEPT ![c].at = "forward"]
    /\ UNCHANGED <<members, fwd, environment>>

InsertReverse(c) ==
    /\ cpu[c].at = "insert.rev"
    /\ LET known == {e \in rev : e[1] = cpu[c].flow.proto}
       IN  \/ \E gone \in Evicted(known, Endpoint(c)) : rev' = (rev \ gone) \cup {Endpoint(c)}
           \/ InsertMayFail /\ rev' = rev
    /\ cpu' = [cpu EXCEPT ![c].at = "forward"]
    /\ UNCHANGED <<members, fwd, environment>>

\* Rewrites the destination and redirects: a SYN, or a datagram, makes the
\* backend that gets it serve the client
Forward(c) ==
    /\ cpu[c].at = "forward"
    /\ serves' = IF Orphan(c) THEN serves ELSE serves \cup {Endpoint(c)}
    /\ cpu' = [cpu EXCEPT ![c] = Idle]
    /\ UNCHANGED <<members, conntrack, reply>>

-----------------------------------------------------------------------------
(* xdp_return and handle_udp_return: a backend replies to a client.        *)

\* Mutant of RewriteReply: handle_udp_return uses vip_tcp_port
RewriteReplyTCPPort(p, b, client) ==
    /\ <<p, b, client>> \in serves
    /\ <<p, b, client>> \in rev
    /\ reply' = [proto |-> p, client |-> client, source |-> VIPPort["tcp"]]
    /\ UNCHANGED <<members, conntrack, cpu, serves>>

\* The reply's source becomes the VIP and its configured port
RewriteReply(p, b, client) ==
    /\ <<p, b, client>> \in serves
    /\ <<p, b, client>> \in rev
    /\ reply' = [proto |-> p, client |-> client, source |-> VIPPort[p]]
    /\ UNCHANGED <<members, conntrack, cpu, serves>>

\* Without a conntrack entry the kernel gets the reply as it is
PassReply(p, b, client) ==
    /\ <<p, b, client>> \in serves
    /\ <<p, b, client>> \notin rev
    /\ reply' = [proto |-> p, client |-> client, source |-> b]
    /\ UNCHANGED <<members, conntrack, cpu, serves>>

-----------------------------------------------------------------------------
XdpForward(c) ==
    \/ \E f \in Flows : \E kind \in Kinds(f) : Receive(c, f, kind)
    \/ CtHit(c)
    \/ DropOrphan(c)
    \/ CtMiss(c)
    \/ PassNoBackend(c)
    \/ PickBackend(c)
    \/ InsertForward(c)
    \/ InsertReverse(c)
    \/ Forward(c)

XdpReturn ==
    \E p \in Protos, b \in Backends, client \in Clients :
        RewriteReply(p, b, client) \/ PassReply(p, b, client)

Next ==
    \/ PoolChanges
    \/ Restart
    \/ \E c \in CPUs : XdpForward(c)
    \/ XdpReturn

Spec == Init /\ [][Next]_vars

-----------------------------------------------------------------------------
(* Properties that survive evictions, failed inserts and restarts.         *)

(***************************************************************************)
(* A TCP packet in mid-flow is redirected only to a backend that has got a *)
(* SYN from the client: xdp_forward.c:327 drops orphans because a backend  *)
(* without TCP state for the flow would reset the connection.              *)
(***************************************************************************)
NoStateNoForward ==
    [][\A c \in CPUs : Forward(c) /\ Orphan(c) => Endpoint(c) \in serves]_vars

(***************************************************************************)
(* While conntrack remembers a flow, the flow stays on its backend, also   *)
(* when the client repeats its SYN or a better backend turns up.           *)
(***************************************************************************)
FlowKeepsBackend ==
    [][\A f \in Flows :
           fwd[f] # NoSlot /\ fwd'[f] # NoSlot =>
               members[f.proto][fwd[f]].ip = members'[f.proto][fwd'[f]].ip]_vars

-----------------------------------------------------------------------------
(* Properties without evictions (CtSize is not reached), failed inserts    *)
(* and restarts.                                                           *)

(***************************************************************************)
(* Every backend that serves a client has its reverse entry, so no reply   *)
(* reaches a client with the backend's own address: the entry is inserted  *)
(* before the first packet leaves, and under the very key of the reply.    *)
(***************************************************************************)
RepliesAreRewritten == serves \subseteq rev

(***************************************************************************)
(* A client gets replies only from an address and port it sent packets to. *)
(***************************************************************************)
RepliesComeFromVIP ==
    reply # NoReply =>
        [proto |-> reply.proto, client |-> reply.client, port |-> reply.source] \in Flows

(***************************************************************************)
(* A flow is served by one backend, however often its SYN is repeated.     *)
(***************************************************************************)
OneBackendPerFlow ==
    \A f \in Flows : Cardinality({b \in Backends : <<f.proto, b, f.client>> \in serves}) <= 1

-----------------------------------------------------------------------------
(***************************************************************************)
(* xdp_forward.c:93: the keys of the forward conntrack name the VIP's own  *)
(* port.  No line of xdp_forward compares the port a packet was sent to    *)
(* with it, and the reply to such a flow comes from another port.          *)
(***************************************************************************)
ForwardKeysNameVIPPort == \A f \in Flows : fwd[f] # NoSlot => f.port = VIPPort[f.proto]
=============================================================================
