------------------------------ MODULE Rewrite -------------------------------
(***************************************************************************)
(* What xdp_forward and xdp_return do to the bytes of a packet: addresses, *)
(* ports and checksums, of one request and its reply after another.        *)
(*                                                                         *)
(* A word is two bytes and a byte has Byte values: 256 on the machine, few *)
(* in TLC.  The programs run on a little-endian machine, on fields that    *)
(* are in network byte order: a packet below is what they load, and what   *)
(* the other machines see of it are its words with the bytes swapped.      *)
(*                                                                         *)
(* Conntrack is cut down to the reverse entry of the flow that was         *)
(* forwarded last: DataPlane has the rest.  MAC addresses are left out.    *)
(***************************************************************************)
EXTENDS Integers

CONSTANTS
    Byte,       \* number of values of a byte
    VIP,        \* the virtual address, as words on the wire <<high, low>>
    VIPPort,    \* VIPPort[proto]: vip_tcp_port and vip_udp_port
    BridgeIP,   \* lb_bridge_ip: the load balancer's address among the backends
    Backends,   \* [ip, port] of the backends, as on the wire
    Clients,    \* [ip, port] of the clients, as on the wire
    Payloads    \* words that stand for the rest of a header or a segment

Word == Byte * Byte
Words == 0 .. Word - 1
Longs == 0 .. Word * Word - 1
Ends == [ip : Words \X Words, port : Words]

ASSUME ByteAssumption == Byte \in Nat /\ Byte >= 3
ASSUME VIPAssumption == VIP \in Words \X Words /\ VIPPort \in [{"tcp", "udp"} -> Words]
ASSUME BridgeAssumption == BridgeIP \in Words \X Words
ASSUME EndsAssumption == Backends \subseteq Ends /\ Clients \subseteq Ends
ASSUME PayloadsAssumption == Payloads \subseteq Words

Protos == {"tcp", "udp", "icmp"}

-----------------------------------------------------------------------------
(* Byte order: bpf_htons, and loads and stores of fields of a packet.      *)

Swap(word) == (word % Byte) * Byte + (word \div Byte)
Low(long) == long % Word
High(long) == long \div Word
Load(address) == Swap(address[2]) * Word + Swap(address[1])
OnWire(long) == <<Swap(Low(long)), Swap(High(long))>>

-----------------------------------------------------------------------------
(* Incremental checksums (RFC 1624).                                       *)

Complement(word) == Word - 1 - word
FoldOnce(sum) == (sum % Word) + (sum \div Word)

\* while (sum >> 16), for a 32-bit sum
FoldAll[sum \in Longs] == IF sum \div Word = 0 THEN sum ELSE FoldAll[FoldOnce(sum)]

\* Mutant of FoldTwice: one fold may leave a carry
FoldWithoutCarry(sum) == FoldOnce(sum)

\* The two folds of xdp_return, without a loop
FoldTwice(sum) == FoldOnce(FoldOnce(sum))

\* What both programs add up for a 16-bit and for a 32-bit replacement
Sum16(check, old, new) == Complement(check) + Complement(old) + new
Sum32(check, old, new) ==
    Complement(check) + Complement(Low(old)) + Complement(High(old)) + Low(new) + High(new)

csum_replace_u16(check, old, new) == Complement(FoldAll[Sum16(check, old, new)])
csum_replace_u32(check, old, new) == Complement(FoldAll[Sum32(check, old, new)])

\* The result is cut to a word
csum_replace16(check, old, new) == Complement(FoldTwice(Sum16(check, old, new)) % Word)
csum_replace32(check, old, new) == Complement(FoldTwice(Sum32(check, old, new)) % Word)

\* UDP has 0 for "no checksum", and all ones for a sum that comes out as 0
UdpCheck(old, new) ==
    IF old = 0 THEN 0 ELSE IF new = 0 THEN Word - 1 ELSE new

-----------------------------------------------------------------------------
VARIABLES
    packet,     \* the packet on its way, as the programs load it
    place,      \* where it is: "client", "ens5", "backend", "veth", "kernel", "none"
    flow        \* the entry of the reverse conntrack

vars == <<packet, place, flow>>

NoPacket == [proto |-> "none"]
NoFlow == [proto |-> "none"]

Packet ==
    [proto : Protos, saddr : Longs, daddr : Longs, source : Words, dest : Words,
     ip_check : Words, check : Words, rest : Payloads]

TypeOK ==
    /\ packet \in Packet \cup {NoPacket}
    /\ place \in {"client", "ens5", "backend", "veth", "kernel", "none"}
    /\ flow \in {NoFlow} \cup
                   [proto : {"tcp", "udp"}, src_ip : Longs, dst_ip : Longs,
                    src_port : Words, dst_port : Words]

Init == packet = NoPacket /\ place = "none" /\ flow = NoFlow

\* A packet of the network: from and to are [ip, port], and either checksum
\* may be wrong.  For TCP and UDP the programs look at the same fields.
Packets(proto, from, to) ==
    [proto : {proto}, saddr : {Load(from.ip)}, daddr : {Load(to.ip)},
     source : {Swap(from.port)}, dest : {Swap(to.port)},
     ip_check : Words, check : Words, rest : Payloads]

-----------------------------------------------------------------------------
(* xdp_forward and handle_udp_forward, at ens5.                            *)

ClientSends(proto, from, to) ==
    /\ place = "none"
    /\ packet' \in Packets(proto, from, to)
    /\ place' = "ens5"
    /\ UNCHANGED flow

\* Mutant of ForVIP: every other protocol is taken for TCP
ForVIPAnyProtocol == packet.daddr = Load(VIP)

ForVIP == packet.daddr = Load(VIP) /\ packet.proto \in {"tcp", "udp"}

PassForward ==
    /\ place = "ens5"
    /\ ~ForVIP
    /\ place' = "kernel"
    /\ UNCHANGED <<packet, flow>>

\* The entry SetBackend wrote for a backend
PoolEntry(b) == [ip |-> Load(b.ip), port |-> Swap(b.port)]

\* Mutant of ForwardedCheck: the pseudo-header's address is forgotten
ForwardedCheckOfPort(backend) ==
    LET new == csum_replace_u16(packet.check, packet.dest, backend.port)
    IN  IF packet.proto = "udp" THEN UdpCheck(packet.check, new) ELSE new

ForwardedCheck(backend) ==
    LET new == csum_replace_u16(
                   csum_replace_u32(packet.check, packet.daddr, backend.ip),
                   packet.dest, backend.port)
    IN  IF packet.proto = "udp" THEN UdpCheck(packet.check, new) ELSE new

\* Any backend may be the flow's; the reverse entry is made before the rewriting
Forward(backend) ==
    /\ place = "ens5"
    /\ ForVIP
    /\ flow' = [proto |-> packet.proto, src_ip |-> backend.ip, dst_ip |-> packet.saddr,
                src_port |-> backend.port, dst_port |-> packet.source]
    /\ packet' = [packet EXCEPT !.daddr = backend.ip,
                                !.dest = backend.port,
                                !.ip_check = csum_replace_u32(@, packet.daddr, backend.ip),
                                !.check = ForwardedCheck(backend)]
    /\ place' = "backend"

-----------------------------------------------------------------------------
(* xdp_return and handle_udp_return, at the backends' veth.                *)

BackendSends(proto, from, to) ==
    /\ place = "none"
    /\ packet' \in Packets(proto, from, to)
    /\ place' = "veth"
    /\ UNCHANGED flow

ReverseKey ==
    [proto |-> packet.proto, src_ip |-> packet.saddr, dst_ip |-> packet.daddr,
     src_port |-> packet.source, dst_port |-> packet.dest]

\* Heartbeats and answers to polls go to the load balancer itself
ForClient == packet.daddr # Load(BridgeIP) /\ packet.proto \in {"tcp", "udp"}

PassReturn ==
    /\ place = "veth"
    /\ ~(ForClient /\ flow = ReverseKey)
    /\ place' = "kernel"
    /\ UNCHANGED <<packet, flow>>

\* Mutant of NewSource: the port without bpf_htons
NewSourceHostOrder == VIPPort[packet.proto]

NewSource == Swap(VIPPort[packet.proto])

\* Mutant of ReturnedCheck: UDP's sum is updated even when there is none
ReturnedCheckAlways ==
    LET new == csum_replace16(
                   csum_replace32(packet.check, packet.saddr, Load(VIP)),
                   packet.source, NewSource)
    IN  IF new = 0 THEN Word - 1 ELSE new

ReturnedCheck ==
    LET new == csum_replace16(
                   csum_replace32(packet.check, packet.saddr, Load(VIP)),
                   packet.source, NewSource)
    IN  IF packet.proto = "udp" THEN UdpCheck(packet.check, new) ELSE new

Return ==
    /\ place = "veth"
    /\ ForClient /\ flow = ReverseKey
    /\ packet' = [packet EXCEPT !.ip_check = csum_replace32(@, packet.saddr, Load(VIP)),
                                !.check = ReturnedCheck,
                                !.saddr = Load(VIP),
                                !.source = NewSource]
    /\ place' = "client"
    /\ UNCHANGED flow

-----------------------------------------------------------------------------
\* The machine at the end takes the packet, or drops it
Arrive ==
    /\ place \in {"client", "backend", "kernel"}
    /\ packet' = NoPacket
    /\ place' = "none"
    /\ UNCHANGED flow

Next ==
    \/ \E proto \in Protos, from \in Clients :
           \E to \in {[ip |-> VIP, port |-> VIPPort["tcp"]],
                      [ip |-> VIP, port |-> VIPPort["udp"]]} \cup Backends :
              ClientSends(proto, from, to)
    \/ PassForward
    \/ \E b \in Backends : Forward(PoolEntry(b))
    \/ \E proto \in Protos, from \in Backends :
           \E to \in Clients \cup {[ip |-> BridgeIP, port |-> c.port] : c \in Clients} :
              BackendSends(proto, from, to)
    \/ PassReturn
    \/ Return
    \/ Arrive

Spec == Init /\ [][Next]_vars

-----------------------------------------------------------------------------
(* What the machines at both ends see: words on the wire.                  *)

Total(address) == address[1] + address[2]

\* Words that sum up to all ones, with the checksum among them
Verifies(sum) == FoldAll[sum] = Word - 1

\* The rest of the header and of the segment is never all zero: it holds the
\* version and the protocol
Header(p) == Total(OnWire(p.saddr)) + Total(OnWire(p.daddr)) + 1 + p.rest
HeaderVerifies(p) == Verifies(Header(p) + Swap(p.ip_check))
Segment(p) == Header(p) + Swap(p.source) + Swap(p.dest)
SegmentVerifies(p) == Verifies(Segment(p) + Swap(p.check))

Unchecked(p) == p.proto = "udp" /\ p.check = 0

\* A step of the load balancer on the packet
Rewrites == place \in {"ens5", "veth"} /\ place' # "kernel"

(***************************************************************************)
(* The next machine finds the IP header right after a rewriting, forward   *)
(* (xdp_forward.c:407) or back (xdp_return.c:349), exactly if it was right *)
(* before: no good packet is lost, and no corruption is papered over.      *)
(***************************************************************************)
HeaderKeepsVerdict ==
    [][Rewrites => (HeaderVerifies(packet) <=> HeaderVerifies(packet'))]_vars

(***************************************************************************)
(* The same for the TCP or UDP checksum, which covers both addresses, both *)
(* ports and the payload (xdp_forward.c:235, 410; xdp_return.c:222, 352),  *)
(* unless the datagram has none.                                           *)
(***************************************************************************)
SegmentKeepsVerdict ==
    [][Rewrites /\ ~Unchecked(packet) =>
           (SegmentVerifies(packet) <=> SegmentVerifies(packet'))]_vars

(***************************************************************************)
(* A datagram without a checksum does not get one, which would be wrong,   *)
(* and one with a checksum does not lose it, which would hide corruption:  *)
(* xdp_forward.c:234-240 and xdp_return.c:222-226.                         *)
(***************************************************************************)
UncheckedStaysUnchecked == [][Rewrites => (Unchecked(packet) <=> Unchecked(packet'))]_vars

(***************************************************************************)
(* On the wire, a forwarded packet carries a backend's address and port,   *)
(* and a returned one comes from the VIP's, in network byte order, though  *)
(* ports are stored swapped in pools, and unswapped in vip_*_port.         *)
(***************************************************************************)
WireNamesBothEnds ==
    /\ place = "backend" =>
          \E b \in Backends : OnWire(packet.daddr) = b.ip /\ Swap(packet.dest) = b.port
    /\ place = "client" =>
          /\ OnWire(packet.saddr) = VIP /\ Swap(packet.source) = VIPPort[packet.proto]
          /\ \E c \in Clients : OnWire(packet.daddr) = c.ip /\ Swap(packet.dest) = c.port
=============================================================================
