------------------------------- MODULE System -------------------------------
(***************************************************************************)
(* The load balancer as a whole: the control plane's goroutines write the  *)
(* BPF pool maps while xdp_forward reads them on every CPU, with no lock   *)
(* between the two.  Each system call of the loader and each map access of *)
(* the XDP program is a step: the active count, the load score of either   *)
(* candidate, the address for the reverse key and the address to forward   *)
(* to are read at different moments, and the maps may change in between.   *)
(*                                                                         *)
(* The steps are those of Loader and of DataPlane, except that picking a   *)
(* backend, one action in DataPlane, is taken apart here.  A restart is    *)
(* left to DataPlane.  Slots of packets and of conntrack count from 1 as   *)
(* in DataPlane, those of the pool maps from 0 as in Loader.               *)
(***************************************************************************)
EXTENDS Loader, FiniteSets

CONSTANTS Flows, VIPPort, CPUs, CpuOf, CtSize, InsertMayFail    \* see DataPlane

ASSUME PoolsAssumption == Pools \subseteq {"tcp", "udp"}
ASSUME ScoresAssumption == Scores \subseteq Nat
ASSUME FlowsAssumption == \A f \in Flows : f.proto \in Pools
ASSUME CpuOfAssumption == CpuOf \in [Flows -> CPUs]
ASSUME CtSizeAssumption == CtSize \in Nat \ {0}
ASSUME InsertMayFailAssumption == InsertMayFail \in BOOLEAN

VARIABLES
    fwd, rev, cpu, serves, reply,   \* see DataPlane
    draw        \* draw[c]: what CPU c has read while it picks a backend

packets == <<fwd, rev, cpu, serves, reply>>
sysvars == <<vars, packets, draw>>

(***************************************************************************)
(* The XDP programs see the arrays as they are, whatever the active count  *)
(* says; a reader of the pools relies on what is below the count.          *)
(***************************************************************************)
PoolArrays == [p \in Pools |-> [i \in 1 .. Capacity |-> poolMap[p][i - 1]]]

Xdp == INSTANCE DataPlane WITH
    Protos <- Pools, members <- PoolArrays, Backends <- IPs, MayRestart <- FALSE
AbstractDataPlane == INSTANCE DataPlane WITH
    Protos <- Pools, members <- ActiveMembers, Backends <- IPs, MayRestart <- FALSE

NoDraw == [at |-> "none"]
NotRead == -1
Draw == [pick : [1 .. 2 -> Slots], score : [1 .. 2 -> Scores \cup {0, NotRead}]]

SystemTypeOK ==
    /\ TypeOK
    /\ fwd \in [Flows -> Xdp!Slots \cup {Xdp!NoSlot}]
    /\ rev \subseteq Xdp!Endpoints
    /\ cpu \in [CPUs -> {Xdp!Idle} \cup Xdp!Fresh \cup Xdp!Placed]
    /\ serves \subseteq Xdp!Endpoints
    /\ reply \in {Xdp!NoReply} \cup
                    [proto : Pools, client : Xdp!Clients,
                     source : {VIPPort[p] : p \in Pools} \cup IPs]
    /\ draw \in [CPUs -> {NoDraw} \cup Draw]

SystemInit ==
    /\ Init
    /\ fwd = [f \in Flows |-> Xdp!NoSlot]
    /\ rev = {}
    /\ cpu = [c \in CPUs |-> Xdp!Idle]
    /\ serves = {}
    /\ reply = Xdp!NoReply
    /\ draw = [c \in CPUs |-> NoDraw]

-----------------------------------------------------------------------------
(* xdp_forward, and handle_udp_forward, pick a backend for a new flow.     *)

Picking(c) == cpu[c].at = "pick"
ProtoOf(c) == cpu[c].flow.proto

\* *active == 0: the packet is left to the kernel
FindNoBackend(c) ==
    /\ Picking(c) /\ draw[c] = NoDraw
    /\ poolMeta[ProtoOf(c)] = 0
    /\ cpu' = [cpu EXCEPT ![c] = Xdp!Idle]
    /\ UNCHANGED <<vars, fwd, rev, serves, reply, draw>>

\* Mutant of DrawSlots: the remainder may be the count itself
DrawSlotsInclusive(c) ==
    /\ Picking(c) /\ draw[c] = NoDraw
    /\ poolMeta[ProtoOf(c)] # 0
    /\ \E pick \in [1 .. 2 -> (0 .. poolMeta[ProtoOf(c)]) \cap Slots] :
          /\ ProtoOf(c) = "udp" => pick[1] = pick[2]
          /\ draw' = [draw EXCEPT ![c] = [pick |-> pick, score |-> [k \in 1 .. 2 |-> NotRead]]]
    /\ UNCHANGED <<vars, packets>>

\* active_count = *active; bpf_get_prandom_u32() % active_count, twice for TCP.  The
\* check before it (FindNoBackend) reads *active too; both reads are one here, because a
\* count that is not 0 never is again, even if it goes back (LoaderProofs!CountStaysPositive)
DrawSlots(c) ==
    /\ Picking(c) /\ draw[c] = NoDraw
    /\ \E pick \in [1 .. 2 -> 0 .. poolMeta[ProtoOf(c)] - 1] :
          /\ ProtoOf(c) = "udp" => pick[1] = pick[2]
          /\ draw' = [draw EXCEPT ![c] = [pick |-> pick, score |-> [k \in 1 .. 2 |-> NotRead]]]
    /\ UNCHANGED <<vars, packets>>

\* be1->load_score and be2->load_score, in the order the compiler chooses
ReadScore(c, k) ==
    /\ Picking(c) /\ draw[c] # NoDraw
    /\ ProtoOf(c) = "tcp"
    /\ draw[c].score[k] = NotRead
    /\ draw' = [draw EXCEPT ![c].score[k] = poolMap[ProtoOf(c)][draw[c].pick[k]].load_score]
    /\ UNCHANGED <<vars, packets>>

\* slot = be1->load_score <= be2->load_score ? pick1 : pick2; for UDP the only draw
ChooseSlot(c) ==
    /\ Picking(c) /\ draw[c] # NoDraw
    /\ ProtoOf(c) = "tcp" => \A k \in 1 .. 2 : draw[c].score[k] # NotRead
    /\ LET chosen == IF draw[c].score[1] <= draw[c].score[2] THEN 1 ELSE 2 IN
       cpu' = [cpu EXCEPT ![c] = [at |-> "insert.fwd", flow |-> @.flow, kind |-> @.kind,
                                  slot |-> draw[c].pick[chosen] + 1]]
    /\ draw' = [draw EXCEPT ![c] = NoDraw]
    /\ UNCHANGED <<vars, fwd, rev, serves, reply>>

PickBackend(c) ==
    \/ FindNoBackend(c)
    \/ DrawSlots(c)
    \/ \E k \in 1 .. 2 : ReadScore(c, k)
    \/ ChooseSlot(c)

-----------------------------------------------------------------------------
\* The other steps of the programs are those of DataPlane, on the arrays.
Forwarding(c) ==
    /\ UNCHANGED <<vars, draw>>
    /\ \/ \E f \in Flows : \E kind \in Xdp!Kinds(f) : Xdp!Receive(c, f, kind)
       \/ Xdp!CtHit(c)
       \/ Xdp!DropOrphan(c)
       \/ Xdp!CtMiss(c)
       \/ Xdp!InsertForward(c)
       \/ Xdp!InsertReverse(c)
       \/ Xdp!Forward(c)

Returning == UNCHANGED <<vars, draw>> /\ Xdp!XdpReturn

Packets == (\E c \in CPUs : PickBackend(c) \/ Forwarding(c)) \/ Returning

\* Any number of goroutines call the loader at any moment.
SystemNext == (Next /\ UNCHANGED <<packets, draw>>) \/ Packets
SystemSpec == SystemInit /\ [][SystemNext]_sysvars

\* Registrations in a pool do not overlap.
SpacedSystemNext == (SpacedNext /\ UNCHANGED <<packets, draw>>) \/ Packets
SpacedSystemSpec == SystemInit /\ [][SpacedSystemNext]_sysvars

-----------------------------------------------------------------------------
(* Properties under any interleaving of goroutines and CPUs (SystemSpec).  *)

SlotKnown(c) == cpu[c].at \in {"insert.fwd", "insert.rev", "forward"}

(***************************************************************************)
(* A packet is never sent to the all-zero entry of an array: every slot    *)
(* that a packet or a flow in conntrack holds has had a backend ever since *)
(* the slot was drawn, also while concurrent SetBackend calls take back an *)
(* active count that xdp_forward has read.  xdp_forward.c:393 looks the    *)
(* slot up and tests only that it is within the array.                     *)
(***************************************************************************)
SlotsInUsePopulated ==
    /\ \A f \in Flows : fwd[f] # Xdp!NoSlot => Populated(f.proto, fwd[f] - 1)
    /\ \A c \in CPUs : SlotKnown(c) => Populated(ProtoOf(c), cpu[c].slot - 1)

-----------------------------------------------------------------------------
(* Properties when registrations do not overlap (SpacedSystemSpec).        *)

(***************************************************************************)
(* The address in a slot does not change while a packet holds the slot:    *)
(* the reverse key (xdp_forward.c:377), the new destination and the two    *)
(* checksums that account for it (:402-410) come from separate reads of    *)
(* the entry, and name one and the same backend.                           *)
(***************************************************************************)
AddressStaysWhileHeld ==
    [][\A c \in CPUs : SlotKnown(c) =>
           LET s == cpu[c].slot - 1 IN
           poolMap'[ProtoOf(c)][s].ip = poolMap[ProtoOf(c)][s].ip]_sysvars

(***************************************************************************)
(* The load balancer implements DataPlane, where a backend is picked in    *)
(* one step from an append-only list of members: that the count, the       *)
(* scores and the address are read one after the other, from maps that     *)
(* are being written, makes no difference to what becomes of a flow.       *)
(***************************************************************************)
ImplementsDataPlane == AbstractDataPlane!Spec
=============================================================================
