-------------------------- MODULE DataPlaneProofs ---------------------------
(***************************************************************************)
(* Proofs about DataPlane, for every set of flows, backends and CPUs, for  *)
(* pools and conntrack maps of any size, with evictions, failed inserts    *)
(* and restarts where the constants allow them.                            *)
(***************************************************************************)
EXTENDS DataPlane, FiniteSetTheorems, TLAPS

-----------------------------------------------------------------------------
(* Type correctness.                                                       *)

(* How far a packet is tells which fields its CPU keeps. *)
LEMMA PacketRecord ==
    ASSUME TypeOK, NEW c \in CPUs
    PROVE  /\ cpu[c].at \in {"lookup", "pick"} => cpu[c] \in Fresh
           /\ cpu[c].at \in {"insert.fwd", "insert.rev", "forward"} => cpu[c] \in Placed
           /\ cpu[c].at = "idle" <=> cpu[c] = Idle
  BY DEF TypeOK, Idle, Fresh, Placed

(* A pool only grows, and its members keep their addresses. *)
LEMMA PoolGrows ==
    ASSUME TypeOK, Pool!Next
    PROVE  /\ members' \in [Protos -> Seq(Pool!Member)]
           /\ \A p \in Protos : Len(members'[p]) <= Capacity
           /\ \A p \in Protos : \A i \in DOMAIN members[p] :
                 i \in DOMAIN members'[p] /\ members'[p][i].ip = members[p][i].ip
  <1>1. \A p \in Protos : /\ members[p] \in Seq(Pool!Member)
                          /\ Len(members[p]) <= Capacity
    BY DEF TypeOK
  <1>2. PICK p \in Protos :
            \/ \E m \in Pool!Member : Pool!Add(p, m)
            \/ \E i \in DOMAIN members[p], load \in Scores : Pool!SetScore(p, i, load)
    BY DEF Pool!Next
  <1>3. CASE \E m \in Pool!Member : Pool!Add(p, m)
    <2>1. PICK m \in Pool!Member : Pool!Add(p, m)
      BY <1>3
    <2>2. /\ Len(members[p]) < Capacity
          /\ members' = [members EXCEPT ![p] = Append(members[p], m)]
      BY <2>1 DEF Pool!Add
    <2>3. /\ Append(members[p], m) \in Seq(Pool!Member)
          /\ Len(Append(members[p], m)) = Len(members[p]) + 1
          /\ \A i \in DOMAIN members[p] :
                i \in DOMAIN Append(members[p], m) /\ Append(members[p], m)[i] = members[p][i]
      BY <1>1
    <2>4. Len(members[p]) + 1 <= Capacity
      BY <1>1, <2>2, CapacityAssumption
    <2> QED
      BY <1>1, <2>2, <2>3, <2>4 DEF TypeOK
  <1>4. CASE \E i \in DOMAIN members[p], load \in Scores : Pool!SetScore(p, i, load)
    <2>1. PICK i \in DOMAIN members[p], load \in Scores : Pool!SetScore(p, i, load)
      BY <1>4
    <2> DEFINE changed == [members[p][i] EXCEPT !.load_score = load]
    <2>6. members[p][i] \in Pool!Member
      BY <1>1, <2>1
    <2>2. changed \in Pool!Member /\ changed.ip = members[p][i].ip
      BY <2>1, <2>6 DEF Pool!Member
    <2>3. members' = [members EXCEPT ![p] = [members[p] EXCEPT ![i] = changed]]
      BY <2>1 DEF Pool!SetScore
    <2> HIDE DEF changed
    <2> DEFINE pool == [members[p] EXCEPT ![i] = changed]
    <2>4. /\ pool \in Seq(Pool!Member) /\ Len(pool) = Len(members[p])
          /\ DOMAIN pool = DOMAIN members[p]
          /\ \A j \in DOMAIN members[p] : pool[j].ip = members[p][j].ip
      BY <1>1, <2>1, <2>2
    <2>5. members' = [members EXCEPT ![p] = pool]
      BY <2>3
    <2> HIDE DEF pool
    <2> QED
      BY <1>1, <2>4, <2>5 DEF TypeOK
  <1> QED
    BY <1>2, <1>3, <1>4

(* An insert forgets other flows at most, and may do nothing. *)
LEMMA InsertedForward ==
    ASSUME TypeOK, NEW c \in CPUs, InsertForward(c)
    PROVE  LET f == cpu[c].flow IN
           /\ cpu[c] \in Placed
           /\ fwd' \in [Flows -> Slots \cup {NoSlot}]
           /\ fwd'[f] \in {cpu[c].slot, fwd[f]}
           /\ \A g \in Flows \ {f} : fwd'[g] \in {NoSlot, fwd[g]}
  <1> DEFINE f == cpu[c].flow
             known == {g \in Flows : g.proto = f.proto /\ fwd[g] # NoSlot}
  <1>1. cpu[c] \in Placed
    BY PacketRecord DEF InsertForward
  <1>2. f \in Flows /\ cpu[c].slot \in Slots
    BY <1>1 DEF Placed
  <1>3. CASE InsertMayFail /\ fwd' = fwd
    BY <1>1, <1>2, <1>3 DEF TypeOK
  <1>4. CASE \E gone \in Evicted(known, f) :
                fwd' = [g \in Flows |-> IF g = f THEN cpu[c].slot
                                        ELSE IF g \in gone THEN NoSlot ELSE fwd[g]]
    BY <1>1, <1>2, <1>4 DEF TypeOK
  <1> QED
    BY <1>3, <1>4 DEF InsertForward

(* The reverse key of a packet with a slot is one of Endpoints. *)
LEMMA EndpointType ==
    ASSUME TypeOK, NEW c \in CPUs, cpu[c] \in Placed,
           cpu[c].slot \in DOMAIN members[cpu[c].flow.proto]
    PROVE  Endpoint(c) \in Endpoints
  <1>2. cpu[c].flow \in Flows /\ cpu[c].flow.proto \in Protos /\ cpu[c].flow.client \in Clients
    BY FlowsAssumption DEF Placed, Clients
  <1>3. members[cpu[c].flow.proto] \in Seq(Pool!Member)
    BY <1>2 DEF TypeOK
  <1>4. members[cpu[c].flow.proto][cpu[c].slot] \in Pool!Member
    BY <1>3
  <1>5. members[cpu[c].flow.proto][cpu[c].slot].ip \in Backends
    BY <1>4 DEF Pool!Member
  <1> QED
    BY <1>2, <1>5 DEF Endpoint, Endpoints

(* An insert, with or without an eviction, leaves keys of replies only. *)
LEMMA InsertedReverse ==
    ASSUME TypeOK, NEW c \in CPUs, InsertReverse(c),
           cpu[c].slot \in DOMAIN members[cpu[c].flow.proto]
    PROVE  cpu[c] \in Placed /\ rev' \subseteq Endpoints
  <1>1. cpu[c] \in Placed
    BY PacketRecord DEF InsertReverse
  <1>2. Endpoint(c) \in Endpoints
    BY <1>1, EndpointType
  <1> QED
    BY <1>1, <1>2 DEF InsertReverse, TypeOK

-----------------------------------------------------------------------------
(***************************************************************************)
(* What the packets on the CPUs, conntrack and the backends have to do     *)
(* with each other.  A slot that is remembered is one of the pool, a flow  *)
(* is picked for only by its CPU and only while conntrack does not know    *)
(* it, and a flow that conntrack knows is served, or its first packet is   *)
(* on its way.                                                             *)
(***************************************************************************)
InSlot(f, slot) == <<f.proto, members[f.proto][slot].ip, f.client>>

FirstOnItsWay(f) ==
    LET c == CpuOf[f] IN
    /\ cpu[c].at \in {"insert.rev", "forward"}
    /\ cpu[c].flow = f /\ cpu[c].slot = fwd[f] /\ ~Orphan(c)

PacketInv(c) ==
    /\ cpu[c] # Idle => CpuOf[cpu[c].flow] = c
    /\ cpu[c].at \in {"pick", "insert.fwd"} => fwd[cpu[c].flow] = NoSlot
    /\ cpu[c].at \in {"pick", "insert.fwd", "insert.rev"} => ~Orphan(c)
    /\ cpu[c].at \in {"insert.rev", "forward"} => fwd[cpu[c].flow] \in {NoSlot, cpu[c].slot}
    /\ cpu[c].at \in {"insert.fwd", "insert.rev", "forward"} =>
          cpu[c].slot \in DOMAIN members[cpu[c].flow.proto]
    /\ cpu[c].at = "forward" /\ Orphan(c) => Endpoint(c) \in serves

FlowInv(f) ==
    fwd[f] # NoSlot =>
        /\ fwd[f] \in DOMAIN members[f.proto]
        /\ InSlot(f, fwd[f]) \in serves \/ FirstOnItsWay(f)

TrackInv ==
    /\ TypeOK
    /\ \A c \in CPUs : PacketInv(c)
    /\ \A f \in Flows : FlowInv(f)

-----------------------------------------------------------------------------
(* The invariant, initially and in what an action leaves alone.            *)

(* TrackInv holds at the start: no packets, no conntrack, empty pools. *)
LEMMA InitTrackInv == Init => TrackInv
  <1> SUFFICES ASSUME Init PROVE TrackInv
    OBVIOUS
  <1>1. TypeOK
    <2>1. members \in [Protos -> Seq(Pool!Member)] /\ \A p \in Protos : members[p] = <<>>
      BY DEF Init, Pool!Init
    <2>2. \A p \in Protos : Len(members[p]) <= Capacity
      BY <2>1, CapacityAssumption
    <2> QED
      BY <2>1, <2>2 DEF Init, TypeOK
  <1>2. \A c \in CPUs : cpu[c] = Idle /\ cpu[c].at = "idle"
    BY DEF Init, Idle
  <1>3. \A f \in Flows : fwd[f] = NoSlot
    BY DEF Init
  <1> QED
    BY <1>1, <1>2, <1>3 DEF TrackInv, PacketInv, FlowInv

\* Pools only grow, and no backend forgets a client
Grows ==
    /\ \A p \in Protos : \A i \in DOMAIN members[p] :
          i \in DOMAIN members'[p] /\ members'[p][i].ip = members[p][i].ip
    /\ serves \subseteq serves'

(* A packet is not disturbed by what happens on other CPUs. *)
LEMMA OtherPackets ==
    ASSUME TypeOK, Grows, NEW c \in CPUs, PacketInv(c), cpu'[c] = cpu[c],
           cpu[c] # Idle => fwd'[cpu[c].flow] \in {NoSlot, fwd[cpu[c].flow]}
    PROVE  PacketInv(c)'
  <1>1. CASE cpu[c] = Idle
    BY <1>1 DEF PacketInv, Idle
  <1>2. CASE cpu[c] # Idle
    <2>1. cpu[c].flow \in Flows /\ cpu[c].flow.proto \in Protos
      BY <1>2, FlowsAssumption DEF TypeOK, Fresh, Placed
    <2>2. Orphan(c)' <=> Orphan(c)
      BY DEF Orphan
    <2>3. cpu[c].slot \in DOMAIN members[cpu[c].flow.proto] =>
              /\ cpu[c].slot \in DOMAIN members'[cpu[c].flow.proto]
              /\ Endpoint(c)' = Endpoint(c)
      BY <2>1 DEF Grows, Endpoint
    <2> QED
      BY <1>2, <2>2, <2>3 DEF PacketInv, Grows
  <1> QED
    BY <1>1, <1>2

(* Nor is a flow, except by its own CPU. *)
LEMMA OtherFlows ==
    ASSUME TypeOK, Grows, NEW f \in Flows, FlowInv(f),
           fwd'[f] \in {NoSlot, fwd[f]},
           FirstOnItsWay(f) =>
              cpu'[CpuOf[f]] = cpu[CpuOf[f]] \/ InSlot(f, fwd[f]) \in serves'
    PROVE  FlowInv(f)'
  <1> SUFFICES ASSUME fwd'[f] # NoSlot
               PROVE  /\ fwd'[f] \in DOMAIN members'[f.proto]
                      /\ InSlot(f, fwd[f])' \in serves' \/ FirstOnItsWay(f)'
    BY DEF FlowInv
  <1>1. f.proto \in Protos /\ fwd'[f] = fwd[f] /\ fwd[f] # NoSlot
    BY FlowsAssumption
  <1>2. /\ fwd[f] \in DOMAIN members[f.proto]
        /\ InSlot(f, fwd[f]) \in serves \/ FirstOnItsWay(f)
    BY <1>1 DEF FlowInv
  <1>3. fwd[f] \in DOMAIN members'[f.proto] /\ InSlot(f, fwd[f])' = InSlot(f, fwd[f])
    BY <1>1, <1>2 DEF Grows, InSlot
  <1>4. CASE InSlot(f, fwd[f]) \in serves'
    BY <1>1, <1>3, <1>4
  <1>5. CASE FirstOnItsWay(f) /\ cpu'[CpuOf[f]] = cpu[CpuOf[f]]
    BY <1>1, <1>3, <1>5 DEF FirstOnItsWay, Orphan
  <1> QED
    BY <1>1, <1>2, <1>3, <1>4, <1>5 DEF Grows

-----------------------------------------------------------------------------
(* Every step keeps the types.                                             *)

(* Types are kept by every step, given that slots lie in their pools. *)
LEMMA NextTypeOK ==
    ASSUME TypeOK, \A c \in CPUs : PacketInv(c), [Next]_vars
    PROVE  TypeOK'
  <1>1. CASE UNCHANGED vars
    BY <1>1 DEF vars, TypeOK
  <1>2. CASE PoolChanges
    BY <1>2, PoolGrows DEF PoolChanges, conntrack, environment, TypeOK
  <1>3. CASE Restart
    <2>1. members' \in [Protos -> Seq(Pool!Member)] /\ \A p \in Protos : members'[p] = <<>>
      BY <1>3 DEF Restart
    <2>2. \A p \in Protos : Len(members'[p]) <= Capacity
      BY <2>1, CapacityAssumption
    <2> QED
      BY <1>3, <2>1, <2>2 DEF Restart, environment, TypeOK
  <1>4. ASSUME NEW c \in CPUs, XdpForward(c)
        PROVE  TypeOK'
    <2>1. ASSUME NEW f \in Flows, NEW kind \in Kinds(f), Receive(c, f, kind)
          PROVE  TypeOK'
      <3>1. [at |-> "lookup", flow |-> f, kind |-> kind] \in Fresh
        BY DEF Kinds, Fresh
      <3> QED
        BY <2>1, <3>1 DEF Receive, conntrack, environment, TypeOK
    <2>2. CASE CtHit(c)
      <3>1. cpu[c] \in Fresh
        BY <2>2, PacketRecord DEF CtHit
      <3>2. fwd[cpu[c].flow] \in Slots
        BY <2>2, <3>1 DEF CtHit, Fresh, TypeOK
      <3>3. [at |-> "forward", flow |-> cpu[c].flow, kind |-> cpu[c].kind,
             slot |-> fwd[cpu[c].flow]] \in Placed
        BY <3>1, <3>2 DEF Fresh, Placed
      <3> QED
        BY <2>2, <3>3 DEF CtHit, conntrack, environment, TypeOK
    <2>3. CASE DropOrphan(c)
      BY <2>3 DEF DropOrphan, conntrack, environment, TypeOK
    <2>4. CASE CtMiss(c)
      <3>1. cpu[c] \in Fresh
        BY <2>4, PacketRecord DEF CtMiss
      <3>2. [cpu[c] EXCEPT !.at = "pick"] \in Fresh
        BY <3>1 DEF Fresh
      <3>3. cpu' = [cpu EXCEPT ![c] = [cpu[c] EXCEPT !.at = "pick"]]
        BY <2>4 DEF CtMiss
      <3> QED
        BY <2>4, <3>2, <3>3 DEF CtMiss, conntrack, environment, TypeOK
    <2>5. CASE PassNoBackend(c)
      BY <2>5 DEF PassNoBackend, conntrack, environment, TypeOK
    <2>6. CASE PickBackend(c)
      <3>1. cpu[c] \in Fresh
        BY <2>6, PacketRecord DEF PickBackend
      <3> DEFINE pool == members[cpu[c].flow.proto]
      <3>2. PICK pick1, pick2 \in DOMAIN pool :
                cpu' = [cpu EXCEPT ![c] = [at |-> "insert.fwd", flow |-> cpu[c].flow,
                                           kind |-> cpu[c].kind,
                                           slot |-> PowerOfTwo(pool, pick1, pick2)]]
        BY <2>6 DEF PickBackend
      <3>3. pool \in Seq(Pool!Member) /\ Len(pool) <= Capacity
        BY <3>1, FlowsAssumption DEF Fresh, TypeOK
      <3>4. DOMAIN pool \subseteq Slots
        BY <3>3, CapacityAssumption DEF Slots
      <3>5. PowerOfTwo(pool, pick1, pick2) \in Slots
        BY <3>2, <3>4 DEF PowerOfTwo
      <3>6. [at |-> "insert.fwd", flow |-> cpu[c].flow, kind |-> cpu[c].kind,
             slot |-> PowerOfTwo(pool, pick1, pick2)] \in Placed
        BY <3>1, <3>5 DEF Fresh, Placed
      <3> QED
        BY <2>6, <3>2, <3>6 DEF PickBackend, conntrack, environment, TypeOK
    <2>7. CASE InsertForward(c)
      <3>1. cpu[c] \in Placed /\ fwd' \in [Flows -> Slots \cup {NoSlot}]
        BY <2>7, InsertedForward
      <3>2. [cpu[c] EXCEPT !.at = "insert.rev"] \in Placed
        BY <3>1 DEF Placed
      <3>3. cpu' = [cpu EXCEPT ![c] = [cpu[c] EXCEPT !.at = "insert.rev"]]
        BY <2>7 DEF InsertForward
      <3> QED
        BY <2>7, <3>1, <3>2, <3>3 DEF InsertForward, environment, TypeOK
    <2>8. CASE InsertReverse(c)
      <3>1. cpu[c].slot \in DOMAIN members[cpu[c].flow.proto]
        BY <2>8 DEF InsertReverse, PacketInv
      <3>2. cpu[c] \in Placed /\ rev' \subseteq Endpoints
        BY <2>8, <3>1, InsertedReverse
      <3>3. [cpu[c] EXCEPT !.at = "forward"] \in Placed
        BY <3>2 DEF Placed
      <3>4. cpu' = [cpu EXCEPT ![c] = [cpu[c] EXCEPT !.at = "forward"]]
        BY <2>8 DEF InsertReverse
      <3> QED
        BY <2>8, <3>2, <3>3, <3>4 DEF InsertReverse, environment, TypeOK
    <2>9. CASE Forward(c)
      <3>1. cpu[c] \in Placed /\ cpu[c].slot \in DOMAIN members[cpu[c].flow.proto]
        BY <2>9, PacketRecord DEF Forward, PacketInv
      <3>2. Endpoint(c) \in Endpoints
        BY <3>1, EndpointType
      <3> QED
        BY <2>9, <3>2 DEF Forward, conntrack, TypeOK
    <2> QED
      BY <1>4, <2>1, <2>2, <2>3, <2>4, <2>5, <2>6, <2>7, <2>8, <2>9 DEF XdpForward
  <1>5. CASE XdpReturn
    <2>1. PICK p \in Protos, b \in Backends, client \in Clients :
              RewriteReply(p, b, client) \/ PassReply(p, b, client)
      BY <1>5 DEF XdpReturn
    <2>2. CASE RewriteReply(p, b, client)
      BY <2>2 DEF RewriteReply, conntrack, TypeOK
    <2>3. CASE PassReply(p, b, client)
      BY <2>3 DEF PassReply, conntrack, TypeOK
    <2> QED
      BY <2>1, <2>2, <2>3
  <1> QED
    BY <1>1, <1>2, <1>3, <1>4, <1>5 DEF Next

-----------------------------------------------------------------------------
(***************************************************************************)
(* Every step keeps the invariant.  A step of a CPU disturbs only its own  *)
(* packet, and the flow of that packet.                                    *)
(***************************************************************************)

\* The packets and flows that the step of CPU c leaves alone
LEMMA CPUStep ==
    ASSUME TrackInv, TypeOK', NEW c \in CPUs, Grows,
           \A d \in CPUs \ {c} : cpu'[d] = cpu[d],
           \A f \in Flows : fwd'[f] \in {NoSlot, fwd[f]} \/ (cpu[c] # Idle /\ f = cpu[c].flow),
           PacketInv(c)',
           \A f \in Flows : cpu[c] # Idle /\ f = cpu[c].flow => FlowInv(f)'
    PROVE  TrackInv'
  <1>1. ASSUME NEW d \in CPUs PROVE PacketInv(d)'
    <2>1. CASE d # c
      <3>1. CASE cpu[d] = Idle
        BY <2>1, <3>1, OtherPackets DEF TrackInv
      <3>2. CASE cpu[d] # Idle
        <4>1. CpuOf[cpu[d].flow] = d /\ cpu[d].flow \in Flows
          BY <3>2 DEF TrackInv, PacketInv, TypeOK, Fresh, Placed
        <4>2. cpu[c] # Idle => CpuOf[cpu[c].flow] = c
          BY DEF TrackInv, PacketInv
        <4>3. fwd'[cpu[d].flow] \in {NoSlot, fwd[cpu[d].flow]}
          BY <2>1, <4>1, <4>2
        <4> QED
          BY <2>1, <4>3, OtherPackets DEF TrackInv
      <3> QED
        BY <3>1, <3>2
    <2> QED
      BY <2>1
  <1>2. ASSUME NEW f \in Flows PROVE FlowInv(f)'
    <2>1. CASE cpu[c] # Idle /\ f = cpu[c].flow
      BY <2>1
    <2>2. CASE ~(cpu[c] # Idle /\ f = cpu[c].flow)
      <3>1. CpuOf[f] \in CPUs
        BY CpuOfAssumption
      <3>2. FirstOnItsWay(f) => CpuOf[f] # c
        BY <2>2 DEF FirstOnItsWay, Idle
      <3>3. FirstOnItsWay(f) => cpu'[CpuOf[f]] = cpu[CpuOf[f]]
        BY <3>1, <3>2
      <3> QED
        BY <2>2, <3>3, OtherFlows DEF TrackInv
    <2> QED
      BY <2>1, <2>2
  <1> QED
    BY <1>1, <1>2 DEF TrackInv

(* TrackInv is kept by every step of xdp_forward. *)
LEMMA ForwardStep ==
    ASSUME TrackInv, TypeOK', NEW c \in CPUs, XdpForward(c)
    PROVE  TrackInv'
  <1>1. cpu[c] # Idle => /\ cpu[c].flow \in Flows /\ cpu[c].flow.proto \in Protos
                         /\ CpuOf[cpu[c].flow] = c
    BY FlowsAssumption DEF TrackInv, PacketInv, TypeOK, Fresh, Placed
  <1>2. PacketInv(c) /\ TypeOK /\ DOMAIN cpu = CPUs
    BY DEF TrackInv, TypeOK
  <1>3. ASSUME NEW f \in Flows, NEW kind \in Kinds(f), Receive(c, f, kind)
        PROVE  TrackInv'
    <2>1. /\ cpu[c] = Idle /\ CpuOf[f] = c
          /\ cpu' = [cpu EXCEPT ![c] = [at |-> "lookup", flow |-> f, kind |-> kind]]
          /\ UNCHANGED <<members, fwd, serves>>
      BY <1>3 DEF Receive, conntrack, environment
    <2>2. PacketInv(c)'
      BY <1>2, <2>1 DEF PacketInv
    <2> QED
      BY <1>2, <2>1, <2>2, CPUStep DEF Grows
  <1>4. CASE CtHit(c)
    <2> DEFINE f == cpu[c].flow
    <2>1. /\ cpu[c].at = "lookup" /\ cpu[c] # Idle /\ fwd[f] # NoSlot
          /\ cpu' = [cpu EXCEPT ![c] = [at |-> "forward", flow |-> f, kind |-> cpu[c].kind,
                                        slot |-> fwd[f]]]
          /\ UNCHANGED <<members, fwd, serves>>
      BY <1>4 DEF CtHit, conntrack, environment, Idle
    <2>2. fwd[f] \in DOMAIN members[f.proto] /\ InSlot(f, fwd[f]) \in serves
      BY <1>1, <2>1 DEF TrackInv, FlowInv, FirstOnItsWay
    <2>3. cpu'[c].flow = f /\ cpu'[c].at = "forward" /\ cpu'[c].slot = fwd[f]
      BY <1>2, <2>1
    <2>4. Endpoint(c)' = InSlot(f, fwd[f])
      BY <2>1, <2>3 DEF Endpoint, InSlot
    <2>5. PacketInv(c)'
      BY <1>1, <2>1, <2>2, <2>3, <2>4 DEF PacketInv
    <2>6. \A g \in Flows : g = f => FlowInv(g)'
      BY <2>1, <2>2 DEF FlowInv, InSlot
    <2> QED
      BY <1>2, <2>1, <2>5, <2>6, CPUStep DEF Grows
  <1>5. CASE DropOrphan(c) \/ PassNoBackend(c)
    <2> DEFINE f == cpu[c].flow
    <2>1. /\ cpu[c].at \in {"lookup", "pick"} /\ cpu[c] # Idle
          /\ cpu' = [cpu EXCEPT ![c] = Idle]
          /\ UNCHANGED <<members, fwd, serves>>
      BY <1>5 DEF DropOrphan, PassNoBackend, conntrack, environment, Idle
    <2>2. cpu'[c] = Idle /\ cpu'[c].at = "idle"
      BY <1>2, <2>1 DEF Idle
    <2>3. PacketInv(c)'
      BY <2>2 DEF PacketInv
    <2>4. fwd[f] # NoSlot => fwd[f] \in DOMAIN members[f.proto] /\ InSlot(f, fwd[f]) \in serves
      BY <1>1, <2>1 DEF TrackInv, FlowInv, FirstOnItsWay
    <2>5. \A g \in Flows : g = f => FlowInv(g)'
      BY <2>1, <2>4 DEF FlowInv, InSlot
    <2> QED
      BY <1>2, <2>1, <2>3, <2>5, CPUStep DEF Grows
  <1>6. CASE CtMiss(c)
    <2> DEFINE f == cpu[c].flow
    <2>1. /\ cpu[c].at = "lookup" /\ cpu[c] # Idle /\ fwd[f] = NoSlot /\ ~Orphan(c)
          /\ cpu' = [cpu EXCEPT ![c] = [cpu[c] EXCEPT !.at = "pick"]]
          /\ UNCHANGED <<members, fwd, serves>>
      BY <1>6 DEF CtMiss, conntrack, environment, Idle
    <2>2. cpu[c] \in Fresh
      BY <1>2, <2>1, PacketRecord
    <2>3. cpu'[c].at = "pick" /\ cpu'[c].flow = f /\ cpu'[c].kind = cpu[c].kind
      BY <1>2, <2>1, <2>2 DEF Fresh
    <2>4. PacketInv(c)'
      BY <1>1, <2>1, <2>3 DEF PacketInv, Orphan
    <2>5. \A g \in Flows : g = f => FlowInv(g)'
      BY <2>1 DEF FlowInv
    <2> QED
      BY <1>2, <2>1, <2>4, <2>5, CPUStep DEF Grows
  <1>7. CASE PickBackend(c)
    <2> DEFINE f == cpu[c].flow
               pool == members[f.proto]
    <2>1. /\ cpu[c].at = "pick" /\ cpu[c] # Idle /\ fwd[f] = NoSlot /\ ~Orphan(c)
          /\ UNCHANGED <<members, fwd, serves>>
      BY <1>2, <1>7 DEF PickBackend, PacketInv, conntrack, environment, Idle
    <2>2. PICK pick1, pick2 \in DOMAIN pool :
              cpu' = [cpu EXCEPT ![c] = [at |-> "insert.fwd", flow |-> f, kind |-> cpu[c].kind,
                                         slot |-> PowerOfTwo(pool, pick1, pick2)]]
      BY <1>7 DEF PickBackend
    <2>3. PowerOfTwo(pool, pick1, pick2) \in DOMAIN pool
      BY <2>2 DEF PowerOfTwo
    <2>4. /\ cpu'[c].at = "insert.fwd" /\ cpu'[c].flow = f /\ cpu'[c].kind = cpu[c].kind
          /\ cpu'[c].slot \in DOMAIN pool
      BY <1>2, <2>2, <2>3
    <2>5. PacketInv(c)'
      BY <1>1, <2>1, <2>4 DEF PacketInv, Orphan
    <2>6. \A g \in Flows : g = f => FlowInv(g)'
      BY <2>1 DEF FlowInv
    <2> QED
      BY <1>2, <2>1, <2>2, <2>5, <2>6, CPUStep DEF Grows
  <1>8. CASE InsertForward(c)
    <2> DEFINE f == cpu[c].flow
    <2>1. /\ cpu[c].at = "insert.fwd" /\ cpu[c] # Idle /\ fwd[f] = NoSlot /\ ~Orphan(c)
          /\ cpu[c].slot \in DOMAIN members[f.proto]
          /\ cpu' = [cpu EXCEPT ![c] = [cpu[c] EXCEPT !.at = "insert.rev"]]
          /\ UNCHANGED <<members, serves>>
      BY <1>2, <1>8 DEF InsertForward, PacketInv, environment, Idle
    <2>2. /\ cpu[c] \in Placed /\ fwd'[f] \in {NoSlot, cpu[c].slot}
          /\ \A g \in Flows \ {f} : fwd'[g] \in {NoSlot, fwd[g]}
      BY <1>2, <1>8, <2>1, InsertedForward
    <2>3. /\ cpu'[c].at = "insert.rev" /\ cpu'[c].flow = f /\ cpu'[c].kind = cpu[c].kind
          /\ cpu'[c].slot = cpu[c].slot
      BY <1>2, <2>1, <2>2 DEF Placed
    <2>4. PacketInv(c)'
      BY <1>1, <2>1, <2>2, <2>3 DEF PacketInv, Orphan
    <2>5. \A g \in Flows : g = f => FlowInv(g)'
      BY <1>1, <2>1, <2>2, <2>3 DEF FlowInv, FirstOnItsWay, Orphan
    <2> QED
      BY <1>2, <2>1, <2>2, <2>4, <2>5, CPUStep DEF Grows
  <1>9. CASE InsertReverse(c)
    <2> DEFINE f == cpu[c].flow
    <2>1. /\ cpu[c].at = "insert.rev" /\ cpu[c] # Idle /\ ~Orphan(c)
          /\ fwd[f] \in {NoSlot, cpu[c].slot} /\ cpu[c].slot \in DOMAIN members[f.proto]
          /\ cpu' = [cpu EXCEPT ![c] = [cpu[c] EXCEPT !.at = "forward"]]
          /\ UNCHANGED <<members, fwd, serves>>
      BY <1>2, <1>9 DEF InsertReverse, PacketInv, environment, Idle
    <2>2. cpu[c] \in Placed
      BY <1>2, <2>1, PacketRecord
    <2>3. /\ cpu'[c].at = "forward" /\ cpu'[c].flow = f /\ cpu'[c].kind = cpu[c].kind
          /\ cpu'[c].slot = cpu[c].slot
      BY <1>2, <2>1, <2>2 DEF Placed
    <2>4. PacketInv(c)'
      BY <1>1, <2>1, <2>3 DEF PacketInv, Orphan
    <2>5. \A g \in Flows : g = f => FlowInv(g)'
      BY <1>1, <2>1, <2>3 DEF FlowInv, FirstOnItsWay, Orphan
    <2> QED
      BY <1>2, <2>1, <2>4, <2>5, CPUStep DEF Grows
  <1>10. CASE Forward(c)
    <2> DEFINE f == cpu[c].flow
    <2>1. /\ cpu[c].at = "forward" /\ cpu[c] # Idle
          /\ fwd[f] \in {NoSlot, cpu[c].slot} /\ cpu[c].slot \in DOMAIN members[f.proto]
          /\ cpu' = [cpu EXCEPT ![c] = Idle]
          /\ UNCHANGED <<members, fwd>>
          /\ serves \subseteq serves' /\ Endpoint(c) \in serves'
      BY <1>2, <1>10 DEF Forward, PacketInv, conntrack, Idle
    <2>2. cpu'[c] = Idle /\ cpu'[c].at = "idle"
      BY <1>2, <2>1 DEF Idle
    <2>3. PacketInv(c)'
      BY <2>2 DEF PacketInv
    <2>4. \A g \in Flows : g = f => FlowInv(g)'
      BY <2>1 DEF FlowInv, InSlot, Endpoint
    <2> QED
      BY <1>2, <2>1, <2>3, <2>4, CPUStep DEF Grows
  <1> QED
    BY <1>3, <1>4, <1>5, <1>6, <1>7, <1>8, <1>9, <1>10 DEF XdpForward

(* TrackInv is inductive. *)
LEMMA NextTrackInv == TrackInv /\ [Next]_vars => TrackInv'
  <1> SUFFICES ASSUME TrackInv, [Next]_vars PROVE TrackInv'
    OBVIOUS
  <1>1. TypeOK'
    BY NextTypeOK DEF TrackInv
  <1>2. TypeOK /\ (\A c \in CPUs : PacketInv(c)) /\ (\A f \in Flows : FlowInv(f))
    BY DEF TrackInv
  <1>3. ASSUME Grows, UNCHANGED <<fwd, cpu>> PROVE TrackInv'
    <2>1. \A c \in CPUs : PacketInv(c)'
      BY <1>2, <1>3, OtherPackets
    <2>2. \A f \in Flows : FlowInv(f)'
      BY <1>2, <1>3, OtherFlows
    <2> QED
      BY <1>1, <2>1, <2>2 DEF TrackInv
  <1>4. CASE UNCHANGED vars
    BY <1>3, <1>4 DEF vars, Grows
  <1>5. CASE PoolChanges
    BY <1>2, <1>3, <1>5, PoolGrows DEF PoolChanges, conntrack, environment, Grows
  <1>6. CASE Restart
    <2>1. /\ \A c \in CPUs : cpu'[c] = Idle /\ cpu'[c].at = "idle"
          /\ \A f \in Flows : fwd'[f] = NoSlot
      BY <1>6 DEF Restart, Idle
    <2> QED
      BY <1>1, <2>1 DEF TrackInv, PacketInv, FlowInv
  <1>7. ASSUME NEW c \in CPUs, XdpForward(c) PROVE TrackInv'
    BY <1>1, <1>7, ForwardStep
  <1>8. CASE XdpReturn
    BY <1>3, <1>8 DEF XdpReturn, RewriteReply, PassReply, conntrack, Grows
  <1> QED
    BY <1>4, <1>5, <1>6, <1>7, <1>8 DEF Next

(* Packets, conntrack and pools fit together in every state of every behaviour. *)
THEOREM SpecTrackInv == Spec => []TrackInv
  BY InitTrackInv, NextTrackInv, PTL DEF Spec

(***************************************************************************)
(* The packets in progress, conntrack and the pools keep their types, and  *)
(* no pool passes Capacity.                                                *)
(***************************************************************************)
THEOREM TypeCorrect == Spec => []TypeOK
  <1>1. TrackInv => TypeOK
    BY DEF TrackInv
  <1> QED
    BY <1>1, SpecTrackInv, PTL

-----------------------------------------------------------------------------
(* Established flows, with evictions, failed inserts and restarts.         *)

(***************************************************************************)
(* A mid-flow TCP packet reaches no backend without TCP state for it,      *)
(* however the conntrack maps evict, fail or are emptied (xdp_forward.c:   *)
(* 327 drops what they do not know).                                       *)
(***************************************************************************)
THEOREM OrphansReachNobody == Spec => NoStateNoForward
  <1>1. TrackInv /\ [Next]_vars =>
            [\A c \in CPUs : Forward(c) /\ Orphan(c) => Endpoint(c) \in serves]_vars
    BY DEF TrackInv, PacketInv, Forward
  <1> QED
    BY <1>1, SpecTrackInv, PTL DEF Spec, NoStateNoForward

(***************************************************************************)
(* The slot that conntrack remembers for a flow names the same backend as  *)
(* long as it is remembered, whatever SYNs are repeated and whatever       *)
(* happens to the pools in between.                                        *)
(***************************************************************************)
THEOREM FlowsKeepBackends == Spec => FlowKeepsBackend
  <1> DEFINE Kept ==
               \A f \in Flows :
                  fwd[f] # NoSlot /\ fwd'[f] # NoSlot =>
                      members[f.proto][fwd[f]].ip = members'[f.proto][fwd'[f]].ip
  <1>1. TrackInv /\ [Next]_vars => [Kept]_vars
    <2> SUFFICES ASSUME TrackInv, Next, NEW f \in Flows, fwd[f] # NoSlot, fwd'[f] # NoSlot
                 PROVE  members[f.proto][fwd[f]].ip = members'[f.proto][fwd'[f]].ip
      OBVIOUS
    <2>1. TypeOK /\ f.proto \in Protos /\ fwd[f] \in DOMAIN members[f.proto]
      BY FlowsAssumption DEF TrackInv, FlowInv
    <2>2. CASE PoolChanges
      BY <2>1, <2>2, PoolGrows DEF PoolChanges, conntrack
    <2>3. CASE Restart
      BY <2>3 DEF Restart
    <2>4. ASSUME NEW c \in CPUs, InsertForward(c)
          PROVE  members[f.proto][fwd[f]].ip = members'[f.proto][fwd'[f]].ip
      <3>1. fwd[cpu[c].flow] = NoSlot
        BY <2>4 DEF InsertForward, TrackInv, PacketInv
      <3>2. fwd'[f] = fwd[f]
        BY <2>1, <2>4, <3>1, InsertedForward
      <3> QED
        BY <2>4, <3>2 DEF InsertForward
    <2>5. CASE UNCHANGED <<members, fwd>>
      BY <2>5
    <2>6. ASSUME NEW c \in CPUs, XdpForward(c), ~InsertForward(c)
          PROVE  UNCHANGED <<members, fwd>>
      BY <2>6 DEF XdpForward, Receive, CtHit, DropOrphan, CtMiss, PassNoBackend, PickBackend,
                  InsertReverse, Forward, conntrack
    <2>7. CASE XdpReturn
      BY <2>5, <2>7 DEF XdpReturn, RewriteReply, PassReply, conntrack
    <2> QED
      BY <2>2, <2>3, <2>4, <2>5, <2>6, <2>7 DEF Next
  <1> QED
    BY <1>1, SpecTrackInv, PTL DEF Spec, FlowKeepsBackend

-----------------------------------------------------------------------------
(***************************************************************************)
(* Replies, where conntrack has room for every flow and every reply,       *)
(* inserts succeed, and the control plane is not restarted.                *)
(***************************************************************************)
Undisturbed ==
    /\ ~InsertMayFail /\ ~MayRestart
    /\ IsFiniteSet(Flows) /\ Cardinality(Flows) <= CtSize
    /\ IsFiniteSet(Endpoints) /\ Cardinality(Endpoints) <= CtSize

(* A map with room for all keys that are ever inserted evicts none. *)
LEMMA NoEviction ==
    ASSUME NEW S, IsFiniteSet(S), Cardinality(S) <= CtSize,
           NEW keys \in SUBSET S, NEW key \in S
    PROVE  Evicted(keys, key) = {{}}
  <1>1. CASE key \in keys
    BY <1>1 DEF Evicted
  <1>2. CASE key \notin keys
    <2>1. keys \subseteq S \ {key}
      BY <1>2
    <2>2. IsFiniteSet(S \ {key}) /\ Cardinality(S \ {key}) = Cardinality(S) - 1
      BY FS_RemoveElement
    <2>3. IsFiniteSet(keys) /\ Cardinality(keys) <= Cardinality(S) - 1
      BY <2>1, <2>2, FS_Subset
    <2>4. Cardinality(keys) \in Nat /\ Cardinality(S) \in Nat
      BY <2>3, FS_CardinalityType
    <2>5. Cardinality(keys) < CtSize
      BY <2>3, <2>4, CtSizeAssumption
    <2> QED
      BY <2>5 DEF Evicted
  <1> QED
    BY <1>1, <1>2

(* Where the map has room and inserts succeed, an insert just adds the key. *)
LEMMA ReverseInserted ==
    ASSUME Undisturbed, TrackInv, NEW c \in CPUs, InsertReverse(c)
    PROVE  rev' = rev \cup {Endpoint(c)}
  <1> DEFINE known == {e \in rev : e[1] = cpu[c].flow.proto}
  <1>1. TypeOK /\ cpu[c].slot \in DOMAIN members[cpu[c].flow.proto]
    BY DEF TrackInv, PacketInv, InsertReverse
  <1>2. Endpoint(c) \in Endpoints
    BY <1>1, InsertedReverse, EndpointType
  <1>3. known \in SUBSET Endpoints
    BY <1>1 DEF TypeOK
  <1>4. Evicted(known, Endpoint(c)) = {{}}
    BY <1>2, <1>3, NoEviction DEF Undisturbed
  <1> HIDE DEF known
  <1>5. \E gone \in Evicted(known, Endpoint(c)) : rev' = (rev \ gone) \cup {Endpoint(c)}
    BY DEF InsertReverse, Undisturbed, known
  <1> QED
    BY <1>4, <1>5

(* Likewise for the forward entry: no other flow is forgotten. *)
LEMMA ForwardInserted ==
    ASSUME Undisturbed, TrackInv, NEW c \in CPUs, InsertForward(c)
    PROVE  fwd' = [fwd EXCEPT ![cpu[c].flow] = cpu[c].slot]
  <1> DEFINE f == cpu[c].flow
             known == {g \in Flows : g.proto = f.proto /\ fwd[g] # NoSlot}
  <1>1. TypeOK /\ f \in Flows
    BY PacketRecord DEF TrackInv, InsertForward, Placed
  <1>2. known \in SUBSET Flows
    OBVIOUS
  <1>3. Evicted(known, f) = {{}}
    BY <1>1, <1>2, NoEviction DEF Undisturbed
  <1> HIDE DEF known
  <1>4. \E gone \in Evicted(known, f) :
            fwd' = [g \in Flows |-> IF g = f THEN cpu[c].slot
                                    ELSE IF g \in gone THEN NoSlot ELSE fwd[g]]
    BY DEF InsertForward, Undisturbed, known
  <1>5. fwd' = [g \in Flows |-> IF g = f THEN cpu[c].slot ELSE fwd[g]]
    BY <1>3, <1>4
  <1> QED
    BY <1>1, <1>5 DEF TypeOK

(* A packet about to leave has its reverse entry, and so has a backend that *)
(* serves a client.                                                         *)
RewriteInv ==
    /\ TrackInv
    /\ serves \subseteq rev
    /\ \A c \in CPUs : cpu[c].at = "forward" => Endpoint(c) \in rev

(* RewriteInv holds at the start: nobody serves. *)
LEMMA InitRewriteInv == Init => RewriteInv
  BY InitTrackInv DEF RewriteInv, Init, Idle

(* RewriteInv is inductive where nothing is forgotten. *)
LEMMA NextRewriteInv == Undisturbed /\ RewriteInv /\ [Next]_vars => RewriteInv'
  <1> SUFFICES ASSUME Undisturbed, RewriteInv, [Next]_vars
               PROVE  serves' \subseteq rev' /\
                      \A d \in CPUs : cpu'[d].at = "forward" => Endpoint(d)' \in rev'
    BY NextTrackInv DEF RewriteInv
  <1> USE DEF RewriteInv
  <1>1. TypeOK /\ DOMAIN cpu = CPUs
    BY DEF TrackInv, TypeOK
  <1>2. CASE UNCHANGED vars
    BY <1>2 DEF vars, Endpoint
  <1>3. CASE PoolChanges
    <2>1. UNCHANGED <<cpu, rev, serves>>
      BY <1>3 DEF PoolChanges, conntrack, environment
    <2>2. ASSUME NEW d \in CPUs, cpu'[d].at = "forward" PROVE Endpoint(d)' = Endpoint(d)
      <3>1. cpu[d] \in Placed /\ cpu[d].slot \in DOMAIN members[cpu[d].flow.proto]
        BY <1>1, <2>1, <2>2, PacketRecord DEF TrackInv, PacketInv
      <3>2. cpu[d].flow.proto \in Protos
        BY <3>1, FlowsAssumption DEF Placed
      <3> QED
        BY <1>1, <1>3, <2>1, <3>1, <3>2, PoolGrows DEF PoolChanges, Endpoint
    <2> QED
      BY <2>1, <2>2
  <1>4. CASE Restart
    BY <1>4 DEF Restart, Undisturbed
  <1>5. ASSUME NEW c \in CPUs, XdpForward(c)
        PROVE  serves' \subseteq rev' /\
               \A d \in CPUs : cpu'[d].at = "forward" => Endpoint(d)' \in rev'
    <2>1. members' = members /\ \A d \in CPUs \ {c} : cpu'[d] = cpu[d]
      BY <1>1, <1>5 DEF XdpForward, Receive, CtHit, DropOrphan, CtMiss, PassNoBackend,
                        PickBackend, InsertForward, InsertReverse, Forward
    <2>2. ASSUME rev \subseteq rev', serves' \subseteq rev',
                 cpu'[c].at = "forward" => Endpoint(c)' \in rev'
          PROVE  serves' \subseteq rev' /\
                 \A d \in CPUs : cpu'[d].at = "forward" => Endpoint(d)' \in rev'
      BY <2>1, <2>2 DEF Endpoint
    <2>3. CASE CtHit(c)
      <3> DEFINE f == cpu[c].flow
      <3>1. /\ cpu[c].at = "lookup" /\ cpu[c] # Idle /\ fwd[f] # NoSlot
            /\ cpu'[c].flow = f /\ cpu'[c].slot = fwd[f]
            /\ UNCHANGED <<rev, serves>>
        BY <1>1, <2>3 DEF CtHit, conntrack, environment, Idle
      <3>2. f \in Flows /\ CpuOf[f] = c
        BY <1>1, <3>1, PacketRecord DEF TrackInv, PacketInv, Fresh
      <3>3. InSlot(f, fwd[f]) \in serves
        BY <3>1, <3>2 DEF TrackInv, FlowInv, FirstOnItsWay
      <3>4. Endpoint(c)' = InSlot(f, fwd[f])
        BY <2>1, <3>1 DEF Endpoint, InSlot
      <3> QED
        BY <2>2, <3>1, <3>3, <3>4
    <2>4. CASE InsertReverse(c)
      <3>1. /\ cpu[c] \in Placed /\ serves' = serves
            /\ cpu' = [cpu EXCEPT ![c] = [cpu[c] EXCEPT !.at = "forward"]]
        BY <1>1, <2>4, PacketRecord DEF InsertReverse, environment
      <3>2. cpu'[c].flow = cpu[c].flow /\ cpu'[c].slot = cpu[c].slot
        BY <1>1, <3>1 DEF Placed
      <3>3. Endpoint(c)' = Endpoint(c)
        BY <2>1, <3>2 DEF Endpoint
      <3> QED
        BY <2>2, <2>4, <3>1, <3>3, ReverseInserted
    <2>5. CASE Forward(c)
      <3>1. /\ Endpoint(c) \in rev /\ rev' = rev /\ cpu'[c].at = "idle"
            /\ serves' \subseteq serves \cup {Endpoint(c)}
        BY <1>1, <2>5 DEF Forward, conntrack, Idle
      <3> QED
        BY <2>2, <3>1
    <2>6. CASE \/ \E f \in Flows : \E kind \in Kinds(f) : Receive(c, f, kind)
               \/ DropOrphan(c) \/ CtMiss(c) \/ PassNoBackend(c) \/ PickBackend(c)
               \/ InsertForward(c)
      <3>1. UNCHANGED <<rev, serves>>
        BY <2>6 DEF Receive, DropOrphan, CtMiss, PassNoBackend, PickBackend, InsertForward,
                    conntrack, environment
      <3>2. cpu'[c].at # "forward"
        <4>1. CASE CtMiss(c)
          <5>1. cpu[c] \in Fresh /\ cpu' = [cpu EXCEPT ![c] = [cpu[c] EXCEPT !.at = "pick"]]
            BY <1>1, <4>1, PacketRecord DEF CtMiss
          <5> QED
            BY <1>1, <5>1 DEF Fresh
        <4>2. CASE InsertForward(c)
          <5>1. /\ cpu[c] \in Placed
                /\ cpu' = [cpu EXCEPT ![c] = [cpu[c] EXCEPT !.at = "insert.rev"]]
            BY <1>1, <4>2, PacketRecord DEF InsertForward
          <5> QED
            BY <1>1, <5>1 DEF Placed
        <4> QED
          BY <1>1, <2>6, <4>1, <4>2 DEF Receive, DropOrphan, PassNoBackend, PickBackend, Idle
      <3> QED
        BY <2>2, <3>1, <3>2
    <2> QED
      BY <1>5, <2>3, <2>4, <2>5, <2>6 DEF XdpForward
  <1>6. CASE XdpReturn
    BY <1>6 DEF XdpReturn, RewriteReply, PassReply, conntrack, Endpoint
  <1> QED
    BY <1>2, <1>3, <1>4, <1>5, <1>6 DEF Next

(***************************************************************************)
(* Where conntrack has room and inserts succeed, the reverse entry of a    *)
(* backend that serves a client is there before the first packet leaves,   *)
(* and stays.                                                              *)
(***************************************************************************)
THEOREM RepliesFindTheirEntry ==
    ASSUME Undisturbed
    PROVE  Spec => []RepliesAreRewritten
  <1>1. RewriteInv => RepliesAreRewritten
    BY DEF RewriteInv, RepliesAreRewritten
  <1>2. RewriteInv /\ [Next]_vars => RewriteInv'
    BY NextRewriteInv
  <1> QED
    BY <1>1, <1>2, InitRewriteInv, PTL DEF Spec

-----------------------------------------------------------------------------
(* Without disturbance, conntrack knows every flow that is served.         *)
KnownInv ==
    /\ TrackInv
    /\ \A e \in serves : \E f \in Flows : fwd[f] # NoSlot /\ e = InSlot(f, fwd[f])
    /\ \A c \in CPUs :
          cpu[c].at \in {"insert.rev", "forward"} => fwd[cpu[c].flow] = cpu[c].slot

(* KnownInv holds at the start: nobody serves. *)
LEMMA InitKnownInv == Init => KnownInv
  BY InitTrackInv DEF KnownInv, Init, Idle

(* KnownInv is inductive where nothing is forgotten. *)
LEMMA NextKnownInv == Undisturbed /\ KnownInv /\ [Next]_vars => KnownInv'
  <1> DEFINE Served == \A e \in serves : \E f \in Flows : fwd[f] # NoSlot /\ e = InSlot(f, fwd[f])
             Noted == \A c \in CPUs : cpu[c].at \in {"insert.rev", "forward"} =>
                                         fwd[cpu[c].flow] = cpu[c].slot
  <1> SUFFICES ASSUME Undisturbed, KnownInv, [Next]_vars
               PROVE  Served' /\ Noted'
    BY NextTrackInv DEF KnownInv
  <1>1. TypeOK /\ DOMAIN cpu = CPUs /\ TrackInv
    BY DEF KnownInv, TrackInv, TypeOK
  <1>2. ASSUME UNCHANGED <<members, fwd, serves>> PROVE Served'
    BY <1>2 DEF KnownInv, InSlot
  <1>3. ASSUME UNCHANGED <<fwd, cpu>> PROVE Noted'
    BY <1>3 DEF KnownInv
  <1>4. CASE UNCHANGED vars
    BY <1>2, <1>3, <1>4 DEF vars
  <1>5. CASE PoolChanges
    <2>1. UNCHANGED <<fwd, cpu, serves>>
      BY <1>5 DEF PoolChanges, conntrack, environment
    <2>2. ASSUME NEW f \in Flows, fwd[f] # NoSlot PROVE InSlot(f, fwd[f])' = InSlot(f, fwd[f])
      <3>1. f.proto \in Protos /\ fwd[f] \in DOMAIN members[f.proto]
        BY <1>1, <2>2, FlowsAssumption DEF TrackInv, FlowInv
      <3> QED
        BY <1>1, <1>5, <2>1, <3>1, PoolGrows DEF PoolChanges, InSlot
    <2>3. Served'
      <3> SUFFICES ASSUME NEW e \in serves'
                   PROVE  \E f \in Flows : fwd'[f] # NoSlot /\ e = InSlot(f, fwd[f])'
        OBVIOUS
      <3>1. PICK f \in Flows : fwd[f] # NoSlot /\ e = InSlot(f, fwd[f])
        BY <2>1 DEF KnownInv
      <3> QED
        BY <2>1, <2>2, <3>1
    <2> QED
      BY <1>3, <2>1, <2>3
  <1>6. CASE Restart
    BY <1>6 DEF Restart, Undisturbed
  <1>7. ASSUME NEW c \in CPUs, XdpForward(c) PROVE Served' /\ Noted'
    <2>1. members' = members /\ \A d \in CPUs \ {c} : cpu'[d] = cpu[d]
      BY <1>1, <1>7 DEF XdpForward, Receive, CtHit, DropOrphan, CtMiss, PassNoBackend,
                        PickBackend, InsertForward, InsertReverse, Forward
    <2>2. ASSUME fwd' = fwd, cpu'[c].at \notin {"insert.rev", "forward"} PROVE Noted'
      BY <2>1, <2>2 DEF KnownInv
    <2>3. CASE CtHit(c)
      <3>1. /\ cpu'[c].flow = cpu[c].flow /\ cpu'[c].slot = fwd[cpu[c].flow]
            /\ UNCHANGED <<fwd, serves>>
        BY <1>1, <2>3 DEF CtHit, conntrack, environment
      <3> QED
        BY <1>2, <2>1, <3>1 DEF KnownInv
    <2>4. CASE InsertForward(c)
      <3> DEFINE f == cpu[c].flow
      <3>1. /\ cpu[c] \in Placed /\ cpu[c] # Idle /\ f \in Flows /\ CpuOf[f] = c
            /\ fwd[f] = NoSlot /\ serves' = serves
            /\ cpu' = [cpu EXCEPT ![c] = [cpu[c] EXCEPT !.at = "insert.rev"]]
        BY <1>1, <2>4, PacketRecord DEF InsertForward, TrackInv, PacketInv, Placed, environment,
                                        Idle
      <3>2. fwd' = [fwd EXCEPT ![f] = cpu[c].slot] /\ DOMAIN fwd = Flows
        BY <1>1, <2>4, ForwardInserted DEF TypeOK
      <3>3. Served'
        <4> SUFFICES ASSUME NEW e \in serves'
                     PROVE  \E g \in Flows : fwd'[g] # NoSlot /\ e = InSlot(g, fwd[g])'
          OBVIOUS
        <4>1. PICK g \in Flows : fwd[g] # NoSlot /\ e = InSlot(g, fwd[g])
          BY <3>1 DEF KnownInv
        <4>2. fwd'[g] = fwd[g]
          BY <3>1, <3>2, <4>1
        <4> QED
          BY <2>1, <4>1, <4>2 DEF InSlot
      <3>4. ASSUME NEW d \in CPUs, cpu'[d].at \in {"insert.rev", "forward"}
            PROVE  fwd'[cpu'[d].flow] = cpu'[d].slot
        <4>1. CASE d = c
          <5>1. cpu'[c].flow = f /\ cpu'[c].slot = cpu[c].slot
            BY <1>1, <3>1 DEF Placed
          <5> QED
            BY <3>1, <3>2, <4>1, <5>1
        <4>2. CASE d # c
          <5>1. cpu'[d] = cpu[d] /\ cpu[d] \in Placed /\ CpuOf[cpu[d].flow] = d
            BY <1>1, <2>1, <3>4, <4>2, PacketRecord DEF TrackInv, PacketInv, Idle
          <5>2. cpu[d].flow \in Flows /\ cpu[d].flow # f
            BY <3>1, <4>2, <5>1 DEF Placed
          <5> QED
            BY <3>2, <3>4, <5>1, <5>2 DEF KnownInv
        <4> QED
          BY <4>1, <4>2
      <3> QED
        BY <3>3, <3>4
    <2>5. CASE InsertReverse(c)
      <3>1. /\ cpu[c] \in Placed /\ cpu[c].at = "insert.rev" /\ UNCHANGED <<fwd, serves>>
            /\ cpu' = [cpu EXCEPT ![c] = [cpu[c] EXCEPT !.at = "forward"]]
        BY <1>1, <2>5, PacketRecord DEF InsertReverse, environment
      <3>2. cpu'[c].flow = cpu[c].flow /\ cpu'[c].slot = cpu[c].slot
        BY <1>1, <3>1 DEF Placed
      <3> QED
        BY <1>2, <2>1, <3>1, <3>2 DEF KnownInv
    <2>6. CASE Forward(c)
      <3> DEFINE f == cpu[c].flow
      <3>1. /\ cpu[c] \in Placed /\ fwd[f] = cpu[c].slot /\ fwd' = fwd
            /\ serves' \subseteq serves \cup {Endpoint(c)} /\ cpu'[c].at = "idle"
        BY <1>1, <2>6, PacketRecord DEF Forward, KnownInv, conntrack, Idle
      <3>2. f \in Flows /\ fwd[f] # NoSlot /\ Endpoint(c) = InSlot(f, fwd[f])
        BY <3>1 DEF Placed, Slots, NoSlot, Endpoint, InSlot
      <3>3. ASSUME NEW e \in serves'
            PROVE  \E g \in Flows : fwd'[g] # NoSlot /\ e = InSlot(g, fwd[g])'
        <4>1. \E g \in Flows : fwd[g] # NoSlot /\ e = InSlot(g, fwd[g])
          BY <3>1, <3>2, <3>3 DEF KnownInv
        <4> QED
          BY <2>1, <3>1, <4>1 DEF InSlot
      <3> QED
        BY <2>2, <3>1, <3>3
    <2>7. CASE \/ \E f \in Flows : \E kind \in Kinds(f) : Receive(c, f, kind)
               \/ DropOrphan(c) \/ CtMiss(c) \/ PassNoBackend(c) \/ PickBackend(c)
      <3>1. UNCHANGED <<fwd, serves>>
        BY <2>7 DEF Receive, DropOrphan, CtMiss, PassNoBackend, PickBackend, conntrack,
                    environment
      <3>2. cpu'[c].at \notin {"insert.rev", "forward"}
        <4>1. CASE CtMiss(c)
          <5>1. cpu[c] \in Fresh /\ cpu' = [cpu EXCEPT ![c] = [cpu[c] EXCEPT !.at = "pick"]]
            BY <1>1, <4>1, PacketRecord DEF CtMiss
          <5> QED
            BY <1>1, <5>1 DEF Fresh
        <4> QED
          BY <1>1, <2>7, <4>1 DEF Receive, DropOrphan, PassNoBackend, PickBackend, Idle
      <3> QED
        BY <1>2, <2>1, <2>2, <3>1, <3>2
    <2> QED
      BY <1>7, <2>3, <2>4, <2>5, <2>6, <2>7 DEF XdpForward
  <1>8. CASE XdpReturn
    BY <1>2, <1>3, <1>8 DEF XdpReturn, RewriteReply, PassReply, conntrack
  <1> QED
    BY <1>4, <1>5, <1>6, <1>7, <1>8 DEF Next

\* A flow is known by its protocol and its client
DistinctClients ==
    \A f, g \in Flows : f.proto = g.proto /\ f.client = g.client => f = g

(***************************************************************************)
(* Where conntrack forgets nothing, a client that uses one port of the VIP *)
(* per protocol is served by one backend per flow, for ever.               *)
(***************************************************************************)
THEOREM FlowsHaveOneBackend ==
    ASSUME Undisturbed, DistinctClients
    PROVE  Spec => []OneBackendPerFlow
  <1>1. KnownInv => OneBackendPerFlow
    <2> SUFFICES ASSUME KnownInv, NEW f \in Flows
                 PROVE  Cardinality({b \in Backends : <<f.proto, b, f.client>> \in serves}) <= 1
      BY DEF OneBackendPerFlow
    <2> DEFINE one == members[f.proto][fwd[f]].ip
               all == {b \in Backends : <<f.proto, b, f.client>> \in serves}
    <2>1. ASSUME NEW b \in all PROVE b = one
      <3>1. PICK g \in Flows : <<f.proto, b, f.client>> = InSlot(g, fwd[g])
        BY DEF KnownInv
      <3>2. g = f
        BY <3>1 DEF InSlot, DistinctClients
      <3> QED
        BY <3>1, <3>2 DEF InSlot
    <2>2. all \in SUBSET {one}
      BY <2>1
    <2> HIDE DEF one, all
    <2>3. IsFiniteSet({one}) /\ Cardinality({one}) = 1
      BY FS_Singleton
    <2>4. Cardinality(all) <= Cardinality({one})
      BY <2>2, <2>3, FS_Subset
    <2>5. Cardinality(all) <= 1
      BY <2>3, <2>4
    <2> QED
      BY <2>5 DEF all
  <1>2. KnownInv /\ [Next]_vars => KnownInv'
    BY NextKnownInv
  <1> QED
    BY <1>1, <1>2, InitKnownInv, PTL DEF Spec

\* Clients use the VIP's own ports only
FlowsToVIP ==
    \A f \in Flows : f = [proto |-> f.proto, client |-> f.client, port |-> VIPPort[f.proto]]

(***************************************************************************)
(* Where conntrack forgets nothing and clients use the VIP's own ports, a  *)
(* client gets replies from where it sent packets to, and nothing else.    *)
(***************************************************************************)
THEOREM RepliesNameTheVIP ==
    ASSUME Undisturbed, FlowsToVIP
    PROVE  Spec => []RepliesComeFromVIP
  <1> DEFINE ReplyInv == RewriteInv /\ KnownInv /\ RepliesComeFromVIP
  <1>1. Init => ReplyInv
    BY InitRewriteInv, InitKnownInv DEF Init, RepliesComeFromVIP
  <1>2. ReplyInv /\ [Next]_vars => ReplyInv'
    <2> SUFFICES ASSUME ReplyInv, [Next]_vars PROVE RepliesComeFromVIP'
      BY NextRewriteInv, NextKnownInv
    <2>1. CASE reply' = reply
      BY <2>1 DEF RepliesComeFromVIP
    <2>2. ASSUME NEW p \in Protos, NEW b \in Backends, NEW client \in Clients,
                 RewriteReply(p, b, client)
          PROVE  RepliesComeFromVIP'
      <3>1. PICK f \in Flows : <<p, b, client>> = InSlot(f, fwd[f])
        BY <2>2 DEF RewriteReply, KnownInv
      <3>2. f.proto = p /\ f.client = client
        BY <3>1 DEF InSlot
      <3>3. [proto |-> p, client |-> client, port |-> VIPPort[p]] \in Flows
        BY <3>2 DEF FlowsToVIP
      <3>4. reply' = [proto |-> p, client |-> client, source |-> VIPPort[p]]
        BY <2>2 DEF RewriteReply
      <3> QED
        BY <3>3, <3>4 DEF RepliesComeFromVIP
    <2>3. ASSUME NEW p \in Protos, NEW b \in Backends, NEW client \in Clients,
                 PassReply(p, b, client)
          PROVE  FALSE
      BY <2>3 DEF PassReply, RewriteInv
    <2>4. CASE XdpReturn
      BY <2>2, <2>3, <2>4 DEF XdpReturn
    <2>5. ASSUME NEW c \in CPUs, XdpForward(c) PROVE reply' = reply
      BY <2>5 DEF XdpForward, Receive, CtHit, DropOrphan, CtMiss, PassNoBackend, PickBackend,
                  InsertForward, InsertReverse, Forward, environment
    <2> QED
      BY <2>1, <2>4, <2>5 DEF Next, PoolChanges, Restart, environment, vars
  <1>3. ReplyInv => RepliesComeFromVIP
    OBVIOUS
  <1> QED
    BY <1>1, <1>2, <1>3, PTL DEF Spec

=============================================================================
