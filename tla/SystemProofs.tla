---------------------------- MODULE SystemProofs ----------------------------
(***************************************************************************)
(* Proofs about System: what holds of packets and pool maps under any      *)
(* interleaving, and that System implements DataPlane where registrations  *)
(* do not overlap.                                                         *)
(***************************************************************************)
EXTENDS System, LoaderRefinement

-----------------------------------------------------------------------------
(* Types, and the slots that packets and flows hold.                       *)

(* How far a packet is tells which fields its CPU keeps. *)
LEMMA PacketRecord ==
    ASSUME SystemTypeOK, NEW c \in CPUs
    PROVE  /\ cpu[c].at \in {"lookup", "pick"} => cpu[c] \in Xdp!Fresh
           /\ SlotKnown(c) => cpu[c] \in Xdp!Placed
           /\ cpu[c].at = "idle" <=> cpu[c] = Xdp!Idle
           /\ cpu[c] # Xdp!Idle => cpu[c].flow \in Flows /\ ProtoOf(c) \in Pools
           /\ draw[c] # NoDraw => draw[c] \in Draw
  <1>1. cpu[c] \in {Xdp!Idle} \cup Xdp!Fresh \cup Xdp!Placed
    BY DEF SystemTypeOK
  <1>2. cpu[c] # Xdp!Idle => cpu[c].flow \in Flows
    BY <1>1 DEF Xdp!Fresh, Xdp!Placed
  <1>3. cpu[c] # Xdp!Idle => ProtoOf(c) \in Pools
    BY <1>2, FlowsAssumption DEF ProtoOf
  <1>4. draw[c] # NoDraw => draw[c] \in Draw
    BY DEF SystemTypeOK
  <1> QED
    BY <1>1, <1>2, <1>3, <1>4 DEF SlotKnown, Xdp!Idle, Xdp!Fresh, Xdp!Placed

(* Position i of an array, counted from 1, is slot i - 1 of the map. *)
LEMMA ArraySlots ==
    ASSUME NEW p \in Pools
    PROVE  /\ \A i \in 1 .. Capacity : i - 1 \in Slots /\ PoolArrays[p][i] = poolMap[p][i - 1]
           /\ \A s \in Slots : s + 1 \in 1 .. Capacity /\ (s + 1) - 1 = s
           /\ 0 \notin 1 .. Capacity
           /\ \A i \in 1 .. Capacity : (i - 1) + 1 = i
  BY CapacityAssumption DEF Slots, PoolArrays

\* A flow or a packet has slot s of pool p, or a packet may get it
InUse(p, s) ==
    \/ \E f \in Flows : f.proto = p /\ fwd[f] = s + 1
    \/ \E c \in CPUs : SlotKnown(c) /\ ProtoOf(c) = p /\ cpu[c].slot = s + 1
    \/ \E c \in CPUs : /\ draw[c] # NoDraw /\ ProtoOf(c) = p
                       /\ \E k \in 1 .. 2 : draw[c].pick[k] = s

\* What a CPU has drawn belongs to the packet it picks a backend for
DrawsBelong == \A c \in CPUs : draw[c] # NoDraw => Picking(c)

(***************************************************************************)
(* The inductive invariant under any interleaving.  The active count may   *)
(* go back below a slot in use; what remains is that the slot has had a    *)
(* backend since it was drawn, because no step empties a slot.             *)
(***************************************************************************)
InUsePopulated == \A p \in Pools, s \in Slots : InUse(p, s) => Populated(p, s)

SystemInv ==
    /\ SystemTypeOK
    /\ DrawsBelong
    /\ PopulatedInv
    /\ InUsePopulated

(* Nothing is in use at the start. *)
LEMMA InitSystemInv == SystemInit => SystemInv
  <1> SUFFICES ASSUME SystemInit PROVE SystemInv
    OBVIOUS
  <1>1. PopulatedInv
    BY InitPopulated DEF SystemInit
  <1>2. SystemTypeOK
    BY <1>1 DEF SystemInit, SystemTypeOK, PopulatedInv
  <1>3. \A p \in Pools, s \in Slots : ~InUse(p, s)
    <2>1. \A s \in Slots : s + 1 # 0
      BY SlotArithmetic
    <2>2. /\ \A f \in Flows : fwd[f] = 0
          /\ \A c \in CPUs : draw[c] = NoDraw /\ ~SlotKnown(c)
      BY DEF SystemInit, SlotKnown, Xdp!NoSlot, Xdp!Idle
    <2> QED
      BY <2>1, <2>2 DEF InUse
  <1> QED
    BY <1>1, <1>2, <1>3 DEF SystemInv, InUsePopulated, DrawsBelong, SystemInit

-----------------------------------------------------------------------------
(* Where the slots in use come from.                                       *)

Allowed(p, s) == InUse(p, s) \/ s < poolMeta[p]

\* A step puts no slot to use but those below the active count
SlotsFromCount == \A p \in Pools, s \in Slots : InUse(p, s)' => Allowed(p, s)

(* A step of one CPU, which leaves the packets of the others alone. *)
LEMMA OneCPU ==
    ASSUME SystemTypeOK, DrawsBelong, NEW c \in CPUs,
           \A d \in CPUs \ {c} : cpu'[d] = cpu[d] /\ draw'[d] = draw[d],
           \A f \in Flows : \/ fwd'[f] \in {Xdp!NoSlot, fwd[f]}
                            \/ SlotKnown(c) /\ f = cpu[c].flow /\ fwd'[f] = cpu[c].slot,
           SlotKnown(c)' => /\ ProtoOf(c)' \in Pools
                            /\ \A s \in Slots : cpu'[c].slot = s + 1 => Allowed(ProtoOf(c)', s),
           draw'[c] # NoDraw => /\ Picking(c)'
                                /\ \A k \in 1 .. 2 : draw'[c].pick[k] \in Slots =>
                                                        Allowed(ProtoOf(c)', draw'[c].pick[k])
    PROVE  DrawsBelong' /\ SlotsFromCount
  <1>1. DrawsBelong'
    <2>1. \A d \in CPUs \ {c} : draw'[d] # NoDraw => Picking(d)'
      BY DEF DrawsBelong, Picking
    <2> QED
      BY <2>1 DEF DrawsBelong
  <1>2. SlotsFromCount
    <2> SUFFICES ASSUME NEW p \in Pools, NEW s \in Slots, InUse(p, s)'
                 PROVE  Allowed(p, s)
      BY DEF SlotsFromCount
    <2>1. ASSUME NEW f \in Flows, f.proto = p, fwd'[f] = s + 1 PROVE Allowed(p, s)
      <3>1. s + 1 # 0
        BY SlotArithmetic
      <3>2. CASE fwd[f] = s + 1
        BY <2>1, <3>2 DEF Allowed, InUse
      <3>3. CASE SlotKnown(c) /\ f = cpu[c].flow /\ fwd'[f] = cpu[c].slot
        BY <2>1, <3>3 DEF Allowed, InUse, ProtoOf
      <3> QED
        BY <2>1, <3>1, <3>2, <3>3 DEF Xdp!NoSlot
    <2>2. ASSUME NEW d \in CPUs, SlotKnown(d)', ProtoOf(d)' = p, cpu'[d].slot = s + 1
          PROVE  Allowed(p, s)
      <3>1. CASE d = c
        BY <2>2, <3>1
      <3>2. CASE d # c
        <4>1. SlotKnown(d) /\ ProtoOf(d) = p /\ cpu[d].slot = s + 1
          BY <2>2, <3>2 DEF SlotKnown, ProtoOf
        <4> QED
          BY <4>1 DEF Allowed, InUse
      <3> QED
        BY <3>1, <3>2
    <2>3. ASSUME NEW d \in CPUs, draw'[d] # NoDraw, ProtoOf(d)' = p,
                 NEW k \in 1 .. 2, draw'[d].pick[k] = s
          PROVE  Allowed(p, s)
      <3>1. CASE d = c
        BY <2>3, <3>1
      <3>2. CASE d # c
        <4>1. draw[d] # NoDraw /\ ProtoOf(d) = p /\ draw[d].pick[k] = s
          BY <2>3, <3>2 DEF ProtoOf
        <4> QED
          BY <4>1 DEF Allowed, InUse
      <3> QED
        BY <3>1, <3>2
    <2> QED
      BY <2>1, <2>2, <2>3 DEF InUse
  <1> QED
    BY <1>1, <1>2

(***************************************************************************)
(* Picking a backend: the draws lie below the count, and the slot chosen   *)
(* is one of the draws.                                                    *)
(***************************************************************************)
LEMMA PickStep ==
    ASSUME SystemInv, NEW c \in CPUs, PickBackend(c)
    PROVE  SystemTypeOK' /\ DrawsBelong' /\ SlotsFromCount
  <1>1. SystemTypeOK /\ DrawsBelong /\ TypeOK
    BY DEF SystemInv, SystemTypeOK
  <1>2. cpu[c] \in Xdp!Fresh /\ ProtoOf(c) \in Pools /\ cpu[c] # Xdp!Idle
    BY <1>1, PacketRecord DEF PickBackend, FindNoBackend, DrawSlots, ReadScore, ChooseSlot,
                              Picking, Xdp!Idle
  <1>3. TypeOK'
    BY <1>1 DEF PickBackend, FindNoBackend, DrawSlots, ReadScore, ChooseSlot, TypeOK, vars
  <1>4. CASE FindNoBackend(c)
    <2>1. /\ cpu' = [cpu EXCEPT ![c] = Xdp!Idle]
          /\ UNCHANGED <<fwd, rev, serves, reply, draw>>
          /\ draw[c] = NoDraw
      BY <1>4 DEF FindNoBackend
    <2>2. SystemTypeOK'
      BY <1>1, <1>3, <2>1 DEF SystemTypeOK
    <2>3. ~SlotKnown(c)' /\ draw'[c] = NoDraw
      BY <1>1, <2>1 DEF SystemTypeOK, SlotKnown, Xdp!Idle
    <2> QED
      BY <1>1, <2>1, <2>2, <2>3, OneCPU DEF SystemTypeOK
  <1>5. CASE DrawSlots(c)
    <2>1. PICK pick \in [1 .. 2 -> 0 .. poolMeta[ProtoOf(c)] - 1] :
              draw' = [draw EXCEPT ![c] = [pick |-> pick, score |-> [k \in 1 .. 2 |-> NotRead]]]
      BY <1>5 DEF DrawSlots
    <2>2. poolMeta[ProtoOf(c)] \in 0 .. Capacity
      BY <1>1, <1>2 DEF TypeOK
    <2>3. \A k \in 1 .. 2 : pick[k] \in Slots /\ pick[k] < poolMeta[ProtoOf(c)]
      BY <2>2, CapacityAssumption DEF Slots
    <2>4. [pick |-> pick, score |-> [k \in 1 .. 2 |-> NotRead]] \in Draw
      BY <2>3 DEF Draw
    <2>5. UNCHANGED packets /\ Picking(c)
      BY <1>5 DEF DrawSlots
    <2>6. SystemTypeOK'
      BY <1>1, <1>3, <2>1, <2>4, <2>5 DEF SystemTypeOK, packets
    <2>7. draw'[c].pick = pick
      BY <1>1, <2>1 DEF SystemTypeOK
    <2>8. Picking(c)' /\ ~SlotKnown(c)' /\ ProtoOf(c)' = ProtoOf(c)
      BY <2>5 DEF packets, Picking, SlotKnown, ProtoOf
    <2>9. \A k \in 1 .. 2 : Allowed(ProtoOf(c)', draw'[c].pick[k])
      BY <2>3, <2>7, <2>8 DEF Allowed
    <2> QED
      BY <1>1, <2>1, <2>5, <2>6, <2>8, <2>9, OneCPU DEF SystemTypeOK, packets
  <1>6. CASE \E k \in 1 .. 2 : ReadScore(c, k)
    <2>1. PICK k \in 1 .. 2 : ReadScore(c, k)
      BY <1>6
    <2> DEFINE s == draw[c].pick[k]
               score == poolMap[ProtoOf(c)][s].load_score
    <2>2. draw[c] \in Draw /\ Picking(c) /\ draw[c] # NoDraw
      BY <1>1, <2>1, PacketRecord DEF ReadScore
    <2>3. s \in Slots
      BY <2>2 DEF Draw
    <2>4. score \in Scores \cup {0}
      BY <1>1, <1>2, <2>3 DEF TypeOK, Entry
    <2>5. draw' = [draw EXCEPT ![c] = [draw[c] EXCEPT !.score =
                                          [draw[c].score EXCEPT ![k] = score]]]
      BY <2>1 DEF ReadScore
    <2> HIDE DEF s, score
    <2>6. [draw[c] EXCEPT !.score = [draw[c].score EXCEPT ![k] = score]] \in Draw
      BY <2>2, <2>4 DEF Draw
    <2>7. UNCHANGED packets
      BY <2>1 DEF ReadScore
    <2>8. SystemTypeOK'
      BY <1>1, <1>3, <2>5, <2>6, <2>7 DEF SystemTypeOK, packets
    <2>9. draw'[c].pick = draw[c].pick
      BY <1>1, <2>2, <2>5 DEF SystemTypeOK, Draw
    <2>10. Picking(c)' /\ ~SlotKnown(c)' /\ ProtoOf(c)' = ProtoOf(c)
      BY <2>2, <2>7 DEF packets, Picking, SlotKnown, ProtoOf
    <2>11. \A j \in 1 .. 2 : Allowed(ProtoOf(c)', draw'[c].pick[j])
      BY <2>2, <2>9, <2>10 DEF Allowed, InUse
    <2> QED
      BY <1>1, <2>5, <2>7, <2>8, <2>10, <2>11, OneCPU DEF SystemTypeOK, packets
  <1>7. CASE ChooseSlot(c)
    <2> DEFINE chosen == IF draw[c].score[1] <= draw[c].score[2] THEN 1 ELSE 2
               s == draw[c].pick[chosen]
    <2>1. draw[c] \in Draw /\ draw[c] # NoDraw
      BY <1>1, <1>7, PacketRecord DEF ChooseSlot
    <2>2. chosen \in 1 .. 2
      OBVIOUS
    <2>3. cpu' = [cpu EXCEPT ![c] = [at |-> "insert.fwd", flow |-> cpu[c].flow,
                                     kind |-> cpu[c].kind, slot |-> s + 1]]
      BY <1>7 DEF ChooseSlot
    <2> HIDE DEF chosen
    <2>4. s \in Slots /\ InUse(ProtoOf(c), s)
      BY <2>1, <2>2 DEF Draw, InUse
    <2> HIDE DEF s
    <2>5. s + 1 \in Xdp!Slots
      BY <2>4, SlotArithmetic, CapacityAssumption DEF Slots, Xdp!Slots
    <2>6. [at |-> "insert.fwd", flow |-> cpu[c].flow, kind |-> cpu[c].kind, slot |-> s + 1]
              \in Xdp!Placed
      BY <1>2, <2>5 DEF Xdp!Fresh, Xdp!Placed
    <2>7. draw' = [draw EXCEPT ![c] = NoDraw] /\ UNCHANGED <<fwd, rev, serves, reply>>
      BY <1>7 DEF ChooseSlot
    <2>8. SystemTypeOK'
      BY <1>1, <1>3, <2>3, <2>6, <2>7 DEF SystemTypeOK
    <2>9. /\ draw'[c] = NoDraw
          /\ ProtoOf(c)' = ProtoOf(c)
          /\ cpu'[c].slot = s + 1
      BY <1>1, <2>3, <2>7 DEF SystemTypeOK, ProtoOf
    <2>10. \A r \in Slots : cpu'[c].slot = r + 1 => Allowed(ProtoOf(c)', r)
      <3>1. \A r \in Slots : r + 1 = s + 1 => r = s
        BY <2>4, SlotArithmetic
      <3> QED
        BY <2>4, <2>9, <3>1 DEF Allowed
    <2> QED
      BY <1>1, <1>2, <2>3, <2>7, <2>8, <2>9, <2>10, OneCPU DEF SystemTypeOK
  <1> QED
    BY <1>4, <1>5, <1>6, <1>7 DEF PickBackend

(***************************************************************************)
(* The steps of DataPlane on the arrays: a hit takes the slot conntrack    *)
(* has, an insert gives conntrack the slot the packet has.                 *)
(***************************************************************************)
LEMMA ArrivalStep ==
    ASSUME SystemInv, UNCHANGED <<vars, draw>>, NEW c \in CPUs,
           \/ \E f \in Flows : \E kind \in Xdp!Kinds(f) : Xdp!Receive(c, f, kind)
           \/ Xdp!CtHit(c)
           \/ Xdp!DropOrphan(c)
           \/ Xdp!CtMiss(c)
    PROVE  SystemTypeOK' /\ DrawsBelong' /\ SlotsFromCount
  <1>1. SystemTypeOK /\ DrawsBelong /\ TypeOK /\ TypeOK' /\ draw' = draw
    BY DEF SystemInv, SystemTypeOK, TypeOK, vars
  <1>2. UNCHANGED <<fwd, rev, serves, reply>> /\ ~Picking(c)
    BY DEF Xdp!Receive, Xdp!CtHit, Xdp!DropOrphan, Xdp!CtMiss, Xdp!conntrack, Xdp!environment,
           Xdp!Idle, Picking
  <1>3. draw[c] = NoDraw
    BY <1>1, <1>2 DEF DrawsBelong
  <1>4. ASSUME NEW f \in Flows, NEW kind \in Xdp!Kinds(f), Xdp!Receive(c, f, kind)
        PROVE  SystemTypeOK' /\ DrawsBelong' /\ SlotsFromCount
    <2>1. cpu' = [cpu EXCEPT ![c] = [at |-> "lookup", flow |-> f, kind |-> kind]]
      BY <1>4 DEF Xdp!Receive
    <2>2. [at |-> "lookup", flow |-> f, kind |-> kind] \in Xdp!Fresh
      BY DEF Xdp!Fresh, Xdp!Kinds
    <2>3. SystemTypeOK'
      BY <1>1, <1>2, <2>1, <2>2 DEF SystemTypeOK
    <2>4. ~SlotKnown(c)'
      BY <1>1, <2>1 DEF SystemTypeOK, SlotKnown
    <2> QED
      BY <1>1, <1>2, <1>3, <2>1, <2>3, <2>4, OneCPU DEF SystemTypeOK
  <1>5. CASE Xdp!CtHit(c)
    <2> DEFINE f == cpu[c].flow
    <2>1. cpu[c] \in Xdp!Fresh /\ f \in Flows /\ f.proto \in Pools
      BY <1>1, <1>5, PacketRecord DEF Xdp!CtHit, Xdp!Idle, ProtoOf
    <2>2. fwd[f] \in Xdp!Slots
      BY <1>1, <1>5, <2>1 DEF Xdp!CtHit, SystemTypeOK
    <2>3. cpu' = [cpu EXCEPT ![c] = [at |-> "forward", flow |-> f, kind |-> cpu[c].kind,
                                     slot |-> fwd[f]]]
      BY <1>5 DEF Xdp!CtHit
    <2>4. [at |-> "forward", flow |-> f, kind |-> cpu[c].kind, slot |-> fwd[f]] \in Xdp!Placed
      BY <2>1, <2>2 DEF Xdp!Fresh, Xdp!Placed
    <2>5. SystemTypeOK'
      BY <1>1, <1>2, <2>3, <2>4 DEF SystemTypeOK
    <2>6. ProtoOf(c)' = f.proto /\ cpu'[c].slot = fwd[f]
      BY <1>1, <2>3 DEF SystemTypeOK, ProtoOf
    <2>7. \A s \in Slots : cpu'[c].slot = s + 1 => Allowed(ProtoOf(c)', s)
      BY <2>1, <2>6 DEF Allowed, InUse
    <2> QED
      BY <1>1, <1>2, <1>3, <2>1, <2>3, <2>5, <2>6, <2>7, OneCPU DEF SystemTypeOK
  <1>6. CASE Xdp!DropOrphan(c)
    <2>1. cpu' = [cpu EXCEPT ![c] = Xdp!Idle]
      BY <1>6 DEF Xdp!DropOrphan
    <2>2. SystemTypeOK'
      BY <1>1, <1>2, <2>1 DEF SystemTypeOK
    <2>3. ~SlotKnown(c)'
      BY <1>1, <2>1 DEF SystemTypeOK, SlotKnown, Xdp!Idle
    <2> QED
      BY <1>1, <1>2, <1>3, <2>1, <2>2, <2>3, OneCPU DEF SystemTypeOK
  <1>7. CASE Xdp!CtMiss(c)
    <2>1. cpu[c] \in Xdp!Fresh
      BY <1>1, <1>7, PacketRecord DEF Xdp!CtMiss
    <2>2. cpu' = [cpu EXCEPT ![c] = [cpu[c] EXCEPT !.at = "pick"]]
      BY <1>7 DEF Xdp!CtMiss
    <2>3. [cpu[c] EXCEPT !.at = "pick"] \in Xdp!Fresh
      BY <2>1 DEF Xdp!Fresh
    <2>4. SystemTypeOK'
      BY <1>1, <1>2, <2>2, <2>3 DEF SystemTypeOK
    <2>5. ~SlotKnown(c)'
      BY <1>1, <2>1, <2>2 DEF SystemTypeOK, SlotKnown, Xdp!Fresh
    <2> QED
      BY <1>1, <1>2, <1>3, <2>2, <2>4, <2>5, OneCPU DEF SystemTypeOK
  <1> QED
    BY <1>4, <1>5, <1>6, <1>7

(* The entry in a slot that a packet has names a backend. *)
LEMMA EndpointNamesBackend ==
    ASSUME SystemInv, NEW c \in CPUs, SlotKnown(c)
    PROVE  Xdp!Endpoint(c) \in Xdp!Endpoints
  <1> DEFINE s == cpu[c].slot - 1
  <1>1. SystemTypeOK /\ TypeOK /\ InUsePopulated
    BY DEF SystemInv, SystemTypeOK
  <1>2. cpu[c] \in Xdp!Placed /\ ProtoOf(c) \in Pools /\ cpu[c].flow \in Flows
    BY <1>1, PacketRecord DEF SlotKnown, Xdp!Idle
  <1>3. cpu[c].slot \in 1 .. Capacity
    BY <1>2 DEF Xdp!Placed, Xdp!Slots
  <1>4. s \in Slots /\ cpu[c].slot = s + 1
        /\ PoolArrays[ProtoOf(c)][cpu[c].slot] = poolMap[ProtoOf(c)][s]
    BY <1>2, <1>3, ArraySlots
  <1>5. InUse(ProtoOf(c), s)
    BY <1>4 DEF InUse
  <1>6. poolMap[ProtoOf(c)][s] \in Entry /\ poolMap[ProtoOf(c)][s].ip # None
    BY <1>1, <1>2, <1>4, <1>5 DEF TypeOK, InUsePopulated, Populated
  <1>7. poolMap[ProtoOf(c)][s].ip \in IPs
    BY <1>6 DEF Entry
  <1>8. cpu[c].flow.client \in Xdp!Clients
    BY <1>2 DEF Xdp!Clients
  <1> QED
    BY <1>2, <1>4, <1>7, <1>8 DEF Xdp!Endpoint, Xdp!Endpoints, ProtoOf

(* The slot stays with the packet; what it names goes to conntrack, or the backend. *)
LEMMA PlacementStep ==
    ASSUME SystemInv, UNCHANGED <<vars, draw>>, NEW c \in CPUs,
           Xdp!InsertForward(c) \/ Xdp!InsertReverse(c) \/ Xdp!Forward(c)
    PROVE  SystemTypeOK' /\ DrawsBelong' /\ SlotsFromCount
  <1>1. SystemTypeOK /\ DrawsBelong /\ TypeOK /\ TypeOK' /\ draw' = draw
    BY DEF SystemInv, SystemTypeOK, TypeOK, vars
  <1>2. SlotKnown(c) /\ ~Picking(c)
    BY DEF Xdp!InsertForward, Xdp!InsertReverse, Xdp!Forward, SlotKnown, Picking
  <1>3. draw[c] = NoDraw
    BY <1>1, <1>2 DEF DrawsBelong
  <1>4. cpu[c] \in Xdp!Placed /\ ProtoOf(c) \in Pools /\ cpu[c].flow \in Flows
    BY <1>1, <1>2, PacketRecord DEF SlotKnown, Xdp!Idle
  <1>5. Xdp!Endpoint(c) \in Xdp!Endpoints
    BY <1>2, EndpointNamesBackend
  <1>6. /\ [cpu[c] EXCEPT !.at = "insert.rev"] \in Xdp!Placed
        /\ [cpu[c] EXCEPT !.at = "forward"] \in Xdp!Placed
    BY <1>4 DEF Xdp!Placed
  (* Onwards with the same slot, or idle *)
  <1>7. ASSUME NEW x \in {Xdp!Idle, [cpu[c] EXCEPT !.at = "insert.rev"],
                          [cpu[c] EXCEPT !.at = "forward"]},
               cpu' = [cpu EXCEPT ![c] = x],
               SystemTypeOK',
               \A f \in Flows : \/ fwd'[f] \in {Xdp!NoSlot, fwd[f]}
                                \/ f = cpu[c].flow /\ fwd'[f] = cpu[c].slot
        PROVE  DrawsBelong' /\ SlotsFromCount
    <2>1. SlotKnown(c)' => ProtoOf(c)' = ProtoOf(c) /\ cpu'[c].slot = cpu[c].slot
      BY <1>1, <1>4, <1>7 DEF SystemTypeOK, SlotKnown, ProtoOf, Xdp!Idle, Xdp!Placed
    <2>2. SlotKnown(c)' => \A s \in Slots : cpu'[c].slot = s + 1 => Allowed(ProtoOf(c)', s)
      BY <1>2, <2>1 DEF Allowed, InUse
    <2>3. \A d \in CPUs \ {c} : cpu'[d] = cpu[d] /\ draw'[d] = draw[d]
      BY <1>1, <1>7 DEF SystemTypeOK
    <2> QED
      BY <1>1, <1>2, <1>3, <1>4, <1>7, <2>1, <2>2, <2>3, OneCPU
  <1>8. CASE Xdp!InsertForward(c)
    <2> DEFINE f == cpu[c].flow
    <2>1. /\ fwd' \in [Flows -> Xdp!Slots \cup {Xdp!NoSlot}]
          /\ \A g \in Flows : \/ fwd'[g] \in {Xdp!NoSlot, fwd[g]}
                              \/ g = f /\ fwd'[g] = cpu[c].slot
      <3> DEFINE known == {g \in Flows : g.proto = f.proto /\ fwd[g] # Xdp!NoSlot}
      <3>1. CASE InsertMayFail /\ fwd' = fwd
        BY <1>1, <3>1 DEF SystemTypeOK
      <3>2. CASE \E gone \in Xdp!Evicted(known, f) :
                    fwd' = [g \in Flows |-> IF g = f THEN cpu[c].slot
                                            ELSE IF g \in gone THEN Xdp!NoSlot ELSE fwd[g]]
        BY <1>1, <1>4, <3>2 DEF SystemTypeOK, Xdp!Placed
      <3> QED
        BY <1>8, <3>1, <3>2 DEF Xdp!InsertForward
    <2>2. cpu' = [cpu EXCEPT ![c] = [cpu[c] EXCEPT !.at = "insert.rev"]]
          /\ UNCHANGED <<rev, serves, reply>>
      BY <1>8 DEF Xdp!InsertForward, Xdp!environment
    <2>3. SystemTypeOK'
      BY <1>1, <1>6, <2>1, <2>2 DEF SystemTypeOK
    <2> QED
      BY <1>7, <2>1, <2>2, <2>3
  <1>9. CASE Xdp!InsertReverse(c)
    <2>1. rev' \subseteq Xdp!Endpoints
      BY <1>1, <1>5, <1>9 DEF Xdp!InsertReverse, SystemTypeOK
    <2>2. cpu' = [cpu EXCEPT ![c] = [cpu[c] EXCEPT !.at = "forward"]]
          /\ UNCHANGED <<fwd, serves, reply>>
      BY <1>9 DEF Xdp!InsertReverse, Xdp!environment
    <2>3. SystemTypeOK'
      BY <1>1, <1>6, <2>1, <2>2 DEF SystemTypeOK
    <2> QED
      BY <1>7, <2>2, <2>3
  <1>10. CASE Xdp!Forward(c)
    <2>1. serves' \subseteq Xdp!Endpoints
      BY <1>1, <1>5, <1>10 DEF Xdp!Forward, SystemTypeOK
    <2>2. cpu' = [cpu EXCEPT ![c] = Xdp!Idle] /\ UNCHANGED <<fwd, rev, reply>>
      BY <1>10 DEF Xdp!Forward, Xdp!conntrack
    <2>3. SystemTypeOK'
      BY <1>1, <2>1, <2>2 DEF SystemTypeOK
    <2> QED
      BY <1>7, <2>2, <2>3
  <1> QED
    BY <1>8, <1>9, <1>10

(* xdp_return uses no slots. *)
LEMMA ReturnStep ==
    ASSUME SystemInv, Returning
    PROVE  SystemTypeOK' /\ DrawsBelong' /\ SlotsFromCount
  <1>1. /\ SystemTypeOK /\ DrawsBelong /\ TypeOK'
        /\ UNCHANGED <<fwd, rev, cpu, serves, draw>>
    BY DEF SystemInv, SystemTypeOK, TypeOK, vars, Returning, Xdp!XdpReturn, Xdp!RewriteReply,
           Xdp!PassReply, Xdp!conntrack
  <1>2. PICK proto \in Pools, b \in IPs, client \in Xdp!Clients :
            Xdp!RewriteReply(proto, b, client) \/ Xdp!PassReply(proto, b, client)
    BY DEF Returning, Xdp!XdpReturn
  <1>3. reply' \in [proto : Pools, client : Xdp!Clients,
                    source : {VIPPort[q] : q \in Pools} \cup IPs]
    BY <1>2 DEF Xdp!RewriteReply, Xdp!PassReply
  <1>4. SystemTypeOK'
    BY <1>1, <1>3 DEF SystemTypeOK
  <1>5. DrawsBelong'
    BY <1>1 DEF DrawsBelong, Picking
  <1>6. \A p \in Pools, s \in Slots : InUse(p, s)' <=> InUse(p, s)
    BY <1>1 DEF InUse, SlotKnown, ProtoOf
  <1> QED
    BY <1>4, <1>5, <1>6 DEF SlotsFromCount, Allowed

(* Whatever a packet does, it takes a slot from conntrack, its draws or the count. *)
LEMMA PacketsStep ==
    ASSUME SystemInv, Packets
    PROVE  SystemTypeOK' /\ DrawsBelong' /\ SlotsFromCount
  BY PickStep, ArrivalStep, PlacementStep, ReturnStep DEF Packets, Forwarding

-----------------------------------------------------------------------------
(* Any interleaving.                                                       *)

(* A step of the loader puts no slot to use. *)
LEMMA LoaderStepSlots ==
    ASSUME SystemTypeOK, DrawsBelong, TypeOK', UNCHANGED <<packets, draw>>
    PROVE  SystemTypeOK' /\ DrawsBelong' /\ SlotsFromCount
  <1>1. SystemTypeOK'
    BY DEF SystemTypeOK, packets
  <1>2. DrawsBelong'
    BY DEF DrawsBelong, Picking, packets
  <1>3. \A p \in Pools, s \in Slots : InUse(p, s)' <=> InUse(p, s)
    BY DEF InUse, SlotKnown, ProtoOf, packets
  <1> QED
    BY <1>1, <1>2, <1>3 DEF SlotsFromCount, Allowed

(* A slot that comes from the count is populated, and stays so. *)
LEMMA NextSystemInv == SystemInv /\ [SystemNext]_sysvars => SystemInv'
  <1> SUFFICES ASSUME SystemInv, [SystemNext]_sysvars PROVE SystemInv'
    OBVIOUS
  <1>1. SystemTypeOK /\ DrawsBelong /\ PopulatedInv /\ InUsePopulated
    BY DEF SystemInv
  <1>2. [Next]_vars
    BY DEF SystemNext, Packets, PickBackend, FindNoBackend, DrawSlots, ReadScore, ChooseSlot,
           Forwarding, Returning, sysvars
  <1>3. PopulatedInv' /\ PopulatedGrows
    BY <1>1, <1>2, NextPopulated, PopulatedStays
  <1>4. SystemTypeOK' /\ DrawsBelong' /\ SlotsFromCount
    <2>1. CASE UNCHANGED <<packets, draw>>
      BY <1>1, <1>3, <2>1, LoaderStepSlots DEF PopulatedInv
    <2>2. CASE Packets
      BY <2>2, PacketsStep
    <2> QED
      BY <2>1, <2>2 DEF SystemNext, sysvars
  <1>5. ASSUME NEW p \in Pools, NEW s \in Slots, InUse(p, s)' PROVE Populated(p, s)'
    <2>1. Allowed(p, s)
      BY <1>4, <1>5 DEF SlotsFromCount
    <2>2. Populated(p, s)
      BY <1>1, <2>1 DEF Allowed, InUsePopulated, PopulatedInv, ActiveSlotsPopulated
    <2> QED
      BY <1>3, <2>2 DEF PopulatedGrows
  <1> QED
    BY <1>3, <1>4, <1>5 DEF SystemInv, InUsePopulated

(***************************************************************************)
(* What packets, conntrack and the pool maps hold keeps its type, whatever *)
(* interleaves: no packet reads beyond an array, and every key of the      *)
(* reverse conntrack names a backend.                                      *)
(***************************************************************************)
THEOREM SystemTypeCorrect == SystemSpec => []SystemTypeOK
  <1>1. SystemInv => SystemTypeOK
    BY DEF SystemInv
  <1> QED
    BY InitSystemInv, NextSystemInv, <1>1, PTL DEF SystemSpec

(***************************************************************************)
(* Whatever interleaves, a slot that a packet or a flow has is never the   *)
(* all-zero entry: xdp_forward.c:393 sends no packet to address 0.         *)
(***************************************************************************)
THEOREM PacketsFindBackends == SystemSpec => []SlotsInUsePopulated
  <1>1. SystemInv => SlotsInUsePopulated
    <2> SUFFICES ASSUME SystemInv PROVE SlotsInUsePopulated
      OBVIOUS
    <2>1. SystemTypeOK /\ InUsePopulated
      BY DEF SystemInv
    <2>2. ASSUME NEW f \in Flows, fwd[f] # Xdp!NoSlot PROVE Populated(f.proto, fwd[f] - 1)
      <3>1. fwd[f] \in 1 .. Capacity /\ f.proto \in Pools
        BY <2>1, <2>2, FlowsAssumption DEF SystemTypeOK, Xdp!Slots
      <3>2. fwd[f] - 1 \in Slots /\ fwd[f] = (fwd[f] - 1) + 1
        BY <3>1, ArraySlots
      <3> QED
        BY <2>1, <3>1, <3>2 DEF InUsePopulated, InUse
    <2>3. ASSUME NEW c \in CPUs, SlotKnown(c) PROVE Populated(ProtoOf(c), cpu[c].slot - 1)
      <3>1. cpu[c].slot \in 1 .. Capacity /\ ProtoOf(c) \in Pools
        BY <2>1, <2>3, PacketRecord DEF SlotKnown, Xdp!Idle, Xdp!Placed, Xdp!Slots
      <3>2. cpu[c].slot - 1 \in Slots /\ cpu[c].slot = (cpu[c].slot - 1) + 1
        BY <3>1, ArraySlots
      <3> QED
        BY <2>1, <2>3, <3>1, <3>2 DEF InUsePopulated, InUse
    <2> QED
      BY <2>2, <2>3 DEF SlotsInUsePopulated
  <1> QED
    BY InitSystemInv, NextSystemInv, <1>1, PTL DEF SystemSpec

-----------------------------------------------------------------------------
(***************************************************************************)
(* Registrations that do not overlap.  A count never goes back, so a slot  *)
(* in use is an active one and keeps its address.                          *)
(***************************************************************************)
InUseActive == \A p \in Pools, s \in Slots : InUse(p, s) => s < poolMeta[p]

SpacedSystemInv ==
    /\ SystemInv
    /\ SpacedInv
    /\ InUseActive

(* Nothing is in use at the start. *)
LEMMA InitSpacedSystemInv == SystemInit => SpacedSystemInv
  <1> SUFFICES ASSUME SystemInit PROVE SpacedSystemInv
    OBVIOUS
  <1>1. SystemInv /\ SpacedInv
    BY InitSystemInv, InitSpaced DEF SystemInit
  <1>2. InUseActive
    <2>1. \A s \in Slots : s + 1 # 0
      BY SlotArithmetic
    <2>2. \A f \in Flows : fwd[f] = 0
      BY DEF SystemInit, Xdp!NoSlot
    <2>3. \A c \in CPUs : draw[c] = NoDraw /\ ~SlotKnown(c)
      BY DEF SystemInit, SlotKnown, Xdp!Idle
    <2> QED
      BY <2>1, <2>2, <2>3 DEF InUseActive, InUse
  <1> QED
    BY <1>1, <1>2 DEF SpacedSystemInv

(* The steps of System are steps of the loader, of packets, or of nobody. *)
LEMMA SpacedSystemSteps ==
    ASSUME [SpacedSystemNext]_sysvars
    PROVE  [SystemNext]_sysvars /\ [SpacedNext]_vars /\ (Packets => UNCHANGED vars)
  <1>1. Packets => UNCHANGED vars
    BY DEF Packets, PickBackend, FindNoBackend, DrawSlots, ReadScore, ChooseSlot, Forwarding,
           Returning
  <1>2. [SpacedNext]_vars
    BY <1>1 DEF SpacedSystemNext, sysvars
  <1>3. [Next]_vars
    BY <1>2, SpacedIsNext
  <1>4. UNCHANGED <<packets, draw>> /\ UNCHANGED vars => UNCHANGED sysvars
    BY DEF sysvars
  <1> QED
    BY <1>1, <1>2, <1>3, <1>4 DEF SpacedSystemNext, SystemNext

(* What a step puts to use is active, and stays so. *)
LEMMA NextSpacedSystemInv ==
    SpacedSystemInv /\ [SpacedSystemNext]_sysvars => SpacedSystemInv' /\ AddressesStay
  <1> SUFFICES ASSUME SpacedSystemInv, [SpacedSystemNext]_sysvars
               PROVE  SpacedSystemInv' /\ AddressesStay
    OBVIOUS
  <1>1. SystemInv /\ SpacedInv /\ InUseActive
    BY DEF SpacedSystemInv
  <1>2. [SystemNext]_sysvars /\ [SpacedNext]_vars
    BY SpacedSystemSteps
  <1>3. SystemInv' /\ SpacedInv' /\ AddressesStay
    BY <1>1, <1>2, NextSystemInv, NextSpaced, AddressesDoStay
  <1>4. SlotsFromCount
    <2>1. SystemTypeOK /\ DrawsBelong /\ TypeOK'
      BY <1>1, <1>3 DEF SystemInv, SpacedInv
    <2>2. CASE UNCHANGED <<packets, draw>>
      BY <2>1, <2>2, LoaderStepSlots
    <2>3. CASE Packets
      BY <1>1, <2>3, PacketsStep
    <2> QED
      BY <1>2, <2>2, <2>3 DEF SystemNext, sysvars
  <1>5. ASSUME NEW p \in Pools, NEW s \in Slots, InUse(p, s)' PROVE s < poolMeta'[p]
    <2>1. s < poolMeta[p]
      BY <1>1, <1>4, <1>5 DEF SlotsFromCount, Allowed, InUseActive
    <2>2. poolMeta[p] <= poolMeta'[p]
      BY <1>3 DEF AddressesStay
    <2>3. /\ poolMeta[p] \in 0 .. Capacity
          /\ poolMeta'[p] \in 0 .. Capacity
          /\ s \in Nat
      BY <1>1, <1>3, SlotArithmetic DEF SpacedInv, TypeOK
    <2> QED
      BY <2>1, <2>2, <2>3, SlotArithmetic
  <1> QED
    BY <1>3, <1>5 DEF SpacedSystemInv, InUseActive

(* The loader in System is that of Loader: what LoaderProofs and            *)
(* LoaderRefinement prove of it holds in the system.                       *)
LEMMA SystemIsLoader == (SystemSpec => Spec) /\ (SpacedSystemSpec => SpacedSpec)
  <1>1. (SystemInit => Init) /\ ([SystemNext]_sysvars => [Next]_vars)
    BY DEF SystemInit, SystemNext, Packets, PickBackend, FindNoBackend, DrawSlots, ReadScore,
           ChooseSlot, Forwarding, Returning, sysvars
  <1>2. [SpacedSystemNext]_sysvars => [SpacedNext]_vars
    BY SpacedSystemSteps
  <1> QED
    BY <1>1, <1>2, PTL DEF SystemSpec, Spec, SpacedSystemSpec, SpacedSpec

(* The slot of a packet is an active one. *)
LEMMA PacketSlot ==
    ASSUME SpacedSystemInv, NEW c \in CPUs, SlotKnown(c)
    PROVE  /\ cpu[c] \in Xdp!Placed
           /\ ProtoOf(c) \in Pools
           /\ cpu[c].slot \in 1 .. Capacity
           /\ cpu[c].slot - 1 \in Slots
           /\ cpu[c].slot - 1 < poolMeta[ProtoOf(c)]
           /\ cpu[c].slot \in 1 .. poolMeta[ProtoOf(c)]
  <1>1. SystemTypeOK /\ TypeOK /\ InUseActive
    BY DEF SpacedSystemInv, SystemInv, SpacedInv
  <1>2. cpu[c] \in Xdp!Placed /\ ProtoOf(c) \in Pools
    BY <1>1, PacketRecord DEF SlotKnown, Xdp!Idle
  <1>3. cpu[c].slot \in 1 .. Capacity
    BY <1>2 DEF Xdp!Placed, Xdp!Slots
  <1>4. cpu[c].slot - 1 \in Slots /\ cpu[c].slot = (cpu[c].slot - 1) + 1
    BY <1>2, <1>3, ArraySlots
  <1>5. cpu[c].slot - 1 < poolMeta[ProtoOf(c)]
    BY <1>1, <1>2, <1>4 DEF InUseActive, InUse
  <1>6. poolMeta[ProtoOf(c)] \in 0 .. Capacity
    BY <1>1, <1>2 DEF TypeOK
  <1>7. cpu[c].slot \in 1 .. poolMeta[ProtoOf(c)]
    BY <1>3, <1>5, <1>6, CapacityAssumption
  <1> QED
    BY <1>2, <1>3, <1>4, <1>5, <1>7

(***************************************************************************)
(* When registrations in a pool do not overlap, the address in the slot of *)
(* a packet stays the same for as long as the packet has the slot.         *)
(***************************************************************************)
THEOREM AddressesStayWhileHeld == SpacedSystemSpec => AddressStaysWhileHeld
  <1>1. SpacedSystemInv /\ [SpacedSystemNext]_sysvars =>
            [\A c \in CPUs : SlotKnown(c) =>
                LET s == cpu[c].slot - 1 IN
                poolMap'[ProtoOf(c)][s].ip = poolMap[ProtoOf(c)][s].ip]_sysvars
    BY NextSpacedSystemInv, PacketSlot DEF AddressesStay
  <1>2. SpacedSystemInv /\ [SpacedSystemNext]_sysvars => SpacedSystemInv'
    BY NextSpacedSystemInv
  <1> QED
    BY InitSpacedSystemInv, <1>1, <1>2, PTL DEF SpacedSystemSpec, AddressStaysWhileHeld

-----------------------------------------------------------------------------
(***************************************************************************)
(* Refinement of DataPlane, whose members are the active slots.            *)
(***************************************************************************)

(* The pools change as PoolSpec says; packets leave them alone. *)
LEMMA PoolStepRefines ==
    ASSUME SpacedSystemInv, [SpacedNext]_vars, UNCHANGED <<packets, draw>>
    PROVE  [AbstractDataPlane!Next]_(AbstractDataPlane!vars)
  <1>1. [AbstractPool!Next]_ActiveMembers
    BY StepRefines DEF SpacedSystemInv
  <1>2. UNCHANGED packets
    OBVIOUS
  <1>3. CASE AbstractPool!Next
    <2>1. AbstractDataPlane!Pool!Next
      BY <1>3 DEF AbstractPool!Next, AbstractPool!Member, AbstractPool!Add,
                  AbstractPool!SetScore, AbstractDataPlane!Pool!Next,
                  AbstractDataPlane!Pool!Member, AbstractDataPlane!Pool!Add,
                  AbstractDataPlane!Pool!SetScore
    <2> QED
      BY <1>2, <2>1 DEF AbstractDataPlane!Next, AbstractDataPlane!PoolChanges, packets,
                        AbstractDataPlane!conntrack, AbstractDataPlane!environment
  <1>4. CASE ActiveMembers' = ActiveMembers
    BY <1>2, <1>4 DEF AbstractDataPlane!vars, packets
  <1> QED
    BY <1>1, <1>3, <1>4

(* An active slot is a position in the list of members. *)
LEMMA ActivePositions ==
    ASSUME NEW p \in Pools
    PROVE  /\ DOMAIN ActiveMembers[p] = 1 .. poolMeta[p]
           /\ \A i \in 1 .. poolMeta[p] : ActiveMembers[p][i] = poolMap[p][i - 1]
           /\ poolMeta[p] = 0 => ActiveMembers[p] = <<>>
  <1>1. ActiveMembers[p] = [i \in 1 .. poolMeta[p] |-> poolMap[p][i - 1]]
    BY DEF ActiveMembers
  <1>2. ASSUME poolMeta[p] = 0 PROVE ActiveMembers[p] = <<>>
    <2>1. ActiveMembers[p] = [i \in 1 .. 0 |-> poolMap[p][i - 1]]
      BY <1>1, <1>2
    <2> QED
      BY <2>1
  <1> QED
    BY <1>1, <1>2

(***************************************************************************)
(* Drawing and reading scores are invisible in DataPlane.  The choice is   *)
(* its PickBackend with both draws equal: the scores that decided it were  *)
(* read at two moments, and at neither need the choice be the better one.  *)
(***************************************************************************)
LEMMA PickRefines ==
    ASSUME SpacedSystemInv, NEW c \in CPUs, PickBackend(c)
    PROVE  [AbstractDataPlane!Next]_(AbstractDataPlane!vars)
  <1> DEFINE p == cpu[c].flow.proto
  <1>1. SystemTypeOK /\ TypeOK /\ InUseActive
    BY DEF SpacedSystemInv, SystemInv, SpacedInv
  <1>2. Picking(c) /\ cpu[c] # Xdp!Idle
    BY DEF PickBackend, FindNoBackend, DrawSlots, ReadScore, ChooseSlot, Picking, Xdp!Idle
  <1>3. p \in Pools /\ ProtoOf(c) = p
    BY <1>1, <1>2, PacketRecord DEF ProtoOf
  <1>4. ActiveMembers' = ActiveMembers
    BY DEF PickBackend, FindNoBackend, DrawSlots, ReadScore, ChooseSlot, vars, ActiveMembers
  <1> HIDE DEF p
  <1>5. CASE FindNoBackend(c)
    <2>1. ActiveMembers[p] = <<>>
      BY <1>3, <1>5, ActivePositions DEF FindNoBackend
    <2>2. AbstractDataPlane!PassNoBackend(c)
      BY <1>4, <1>5, <2>1 DEF p, FindNoBackend, Picking, Xdp!Idle,
         AbstractDataPlane!PassNoBackend, AbstractDataPlane!Idle, AbstractDataPlane!conntrack,
         AbstractDataPlane!environment
    <2> QED
      BY <2>2 DEF AbstractDataPlane!Next, AbstractDataPlane!XdpForward
  <1>6. CASE DrawSlots(c) \/ \E k \in 1 .. 2 : ReadScore(c, k)
    BY <1>4, <1>6 DEF DrawSlots, ReadScore, packets, AbstractDataPlane!vars
  <1>7. CASE ChooseSlot(c)
    <2> DEFINE chosen == IF draw[c].score[1] <= draw[c].score[2] THEN 1 ELSE 2
               s == draw[c].pick[chosen]
    <2>1. draw[c] \in Draw /\ draw[c] # NoDraw
      BY <1>1, <1>7, PacketRecord DEF ChooseSlot
    <2>2. chosen \in 1 .. 2
      OBVIOUS
    <2>3. cpu' = [cpu EXCEPT ![c] = [at |-> "insert.fwd", flow |-> cpu[c].flow,
                                     kind |-> cpu[c].kind, slot |-> s + 1]]
      BY <1>7 DEF ChooseSlot
    <2> HIDE DEF chosen
    <2>4. s \in Slots /\ s < poolMeta[p]
      BY <1>1, <1>3, <2>1, <2>2 DEF Draw, InUse, InUseActive
    <2> HIDE DEF s
    <2>5. s + 1 \in DOMAIN ActiveMembers[p]
      <3>1. poolMeta[p] \in Nat /\ s \in Nat
        BY <1>1, <1>3, <2>4, SlotArithmetic DEF TypeOK
      <3> QED
        BY <1>3, <2>4, <3>1, ActivePositions
    <2>6. AbstractDataPlane!PowerOfTwo(ActiveMembers[p], s + 1, s + 1) = s + 1
      BY DEF AbstractDataPlane!PowerOfTwo
    <2>7. cpu[c].at = "pick" /\ UNCHANGED <<fwd, rev, serves, reply>>
      BY <1>7 DEF ChooseSlot, Picking
    <2>8. AbstractDataPlane!PickBackend(c)
      <3> DEFINE i == s + 1
      <3>1. /\ i \in DOMAIN ActiveMembers[p]
            /\ AbstractDataPlane!PowerOfTwo(ActiveMembers[p], i, i) = i
            /\ cpu' = [cpu EXCEPT ![c] = [at |-> "insert.fwd", flow |-> cpu[c].flow,
                                           kind |-> cpu[c].kind, slot |-> i]]
        BY <2>3, <2>5, <2>6
      <3> HIDE DEF i
      <3> QED
        BY <1>4, <2>7, <3>1 DEF p, AbstractDataPlane!PickBackend, AbstractDataPlane!conntrack,
           AbstractDataPlane!environment
    <2> QED
      BY <2>8 DEF AbstractDataPlane!Next, AbstractDataPlane!XdpForward
  <1> QED
    BY <1>5, <1>6, <1>7 DEF PickBackend

(* The entry a packet reads in its slot is that of the member in DataPlane. *)
LEMMA SameEndpoint ==
    ASSUME SpacedSystemInv, NEW c \in CPUs, SlotKnown(c)
    PROVE  Xdp!Endpoint(c) = AbstractDataPlane!Endpoint(c)
  <1> DEFINE p == cpu[c].flow.proto
  <1>1. /\ p \in Pools
        /\ cpu[c].slot \in 1 .. Capacity
        /\ cpu[c].slot \in 1 .. poolMeta[p]
    BY PacketSlot DEF ProtoOf
  <1>2. PoolArrays[p][cpu[c].slot] = ActiveMembers[p][cpu[c].slot]
    <2> HIDE DEF p
    <2> QED
      BY <1>1, ArraySlots, ActivePositions
  <1> QED
    BY <1>2 DEF Xdp!Endpoint, AbstractDataPlane!Endpoint

(* A full map evicts the same keys in both. *)
LEMMA SameEvicted == \A keys, key : Xdp!Evicted(keys, key) = AbstractDataPlane!Evicted(keys, key)
  <1>1. \A S : Xdp!Cardinality(S) = AbstractDataPlane!Cardinality(S)
    BY DEF Xdp!Cardinality, AbstractDataPlane!Cardinality
  <1> QED
    BY <1>1 DEF Xdp!Evicted, AbstractDataPlane!Evicted

(* The other steps of the programs are the same in both. *)
LEMMA ForwardingRefines ==
    ASSUME SpacedSystemInv, NEW c \in CPUs, Forwarding(c)
    PROVE  AbstractDataPlane!XdpForward(c)
  <1>1. ActiveMembers' = ActiveMembers
    BY DEF Forwarding, vars, ActiveMembers
  <1> USE DEF Xdp!conntrack, Xdp!environment, Xdp!Idle, AbstractDataPlane!conntrack,
              AbstractDataPlane!environment, AbstractDataPlane!Idle, Xdp!NoSlot,
              AbstractDataPlane!NoSlot, AbstractDataPlane!XdpForward
  <1>2. ASSUME NEW f \in Flows, NEW kind \in Xdp!Kinds(f), Xdp!Receive(c, f, kind)
        PROVE  AbstractDataPlane!XdpForward(c)
    <2>1. kind \in AbstractDataPlane!Kinds(f)
      BY DEF Xdp!Kinds, AbstractDataPlane!Kinds
    <2>2. AbstractDataPlane!Receive(c, f, kind)
      BY <1>1, <1>2 DEF Xdp!Receive, AbstractDataPlane!Receive
    <2> QED
      BY <2>1, <2>2
  <1>3. CASE Xdp!CtHit(c)
    BY <1>1, <1>3 DEF Xdp!CtHit, AbstractDataPlane!CtHit
  <1>4. CASE Xdp!DropOrphan(c)
    BY <1>1, <1>4 DEF Xdp!DropOrphan, AbstractDataPlane!DropOrphan, Xdp!Orphan,
                      AbstractDataPlane!Orphan
  <1>5. CASE Xdp!CtMiss(c)
    BY <1>1, <1>5 DEF Xdp!CtMiss, AbstractDataPlane!CtMiss, Xdp!Orphan,
                      AbstractDataPlane!Orphan
  <1>6. CASE Xdp!InsertForward(c)
    <2>1. AbstractDataPlane!InsertForward(c)
      BY <1>1, <1>6, SameEvicted DEF Xdp!InsertForward, AbstractDataPlane!InsertForward
    <2> QED
      BY <2>1
  <1>7. CASE Xdp!InsertReverse(c)
    <2>1. Xdp!Endpoint(c) = AbstractDataPlane!Endpoint(c)
      BY <1>7, SameEndpoint DEF Xdp!InsertReverse, SlotKnown
    <2>2. AbstractDataPlane!InsertReverse(c)
      BY <1>1, <1>7, <2>1, SameEvicted DEF Xdp!InsertReverse, AbstractDataPlane!InsertReverse
    <2> QED
      BY <2>2
  <1>8. CASE Xdp!Forward(c)
    <2>1. Xdp!Endpoint(c) = AbstractDataPlane!Endpoint(c)
      BY <1>8, SameEndpoint DEF Xdp!Forward, SlotKnown
    <2> QED
      BY <1>1, <1>8, <2>1 DEF Xdp!Forward, AbstractDataPlane!Forward, Xdp!Orphan,
                              AbstractDataPlane!Orphan
  <1> QED
    BY <1>2, <1>3, <1>4, <1>5, <1>6, <1>7, <1>8 DEF Forwarding

(* So is what xdp_return does. *)
LEMMA ReturningRefines ==
    ASSUME Returning
    PROVE  AbstractDataPlane!XdpReturn
  <1>1. ActiveMembers' = ActiveMembers
    BY DEF Returning, vars, ActiveMembers
  <1>2. PICK proto \in Pools, b \in IPs, client \in Xdp!Clients :
            Xdp!RewriteReply(proto, b, client) \/ Xdp!PassReply(proto, b, client)
    BY DEF Returning, Xdp!XdpReturn
  <1>3. client \in AbstractDataPlane!Clients
    BY DEF Xdp!Clients, AbstractDataPlane!Clients
  <1>4. \/ AbstractDataPlane!RewriteReply(proto, b, client)
        \/ AbstractDataPlane!PassReply(proto, b, client)
    BY <1>1, <1>2 DEF Xdp!RewriteReply, Xdp!PassReply, Xdp!conntrack,
       AbstractDataPlane!RewriteReply, AbstractDataPlane!PassReply,
       AbstractDataPlane!conntrack
  <1> QED
    BY <1>3, <1>4 DEF AbstractDataPlane!XdpReturn

(* Every step of the system is a step of DataPlane, or invisible there. *)
LEMMA SystemStepRefines ==
    SpacedSystemInv /\ [SpacedSystemNext]_sysvars =>
        [AbstractDataPlane!Next]_(AbstractDataPlane!vars)
  <1> SUFFICES ASSUME SpacedSystemInv, [SpacedSystemNext]_sysvars
               PROVE  [AbstractDataPlane!Next]_(AbstractDataPlane!vars)
    OBVIOUS
  <1>1. CASE UNCHANGED <<packets, draw>>
    BY <1>1, SpacedSystemSteps, PoolStepRefines
  <1>2. ASSUME NEW c \in CPUs, PickBackend(c)
        PROVE  [AbstractDataPlane!Next]_(AbstractDataPlane!vars)
    BY <1>2, PickRefines
  <1>3. ASSUME NEW c \in CPUs, Forwarding(c)
        PROVE  [AbstractDataPlane!Next]_(AbstractDataPlane!vars)
    BY <1>3, ForwardingRefines DEF AbstractDataPlane!Next
  <1>4. CASE Returning
    BY <1>4, ReturningRefines DEF AbstractDataPlane!Next
  <1> QED
    BY <1>1, <1>2, <1>3, <1>4 DEF SpacedSystemNext, Packets, sysvars

(* Nothing has been registered or received. *)
LEMMA SystemInitRefines == SystemInit => AbstractDataPlane!Init
  <1> SUFFICES ASSUME SystemInit PROVE AbstractDataPlane!Init
    OBVIOUS
  <1>1. AbstractDataPlane!Pool!Init
    BY InitRefines DEF SystemInit, AbstractPool!Init, AbstractDataPlane!Pool!Init
  <1> QED
    BY <1>1 DEF SystemInit, AbstractDataPlane!Init, Xdp!NoSlot, Xdp!Idle, Xdp!NoReply,
                AbstractDataPlane!NoSlot, AbstractDataPlane!Idle, AbstractDataPlane!NoReply

(***************************************************************************)
(* When registrations in a pool do not overlap, the load balancer behaves  *)
(* as DataPlane: what its theorems promise to flows, the code that reads   *)
(* and writes the BPF maps concurrently keeps.                             *)
(***************************************************************************)
THEOREM SystemImplementsDataPlane == SpacedSystemSpec => ImplementsDataPlane
  <1>1. SpacedSystemInv /\ [SpacedSystemNext]_sysvars => SpacedSystemInv'
    BY NextSpacedSystemInv
  <1> QED
    BY InitSpacedSystemInv, <1>1, SystemInitRefines, SystemStepRefines, PTL
    DEF SpacedSystemSpec, ImplementsDataPlane, AbstractDataPlane!Spec

-----------------------------------------------------------------------------
(* What DataPlaneProofs proves of DataPlane, said of the whole system.     *)

DP == INSTANCE DataPlaneProofs WITH
    Protos <- Pools, members <- ActiveMembers, Backends <- IPs, MayRestart <- FALSE

(* The two instances of DataPlane are the same. *)
LEMMA SameDataPlane ==
    /\ AbstractDataPlane!Init <=> DP!Init
    /\ AbstractDataPlane!Next <=> DP!Next
    /\ AbstractDataPlane!vars = DP!vars
  <1> USE DEF AbstractDataPlane!conntrack, DP!conntrack, AbstractDataPlane!environment,
              DP!environment, AbstractDataPlane!Idle, DP!Idle, AbstractDataPlane!NoSlot,
              DP!NoSlot
  <1>1. AbstractDataPlane!Init <=> DP!Init
    BY DEF AbstractDataPlane!Init, DP!Init, AbstractDataPlane!Pool!Init, DP!Pool!Init,
           AbstractDataPlane!NoReply, DP!NoReply
  <1>2. AbstractDataPlane!vars = DP!vars
    BY DEF AbstractDataPlane!vars, DP!vars
  <1>3. AbstractDataPlane!PoolChanges <=> DP!PoolChanges
    <2>1. AbstractDataPlane!Pool!Next <=> DP!Pool!Next
      BY DEF AbstractDataPlane!Pool!Next, DP!Pool!Next, AbstractDataPlane!Pool!Member,
             DP!Pool!Member, AbstractDataPlane!Pool!Add, DP!Pool!Add,
             AbstractDataPlane!Pool!SetScore, DP!Pool!SetScore
    <2> QED
      BY <2>1 DEF AbstractDataPlane!PoolChanges, DP!PoolChanges
  <1>4. AbstractDataPlane!Restart <=> DP!Restart
    BY DEF AbstractDataPlane!Restart, DP!Restart
  <1>5. ASSUME NEW c \in CPUs PROVE AbstractDataPlane!XdpForward(c) <=> DP!XdpForward(c)
    <2>1. AbstractDataPlane!Endpoint(c) = DP!Endpoint(c)
      BY DEF AbstractDataPlane!Endpoint, DP!Endpoint
    <2>2. \A keys, key : AbstractDataPlane!Evicted(keys, key) = DP!Evicted(keys, key)
      <3>1. \A S : AbstractDataPlane!Cardinality(S) = DP!Cardinality(S)
        BY DEF AbstractDataPlane!Cardinality, DP!Cardinality
      <3> QED
        BY <3>1 DEF AbstractDataPlane!Evicted, DP!Evicted
    <2>3. AbstractDataPlane!Orphan(c) <=> DP!Orphan(c)
      BY DEF AbstractDataPlane!Orphan, DP!Orphan
    <2>4. \A f \in Flows : AbstractDataPlane!Kinds(f) = DP!Kinds(f)
      BY DEF AbstractDataPlane!Kinds, DP!Kinds
    <2>5. \A f, kind : AbstractDataPlane!Receive(c, f, kind) <=> DP!Receive(c, f, kind)
      BY DEF AbstractDataPlane!Receive, DP!Receive
    <2>6. AbstractDataPlane!CtHit(c) <=> DP!CtHit(c)
      BY DEF AbstractDataPlane!CtHit, DP!CtHit
    <2>7. AbstractDataPlane!DropOrphan(c) <=> DP!DropOrphan(c)
      BY <2>3 DEF AbstractDataPlane!DropOrphan, DP!DropOrphan
    <2>8. AbstractDataPlane!CtMiss(c) <=> DP!CtMiss(c)
      BY <2>3 DEF AbstractDataPlane!CtMiss, DP!CtMiss
    <2>9. AbstractDataPlane!PassNoBackend(c) <=> DP!PassNoBackend(c)
      BY DEF AbstractDataPlane!PassNoBackend, DP!PassNoBackend
    <2>10. AbstractDataPlane!PickBackend(c) <=> DP!PickBackend(c)
      BY DEF AbstractDataPlane!PickBackend, DP!PickBackend, AbstractDataPlane!PowerOfTwo,
             DP!PowerOfTwo
    <2>11. AbstractDataPlane!InsertForward(c) <=> DP!InsertForward(c)
      BY <2>2 DEF AbstractDataPlane!InsertForward, DP!InsertForward
    <2>12. AbstractDataPlane!InsertReverse(c) <=> DP!InsertReverse(c)
      BY <2>1, <2>2 DEF AbstractDataPlane!InsertReverse, DP!InsertReverse
    <2>13. AbstractDataPlane!Forward(c) <=> DP!Forward(c)
      BY <2>1, <2>3 DEF AbstractDataPlane!Forward, DP!Forward
    <2> QED
      BY <2>4, <2>5, <2>6, <2>7, <2>8, <2>9, <2>10, <2>11, <2>12, <2>13
      DEF AbstractDataPlane!XdpForward, DP!XdpForward
  <1>6. AbstractDataPlane!XdpReturn <=> DP!XdpReturn
    BY DEF AbstractDataPlane!XdpReturn, DP!XdpReturn, AbstractDataPlane!RewriteReply,
           DP!RewriteReply, AbstractDataPlane!PassReply, DP!PassReply,
           AbstractDataPlane!Clients, DP!Clients
  <1>7. AbstractDataPlane!Next <=> DP!Next
    BY <1>3, <1>4, <1>5, <1>6 DEF AbstractDataPlane!Next, DP!Next
  <1> QED
    BY <1>1, <1>2, <1>7

(* The load balancer is an instance of what DataPlaneProofs is about. *)
LEMMA SystemIsDataPlane == SpacedSystemSpec => DP!Spec
  <1>1. AbstractDataPlane!Spec => DP!Spec
    <2>1. [AbstractDataPlane!Next]_(AbstractDataPlane!vars) => [DP!Next]_(DP!vars)
      BY SameDataPlane DEF AbstractDataPlane!vars, DP!vars
    <2> QED
      BY <2>1, SameDataPlane, PTL DEF AbstractDataPlane!Spec, DP!Spec
  <1> QED
    BY <1>1, SystemImplementsDataPlane DEF ImplementsDataPlane

(* The assumptions of DataPlane follow from those of System. *)
LEMMA DataPlaneAssumptions ==
    /\ DP!ProtosAssumption /\ DP!FlowsAssumption /\ DP!CpuOfAssumption
    /\ DP!CtSizeAssumption /\ DP!CapacityAssumption /\ DP!SwitchesAssumption
  BY PoolsAssumption, FlowsAssumption, CpuOfAssumption, CtSizeAssumption, CapacityAssumption,
     InsertMayFailAssumption
  DEF DP!ProtosAssumption, DP!FlowsAssumption, DP!CpuOfAssumption, DP!CtSizeAssumption,
      DP!CapacityAssumption, DP!SwitchesAssumption

(* SpacedSystemInv holds at every moment. *)
LEMMA SpacedSystemInvHolds == SpacedSystemSpec => []SpacedSystemInv
  <1>1. SpacedSystemInv /\ [SpacedSystemNext]_sysvars => SpacedSystemInv'
    BY NextSpacedSystemInv
  <1> QED
    BY InitSpacedSystemInv, <1>1, PTL DEF SpacedSystemSpec

\* The entry in the slot of a flow is that of the member in DataPlane
FlowsNameMembers ==
    \A f \in Flows : fwd[f] # 0 =>
        PoolArrays[f.proto][fwd[f]] = ActiveMembers[f.proto][fwd[f]]

(* A flow that conntrack knows has an active slot. *)
LEMMA FlowSlots == SpacedSystemInv => FlowsNameMembers
  <1> SUFFICES ASSUME SpacedSystemInv, NEW f \in Flows, fwd[f] # 0
               PROVE  PoolArrays[f.proto][fwd[f]] = ActiveMembers[f.proto][fwd[f]]
    BY DEF FlowsNameMembers
  <1> DEFINE p == f.proto
  <1>1. SystemTypeOK /\ TypeOK /\ InUseActive /\ p \in Pools
    BY FlowsAssumption DEF SpacedSystemInv, SystemInv, SpacedInv
  <1>2. fwd[f] \in 1 .. Capacity
    BY <1>1 DEF SystemTypeOK, Xdp!Slots, Xdp!NoSlot
  <1>3. fwd[f] - 1 \in Slots /\ fwd[f] = (fwd[f] - 1) + 1
        /\ PoolArrays[p][fwd[f]] = poolMap[p][fwd[f] - 1]
    BY <1>1, <1>2, ArraySlots
  <1>4. fwd[f] - 1 < poolMeta[p]
    BY <1>1, <1>3 DEF InUseActive, InUse
  <1>5. poolMeta[p] \in 0 .. Capacity
    BY <1>1 DEF TypeOK
  <1>6. fwd[f] \in 1 .. poolMeta[p]
    <2> HIDE DEF p
    <2> QED
      BY <1>2, <1>4, <1>5, CapacityAssumption
  <1> QED
    BY <1>1, <1>3, <1>6, ActivePositions

(***************************************************************************)
(* When registrations in a pool do not overlap, a flow stays on its        *)
(* backend for as long as conntrack remembers it, although the slot it     *)
(* remembers is read in arrays that the control plane is writing.          *)
(***************************************************************************)
THEOREM SystemKeepsBackends == SpacedSystemSpec => Xdp!FlowKeepsBackend
  <1>1. SpacedSystemSpec => DP!FlowKeepsBackend
    BY SystemIsDataPlane, DP!FlowsKeepBackends, DataPlaneAssumptions
  <1>2. FlowsNameMembers /\ FlowsNameMembers' /\
        [\A f \in Flows :
            fwd[f] # DP!NoSlot /\ fwd'[f] # DP!NoSlot =>
                ActiveMembers[f.proto][fwd[f]].ip = ActiveMembers'[f.proto][fwd'[f]].ip]_(DP!vars)
        => [\A f \in Flows :
               fwd[f] # Xdp!NoSlot /\ fwd'[f] # Xdp!NoSlot =>
                   PoolArrays[f.proto][fwd[f]].ip = PoolArrays'[f.proto][fwd'[f]].ip]_(Xdp!vars)
    BY DEF FlowsNameMembers, DP!vars, DP!NoSlot, Xdp!NoSlot
  <1>3. SpacedSystemSpec => []FlowsNameMembers
    BY SpacedSystemInvHolds, FlowSlots, PTL
  <1> QED
    BY <1>1, <1>2, <1>3, PTL DEF DP!FlowKeepsBackend, Xdp!FlowKeepsBackend

\* The same for a packet that has a slot
PacketsNameMembers == \A c \in CPUs : SlotKnown(c) => Xdp!Endpoint(c) = DP!Endpoint(c)

(* A packet that has a slot has an active one. *)
LEMMA PacketSlots == SpacedSystemInv => PacketsNameMembers
  <1>1. \A c \in CPUs : AbstractDataPlane!Endpoint(c) = DP!Endpoint(c)
    BY DEF AbstractDataPlane!Endpoint, DP!Endpoint
  <1> QED
    BY <1>1, SameEndpoint DEF PacketsNameMembers

(***************************************************************************)
(* When registrations in a pool do not overlap, a TCP packet in mid-flow   *)
(* is redirected to no backend but one that has got a SYN from the client, *)
(* although the backend's address is read anew for every packet.           *)
(***************************************************************************)
THEOREM SystemDropsOrphans == SpacedSystemSpec => Xdp!NoStateNoForward
  <1>1. SpacedSystemSpec => DP!NoStateNoForward
    BY SystemIsDataPlane, DP!OrphansReachNobody, DataPlaneAssumptions
  <1>2. SpacedSystemInv /\ [SpacedSystemNext]_sysvars /\
        [\A c \in CPUs : DP!Forward(c) /\ DP!Orphan(c) => DP!Endpoint(c) \in serves]_(DP!vars)
        => [\A c \in CPUs : Xdp!Forward(c) /\ Xdp!Orphan(c) =>
               Xdp!Endpoint(c) \in serves]_(Xdp!vars)
    <2> SUFFICES ASSUME SpacedSystemInv, [SpacedSystemNext]_sysvars,
                        [\A c \in CPUs : DP!Forward(c) /\ DP!Orphan(c) =>
                            DP!Endpoint(c) \in serves]_(DP!vars),
                        NEW c \in CPUs, Xdp!Forward(c), Xdp!Orphan(c)
                 PROVE  Xdp!Endpoint(c) \in serves
      OBVIOUS
    <2>1. SlotKnown(c) /\ cpu' = [cpu EXCEPT ![c] = Xdp!Idle] /\ cpu[c].at = "forward"
      BY DEF Xdp!Forward, SlotKnown
    <2>2. cpu' # cpu
      BY <2>1 DEF SpacedSystemInv, SystemInv, SystemTypeOK, Xdp!Idle
    <2>3. ActiveMembers' = ActiveMembers
      BY <2>2, SpacedSystemSteps DEF SpacedSystemNext, sysvars, packets, vars, ActiveMembers
    <2>4. Xdp!Endpoint(c) = DP!Endpoint(c)
      BY <2>1, PacketSlots DEF PacketsNameMembers
    <2>5. DP!Forward(c) /\ DP!Orphan(c)
      BY <2>3, <2>4 DEF Xdp!Forward, DP!Forward, Xdp!Orphan, DP!Orphan, Xdp!Idle, DP!Idle,
                        Xdp!conntrack, DP!conntrack
    <2> QED
      BY <2>2, <2>4, <2>5 DEF DP!vars
  <1>3. SpacedSystemSpec => [][SpacedSystemNext]_sysvars
    BY DEF SpacedSystemSpec
  <1> QED
    BY <1>1, <1>2, <1>3, SpacedSystemInvHolds, PTL DEF DP!NoStateNoForward, Xdp!NoStateNoForward

(***************************************************************************)
(* When registrations in a pool do not overlap, conntrack has room and     *)
(* inserts succeed, every reply of a backend finds its entry.              *)
(***************************************************************************)
THEOREM SystemRewritesReplies ==
    ASSUME DP!Undisturbed
    PROVE  SpacedSystemSpec => []Xdp!RepliesAreRewritten
  <1>1. DP!Spec => []DP!RepliesAreRewritten
    BY DP!RepliesFindTheirEntry, DataPlaneAssumptions
  <1>2. DP!RepliesAreRewritten => Xdp!RepliesAreRewritten
    BY DEF DP!RepliesAreRewritten, Xdp!RepliesAreRewritten
  <1> QED
    BY <1>1, <1>2, SystemIsDataPlane, PTL

(***************************************************************************)
(* Likewise, if clients use one port of the VIP per protocol, a flow is    *)
(* served by one backend, whichever scores the CPUs read while it was      *)
(* picked.                                                                 *)
(***************************************************************************)
THEOREM SystemServesFlowsOnce ==
    ASSUME DP!Undisturbed, DP!DistinctClients
    PROVE  SpacedSystemSpec => []Xdp!OneBackendPerFlow
  <1>1. DP!Spec => []DP!OneBackendPerFlow
    BY DP!FlowsHaveOneBackend, DataPlaneAssumptions
  <1>2. DP!OneBackendPerFlow => Xdp!OneBackendPerFlow
    <2>1. \A S : Xdp!Cardinality(S) = DP!Cardinality(S)
      BY DEF Xdp!Cardinality, DP!Cardinality
    <2> QED
      BY <2>1 DEF DP!OneBackendPerFlow, Xdp!OneBackendPerFlow
  <1> QED
    BY <1>1, <1>2, SystemIsDataPlane, PTL

(***************************************************************************)
(* Likewise, if clients send to the VIP's own ports, replies come from     *)
(* there and from nowhere else.                                            *)
(***************************************************************************)
THEOREM SystemRepliesNameVIP ==
    ASSUME DP!Undisturbed, DP!FlowsToVIP
    PROVE  SpacedSystemSpec => []Xdp!RepliesComeFromVIP
  <1>1. DP!Spec => []DP!RepliesComeFromVIP
    BY DP!RepliesNameTheVIP, DataPlaneAssumptions
  <1>2. DP!RepliesComeFromVIP => Xdp!RepliesComeFromVIP
    BY DEF DP!RepliesComeFromVIP, Xdp!RepliesComeFromVIP, DP!NoReply, Xdp!NoReply
  <1> QED
    BY <1>1, <1>2, SystemIsDataPlane, PTL
=============================================================================
