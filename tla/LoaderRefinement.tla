-------------------------- MODULE LoaderRefinement --------------------------
(***************************************************************************)
(* When registrations in a pool do not overlap, the pool maps implement    *)
(* PoolSpec, the append-only list of members, for every set of pools,      *)
(* backends, scores and goroutines and for every capacity.                 *)
(***************************************************************************)
EXTENDS LoaderProofs, SequenceTheorems

Member == AbstractPool!Member

(***************************************************************************)
(* The inductive invariant.  A SetBackend owns its pool: until it          *)
(* publishes the count, its slot is the first inactive one.  A score       *)
(* update holds an active slot, and the entry it writes back names the     *)
(* backend that slot has, because no step changes the address of an        *)
(* active slot.                                                            *)
(***************************************************************************)
OneRegistration ==
    \A p \in Pools : \A t, u \in Threads :
        InSetBackend(t, p) /\ InSetBackend(u, p) => t = u

ActiveSlotsAreMembers ==
    \A p \in Pools : \A s \in Slots : s < poolMeta[p] => poolMap[p][s] \in Member

OwnsFirstInactiveSlot(t) ==
    /\ op[t].at = "set.update" => op[t].slot = poolMeta[op[t].pool]
    /\ op[t].at = "set.count" => /\ op[t].slot = poolMeta[op[t].pool]
                                 /\ poolMap[op[t].pool][op[t].slot] \in Member
                                 /\ poolMap[op[t].pool][op[t].slot].ip = op[t].ip
    /\ op[t].at = "set.record" => /\ op[t].slot < poolMeta[op[t].pool]
                                  /\ poolMap[op[t].pool][op[t].slot].ip = op[t].ip

HoldsActiveSlot(t) ==
    /\ op[t].at \in {"score.lookup", "score.update"} => op[t].slot < poolMeta[op[t].pool]
    /\ op[t].at = "score.update" => /\ op[t].entry \in Member
                                    /\ op[t].entry.ip = poolMap[op[t].pool][op[t].slot].ip

SpacedInv ==
    /\ TypeOK
    /\ OneRegistration
    /\ ActiveSlotsAreMembers
    /\ RecordedSlotIsOwn
    /\ \A t \in Threads : OwnsFirstInactiveSlot(t) /\ HoldsActiveSlot(t)

LEMMA InitSpaced == Init => SpacedInv
  <1> SUFFICES ASSUME Init PROVE SpacedInv
    OBVIOUS
  <1>1. OneRegistration
    BY DEF Init, OneRegistration, InSetBackend, SetAt, Idle
  <1>2. ActiveSlotsAreMembers
    BY SlotArithmetic DEF Init, ActiveSlotsAreMembers
  <1>3. RecordedSlotIsOwn
    BY DEF Init, RecordedSlotIsOwn
  <1>4. \A t \in Threads : OwnsFirstInactiveSlot(t) /\ HoldsActiveSlot(t)
    BY DEF Init, OwnsFirstInactiveSlot, HoldsActiveSlot, Idle
  <1> QED
    BY <1>1, <1>2, <1>3, <1>4, InitTypeOK DEF SpacedInv

LEMMA SpacedIsNext == [SpacedNext]_vars => [Next]_vars
  BY DEF SpacedNext, SpacedCall, Next, Call

(* Steps of a SetBackend start in a SetBackend on the same pool. *)
LEMMA OneRegistrationStays == SpacedInv /\ [SpacedNext]_vars => OneRegistration'
  <1> SUFFICES ASSUME SpacedInv, [SpacedNext]_vars PROVE OneRegistration'
    OBVIOUS
  <1> USE DEF OneRegistration
  <1>1. CASE UNCHANGED vars
    BY <1>1 DEF vars, SpacedInv, InSetBackend
  <1>2. ASSUME NEW t \in Threads, SpacedCall(t) PROVE OneRegistration'
    BY <1>2 DEF SpacedCall, SetBackend, UpdateBackendLoadScore, SpacedInv, TypeOK,
                PoolQuiet, InSetBackend, SetAt
  <1>3. ASSUME NEW t \in Threads, SetBackendStep(t) PROVE OneRegistration'
    <2>1. \A p \in Pools : InSetBackend(t, p)' => InSetBackend(t, p)
      <3>1. CASE SetLookupCount(t)
        BY <3>1 DEF SetLookupCount, SpacedInv, TypeOK, InSetBackend, SetAt
      <3>2. CASE SetPoolFull(t)
        BY <3>2 DEF SetPoolFull, SpacedInv, TypeOK, InSetBackend, SetAt, Idle
      <3>3. CASE SetUpdateEntry(t)
        BY <3>3 DEF SetUpdateEntry, SpacedInv, TypeOK, InSetBackend, SetAt
      <3>4. CASE SetUpdateCount(t)
        <4>1. op[t] \in SetCounted
          BY <3>4, OpRecord DEF SetUpdateCount, SpacedInv
        <4>2. op'[t].pool = op[t].pool
          BY <3>4, <4>1 DEF SetUpdateCount, SpacedInv, TypeOK, SetCounted
        <4> QED
          BY <3>4, <4>2 DEF SetUpdateCount, InSetBackend, SetAt
      <3>5. CASE SetRecordSlot(t)
        BY <3>5 DEF SetRecordSlot, SpacedInv, TypeOK, InSetBackend, SetAt, Idle
      <3> QED
        BY <1>3, <3>1, <3>2, <3>3, <3>4, <3>5 DEF SetBackendStep
    <2>2. \A u \in Threads \ {t} : op'[u] = op[u]
      BY <1>3 DEF SetBackendStep, SetLookupCount, SetPoolFull, SetUpdateEntry,
                  SetUpdateCount, SetRecordSlot, SpacedInv, TypeOK
    <2> QED
      BY <2>1, <2>2 DEF SpacedInv, InSetBackend
  <1>4. ASSUME NEW t \in Threads, ScoreStep(t) PROVE OneRegistration'
    <2>1. op'[t].at \notin SetAt
      BY <1>4 DEF ScoreStep, ScoreNoSlot, ScoreFindSlot, ScoreLookupEntry, ScoreUpdateEntry,
                  SpacedInv, TypeOK, SetAt, Idle
    <2>2. \A u \in Threads \ {t} : op'[u] = op[u]
      BY <1>4 DEF ScoreStep, ScoreNoSlot, ScoreFindSlot, ScoreLookupEntry, ScoreUpdateEntry,
                  SpacedInv, TypeOK
    <2> QED
      BY <2>1, <2>2 DEF SpacedInv, InSetBackend
  <1> QED
    BY <1>1, <1>2, <1>3, <1>4 DEF SpacedNext, Step

-----------------------------------------------------------------------------
(* What a step does to the part of the maps that readers rely on.          *)

AddressesStay ==
    \A p \in Pools : /\ poolMeta[p] <= poolMeta'[p]
                     /\ \A s \in Slots : s < poolMeta[p] =>
                            poolMap'[p][s].ip = poolMap[p][s].ip

LEMMA StepSetUpdateEntry ==
    ASSUME SpacedInv, NEW t \in Threads, SetUpdateEntry(t)
    PROVE  /\ op[t] \in SetUpdate
           /\ op[t].slot \in Slots
           /\ op[t].slot = poolMeta[op[t].pool]
           /\ poolMap' = [poolMap EXCEPT ![op[t].pool][op[t].slot] =
                              [ip |-> op[t].ip, load_score |-> op[t].load]]
           /\ [ip |-> op[t].ip, load_score |-> op[t].load] \in Member
           /\ poolMap'[op[t].pool][op[t].slot] = [ip |-> op[t].ip, load_score |-> op[t].load]
           /\ \A p \in Pools, s \in Slots :
                  s < poolMeta[p] \/ p # op[t].pool => poolMap'[p][s] = poolMap[p][s]
           /\ AddressesStay
  <1>1. op[t] \in SetUpdate /\ op[t].slot \in Slots
    BY OpRecord DEF SetUpdateEntry, SpacedInv
  <1>2. op[t].slot = poolMeta[op[t].pool]
    BY DEF SetUpdateEntry, SpacedInv, OwnsFirstInactiveSlot
  <1>3. [ip |-> op[t].ip, load_score |-> op[t].load] \in Member
    BY <1>1 DEF SetUpdate, Member, AbstractPool!Member
  <1>4. op[t].pool \in Pools
    BY <1>1 DEF SetUpdate
  <1>5. poolMap'[op[t].pool][op[t].slot] = [ip |-> op[t].ip, load_score |-> op[t].load]
    BY <1>1, <1>4 DEF SetUpdateEntry, SpacedInv, TypeOK
  <1>6. ~(poolMeta[op[t].pool] < poolMeta[op[t].pool])
    BY <1>1, <1>2, SlotArithmetic
  <1>7. \A p \in Pools, s \in Slots :
            s < poolMeta[p] \/ p # op[t].pool => poolMap'[p][s] = poolMap[p][s]
    BY <1>1, <1>2, <1>4, <1>6 DEF SetUpdateEntry, SpacedInv, TypeOK
  <1>8. \A p \in Pools : poolMeta[p] \in Nat /\ poolMeta'[p] = poolMeta[p]
    BY SlotArithmetic DEF SetUpdateEntry, SpacedInv, TypeOK
  <1>9. AddressesStay
    BY <1>7, <1>8 DEF AddressesStay
  <1> QED
    BY <1>1, <1>2, <1>3, <1>5, <1>7, <1>9 DEF SetUpdateEntry

LEMMA StepSetUpdateCount ==
    ASSUME SpacedInv, NEW t \in Threads, SetUpdateCount(t)
    PROVE  /\ op[t] \in SetCounted
           /\ op[t].slot = poolMeta[op[t].pool]
           /\ op'[t] \in SetCounted
           /\ op'[t].at = "set.record"
           /\ op'[t].pool = op[t].pool /\ op'[t].ip = op[t].ip /\ op'[t].slot = op[t].slot
           /\ poolMeta' = [poolMeta EXCEPT ![op[t].pool] = poolMeta[op[t].pool] + 1]
           /\ AddressesStay
  <1>1. op[t] \in SetCounted
    BY OpRecord DEF SetUpdateCount, SpacedInv
  <1>2. op[t].slot = poolMeta[op[t].pool]
    BY DEF SetUpdateCount, SpacedInv, OwnsFirstInactiveSlot
  <1>3. op'[t] = [op[t] EXCEPT !.at = "set.record"]
    BY DEF SetUpdateCount, SpacedInv, TypeOK
  <1>4. /\ op'[t] \in SetCounted
        /\ op'[t].at = "set.record"
        /\ op'[t].pool = op[t].pool /\ op'[t].ip = op[t].ip /\ op'[t].slot = op[t].slot
    BY <1>1, <1>3 DEF SetCounted
  <1>5. poolMeta' = [poolMeta EXCEPT ![op[t].pool] = poolMeta[op[t].pool] + 1]
    BY <1>2 DEF SetUpdateCount
  <1>6. \A p \in Pools : poolMeta[p] \in Nat
    BY SlotArithmetic DEF SpacedInv, TypeOK
  <1>7. \A p \in Pools : poolMeta'[p] \in {poolMeta[p], poolMeta[p] + 1}
    BY <1>5 DEF SpacedInv, TypeOK
  <1>8. \A p \in Pools : poolMeta[p] <= poolMeta'[p]
    BY <1>6, <1>7
  <1>9. AddressesStay
    BY <1>8 DEF AddressesStay, SetUpdateCount
  <1> QED
    BY <1>1, <1>2, <1>4, <1>5, <1>9

LEMMA StepScoreUpdateEntry ==
    ASSUME SpacedInv, NEW t \in Threads, ScoreUpdateEntry(t)
    PROVE  /\ op[t] \in ScoreWrite
           /\ op[t].slot < poolMeta[op[t].pool]
           /\ op[t].entry \in Member
           /\ op[t].entry.ip = poolMap[op[t].pool][op[t].slot].ip
           /\ poolMap'[op[t].pool][op[t].slot] = op[t].entry
           /\ \A p \in Pools, s \in Slots :
                  ~(p = op[t].pool /\ s = op[t].slot) => poolMap'[p][s] = poolMap[p][s]
           /\ AddressesStay
  <1>1. op[t] \in ScoreWrite
    BY OpRecord DEF ScoreUpdateEntry, SpacedInv
  <1>2. /\ op[t].slot < poolMeta[op[t].pool]
        /\ op[t].entry \in Member
        /\ op[t].entry.ip = poolMap[op[t].pool][op[t].slot].ip
    BY DEF ScoreUpdateEntry, SpacedInv, HoldsActiveSlot
  <1>3. op[t].pool \in Pools /\ op[t].slot \in Slots
    BY <1>1 DEF ScoreWrite
  <1>4. /\ poolMap'[op[t].pool][op[t].slot] = op[t].entry
        /\ \A p \in Pools, s \in Slots :
               ~(p = op[t].pool /\ s = op[t].slot) => poolMap'[p][s] = poolMap[p][s]
    BY <1>3 DEF ScoreUpdateEntry, SpacedInv, TypeOK
  <1>5. \A p \in Pools : poolMeta[p] \in Nat /\ poolMeta'[p] = poolMeta[p]
    BY SlotArithmetic DEF ScoreUpdateEntry, SpacedInv, TypeOK
  <1>6. AddressesStay
    BY <1>2, <1>4, <1>5 DEF AddressesStay
  <1> QED
    BY <1>1, <1>2, <1>4, <1>6

(* The actions that write the pool maps, and all the others. *)
LEMMA MapsChangeIn3Actions ==
    [SpacedNext]_vars =>
        \/ poolMap' = poolMap /\ poolMeta' = poolMeta
        \/ \E t \in Threads : SetUpdateEntry(t) \/ SetUpdateCount(t) \/ ScoreUpdateEntry(t)
  BY DEF SpacedNext, SpacedCall, Step, SetBackendStep, ScoreStep, vars, pools, SetBackend,
         UpdateBackendLoadScore, SetLookupCount, SetPoolFull, SetRecordSlot, ScoreNoSlot,
         ScoreFindSlot, ScoreLookupEntry

LEMMA AddressesDoStay == SpacedInv /\ [SpacedNext]_vars => AddressesStay
  <1> SUFFICES ASSUME SpacedInv, [SpacedNext]_vars PROVE AddressesStay
    OBVIOUS
  <1>1. CASE poolMap' = poolMap /\ poolMeta' = poolMeta
    <2>1. \A p \in Pools : poolMeta[p] \in Nat
      BY SlotArithmetic DEF SpacedInv, TypeOK
    <2> QED
      BY <1>1, <2>1 DEF AddressesStay
  <1> QED
    BY <1>1, MapsChangeIn3Actions, StepSetUpdateEntry, StepSetUpdateCount, StepScoreUpdateEntry

-----------------------------------------------------------------------------
(* A thread is not disturbed by the steps of the others.                   *)

LEMMA HeldSlotStays ==
    ASSUME SpacedInv, TypeOK', AddressesStay, NEW u \in Threads, op'[u] = op[u]
    PROVE  HoldsActiveSlot(u)'
  <1>1. CASE op[u].at \in {"score.lookup", "score.update"}
    <2>1. op[u].pool \in Pools /\ op[u].slot \in Slots
      BY <1>1, OpRecord DEF ScoreRead, ScoreWrite, SpacedInv
    <2>2. HoldsActiveSlot(u)
      BY DEF SpacedInv
    <2>3. /\ op[u].slot < poolMeta[op[u].pool]
          /\ poolMeta[op[u].pool] <= poolMeta'[op[u].pool]
      BY <1>1, <2>1, <2>2 DEF HoldsActiveSlot, AddressesStay
    <2>4. op[u].slot < poolMeta'[op[u].pool]
      <3>1. \A p \in Pools : poolMeta[p] \in Nat
        BY SlotArithmetic DEF SpacedInv, TypeOK
      <3>2. op[u].slot \in Nat
        BY <2>1, SlotArithmetic
      <3>3. poolMeta'[op[u].pool] \in Nat
        BY <2>1, SlotArithmetic DEF TypeOK
      <3> QED
        BY <2>1, <2>3, <3>1, <3>2, <3>3
    <2>5. poolMap'[op[u].pool][op[u].slot].ip = poolMap[op[u].pool][op[u].slot].ip
      BY <2>1, <2>3 DEF AddressesStay
    <2> QED
      BY <2>2, <2>4, <2>5 DEF HoldsActiveSlot
  <1>2. CASE op[u].at \notin {"score.lookup", "score.update"}
    BY <1>2 DEF HoldsActiveSlot
  <1> QED
    BY <1>1, <1>2

(* Only the owner of a pool's first inactive slot writes it or the count. *)
LEMMA OwnedSlotStays ==
    ASSUME SpacedInv, TypeOK', [SpacedNext]_vars, NEW u \in Threads, op'[u] = op[u]
    PROVE  OwnsFirstInactiveSlot(u)'
  <1>1. OwnsFirstInactiveSlot(u) /\ AddressesStay
    BY AddressesDoStay DEF SpacedInv
  <1>2. CASE op[u].at = "set.record"
    <2>1. op[u].pool \in Pools /\ op[u].slot \in Slots
      BY <1>2, OpRecord DEF SetCounted, SpacedInv
    <2>2. /\ op[u].slot < poolMeta[op[u].pool]
          /\ poolMeta[op[u].pool] <= poolMeta'[op[u].pool]
          /\ poolMap'[op[u].pool][op[u].slot].ip = poolMap[op[u].pool][op[u].slot].ip
      BY <1>1, <1>2, <2>1 DEF OwnsFirstInactiveSlot, AddressesStay
    <2>3. /\ op[u].slot \in Nat
          /\ poolMeta[op[u].pool] \in Nat
          /\ poolMeta'[op[u].pool] \in Nat
      BY <2>1, SlotArithmetic DEF SpacedInv, TypeOK
    <2>4. op[u].slot < poolMeta'[op[u].pool]
      BY <2>2, <2>3
    <2> QED
      BY <1>1, <1>2, <2>2, <2>4 DEF OwnsFirstInactiveSlot
  <1>3. CASE op[u].at \in {"set.update", "set.count"}
    <2>1. op[u].pool \in Pools /\ op[u].slot = poolMeta[op[u].pool]
      BY <1>1, <1>3, OpRecord DEF SetUpdate, SetCounted, SpacedInv, OwnsFirstInactiveSlot
    <2>2. InSetBackend(u, op[u].pool)
      BY <1>3 DEF InSetBackend, SetAt
    <2>3. poolMeta[op[u].pool] \in Nat /\ ~(poolMeta[op[u].pool] < poolMeta[op[u].pool])
      BY <2>1, SlotArithmetic DEF SpacedInv, TypeOK
    <2>4. op[u].at = "set.count" => op[u].slot \in Slots
      BY OpRecord DEF SetCounted, SpacedInv
    <2> DEFINE Undisturbed ==
            /\ poolMeta'[op[u].pool] = poolMeta[op[u].pool]
            /\ op[u].at = "set.count" =>
                   poolMap'[op[u].pool][op[u].slot] = poolMap[op[u].pool][op[u].slot]
    <2>5. ASSUME poolMap' = poolMap, poolMeta' = poolMeta PROVE Undisturbed
      BY <2>5
    <2>6. ASSUME NEW t \in Threads, SetUpdateEntry(t) PROVE Undisturbed
      <3>1. op'[t].at = "set.count" /\ op[t].at = "set.update"
        BY <2>6 DEF SetUpdateEntry, SpacedInv, TypeOK
      <3>2. t # u
        BY <3>1
      <3>3. InSetBackend(t, op[t].pool)
        BY <3>1 DEF InSetBackend, SetAt
      <3>4. op[t].pool # op[u].pool
        BY <2>1, <2>2, <3>2, <3>3 DEF SpacedInv, OneRegistration
      <3> QED
        BY <2>1, <2>4, <2>6, <3>4, StepSetUpdateEntry DEF SetUpdateEntry
    <2>7. ASSUME NEW t \in Threads, SetUpdateCount(t) PROVE Undisturbed
      <3>1. op'[t].at = "set.record" /\ op[t].at = "set.count"
        BY <2>7, StepSetUpdateCount DEF SetUpdateCount
      <3>2. t # u
        BY <3>1
      <3>3. InSetBackend(t, op[t].pool)
        BY <3>1 DEF InSetBackend, SetAt
      <3>4. op[t].pool # op[u].pool
        BY <2>1, <2>2, <3>2, <3>3 DEF SpacedInv, OneRegistration
      <3> QED
        BY <2>1, <2>7, <3>4 DEF SetUpdateCount, SpacedInv, TypeOK
    <2>8. ASSUME NEW t \in Threads, ScoreUpdateEntry(t) PROVE Undisturbed
      <3>1. op[t].slot < poolMeta[op[t].pool]
        BY <2>8, StepScoreUpdateEntry
      <3>2. ~(op[u].pool = op[t].pool /\ op[u].slot = op[t].slot)
        BY <2>1, <2>3, <3>1
      <3> QED
        BY <2>1, <2>4, <2>8, <3>2, StepScoreUpdateEntry DEF ScoreUpdateEntry
    <2>9. Undisturbed
      BY <2>5, <2>6, <2>7, <2>8, MapsChangeIn3Actions
    <2> QED
      BY <1>1, <1>3, <2>9 DEF OwnsFirstInactiveSlot
  <1>4. CASE op[u].at \notin {"set.update", "set.count", "set.record"}
    BY <1>4 DEF OwnsFirstInactiveSlot
  <1> QED
    BY <1>2, <1>3, <1>4

-----------------------------------------------------------------------------
(* The invariant is inductive.                                             *)

LEMMA MembersStay == SpacedInv /\ [SpacedNext]_vars => ActiveSlotsAreMembers'
  <1> SUFFICES ASSUME SpacedInv, [SpacedNext]_vars PROVE ActiveSlotsAreMembers'
    OBVIOUS
  <1> USE DEF ActiveSlotsAreMembers
  <1>1. CASE poolMap' = poolMap /\ poolMeta' = poolMeta
    BY <1>1 DEF SpacedInv
  <1>2. ASSUME NEW t \in Threads, SetUpdateEntry(t) PROVE ActiveSlotsAreMembers'
    <2>1. poolMeta' = poolMeta
      BY <1>2 DEF SetUpdateEntry
    <2>2. \A p \in Pools, s \in Slots : s < poolMeta[p] => poolMap'[p][s] = poolMap[p][s]
      BY <1>2, StepSetUpdateEntry
    <2> QED
      BY <2>1, <2>2 DEF SpacedInv
  <1>3. ASSUME NEW t \in Threads, SetUpdateCount(t) PROVE ActiveSlotsAreMembers'
    <2>1. op[t].pool \in Pools /\ op[t].slot \in Slots /\ op[t].slot = poolMeta[op[t].pool]
      BY <1>3, StepSetUpdateCount DEF SetCounted
    <2>2. poolMap[op[t].pool][op[t].slot] \in Member
      BY <1>3 DEF SetUpdateCount, SpacedInv, OwnsFirstInactiveSlot
    <2>3. \A s \in Slots : s < op[t].slot + 1 => s < op[t].slot \/ s = op[t].slot
      BY <2>1, SlotArithmetic
    <2> QED
      BY <1>3, <2>1, <2>2, <2>3 DEF SetUpdateCount, SpacedInv, TypeOK
  <1>4. ASSUME NEW t \in Threads, ScoreUpdateEntry(t) PROVE ActiveSlotsAreMembers'
    BY <1>4, StepScoreUpdateEntry DEF ScoreUpdateEntry, SpacedInv
  <1> QED
    BY <1>1, <1>2, <1>3, <1>4, MapsChangeIn3Actions

LEMMA RecordedStays ==
    ASSUME SpacedInv, TypeOK', AddressesStay, slotMap' = slotMap
    PROVE  RecordedSlotIsOwn'
  <1> SUFFICES ASSUME NEW p \in Pools, NEW ip \in IPs, slotMap[<<p, ip>>] # NoSlot
               PROVE  /\ slotMap[<<p, ip>>] < poolMeta'[p]
                      /\ poolMap'[p][slotMap[<<p, ip>>]].ip = ip
    BY DEF RecordedSlotIsOwn
  <1> DEFINE s == slotMap[<<p, ip>>]
  <1>1. s \in Slots
    BY DEF SpacedInv, TypeOK
  <1>2. s < poolMeta[p] /\ poolMap[p][s].ip = ip
    BY DEF SpacedInv, RecordedSlotIsOwn
  <1>3. s \in Nat /\ poolMeta[p] \in Nat /\ poolMeta'[p] \in Nat
    BY <1>1, SlotArithmetic DEF SpacedInv, TypeOK
  <1> QED
    BY <1>1, <1>2, <1>3 DEF AddressesStay

LEMMA NextSpaced == SpacedInv /\ [SpacedNext]_vars => SpacedInv'
  <1> SUFFICES ASSUME SpacedInv, [SpacedNext]_vars PROVE SpacedInv'
    OBVIOUS
  <1>1. TypeOK /\ TypeOK'
    BY SpacedIsNext, NextTypeOK DEF SpacedInv
  <1>2. AddressesStay
    BY AddressesDoStay
  <1>3. \A u \in Threads : op'[u] = op[u] => OwnsFirstInactiveSlot(u)' /\ HoldsActiveSlot(u)'
    BY <1>1, <1>2, OwnedSlotStays, HeldSlotStays
  <1>4. slotMap' = slotMap => RecordedSlotIsOwn'
    BY <1>1, <1>2, RecordedStays
  <1>5. OneRegistration' /\ ActiveSlotsAreMembers'
    BY OneRegistrationStays, MembersStay
  <1>6. ASSUME NEW t \in Threads, slotMap' = slotMap,
               \A u \in Threads \ {t} : op'[u] = op[u],
               OwnsFirstInactiveSlot(t)', HoldsActiveSlot(t)'
        PROVE  SpacedInv'
    BY <1>1, <1>3, <1>4, <1>5, <1>6 DEF SpacedInv
  <1>7. CASE UNCHANGED vars
    BY <1>1, <1>3, <1>4, <1>5, <1>7 DEF SpacedInv, vars
  <1>8. ASSUME NEW t \in Threads, SpacedCall(t) \/ SetPoolFull(t) \/ ScoreNoSlot(t)
        PROVE  SpacedInv'
    <2>1. op'[t].at \in {"idle", "set.lookup", "score.slot"}
      BY <1>1, <1>8 DEF TypeOK, SpacedCall, SetBackend, UpdateBackendLoadScore, SetPoolFull,
                        ScoreNoSlot, Idle
    <2>2. OwnsFirstInactiveSlot(t)' /\ HoldsActiveSlot(t)'
      BY <2>1 DEF OwnsFirstInactiveSlot, HoldsActiveSlot
    <2> QED
      BY <1>1, <1>6, <1>8, <2>2 DEF TypeOK, SpacedCall, SetBackend, UpdateBackendLoadScore,
                                    SetPoolFull, ScoreNoSlot, pools
  <1>9. ASSUME NEW t \in Threads, SetLookupCount(t) PROVE SpacedInv'
    <2>1. /\ op'[t].at = "set.update"
          /\ op'[t].pool = op[t].pool
          /\ op'[t].slot = poolMeta[op[t].pool]
      BY <1>1, <1>9 DEF SetLookupCount, TypeOK, pools
    <2>2. OwnsFirstInactiveSlot(t)' /\ HoldsActiveSlot(t)'
      BY <1>9, <2>1 DEF OwnsFirstInactiveSlot, HoldsActiveSlot, SetLookupCount, pools
    <2> QED
      BY <1>1, <1>6, <1>9, <2>2 DEF SetLookupCount, TypeOK, pools
  <1>10. ASSUME NEW t \in Threads, SetUpdateEntry(t) PROVE SpacedInv'
    <2>1. /\ op'[t].at = "set.count"
          /\ op'[t].pool = op[t].pool
          /\ op'[t].ip = op[t].ip
          /\ op'[t].slot = op[t].slot
      BY <1>1, <1>10 DEF SetUpdateEntry, TypeOK
    <2>2. poolMeta' = poolMeta
      BY <1>10 DEF SetUpdateEntry
    <2> DEFINE entry == [ip |-> op[t].ip, load_score |-> op[t].load]
    <2>3. /\ op[t].slot = poolMeta[op[t].pool]
          /\ poolMap'[op[t].pool][op[t].slot] = entry
          /\ entry \in Member
      BY <1>10, StepSetUpdateEntry
    <2>4. OwnsFirstInactiveSlot(t)' /\ HoldsActiveSlot(t)'
      BY <2>1, <2>2, <2>3 DEF OwnsFirstInactiveSlot, HoldsActiveSlot
    <2> QED
      BY <1>1, <1>6, <1>10, <2>4 DEF SetUpdateEntry, TypeOK
  <1>11. ASSUME NEW t \in Threads, SetUpdateCount(t) PROVE SpacedInv'
    <2>1. /\ op[t].pool \in Pools
          /\ op[t].slot \in Nat
          /\ op[t].slot = poolMeta[op[t].pool]
      BY <1>11, StepSetUpdateCount, SlotArithmetic DEF SetCounted
    <2>2. poolMeta'[op[t].pool] = op[t].slot + 1
      BY <1>1, <1>11, <2>1 DEF SetUpdateCount, TypeOK
    <2>3. op[t].slot < poolMeta'[op[t].pool]
      BY <2>1, <2>2
    <2>4. poolMap'[op[t].pool][op[t].slot].ip = op[t].ip
      BY <1>11 DEF SpacedInv, OwnsFirstInactiveSlot, SetUpdateCount
    <2>5. OwnsFirstInactiveSlot(t)' /\ HoldsActiveSlot(t)'
      BY <1>11, <2>3, <2>4, StepSetUpdateCount DEF OwnsFirstInactiveSlot, HoldsActiveSlot
    <2> QED
      BY <1>1, <1>6, <1>11, <2>5 DEF SetUpdateCount, TypeOK
  <1>12. ASSUME NEW t \in Threads, SetRecordSlot(t) PROVE SpacedInv'
    <2>1. op[t] \in SetCounted
      BY <1>12, OpRecord DEF SetRecordSlot, SpacedInv
    <2>2. op[t].slot < poolMeta[op[t].pool] /\ poolMap[op[t].pool][op[t].slot].ip = op[t].ip
      BY <1>12 DEF SetRecordSlot, SpacedInv, OwnsFirstInactiveSlot
    <2>3. RecordedSlotIsOwn'
      <3> SUFFICES ASSUME NEW p \in Pools, NEW ip \in IPs, slotMap'[<<p, ip>>] # NoSlot
                   PROVE  /\ slotMap'[<<p, ip>>] < poolMeta[p]
                          /\ poolMap[p][slotMap'[<<p, ip>>]].ip = ip
        BY <1>12 DEF RecordedSlotIsOwn, SetRecordSlot
      <3>1. CASE p = op[t].pool /\ ip = op[t].ip
        <4>1. slotMap'[<<p, ip>>] = op[t].slot
          BY <1>1, <1>12, <3>1 DEF SetRecordSlot, TypeOK
        <4> QED
          BY <2>2, <3>1, <4>1
      <3>2. CASE ~(p = op[t].pool /\ ip = op[t].ip)
        <4>1. slotMap'[<<p, ip>>] = slotMap[<<p, ip>>]
          BY <1>1, <1>12, <3>2 DEF SetRecordSlot, TypeOK
        <4> QED
          BY <4>1 DEF SpacedInv, RecordedSlotIsOwn
      <3> QED
        BY <3>1, <3>2
    <2>4. op'[t].at = "idle"
      BY <1>1, <1>12 DEF SetRecordSlot, TypeOK, Idle
    <2>5. OwnsFirstInactiveSlot(t)' /\ HoldsActiveSlot(t)'
      BY <2>4 DEF OwnsFirstInactiveSlot, HoldsActiveSlot
    <2>6. \A u \in Threads \ {t} : op'[u] = op[u]
      BY <1>1, <1>12 DEF SetRecordSlot, TypeOK
    <2> QED
      BY <1>1, <1>3, <1>5, <2>3, <2>5, <2>6 DEF SpacedInv
  <1>13. ASSUME NEW t \in Threads, ScoreFindSlot(t) PROVE SpacedInv'
    <2>1. op[t] \in ScoreCall
      BY <1>13, OpRecord DEF ScoreFindSlot, SpacedInv
    <2>2. slotMap[<<op[t].pool, op[t].ip>>] < poolMeta[op[t].pool]
      BY <1>13, <2>1 DEF ScoreFindSlot, ScoreCall, SpacedInv, RecordedSlotIsOwn
    <2>3. /\ op'[t].at = "score.lookup"
          /\ op'[t].pool = op[t].pool
          /\ op'[t].slot = slotMap[<<op[t].pool, op[t].ip>>]
      BY <1>1, <1>13 DEF ScoreFindSlot, TypeOK
    <2>4. OwnsFirstInactiveSlot(t)' /\ HoldsActiveSlot(t)'
      BY <1>13, <2>2, <2>3 DEF OwnsFirstInactiveSlot, HoldsActiveSlot, ScoreFindSlot, pools
    <2> QED
      BY <1>1, <1>6, <1>13, <2>4 DEF ScoreFindSlot, TypeOK, pools
  <1>14. ASSUME NEW t \in Threads, ScoreLookupEntry(t) PROVE SpacedInv'
    <2>1. op[t] \in ScoreRead
      BY <1>14, OpRecord DEF ScoreLookupEntry, SpacedInv
    <2>2. op[t].slot < poolMeta[op[t].pool]
      BY <1>14 DEF ScoreLookupEntry, SpacedInv, HoldsActiveSlot
    <2> DEFINE current == poolMap[op[t].pool][op[t].slot]
    <2>3. current \in Member
      BY <2>1, <2>2 DEF ScoreRead, SpacedInv, ActiveSlotsAreMembers
    <2>4. /\ [current EXCEPT !.load_score = op[t].load] \in Member
          /\ [current EXCEPT !.load_score = op[t].load].ip = current.ip
      BY <2>1, <2>3 DEF ScoreRead, Member, AbstractPool!Member
    <2>5. /\ op'[t].at = "score.update"
          /\ op'[t].pool = op[t].pool
          /\ op'[t].slot = op[t].slot
          /\ op'[t].entry = [current EXCEPT !.load_score = op[t].load]
      BY <1>1, <1>14 DEF ScoreLookupEntry, TypeOK
    <2>6. OwnsFirstInactiveSlot(t)' /\ HoldsActiveSlot(t)'
      BY <1>14, <2>2, <2>4, <2>5
      DEF OwnsFirstInactiveSlot, HoldsActiveSlot, ScoreLookupEntry, pools
    <2> QED
      BY <1>1, <1>6, <1>14, <2>6 DEF ScoreLookupEntry, TypeOK, pools
  <1>15. ASSUME NEW t \in Threads, ScoreUpdateEntry(t) PROVE SpacedInv'
    <2>1. op'[t].at = "idle"
      BY <1>1, <1>15 DEF ScoreUpdateEntry, TypeOK, Idle
    <2>2. OwnsFirstInactiveSlot(t)' /\ HoldsActiveSlot(t)'
      BY <2>1 DEF OwnsFirstInactiveSlot, HoldsActiveSlot
    <2> QED
      BY <1>1, <1>6, <1>15, <2>2 DEF ScoreUpdateEntry, TypeOK
  <1> QED
    BY <1>7, <1>8, <1>9, <1>10, <1>11, <1>12, <1>13, <1>14, <1>15
    DEF SpacedNext, Step, SetBackendStep, ScoreStep

(***************************************************************************)
(* When registrations in a pool do not overlap, the slot recorded for a    *)
(* backend in slotMap is an active one and holds that very backend.        *)
(***************************************************************************)
THEOREM RecordedSlotsAreOwn == SpacedSpec => []RecordedSlotIsOwn
  <1>1. SpacedInv => RecordedSlotIsOwn
    BY DEF SpacedInv
  <1> QED
    BY InitSpaced, NextSpaced, <1>1, PTL DEF SpacedSpec

-----------------------------------------------------------------------------
(* Refinement of PoolSpec.                                                 *)

LEMMA InitRefines == Init => AbstractPool!Init
  <1> SUFFICES ASSUME Init, NEW p \in Pools PROVE ActiveMembers[p] = <<>>
    BY DEF AbstractPool!Init, ActiveMembers
  <1>1. ActiveMembers[p] = [i \in 1 .. 0 |-> poolMap[p][i - 1]]
    BY DEF Init, ActiveMembers
  <1> QED
    BY <1>1

(* A sequence with one more element, and the others the same. *)
LEMMA ExtendedIsAppended ==
    ASSUME NEW S, NEW f \in Seq(S), NEW g \in Seq(S), NEW e \in S,
           Len(g) = Len(f) + 1, g[Len(f) + 1] = e,
           \A i \in 1 .. Len(f) : g[i] = f[i]
    PROVE  g = Append(f, e)
  <1>1. Len(f) \in Nat
    BY LenProperties
  <1>2. /\ Append(f, e) \in Seq(S)
        /\ Len(Append(f, e)) = Len(f) + 1
        /\ \A i \in 1 .. Len(f) : Append(f, e)[i] = f[i]
        /\ Append(f, e)[Len(f) + 1] = e
    BY AppendProperties
  <1>3. \A i \in 1 .. Len(f) + 1 : i \in 1 .. Len(f) \/ i = Len(f) + 1
    BY <1>1
  <1>4. \A i \in 1 .. Len(g) : g[i] = Append(f, e)[i]
    BY <1>2, <1>3
  <1> QED
    BY <1>2, <1>4, SeqEqual

(* The active members of a pool are a sequence as long as its count. *)
LEMMA ActiveMembersAreSeq ==
    ASSUME SpacedInv, NEW p \in Pools
    PROVE  /\ ActiveMembers[p] \in Seq(Member)
           /\ Len(ActiveMembers[p]) = poolMeta[p]
           /\ poolMeta[p] \in Nat
           /\ \A i \in 1 .. poolMeta[p] : i - 1 \in Slots /\ i - 1 < poolMeta[p]
           /\ \A i \in 1 .. poolMeta[p] : ActiveMembers[p][i] = poolMap[p][i - 1]
  <1>1. poolMeta[p] \in Nat /\ poolMeta[p] \in 0 .. Capacity /\ Capacity \in Nat
    BY CapacityAssumption, SlotArithmetic DEF SpacedInv, TypeOK
  <1>2. \A i \in 1 .. poolMeta[p] : i - 1 \in Slots /\ i - 1 < poolMeta[p]
    BY <1>1 DEF Slots
  <1>3. ActiveMembers[p] = [i \in 1 .. poolMeta[p] |-> poolMap[p][i - 1]]
    BY DEF ActiveMembers
  <1>4. \A i \in 1 .. poolMeta[p] : poolMap[p][i - 1] \in Member
    BY <1>2 DEF SpacedInv, ActiveSlotsAreMembers
  <1>5. ActiveMembers[p] \in [1 .. poolMeta[p] -> Member]
    BY <1>3, <1>4
  <1>6. ActiveMembers[p] \in Seq(Member)
    BY <1>1, <1>5, SeqDef
  <1>7. Len(ActiveMembers[p]) = poolMeta[p]
    BY <1>1, <1>5, <1>6, LenProperties
  <1> QED
    BY <1>1, <1>2, <1>3, <1>6, <1>7

MembersAreSeq ==
    \A p \in Pools : ActiveMembers[p] \in Seq(Member) /\ Len(ActiveMembers[p]) = poolMeta[p]

LEMMA SpacedMembersAreSeq == SpacedInv => MembersAreSeq
  BY ActiveMembersAreSeq DEF MembersAreSeq

LEMMA StepRefines == SpacedInv /\ [SpacedNext]_vars => [AbstractPool!Next]_ActiveMembers
  <1> SUFFICES ASSUME SpacedInv, [SpacedNext]_vars
               PROVE  AbstractPool!Next \/ ActiveMembers' = ActiveMembers
    OBVIOUS
  <1>0. SpacedInv'
    BY NextSpaced
  <1>1. CASE poolMap' = poolMap /\ poolMeta' = poolMeta
    BY <1>1 DEF ActiveMembers
  <1>2. ASSUME NEW t \in Threads, SetUpdateEntry(t) PROVE ActiveMembers' = ActiveMembers
    <2>1. poolMeta' = poolMeta
      BY <1>2 DEF SetUpdateEntry
    <2>2. \A p \in Pools : \A i \in 1 .. poolMeta[p] :
              poolMap'[p][i - 1] = poolMap[p][i - 1]
      BY <1>2, StepSetUpdateEntry, ActiveMembersAreSeq
    <2> QED
      BY <2>1, <2>2 DEF ActiveMembers
  <1>3. ASSUME NEW t \in Threads, SetUpdateCount(t) PROVE AbstractPool!Next
    <2> DEFINE p == op[t].pool
               m == poolMap[p][op[t].slot]
    <2>1. /\ p \in Pools
          /\ op[t].slot \in Slots
          /\ op[t].slot = poolMeta[p]
          /\ poolMeta' = [poolMeta EXCEPT ![p] = poolMeta[p] + 1]
      BY <1>3, StepSetUpdateCount DEF SetCounted
    <2>2. m \in Member
      BY <1>3 DEF SetUpdateCount, SpacedInv, OwnsFirstInactiveSlot
    <2>3. poolMap' = poolMap
      BY <1>3 DEF SetUpdateCount
    <2>4. Len(ActiveMembers[p]) < Capacity
      <3>1. poolMeta[p] < Capacity
        BY <2>1, CapacityAssumption DEF Slots
      <3> QED
        BY <2>1, <3>1, ActiveMembersAreSeq
    <2>5. ActiveMembers'[p] = Append(ActiveMembers[p], m)
      <3>1. poolMeta'[p] = poolMeta[p] + 1 /\ poolMeta[p] \in Nat
        BY <2>1, ActiveMembersAreSeq DEF SpacedInv, TypeOK
      <3>2. ActiveMembers'[p] = [i \in 1 .. poolMeta[p] + 1 |-> poolMap[p][i - 1]]
        BY <2>1, <2>3, <3>1 DEF ActiveMembers
      <3>3. /\ ActiveMembers'[p] \in Seq(Member)
            /\ Len(ActiveMembers'[p]) = poolMeta[p] + 1
        <4>1. MembersAreSeq'
          BY <1>0, SpacedMembersAreSeq, PTL
        <4> QED
          BY <2>1, <3>1, <4>1 DEF MembersAreSeq
      <3>4. \A i \in 1 .. poolMeta[p] : ActiveMembers'[p][i] = ActiveMembers[p][i]
        BY <2>1, <3>1, <3>2, ActiveMembersAreSeq
      <3>5. ActiveMembers'[p][poolMeta[p] + 1] = m
        BY <2>1, <3>1, <3>2
      <3>6. ActiveMembers[p] \in Seq(Member) /\ Len(ActiveMembers[p]) = poolMeta[p]
        BY <2>1, ActiveMembersAreSeq
      <3> HIDE DEF p, m
      <3> QED
        BY <2>2, <3>3, <3>4, <3>5, <3>6, ExtendedIsAppended
    <2>6. ActiveMembers' = [ActiveMembers EXCEPT ![p] = Append(ActiveMembers[p], m)]
      <3>1. \A q \in Pools \ {p} : ActiveMembers'[q] = ActiveMembers[q]
        BY <2>1, <2>3 DEF ActiveMembers, SpacedInv, TypeOK
      <3> HIDE DEF p, m
      <3>2. /\ DOMAIN ActiveMembers = Pools
            /\ DOMAIN ActiveMembers' = Pools
            /\ ActiveMembers = [q \in Pools |-> ActiveMembers[q]]
            /\ ActiveMembers' = [q \in Pools |-> ActiveMembers'[q]]
        BY DEF ActiveMembers
      <3> QED
        BY <2>1, <2>5, <3>1, <3>2
    <2>7. AbstractPool!Add(p, m)
      BY <2>4, <2>6 DEF AbstractPool!Add
    <2> QED
      BY <2>1, <2>2, <2>7 DEF AbstractPool!Next, Member
  <1>4. ASSUME NEW t \in Threads, ScoreUpdateEntry(t) PROVE AbstractPool!Next
    <2> DEFINE p == op[t].pool
               s == op[t].slot
               load == op[t].entry.load_score
    <2>1. /\ p \in Pools
          /\ s \in Slots
          /\ s < poolMeta[p]
          /\ op[t].entry \in Member
          /\ op[t].entry.ip = poolMap[p][s].ip
      BY <1>4, StepScoreUpdateEntry DEF ScoreWrite
    <2>2. poolMap[p][s] \in Member
      BY <2>1 DEF SpacedInv, ActiveSlotsAreMembers
    <2>3. op[t].entry = [poolMap[p][s] EXCEPT !.load_score = load]
      BY <2>1, <2>2 DEF Member, AbstractPool!Member
    <2>4. load \in Scores
      BY <2>1 DEF Member, AbstractPool!Member
    <2>5. s + 1 \in 1 .. poolMeta[p] /\ (s + 1) - 1 = s
      <3>1. s \in Nat /\ poolMeta[p] \in Nat /\ s < poolMeta[p]
        BY <2>1, SlotArithmetic, ActiveMembersAreSeq
      <3> HIDE DEF s, p
      <3> QED
        BY <3>1
    <2>6. poolMeta' = poolMeta
      BY <1>4 DEF ScoreUpdateEntry
    <2>7. ActiveMembers'[p] = [ActiveMembers[p] EXCEPT ![s + 1] =
                                  [ActiveMembers[p][s + 1] EXCEPT !.load_score = load]]
      <3>1. ActiveMembers[p] = [i \in 1 .. poolMeta[p] |-> poolMap[p][i - 1]]
        BY <2>1 DEF ActiveMembers
      <3>2. ActiveMembers'[p] = [i \in 1 .. poolMeta[p] |-> poolMap'[p][i - 1]]
        BY <2>1, <2>6 DEF ActiveMembers
      <3>3. \A i \in 1 .. poolMeta[p] :
                poolMap'[p][i - 1] = IF i = s + 1 THEN op[t].entry ELSE poolMap[p][i - 1]
        <4> SUFFICES ASSUME NEW i \in 1 .. poolMeta[p]
                     PROVE  poolMap'[p][i - 1] = IF i = s + 1 THEN op[t].entry
                                                             ELSE poolMap[p][i - 1]
          OBVIOUS
        <4>1. i - 1 \in Slots
          BY <2>1, ActiveMembersAreSeq
        <4>2. CASE i = s + 1
          <5>1. i - 1 = s
            BY <2>5, <4>2
          <5> QED
            BY <1>4, <4>2, <5>1, StepScoreUpdateEntry
        <4>3. CASE i # s + 1
          <5>1. i - 1 # s
            BY <2>1, <4>3, SlotArithmetic, ActiveMembersAreSeq
          <5> QED
            BY <1>4, <2>1, <4>1, <4>3, <5>1, StepScoreUpdateEntry
        <4> QED
          BY <4>2, <4>3
      <3>4. [ActiveMembers[p][s + 1] EXCEPT !.load_score = load] = op[t].entry
        BY <2>3, <2>5, <3>1
      <3>5. ActiveMembers'[p] = [ActiveMembers[p] EXCEPT ![s + 1] = op[t].entry]
        BY <3>1, <3>2, <3>3
      <3> QED
        BY <3>4, <3>5
    <2>8. AbstractPool!SetScore(p, s + 1, load)
      <3>1. \A q \in Pools \ {p} : ActiveMembers'[q] = ActiveMembers[q]
        BY <1>4, <2>6 DEF ActiveMembers, ScoreUpdateEntry, SpacedInv, TypeOK
      <3> HIDE DEF p, s, load
      <3>2. /\ ActiveMembers = [q \in Pools |-> ActiveMembers[q]]
            /\ ActiveMembers' = [q \in Pools |-> ActiveMembers'[q]]
        BY DEF ActiveMembers
      <3>3. ActiveMembers' = [ActiveMembers EXCEPT ![p] =
                                 [ActiveMembers[p] EXCEPT ![s + 1] =
                                     [ActiveMembers[p][s + 1] EXCEPT !.load_score = load]]]
        BY <2>1, <2>7, <3>1, <3>2
      <3> QED
        BY <3>3 DEF AbstractPool!SetScore
    <2>9. s + 1 \in DOMAIN ActiveMembers[p]
      BY <2>1, <2>5 DEF ActiveMembers
    <2> QED
      BY <2>1, <2>4, <2>8, <2>9 DEF AbstractPool!Next
  <1> QED
    BY <1>1, <1>2, <1>3, <1>4, MapsChangeIn3Actions

(***************************************************************************)
(* When registrations in a pool do not overlap, the BPF pool maps behave   *)
(* as the append-only list of members that conntrack's slots rely on.      *)
(***************************************************************************)
THEOREM PoolMapsImplementPool == SpacedSpec => ImplementsPool
  BY InitSpaced, NextSpaced, InitRefines, StepRefines, PTL
  DEF SpacedSpec, ImplementsPool, AbstractPool!Spec
=============================================================================
