---------------------------- MODULE LoaderProofs ----------------------------
(***************************************************************************)
(* Proofs about Loader, for every set of pools, backends, scores and       *)
(* goroutines and for every capacity.                                      *)
(***************************************************************************)
EXTENDS Loader, TLAPS

-----------------------------------------------------------------------------
(* Type correctness.                                                       *)

(* The program counter of a thread tells which locals it carries. *)
LEMMA OpRecord ==
    ASSUME TypeOK, NEW t \in Threads
    PROVE  /\ op[t].at = "set.lookup" => op[t] \in SetCall
           /\ op[t].at = "set.update" => op[t] \in SetUpdate
           /\ op[t].at \in {"set.count", "set.record"} => op[t] \in SetCounted
           /\ op[t].at = "score.slot" => op[t] \in ScoreCall
           /\ op[t].at = "score.lookup" => op[t] \in ScoreRead
           /\ op[t].at = "score.update" => op[t] \in ScoreWrite
  BY DEF TypeOK, Idle, SetCall, SetUpdate, SetCounted, ScoreCall, ScoreRead, ScoreWrite

(* Slots are numbered from 0 and the slot after the last one is Capacity. *)
LEMMA SlotArithmetic ==
    /\ Slots \subseteq 0 .. Capacity
    /\ \A s \in Slots : s \in Nat /\ s + 1 \in 0 .. Capacity /\ s < s + 1
    /\ \A n \in 0 .. Capacity : n \in Nat
    /\ \A s, n \in Slots : s < n + 1 => s < n \/ s = n
    /\ NoSlot \notin Slots
  <1>1. Capacity \in Nat
    BY CapacityAssumption
  <1>2. \A s \in Slots : s \in Nat /\ s + 1 \in 0 .. Capacity /\ s < s + 1
    BY <1>1 DEF Slots
  <1>3. \A s, n \in Slots : s < n + 1 => s < n \/ s = n
    BY <1>2
  <1> QED
    BY <1>1, <1>2, <1>3 DEF Slots, NoSlot

LEMMA InitTypeOK == Init => TypeOK
  <1> SUFFICES ASSUME Init PROVE TypeOK
    OBVIOUS
  <1>1. ZeroEntry \in Entry
    BY DEF ZeroEntry, Entry
  <1>2. 0 \in 0 .. Capacity
    BY CapacityAssumption
  <1> QED
    BY <1>1, <1>2 DEF Init, TypeOK

LEMMA NextTypeOK == TypeOK /\ [Next]_vars => TypeOK'
  <1> SUFFICES ASSUME TypeOK, [Next]_vars PROVE TypeOK'
    OBVIOUS
  <1>1. CASE UNCHANGED vars
    BY <1>1 DEF vars, TypeOK
  <1>2. ASSUME NEW t \in Threads, Call(t) PROVE TypeOK'
    <2>1. PICK p \in Pools, ip \in IPs, load \in Scores :
              \/ SetBackend(t, p, ip, load)
              \/ UpdateBackendLoadScore(t, p, ip, load)
      BY <1>2 DEF Call
    <2>2. [at |-> "set.lookup", pool |-> p, ip |-> ip, load |-> load] \in SetCall
      BY DEF SetCall
    <2>3. [at |-> "score.slot", pool |-> p, ip |-> ip, load |-> load] \in ScoreCall
      BY DEF ScoreCall
    <2>4. CASE SetBackend(t, p, ip, load)
      BY <2>2, <2>4 DEF SetBackend, TypeOK, pools
    <2>5. CASE UpdateBackendLoadScore(t, p, ip, load)
      BY <2>3, <2>5 DEF UpdateBackendLoadScore, TypeOK, pools
    <2> QED
      BY <2>1, <2>4, <2>5
  <1>3. ASSUME NEW t \in Threads, SetLookupCount(t) PROVE TypeOK'
    <2>1. op[t] \in SetCall
      BY <1>3, OpRecord DEF SetLookupCount
    <2>2. [at |-> "set.update", pool |-> op[t].pool, ip |-> op[t].ip,
           load |-> op[t].load, slot |-> poolMeta[op[t].pool]] \in SetUpdate
      BY <2>1 DEF SetCall, SetUpdate, TypeOK
    <2> QED
      BY <1>3, <2>2 DEF SetLookupCount, TypeOK, pools
  <1>4. ASSUME NEW t \in Threads, SetPoolFull(t) PROVE TypeOK'
    BY <1>4 DEF SetPoolFull, TypeOK, pools
  <1>5. ASSUME NEW t \in Threads, SetUpdateEntry(t) PROVE TypeOK'
    <2>1. op[t] \in SetUpdate /\ op[t].slot \in Slots
      BY <1>5, OpRecord DEF SetUpdateEntry
    <2>2. [ip |-> op[t].ip, load_score |-> op[t].load] \in Entry
      BY <2>1 DEF SetUpdate, Entry
    <2>3. [at |-> "set.count", pool |-> op[t].pool, ip |-> op[t].ip,
           slot |-> op[t].slot] \in SetCounted
      BY <2>1 DEF SetUpdate, SetCounted
    <2>4. op[t].pool \in Pools
      BY <2>1 DEF SetUpdate
    <2> QED
      BY <1>5, <2>1, <2>2, <2>3, <2>4 DEF SetUpdateEntry, TypeOK
  <1>6. ASSUME NEW t \in Threads, SetUpdateCount(t) PROVE TypeOK'
    <2>1. op[t] \in SetCounted
      BY <1>6, OpRecord DEF SetUpdateCount
    <2>2. op[t].pool \in Pools /\ op[t].slot + 1 \in 0 .. Capacity
      BY <2>1, SlotArithmetic DEF SetCounted
    <2>3. [op[t] EXCEPT !.at = "set.record"] \in SetCounted
      BY <2>1 DEF SetCounted
    <2>4. op' = [op EXCEPT ![t] = [op[t] EXCEPT !.at = "set.record"]]
      BY <1>6 DEF SetUpdateCount
    <2> QED
      BY <1>6, <2>2, <2>3, <2>4 DEF SetUpdateCount, TypeOK
  <1>7. ASSUME NEW t \in Threads, SetRecordSlot(t) PROVE TypeOK'
    <2>1. op[t] \in SetCounted
      BY <1>7, OpRecord DEF SetRecordSlot
    <2>2. op[t].slot \in Slots /\ <<op[t].pool, op[t].ip>> \in Pools \X IPs
      BY <2>1 DEF SetCounted
    <2> QED
      BY <1>7, <2>2 DEF SetRecordSlot, TypeOK
  <1>8. ASSUME NEW t \in Threads, ScoreNoSlot(t) PROVE TypeOK'
    BY <1>8 DEF ScoreNoSlot, TypeOK, pools
  <1>9. ASSUME NEW t \in Threads, ScoreFindSlot(t) PROVE TypeOK'
    <2>1. op[t] \in ScoreCall
      BY <1>9, OpRecord DEF ScoreFindSlot
    <2>2. slotMap[<<op[t].pool, op[t].ip>>] \in Slots
      BY <1>9, <2>1 DEF ScoreFindSlot, ScoreCall, TypeOK
    <2>3. [at |-> "score.lookup", pool |-> op[t].pool,
           slot |-> slotMap[<<op[t].pool, op[t].ip>>], load |-> op[t].load] \in ScoreRead
      BY <2>1, <2>2 DEF ScoreCall, ScoreRead
    <2> QED
      BY <1>9, <2>3 DEF ScoreFindSlot, TypeOK, pools
  <1>10. ASSUME NEW t \in Threads, ScoreLookupEntry(t) PROVE TypeOK'
    <2>1. op[t] \in ScoreRead
      BY <1>10, OpRecord DEF ScoreLookupEntry
    <2>2. poolMap[op[t].pool][op[t].slot] \in Entry
      BY <2>1 DEF ScoreRead, TypeOK
    <2>3. [poolMap[op[t].pool][op[t].slot] EXCEPT !.load_score = op[t].load] \in Entry
      BY <2>1, <2>2 DEF ScoreRead, Entry
    <2>4. [at |-> "score.update", pool |-> op[t].pool, slot |-> op[t].slot,
           entry |-> [poolMap[op[t].pool][op[t].slot] EXCEPT !.load_score = op[t].load]]
              \in ScoreWrite
      BY <2>1, <2>3 DEF ScoreRead, ScoreWrite
    <2> QED
      BY <1>10, <2>4 DEF ScoreLookupEntry, TypeOK, pools
  <1>11. ASSUME NEW t \in Threads, ScoreUpdateEntry(t) PROVE TypeOK'
    <2>1. op[t] \in ScoreWrite
      BY <1>11, OpRecord DEF ScoreUpdateEntry
    <2>2. op[t].pool \in Pools /\ op[t].slot \in Slots /\ op[t].entry \in Entry
      BY <2>1 DEF ScoreWrite
    <2> QED
      BY <1>11, <2>2 DEF ScoreUpdateEntry, TypeOK
  <1> QED
    BY <1>1, <1>2, <1>3, <1>4, <1>5, <1>6, <1>7, <1>8, <1>9, <1>10, <1>11
    DEF Next, Step, SetBackendStep, ScoreStep

(***************************************************************************)
(* Every variable keeps its type, whatever calls of SetBackend and         *)
(* UpdateBackendLoadScore overlap; in particular the active count never    *)
(* exceeds max_entries and no score is written outside the arrays.         *)
(***************************************************************************)
THEOREM TypeCorrect == Spec => []TypeOK
  BY InitTypeOK, NextTypeOK, PTL DEF Spec

(***************************************************************************)
(* A pool that has had a backend always has one: SetBackend writes counts  *)
(* above the slot it filled.  xdp_forward reads the count twice, once to   *)
(* see that it is not 0 and once to divide by it (xdp_forward.c:341, 347). *)
(***************************************************************************)
LEMMA CountStaysPositive ==
    ASSUME TypeOK, [Next]_vars, NEW p \in Pools, poolMeta[p] # 0
    PROVE  poolMeta'[p] # 0
  <1>1. CASE poolMeta' = poolMeta
    BY <1>1
  <1>2. ASSUME NEW t \in Threads, SetUpdateCount(t) PROVE poolMeta'[p] # 0
    <2>1. op[t].slot \in Slots
      BY <1>2, OpRecord DEF SetUpdateCount, SetCounted
    <2>2. op[t].slot + 1 # 0
      BY <2>1, SlotArithmetic
    <2> QED
      BY <1>2, <2>2 DEF SetUpdateCount, TypeOK
  <1> QED
    BY <1>1, <1>2 DEF Next, Call, Step, SetBackendStep, ScoreStep, vars, pools, SetBackend,
                      UpdateBackendLoadScore, SetLookupCount, SetPoolFull, SetUpdateEntry,
                      SetRecordSlot, ScoreNoSlot, ScoreFindSlot, ScoreLookupEntry,
                      ScoreUpdateEntry

-----------------------------------------------------------------------------
(* Active slots are populated, whatever calls overlap.                     *)

(***************************************************************************)
(* ActiveSlotsPopulated is not inductive: SetUpdateCount publishes a count *)
(* that another thread may have overtaken.  What makes it safe is that a   *)
(* slot, once populated, stays so, hence a count that was right when it    *)
(* was read is right for ever, and so is a slot number.                    *)
(***************************************************************************)
PopulatedBelow(p, n) == \A s \in Slots : s < n => Populated(p, s)

SlotsInFlightPopulated(t) ==
    /\ op[t].at = "set.update" => PopulatedBelow(op[t].pool, op[t].slot)
    /\ op[t].at = "set.count" => PopulatedBelow(op[t].pool, op[t].slot + 1)
    /\ op[t].at = "set.record" => Populated(op[t].pool, op[t].slot)
    /\ op[t].at = "score.lookup" => Populated(op[t].pool, op[t].slot)
    /\ op[t].at = "score.update" => op[t].entry.ip # None

RecordedSlotsPopulated ==
    \A p \in Pools, ip \in IPs :
        slotMap[<<p, ip>>] # NoSlot => Populated(p, slotMap[<<p, ip>>])

PopulatedInv ==
    /\ TypeOK
    /\ ActiveSlotsPopulated
    /\ RecordedSlotsPopulated
    /\ \A t \in Threads : SlotsInFlightPopulated(t)

LEMMA InitPopulated == Init => PopulatedInv
  <1> SUFFICES ASSUME Init PROVE PopulatedInv
    OBVIOUS
  <1>1. \A s \in Slots : ~(s < 0)
    BY SlotArithmetic
  <1>2. ActiveSlotsPopulated
    BY <1>1 DEF Init, ActiveSlotsPopulated
  <1>3. RecordedSlotsPopulated
    BY DEF Init, RecordedSlotsPopulated
  <1>4. \A t \in Threads : SlotsInFlightPopulated(t)
    BY DEF Init, SlotsInFlightPopulated, Idle
  <1> QED
    BY <1>2, <1>3, <1>4, InitTypeOK DEF PopulatedInv

(* No step empties a slot: SetBackend writes an address, and a score is    *)
(* written back with the address that was read.                            *)
PopulatedGrows == \A p \in Pools, s \in Slots : Populated(p, s) => Populated(p, s)'

LEMMA PopulatedStays == PopulatedInv /\ [Next]_vars => PopulatedGrows
  <1> SUFFICES ASSUME PopulatedInv, [Next]_vars PROVE PopulatedGrows
    OBVIOUS
  <1> USE DEF PopulatedGrows, Populated
  <1>1. CASE poolMap' = poolMap
    BY <1>1
  <1>2. ASSUME NEW t \in Threads, SetUpdateEntry(t) PROVE PopulatedGrows
    <2>1. op[t] \in SetUpdate
      BY <1>2, OpRecord DEF SetUpdateEntry, PopulatedInv
    <2>2. op[t].ip # None
      BY <2>1, NoneAssumption DEF SetUpdate
    <2> QED
      BY <1>2, <2>2 DEF SetUpdateEntry, PopulatedInv, TypeOK
  <1>3. ASSUME NEW t \in Threads, ScoreUpdateEntry(t) PROVE PopulatedGrows
    <2>1. op[t].entry.ip # None
      BY <1>3 DEF ScoreUpdateEntry, PopulatedInv, SlotsInFlightPopulated
    <2> QED
      BY <1>3, <2>1 DEF ScoreUpdateEntry, PopulatedInv, TypeOK
  <1>4. poolMap' = poolMap \/ \E t \in Threads : SetUpdateEntry(t) \/ ScoreUpdateEntry(t)
    BY DEF Next, Call, Step, SetBackendStep, ScoreStep, vars, pools, SetBackend,
           UpdateBackendLoadScore, SetLookupCount, SetPoolFull, SetUpdateCount,
           SetRecordSlot, ScoreNoSlot, ScoreFindSlot, ScoreLookupEntry
  <1> QED
    BY <1>1, <1>2, <1>3, <1>4

(* What a thread that takes no step has read stays right. *)
LEMMA StaysInFlight ==
    ASSUME TypeOK, PopulatedGrows, NEW u \in Threads, op'[u] = op[u],
           SlotsInFlightPopulated(u)
    PROVE  SlotsInFlightPopulated(u)'
  <1>1. CASE op[u].at = "set.update"
    <2>1. op[u].pool \in Pools
      BY <1>1, OpRecord DEF SetUpdate
    <2> QED
      BY <1>1, <2>1 DEF SlotsInFlightPopulated, PopulatedBelow, PopulatedGrows
  <1>2. CASE op[u].at \in {"set.count", "set.record"}
    <2>1. op[u].pool \in Pools /\ op[u].slot \in Slots
      BY <1>2, OpRecord DEF SetCounted
    <2> QED
      BY <1>2, <2>1 DEF SlotsInFlightPopulated, PopulatedBelow, PopulatedGrows
  <1>3. CASE op[u].at = "score.lookup"
    <2>1. op[u].pool \in Pools /\ op[u].slot \in Slots
      BY <1>3, OpRecord DEF ScoreRead
    <2> QED
      BY <1>3, <2>1 DEF SlotsInFlightPopulated, PopulatedGrows
  <1>4. CASE op[u].at \notin {"set.update", "set.count", "set.record", "score.lookup"}
    BY <1>4 DEF SlotsInFlightPopulated
  <1> QED
    BY <1>1, <1>2, <1>3, <1>4

LEMMA NextPopulated == PopulatedInv /\ [Next]_vars => PopulatedInv'
  <1> SUFFICES ASSUME PopulatedInv, [Next]_vars PROVE PopulatedInv'
    OBVIOUS
  <1>1. TypeOK /\ TypeOK' /\ PopulatedGrows
    BY NextTypeOK, PopulatedStays DEF PopulatedInv
  <1>2. \A u \in Threads : op'[u] = op[u] => SlotsInFlightPopulated(u)'
    BY <1>1, StaysInFlight DEF PopulatedInv
  <1>3. poolMeta' = poolMeta => ActiveSlotsPopulated'
    BY <1>1 DEF PopulatedInv, ActiveSlotsPopulated, PopulatedGrows
  <1>4. slotMap' = slotMap => RecordedSlotsPopulated'
    BY <1>1 DEF PopulatedInv, RecordedSlotsPopulated, PopulatedGrows, TypeOK
  <1>5. ASSUME NEW t \in Threads, poolMeta' = poolMeta, slotMap' = slotMap,
               \A u \in Threads \ {t} : op'[u] = op[u], SlotsInFlightPopulated(t)'
        PROVE  PopulatedInv'
    BY <1>1, <1>2, <1>3, <1>4, <1>5 DEF PopulatedInv
  <1>6. CASE UNCHANGED vars
    BY <1>1, <1>2, <1>3, <1>4, <1>6 DEF PopulatedInv, vars
  <1>7. ASSUME NEW t \in Threads, Call(t) \/ SetPoolFull(t) \/ ScoreNoSlot(t)
        PROVE  PopulatedInv'
    <2>1. op'[t].at \in {"idle", "set.lookup", "score.slot"}
      BY <1>1, <1>7 DEF TypeOK, Call, SetBackend, UpdateBackendLoadScore, SetPoolFull,
                        ScoreNoSlot, Idle
    <2>2. SlotsInFlightPopulated(t)'
      BY <2>1 DEF SlotsInFlightPopulated
    <2> QED
      BY <1>1, <1>5, <1>7, <2>2 DEF TypeOK, Call, SetBackend, UpdateBackendLoadScore,
                                    SetPoolFull, ScoreNoSlot, pools
  <1>8. ASSUME NEW t \in Threads, SetLookupCount(t) PROVE PopulatedInv'
    <2>1. op[t] \in SetCall
      BY <1>1, <1>8, OpRecord DEF SetLookupCount
    <2>2. PopulatedBelow(op[t].pool, poolMeta[op[t].pool])
      BY <2>1 DEF PopulatedInv, ActiveSlotsPopulated, PopulatedBelow, SetCall
    <2>3. op'[t].at = "set.update" /\ op'[t].pool = op[t].pool
          /\ op'[t].slot = poolMeta[op[t].pool] /\ poolMap' = poolMap
      BY <1>1, <1>8 DEF SetLookupCount, TypeOK, pools
    <2>4. SlotsInFlightPopulated(t)'
      BY <2>2, <2>3 DEF SlotsInFlightPopulated, PopulatedBelow, Populated
    <2> QED
      BY <1>1, <1>5, <1>8, <2>4 DEF SetLookupCount, TypeOK, pools
  <1>9. ASSUME NEW t \in Threads, SetUpdateEntry(t) PROVE PopulatedInv'
    <2>1. op[t] \in SetUpdate /\ op[t].slot \in Slots
      BY <1>1, <1>9, OpRecord DEF SetUpdateEntry
    <2>2. op[t].ip # None /\ op[t].pool \in Pools
      BY <2>1, NoneAssumption DEF SetUpdate
    <2>3. PopulatedBelow(op[t].pool, op[t].slot)'
      BY <1>1, <1>9, <2>2 DEF PopulatedInv, SlotsInFlightPopulated, SetUpdateEntry,
                              PopulatedBelow, PopulatedGrows
    <2>4. Populated(op[t].pool, op[t].slot)'
      BY <1>1, <1>9, <2>1, <2>2 DEF SetUpdateEntry, Populated, TypeOK
    <2>5. op'[t].at = "set.count" /\ op'[t].pool = op[t].pool /\ op'[t].slot = op[t].slot
      BY <1>1, <1>9 DEF SetUpdateEntry, TypeOK
    <2>6. \A s \in Slots : s < op[t].slot + 1 => s < op[t].slot \/ s = op[t].slot
      BY <2>1, SlotArithmetic
    <2>7. SlotsInFlightPopulated(t)'
      BY <2>3, <2>4, <2>5, <2>6 DEF SlotsInFlightPopulated, PopulatedBelow
    <2> QED
      BY <1>1, <1>5, <1>9, <2>7 DEF SetUpdateEntry, TypeOK
  <1>10. ASSUME NEW t \in Threads, SetUpdateCount(t) PROVE PopulatedInv'
    <2>1. op[t] \in SetCounted /\ op[t].slot \in Slots
      BY <1>1, <1>10, OpRecord DEF SetUpdateCount, SetCounted
    <2>2. PopulatedBelow(op[t].pool, op[t].slot + 1)
      BY <1>10 DEF PopulatedInv, SlotsInFlightPopulated, SetUpdateCount
    <2>3. ActiveSlotsPopulated'
      BY <1>1, <1>10, <2>2 DEF SetUpdateCount, ActiveSlotsPopulated, PopulatedBelow,
                               PopulatedInv, Populated, TypeOK
    <2>4. Populated(op[t].pool, op[t].slot)
      BY <2>1, <2>2, SlotArithmetic DEF PopulatedBelow
    <2>5. op'[t].at = "set.record" /\ op'[t].pool = op[t].pool /\ op'[t].slot = op[t].slot
      BY <1>1, <1>10, <2>1 DEF SetUpdateCount, SetCounted, TypeOK
    <2>6. SlotsInFlightPopulated(t)'
      BY <1>10, <2>4, <2>5 DEF SetUpdateCount, SlotsInFlightPopulated, Populated
    <2>7. \A u \in Threads \ {t} : op'[u] = op[u]
      BY <1>1, <1>10 DEF SetUpdateCount, TypeOK
    <2> QED
      BY <1>1, <1>2, <1>4, <1>10, <2>3, <2>6, <2>7 DEF SetUpdateCount, PopulatedInv
  <1>11. ASSUME NEW t \in Threads, SetRecordSlot(t) PROVE PopulatedInv'
    <2>1. op[t] \in SetCounted
      BY <1>1, <1>11, OpRecord DEF SetRecordSlot
    <2>2. Populated(op[t].pool, op[t].slot)
      BY <1>11 DEF PopulatedInv, SlotsInFlightPopulated, SetRecordSlot
    <2>3. RecordedSlotsPopulated'
      BY <1>1, <1>11, <2>1, <2>2 DEF SetRecordSlot, SetCounted, RecordedSlotsPopulated,
                                     PopulatedInv, Populated, TypeOK
    <2>4. op'[t].at = "idle"
      BY <1>1, <1>11 DEF SetRecordSlot, Idle, TypeOK
    <2>5. SlotsInFlightPopulated(t)'
      BY <2>4 DEF SlotsInFlightPopulated
    <2>6. \A u \in Threads \ {t} : op'[u] = op[u]
      BY <1>1, <1>11 DEF SetRecordSlot, TypeOK
    <2> QED
      BY <1>1, <1>2, <1>3, <1>11, <2>3, <2>5, <2>6 DEF SetRecordSlot, PopulatedInv
  <1>12. ASSUME NEW t \in Threads, ScoreFindSlot(t) PROVE PopulatedInv'
    <2>1. op[t] \in ScoreCall
      BY <1>1, <1>12, OpRecord DEF ScoreFindSlot
    <2>2. Populated(op[t].pool, slotMap[<<op[t].pool, op[t].ip>>])
      BY <1>12, <2>1 DEF ScoreFindSlot, ScoreCall, PopulatedInv, RecordedSlotsPopulated
    <2>3. op'[t].at = "score.lookup" /\ op'[t].pool = op[t].pool
          /\ op'[t].slot = slotMap[<<op[t].pool, op[t].ip>>] /\ poolMap' = poolMap
      BY <1>1, <1>12 DEF ScoreFindSlot, TypeOK, pools
    <2>4. SlotsInFlightPopulated(t)'
      BY <2>2, <2>3 DEF SlotsInFlightPopulated, Populated
    <2> QED
      BY <1>1, <1>5, <1>12, <2>4 DEF ScoreFindSlot, TypeOK, pools
  <1>13. ASSUME NEW t \in Threads, ScoreLookupEntry(t) PROVE PopulatedInv'
    <2>1. op[t] \in ScoreRead
      BY <1>1, <1>13, OpRecord DEF ScoreLookupEntry
    <2>2. Populated(op[t].pool, op[t].slot)
      BY <1>13 DEF PopulatedInv, SlotsInFlightPopulated, ScoreLookupEntry
    <2>3. poolMap[op[t].pool][op[t].slot] \in Entry
      BY <1>1, <2>1 DEF ScoreRead, TypeOK
    <2>4. op'[t].at = "score.update"
          /\ op'[t].entry = [poolMap[op[t].pool][op[t].slot] EXCEPT !.load_score = op[t].load]
      BY <1>1, <1>13 DEF ScoreLookupEntry, TypeOK
    <2>5. op'[t].entry.ip = poolMap[op[t].pool][op[t].slot].ip
      BY <2>3, <2>4 DEF Entry
    <2>6. SlotsInFlightPopulated(t)'
      BY <2>2, <2>4, <2>5 DEF SlotsInFlightPopulated, Populated
    <2> QED
      BY <1>1, <1>5, <1>13, <2>6 DEF ScoreLookupEntry, TypeOK, pools
  <1>14. ASSUME NEW t \in Threads, ScoreUpdateEntry(t) PROVE PopulatedInv'
    <2>1. op'[t].at = "idle"
      BY <1>1, <1>14 DEF ScoreUpdateEntry, Idle, TypeOK
    <2>2. SlotsInFlightPopulated(t)'
      BY <2>1 DEF SlotsInFlightPopulated
    <2> QED
      BY <1>1, <1>5, <1>14, <2>2 DEF ScoreUpdateEntry, TypeOK
  <1> QED
    BY <1>6, <1>7, <1>8, <1>9, <1>10, <1>11, <1>12, <1>13, <1>14
    DEF Next, Step, SetBackendStep, ScoreStep

(***************************************************************************)
(* Whatever calls overlap, a slot below the active count holds a backend:  *)
(* the XDP program never forwards to the zero entry.                       *)
(***************************************************************************)
THEOREM ActiveSlotsArePopulated == Spec => []ActiveSlotsPopulated
  <1>1. PopulatedInv => ActiveSlotsPopulated
    BY DEF PopulatedInv
  <1> QED
    BY InitPopulated, NextPopulated, <1>1, PTL DEF Spec

(***************************************************************************)
(* Whatever calls overlap, UpdateBackendLoadScore writes back an entry     *)
(* that names a backend.                                                   *)
(***************************************************************************)
THEOREM ScoresKeepBackends == Spec => []ScoreKeepsABackend
  <1>1. PopulatedInv => ScoreKeepsABackend
    BY DEF PopulatedInv, SlotsInFlightPopulated, ScoreKeepsABackend
  <1> QED
    BY InitPopulated, NextPopulated, <1>1, PTL DEF Spec
=============================================================================
