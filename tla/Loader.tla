------------------------------- MODULE Loader -------------------------------
(***************************************************************************)
(* bpfloader: the control plane's writer of the BPF pool maps that the XDP *)
(* programs read.  SetBackend and UpdateBackendLoadScore are called from   *)
(* many goroutines at once.  Each BPF system call is atomic, and nothing   *)
(* is locked between two of them (slotMu covers slotMap only), so every    *)
(* system call and every slotMap access is an action of its own here.      *)
(*                                                                         *)
(* A pool entry keeps the backend's IP and load score.  Port and MAC are   *)
(* written together with the IP and never separately, so the IP stands for *)
(* all three.                                                              *)
(***************************************************************************)
EXTENDS Integers

CONSTANTS
    Pools,      \* pool names: the TCP and the UDP pool
    IPs,        \* IPv4 addresses of backends
    None,       \* the IP of a zero-initialised array element
    Capacity,   \* max_entries of tcp_pool and of udp_pool (100)
    Scores,     \* load scores callers pass
    Threads     \* goroutines that may be inside the loader

ASSUME CapacityAssumption == Capacity \in Nat \ {0}
ASSUME NoneAssumption == None \notin IPs

VARIABLES
    poolMap,    \* poolMap[p][s]: entry in slot s of p's BPF array
    poolMeta,   \* poolMeta[p]: active count of p, in the BPF map pool_meta
    slotMap,    \* slotMap[<<p, ip>>]: Go map of the slot recorded for a backend
    op          \* op[t]: how far thread t is in its loader call, with its locals

pools == <<poolMap, poolMeta, slotMap>>
vars == <<poolMap, poolMeta, slotMap, op>>

Slots == 0 .. Capacity - 1
NoSlot == -1                     \* key absent from slotMap

Entry == [ip : IPs \cup {None}, load_score : Scores \cup {0}]
ZeroEntry == [ip |-> None, load_score |-> 0]

Idle == [at |-> "idle"]
SetCall == [at : {"set.lookup"}, pool : Pools, ip : IPs, load : Scores]
SetUpdate == [at : {"set.update"}, pool : Pools, ip : IPs, load : Scores, slot : 0 .. Capacity]
SetCounted == [at : {"set.count", "set.record"}, pool : Pools, ip : IPs, slot : Slots]
ScoreCall == [at : {"score.slot"}, pool : Pools, ip : IPs, load : Scores]
ScoreRead == [at : {"score.lookup"}, pool : Pools, slot : Slots, load : Scores]
ScoreWrite == [at : {"score.update"}, pool : Pools, slot : Slots, entry : Entry]

TypeOK ==
    /\ poolMap \in [Pools -> [Slots -> Entry]]
    /\ poolMeta \in [Pools -> 0 .. Capacity]
    /\ slotMap \in [Pools \X IPs -> Slots \cup {NoSlot}]
    /\ op \in [Threads -> {Idle} \cup SetCall \cup SetUpdate \cup SetCounted
                            \cup ScoreCall \cup ScoreRead \cup ScoreWrite]

Init ==
    /\ poolMap = [p \in Pools |-> [s \in Slots |-> ZeroEntry]]
    /\ poolMeta = [p \in Pools |-> 0]
    /\ slotMap = [k \in Pools \X IPs |-> NoSlot]
    /\ op = [t \in Threads |-> Idle]

-----------------------------------------------------------------------------
(* SetBackend(pool, ip, port, loadScore, mac), one action per step.        *)

SetBackend(t, p, ip, load) ==
    /\ op[t] = Idle
    /\ op' = [op EXCEPT ![t] = [at |-> "set.lookup", pool |-> p, ip |-> ip, load |-> load]]
    /\ UNCHANGED pools

\* Mutant of SetLookupCount: it reserves the slot, by publishing the count first
SetLookupCountReserving(t) ==
    /\ op[t].at = "set.lookup"
    /\ poolMeta[op[t].pool] < Capacity
    /\ op' = [op EXCEPT ![t] = [at |-> "set.update", pool |-> @.pool, ip |-> @.ip,
                                load |-> @.load, slot |-> poolMeta[@.pool]]]
    /\ poolMeta' = [poolMeta EXCEPT ![op[t].pool] = @ + 1]
    /\ UNCHANGED <<poolMap, slotMap>>

\* Mutant of SetLookupCount: a backend that registers again gets its slot back
SetLookupCountReusing(t) ==
    /\ op[t].at = "set.lookup"
    /\ LET recorded == slotMap[<<op[t].pool, op[t].ip>>] IN
       op' = [op EXCEPT ![t] = [at |-> "set.update", pool |-> @.pool, ip |-> @.ip,
                                load |-> @.load,
                                slot |-> IF recorded # NoSlot THEN recorded
                                         ELSE poolMeta[@.pool]]]
    /\ UNCHANGED pools

\* PoolMeta.Lookup(metaKey, &currentCount); slot := currentCount
SetLookupCount(t) ==
    /\ op[t].at = "set.lookup"
    /\ op' = [op EXCEPT ![t] = [at |-> "set.update", pool |-> @.pool, ip |-> @.ip,
                                load |-> @.load, slot |-> poolMeta[@.pool]]]
    /\ UNCHANGED pools

\* Mutant of SetPoolFull: the error of poolMap.Update is ignored
SetPoolFullIgnored(t) ==
    /\ op[t].at = "set.update"
    /\ op[t].slot \notin Slots
    /\ op' = [op EXCEPT ![t] = [at |-> "set.count", pool |-> @.pool, ip |-> @.ip, slot |-> @.slot]]
    /\ UNCHANGED pools

\* poolMap.Update(slot, entry) beyond max_entries fails, and SetBackend returns the error
SetPoolFull(t) ==
    /\ op[t].at = "set.update"
    /\ op[t].slot \notin Slots
    /\ op' = [op EXCEPT ![t] = Idle]
    /\ UNCHANGED pools

SetUpdateEntry(t) ==
    /\ op[t].at = "set.update"
    /\ op[t].slot \in Slots
    /\ poolMap' = [poolMap EXCEPT ![op[t].pool][op[t].slot] =
                      [ip |-> op[t].ip, load_score |-> op[t].load]]
    /\ op' = [op EXCEPT ![t] = [at |-> "set.count", pool |-> @.pool, ip |-> @.ip, slot |-> @.slot]]
    /\ UNCHANGED <<poolMeta, slotMap>>

\* PoolMeta.Update(metaKey, currentCount + 1)
SetUpdateCount(t) ==
    /\ op[t].at = "set.count"
    /\ poolMeta' = [poolMeta EXCEPT ![op[t].pool] = op[t].slot + 1]
    /\ op' = [op EXCEPT ![t].at = "set.record"]
    /\ UNCHANGED <<poolMap, slotMap>>

\* Mutant of SetRecordSlot: slotMap is keyed by the IP alone
SetRecordSlotByIP(t) ==
    /\ op[t].at = "set.record"
    /\ slotMap' = [k \in Pools \X IPs |-> IF k[2] = op[t].ip THEN op[t].slot ELSE slotMap[k]]
    /\ op' = [op EXCEPT ![t] = Idle]
    /\ UNCHANGED <<poolMap, poolMeta>>

\* Mutant of SetRecordSlot: it records the count it has published, not the slot
SetRecordSlotCount(t) ==
    /\ op[t].at = "set.record"
    /\ slotMap' = [slotMap EXCEPT ![<<op[t].pool, op[t].ip>>] = op[t].slot + 1]
    /\ op' = [op EXCEPT ![t] = Idle]
    /\ UNCHANGED <<poolMap, poolMeta>>

\* slotMap["pool:ip"] = slot, under slotMu
SetRecordSlot(t) ==
    /\ op[t].at = "set.record"
    /\ slotMap' = [slotMap EXCEPT ![<<op[t].pool, op[t].ip>>] = op[t].slot]
    /\ op' = [op EXCEPT ![t] = Idle]
    /\ UNCHANGED <<poolMap, poolMeta>>

SetBackendStep(t) ==
    \/ SetLookupCount(t)
    \/ SetPoolFull(t)
    \/ SetUpdateEntry(t)
    \/ SetUpdateCount(t)
    \/ SetRecordSlot(t)

-----------------------------------------------------------------------------
(* UpdateBackendLoadScore(pool, ip, loadScore), one action per step.       *)

UpdateBackendLoadScore(t, p, ip, load) ==
    /\ op[t] = Idle
    /\ op' = [op EXCEPT ![t] = [at |-> "score.slot", pool |-> p, ip |-> ip, load |-> load]]
    /\ UNCHANGED pools

\* Mutant of ScoreNoSlot: a missing key reads as Go's zero value, slot 0
ScoreDefaultSlot(t) ==
    /\ op[t].at = "score.slot"
    /\ slotMap[<<op[t].pool, op[t].ip>>] = NoSlot
    /\ op' = [op EXCEPT ![t] = [at |-> "score.lookup", pool |-> @.pool, slot |-> 0,
                                load |-> @.load]]
    /\ UNCHANGED pools

\* slotMap lookup under slotMu; a missing key is an error return
ScoreNoSlot(t) ==
    /\ op[t].at = "score.slot"
    /\ slotMap[<<op[t].pool, op[t].ip>>] = NoSlot
    /\ op' = [op EXCEPT ![t] = Idle]
    /\ UNCHANGED pools

ScoreFindSlot(t) ==
    /\ op[t].at = "score.slot"
    /\ slotMap[<<op[t].pool, op[t].ip>>] # NoSlot
    /\ op' = [op EXCEPT ![t] = [at |-> "score.lookup", pool |-> @.pool,
                                slot |-> slotMap[<<@.pool, @.ip>>], load |-> @.load]]
    /\ UNCHANGED pools

\* poolMap.Lookup(slot, &entry); entry.LoadScore = loadScore
ScoreLookupEntry(t) ==
    /\ op[t].at = "score.lookup"
    /\ op' = [op EXCEPT ![t] =
                 [at |-> "score.update", pool |-> @.pool, slot |-> @.slot,
                  entry |-> [poolMap[@.pool][@.slot] EXCEPT !.load_score = op[t].load]]]
    /\ UNCHANGED pools

ScoreUpdateEntry(t) ==
    /\ op[t].at = "score.update"
    /\ poolMap' = [poolMap EXCEPT ![op[t].pool][op[t].slot] = op[t].entry]
    /\ op' = [op EXCEPT ![t] = Idle]
    /\ UNCHANGED <<poolMeta, slotMap>>

ScoreStep(t) ==
    \/ ScoreNoSlot(t)
    \/ ScoreFindSlot(t)
    \/ ScoreLookupEntry(t)
    \/ ScoreUpdateEntry(t)

-----------------------------------------------------------------------------
Step(t) == SetBackendStep(t) \/ ScoreStep(t)

Call(t) ==
    \E p \in Pools, ip \in IPs, load \in Scores :
        \/ SetBackend(t, p, ip, load)
        \/ UpdateBackendLoadScore(t, p, ip, load)

\* Any number of goroutines call the loader at any moment.
Next == \E t \in Threads : Call(t) \/ Step(t)

Spec == Init /\ [][Next]_vars

(***************************************************************************)
(* Registrations that do not overlap: SetBackend is called for a pool only *)
(* when no other SetBackend on that pool is in progress.  The code does    *)
(* not enforce this; setup_backends.sh spaces its agents 0.2 s apart.      *)
(***************************************************************************)
SetAt == {"set.lookup", "set.update", "set.count", "set.record"}
InSetBackend(t, p) == op[t].at \in SetAt /\ op[t].pool = p
PoolQuiet(p) == \A t \in Threads : ~InSetBackend(t, p)

SpacedCall(t) ==
    \E p \in Pools, ip \in IPs, load \in Scores :
        \/ PoolQuiet(p) /\ SetBackend(t, p, ip, load)
        \/ UpdateBackendLoadScore(t, p, ip, load)

SpacedNext == \E t \in Threads : SpacedCall(t) \/ Step(t)

SpacedSpec == Init /\ [][SpacedNext]_vars

-----------------------------------------------------------------------------
(* Properties under any interleaving of callers (Spec).                    *)

Populated(p, s) == poolMap[p][s].ip # None

(***************************************************************************)
(* Every slot below the active count holds a backend, also while several   *)
(* SetBackend calls overwrite each other's slot and count: xdp_forward     *)
(* picks slots modulo pool_meta and never checks what it finds there.      *)
(* SetBackend must publish the count after the entry.                      *)
(***************************************************************************)
ActiveSlotsPopulated ==
    \A p \in Pools : \A s \in Slots : s < poolMeta[p] => Populated(p, s)

(***************************************************************************)
(* UpdateBackendLoadScore never writes an entry back that names no         *)
(* backend: the slot it finds in slotMap had its entry written before.     *)
(***************************************************************************)
ScoreKeepsABackend ==
    \A t \in Threads : op[t].at = "score.update" => op[t].entry.ip # None

-----------------------------------------------------------------------------
(* Properties when registrations in a pool do not overlap (SpacedSpec).    *)

(***************************************************************************)
(* The slot recorded for a backend is an active one and holds that very    *)
(* backend: a load score goes to the backend it was measured on, and a     *)
(* registered backend can be picked by the data plane.                     *)
(***************************************************************************)
RecordedSlotIsOwn ==
    \A p \in Pools, ip \in IPs :
        LET s == slotMap[<<p, ip>>] IN
        s # NoSlot => s < poolMeta[p] /\ poolMap[p][s].ip = ip

(***************************************************************************)
(* The pool maps behave as an append-only list of members: conntrack       *)
(* entries, which remember a slot, keep naming the same backend.  A member *)
(* appears when SetBackend publishes the count; the other steps of a call  *)
(* change nothing a reader can see.                                        *)
(***************************************************************************)
ActiveMembers == [p \in Pools |-> [i \in 1 .. poolMeta[p] |-> poolMap[p][i - 1]]]

AbstractPool == INSTANCE PoolSpec WITH members <- ActiveMembers

ImplementsPool == AbstractPool!Spec
=============================================================================
