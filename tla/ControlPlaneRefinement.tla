----------------------- MODULE ControlPlaneRefinement -----------------------
(***************************************************************************)
(* Proofs about ControlPlane when one handler serves all requests, so that *)
(* registrations do not overlap.  The hooks then use the loader as its     *)
(* SpacedSpec demands, and what LoaderRefinement proves of SpacedSpec      *)
(* holds in the control plane.                                             *)
(***************************************************************************)
EXTENDS ControlPlaneProofs

OneHandler == \A g, h \in Handlers : g = h

-----------------------------------------------------------------------------
(* The hooks call the loader one SetBackend at a time.                     *)

(* Polls never register a backend, so only the handler is ever in SetBackend. *)
PollsOnlyScore == 
    /\ DOMAIN op = Goroutines
    /\ \A ip \in IPs : op[ip].at \notin L!SetAt

LEMMA InitPollsOnlyScore == Init => PollsOnlyScore
  BY DEF Init, L!Init, PollsOnlyScore, L!Idle, L!SetAt, Goroutines

LEMMA LoaderStepOnlyScores ==
    ASSUME PollsOnlyScore, NEW t \in Goroutines, L!Step(t)
    PROVE  PollsOnlyScore'
  <1>1. CASE L!SetBackendStep(t)
    <2>1. t \notin IPs
      BY <1>1 DEF PollsOnlyScore, L!SetBackendStep, L!SetLookupCount, L!SetPoolFull,
                  L!SetUpdateEntry, L!SetUpdateCount, L!SetRecordSlot, L!SetAt
    <2>2. DOMAIN op' = Goroutines /\ \A ip \in IPs : op'[ip] = op[ip]
      BY <1>1, <2>1 DEF PollsOnlyScore, L!SetBackendStep, L!SetLookupCount, L!SetPoolFull,
                  L!SetUpdateEntry, L!SetUpdateCount, L!SetRecordSlot, Goroutines
    <2> QED
      BY <2>2 DEF PollsOnlyScore
  <1>2. CASE L!ScoreStep(t)
    <2>1. op'[t].at \notin L!SetAt
      BY <1>2 DEF PollsOnlyScore, L!ScoreStep, L!ScoreNoSlot, L!ScoreFindSlot,
                  L!ScoreLookupEntry, L!ScoreUpdateEntry, L!SetAt, L!Idle
    <2>2. DOMAIN op' = Goroutines /\ \A u \in Goroutines \ {t} : op'[u] = op[u]
      BY <1>2 DEF PollsOnlyScore, L!ScoreStep, L!ScoreNoSlot, L!ScoreFindSlot,
                  L!ScoreLookupEntry, L!ScoreUpdateEntry
    <2> QED
      BY <2>1, <2>2 DEF PollsOnlyScore, Goroutines
  <1> QED
    BY <1>1, <1>2 DEF L!Step

LEMMA RegisterCallsSpaced ==
    ASSUME OneHandler, PollInv, PollsOnlyScore, NEW h \in Handlers, RegisterBackendEntry(h)
    PROVE  /\ \E t \in Goroutines : L!SpacedCall(t)
           /\ PollsOnlyScore'
  <1>1. req[h] \in Request
    BY DEF RegisterBackendEntry, PollInv, RegistryTypeOK
  <1>2. req[h].pool \in Pools /\ req[h].ip \in IPs /\ InitialScore \in Scores
    BY <1>1 DEF Request, Scores
  <1>3. L!PoolQuiet(req[h].pool)
    <2>1. op[h].at = "idle"
      BY DEF RegisterBackendEntry, L!SetBackend, L!Idle
    <2> QED
      BY <2>1 DEF L!PoolQuiet, L!InSetBackend, L!SetAt, OneHandler, PollsOnlyScore, Goroutines
  <1>4. h \in Goroutines
    BY DEF Goroutines
  <1>5. L!SetBackend(h, req[h].pool, req[h].ip, InitialScore)
    BY DEF RegisterBackendEntry
  <1>6. L!SpacedCall(h)
    BY <1>2, <1>3, <1>5 DEF L!SpacedCall
  <1>7. h \notin IPs
    BY HandlersAssumption
  <1>8. PollsOnlyScore'
    BY <1>5, <1>7 DEF L!SetBackend, PollsOnlyScore, Goroutines
  <1> QED
    BY <1>4, <1>6, <1>8

LEMMA ScoreHookCallsSpaced ==
    ASSUME PollInv, PollsOnlyScore, NEW ip \in IPs, UpdateLoadScore(ip)
    PROVE  /\ \E t \in Goroutines : L!SpacedCall(t)
           /\ PollsOnlyScore'
  <1>1. backends[ip].pool = "tcp" /\ poll[ip].score \in PollScores
    BY DEF UpdateLoadScore, NotPolled, PollInv, RegistryTypeOK, PolledStaysRegistered,
           RegisteredIn
  <1>2. Registered(ip)
    BY <1>1 DEF Registered, Absent
  <1>3. L!UpdateBackendLoadScore(ip, backends[ip].pool, ip, poll[ip].score)
    BY <1>2 DEF UpdateLoadScore
  <1>4. backends[ip].pool \in Pools /\ poll[ip].score \in Scores /\ ip \in Goroutines
    BY <1>1 DEF Pools, Scores, Goroutines
  <1>5. L!SpacedCall(ip)
    BY <1>3, <1>4 DEF L!SpacedCall
  <1>6. PollsOnlyScore'
    BY <1>3, <1>4 DEF L!UpdateBackendLoadScore, PollsOnlyScore, L!SetAt
  <1> QED
    BY <1>4, <1>5, <1>6

LEMMA NextCallsSpaced ==
    ASSUME OneHandler, PollInv, PollsOnlyScore, [Next]_vars
    PROVE  [L!SpacedNext]_(L!vars) /\ PollsOnlyScore'
  <1>1. CASE UNCHANGED loader
    BY <1>1 DEF loader, L!vars, PollsOnlyScore
  <1>2. ASSUME NEW t \in Goroutines, LoaderStep(t)
        PROVE  [L!SpacedNext]_(L!vars) /\ PollsOnlyScore'
    BY <1>2, LoaderStepOnlyScores DEF LoaderStep, L!SpacedNext
  <1>3. ASSUME NEW h \in Handlers, RegisterBackendEntry(h)
        PROVE  [L!SpacedNext]_(L!vars) /\ PollsOnlyScore'
    BY <1>3, RegisterCallsSpaced DEF L!SpacedNext
  <1>4. ASSUME NEW ip \in IPs, UpdateLoadScore(ip)
        PROVE  [L!SpacedNext]_(L!vars) /\ PollsOnlyScore'
    BY <1>4, ScoreHookCallsSpaced DEF L!SpacedNext
  <1>5. \/ UNCHANGED loader
        \/ \E t \in Goroutines : LoaderStep(t)
        \/ \E h \in Handlers : RegisterBackendEntry(h)
        \/ \E ip \in IPs : UpdateLoadScore(ip)
    BY DEF Next, vars, loader, Environment, AgentStarts, AgentStops, AgentRegisters,
           ServeRequest, RefuseRequest, AlreadyExists, Poller, PollAll, FetchEnds,
           AgentAnswers, PollFails, PollFailsTooOften, RecordSuccess, Pruner,
           RemoveStaleUDPBackend
  <1> QED
    BY <1>1, <1>2, <1>3, <1>4, <1>5

(***************************************************************************)
(* With one handler, however polls, prunings and hooks interleave with it, *)
(* the loader's part of every behaviour is a behaviour of its SpacedSpec.  *)
(***************************************************************************)
THEOREM LoaderIsCalledSpaced == OneHandler => (Spec => CallsLoaderSpaced)
  <1> SUFFICES ASSUME OneHandler PROVE Spec => CallsLoaderSpaced
    OBVIOUS
  <1>1. Init => PollInv /\ PollsOnlyScore /\ L!Init
    BY InitPollInv, InitPollsOnlyScore DEF Init
  <1>2. PollInv /\ PollsOnlyScore /\ [Next]_vars =>
            /\ PollInv' /\ PollsOnlyScore'
            /\ [L!SpacedNext]_(L!vars)
    BY NextPollInv, NextCallsSpaced
  <1> QED
    BY <1>1, <1>2, PTL DEF Spec, CallsLoaderSpaced, L!SpacedSpec

-----------------------------------------------------------------------------
(* What is proved of SpacedSpec holds of the control plane's pools.        *)

R == INSTANCE LoaderRefinement WITH Threads <- Goroutines

(* R's loader is L's, with the proofs about it. *)
LEMMA SameLoader ==
    /\ L!Init <=> R!Init
    /\ L!SpacedNext <=> R!SpacedNext
    /\ L!vars = R!vars
  <1>1. L!Init <=> R!Init
    BY DEF L!Init, R!Init, L!ZeroEntry, R!ZeroEntry, L!Slots, R!Slots, L!NoSlot, R!NoSlot,
           L!Idle, R!Idle
  <1>2. L!vars = R!vars
    BY DEF L!vars, R!vars
  <1> USE DEF L!Idle, R!Idle, L!pools, R!pools, L!Slots, R!Slots, L!NoSlot, R!NoSlot
  <1>3. \A t \in Goroutines : L!SetBackendStep(t) <=> R!SetBackendStep(t)
    BY DEF L!SetBackendStep, R!SetBackendStep, L!SetLookupCount, R!SetLookupCount,
           L!SetPoolFull, R!SetPoolFull, L!SetUpdateEntry, R!SetUpdateEntry,
           L!SetUpdateCount, R!SetUpdateCount, L!SetRecordSlot, R!SetRecordSlot
  <1>4. \A t \in Goroutines : L!ScoreStep(t) <=> R!ScoreStep(t)
    BY DEF L!ScoreStep, R!ScoreStep, L!ScoreNoSlot, R!ScoreNoSlot, L!ScoreFindSlot,
           R!ScoreFindSlot, L!ScoreLookupEntry, R!ScoreLookupEntry, L!ScoreUpdateEntry,
           R!ScoreUpdateEntry
  <1>5. \A t \in Goroutines : L!SpacedCall(t) <=> R!SpacedCall(t)
    BY DEF L!SpacedCall, R!SpacedCall, L!PoolQuiet, R!PoolQuiet, L!InSetBackend,
           R!InSetBackend, L!SetAt, R!SetAt, L!SetBackend, R!SetBackend,
           L!UpdateBackendLoadScore, R!UpdateBackendLoadScore
  <1>6. L!SpacedNext <=> R!SpacedNext
    BY <1>3, <1>4, <1>5 DEF L!SpacedNext, R!SpacedNext, L!Step, R!Step
  <1> QED
    BY <1>1, <1>2, <1>6

(***************************************************************************)
(* With one handler a registered backend has an active slot, or the pool   *)
(* is full, or the SetBackend its registration called is on its way.       *)
(***************************************************************************)
BeingSet(p, ip) == \E t \in Goroutines : L!InSetBackend(t, p) /\ op[t].ip = ip

Placed(p, ip) == Active(p, ip) \/ poolMeta[p] = Capacity \/ BeingSet(p, ip)

PlacedInv ==
    /\ PollInv
    /\ PollsOnlyScore
    /\ R!SpacedInv
    /\ \A p \in Pools, ip \in IPs : RegisteredIn(p, ip) => Placed(p, ip)

LEMMA InitPlaced == Init => PlacedInv
  <1> SUFFICES ASSUME Init PROVE PlacedInv
    OBVIOUS
  <1>1. R!SpacedInv
    <2>1. R!Init
      BY SameLoader DEF Init
    <2> QED
      BY <2>1, R!InitSpaced, CapacityAssumption, NoneAssumption
  <1>2. \A p \in Pools, ip \in IPs : ~RegisteredIn(p, ip)
    BY DEF Init, RegisteredIn, Absent, Pools
  <1> QED
    BY <1>1, <1>2, InitPollInv, InitPollsOnlyScore DEF PlacedInv

LEMMA SpacedStep ==
    ASSUME OneHandler, PlacedInv, [Next]_vars
    PROVE  /\ PollInv' /\ PollsOnlyScore'
           /\ R!SpacedInv'
           /\ R!TypeOK /\ R!TypeOK'
           /\ R!AddressesStay
  <1>1. PollInv' /\ PollsOnlyScore' /\ [L!SpacedNext]_(L!vars)
    BY NextPollInv, NextCallsSpaced DEF PlacedInv
  <1>2. [R!SpacedNext]_(R!vars)
    BY <1>1, SameLoader DEF L!vars, R!vars
  <1>3. R!SpacedInv'
    BY <1>2, R!NextSpaced, CapacityAssumption, NoneAssumption DEF PlacedInv
  <1>4. R!AddressesStay
    BY <1>2, R!AddressesDoStay, CapacityAssumption, NoneAssumption DEF PlacedInv
  <1>5. R!TypeOK /\ R!TypeOK'
    BY <1>3 DEF PlacedInv, R!SpacedInv
  <1> QED
    BY <1>1, <1>3, <1>4, <1>5

(* A slot stays active and keeps its address; a full pool stays full. *)
LEMMA ActiveStays ==
    ASSUME R!TypeOK, R!TypeOK', R!AddressesStay, NEW p \in Pools, NEW ip \in IPs
    PROVE  /\ Active(p, ip) => Active(p, ip)'
           /\ poolMeta[p] = Capacity => poolMeta'[p] = Capacity
  <1>1. /\ poolMeta[p] \in 0 .. Capacity
        /\ poolMeta'[p] \in 0 .. Capacity
        /\ poolMeta[p] <= poolMeta'[p]
    BY DEF R!TypeOK, R!AddressesStay
  <1>2. \A s \in L!Slots : s < poolMeta[p] =>
            s < poolMeta'[p] /\ poolMap'[p][s].ip = poolMap[p][s].ip
    BY <1>1, CapacityAssumption DEF R!AddressesStay, R!Slots, L!Slots
  <1> QED
    BY <1>1, <1>2, CapacityAssumption DEF Active

(* A step of the SetBackend of a backend goes on with it or leaves it placed. *)
LEMMA SetBackendPlaces ==
    ASSUME R!SpacedInv, NEW t \in Goroutines, L!Step(t), NEW p \in Pools, NEW ip \in IPs,
           L!InSetBackend(t, p), op[t].ip = ip
    PROVE  Placed(p, ip)'
  <1> USE DEF L!Idle, L!pools
  <1>1. op[t].at \in L!SetAt /\ op[t].pool = p
    BY DEF L!InSetBackend
  <1>2. DOMAIN op = Goroutines
    BY DEF R!SpacedInv, R!TypeOK
  <1>3. ASSUME L!InSetBackend(t, p)', op'[t].ip = ip PROVE Placed(p, ip)'
    BY <1>3 DEF Placed, BeingSet
  <1>4. R!OwnsFirstInactiveSlot(t)
    BY DEF R!SpacedInv
  <1>5. /\ op[t].at = "set.update" => op[t] \in R!SetUpdate
        /\ op[t].at \in {"set.count", "set.record"} => op[t] \in R!SetCounted
    BY R!OpRecord, CapacityAssumption, NoneAssumption DEF R!SpacedInv
  <1>6. CASE L!SetLookupCount(t)
    BY <1>1, <1>2, <1>3, <1>6 DEF L!SetLookupCount, L!InSetBackend, L!SetAt
  <1>7. CASE L!SetPoolFull(t)
    <2>1. op[t].slot \in 0 .. Capacity /\ op[t].slot \notin 0 .. Capacity - 1
      BY <1>5, <1>7 DEF L!SetPoolFull, L!Slots, R!SetUpdate
    <2>2. op[t].slot = Capacity
      BY <2>1, CapacityAssumption
    <2>3. poolMeta'[p] = Capacity
      BY <1>1, <1>4, <1>7, <2>2 DEF L!SetPoolFull, R!OwnsFirstInactiveSlot
    <2> QED
      BY <2>3 DEF Placed
  <1>8. CASE L!SetUpdateEntry(t)
    BY <1>1, <1>2, <1>3, <1>8 DEF L!SetUpdateEntry, L!InSetBackend, L!SetAt
  <1>9. CASE L!SetUpdateCount(t)
    <2>1. op[t] \in R!SetCounted
      BY <1>5, <1>9 DEF L!SetUpdateCount
    <2>2. op'[t].at = "set.record" /\ op'[t].pool = p /\ op'[t].ip = ip
      BY <1>1, <1>2, <1>9, <2>1 DEF L!SetUpdateCount, R!SetCounted
    <2> QED
      BY <1>3, <2>2 DEF L!InSetBackend, L!SetAt
  <1>10. CASE L!SetRecordSlot(t)
    <2>1. op[t].slot \in L!Slots
      BY <1>5, <1>10 DEF L!SetRecordSlot, R!SetCounted, R!Slots, L!Slots
    <2>2. op[t].slot < poolMeta[p] /\ poolMap[p][op[t].slot].ip = ip
      BY <1>1, <1>4, <1>10 DEF L!SetRecordSlot, R!OwnsFirstInactiveSlot
    <2>3. Active(p, ip)'
      BY <1>10, <2>1, <2>2 DEF L!SetRecordSlot, Active, L!Slots
    <2> QED
      BY <2>3 DEF Placed
  <1>11. ~L!ScoreStep(t)
    BY <1>1 DEF L!ScoreStep, L!ScoreNoSlot, L!ScoreFindSlot, L!ScoreLookupEntry,
                L!ScoreUpdateEntry, L!SetAt
  <1> QED
    BY <1>6, <1>7, <1>8, <1>9, <1>10, <1>11 DEF L!Step, L!SetBackendStep

LEMMA OthersStay ==
    ASSUME NEW t \in Goroutines, L!Step(t), DOMAIN op = Goroutines
    PROVE  \A u \in Goroutines \ {t} : op'[u] = op[u]
  BY DEF L!Step, L!SetBackendStep, L!SetLookupCount, L!SetPoolFull, L!SetUpdateEntry,
         L!SetUpdateCount, L!SetRecordSlot, L!ScoreStep, L!ScoreNoSlot, L!ScoreFindSlot,
         L!ScoreLookupEntry, L!ScoreUpdateEntry

LEMMA NextPlaced == OneHandler /\ PlacedInv /\ [Next]_vars => PlacedInv'
  <1> SUFFICES ASSUME OneHandler, PlacedInv, [Next]_vars,
                      NEW p \in Pools, NEW ip \in IPs, RegisteredIn(p, ip)'
               PROVE  Placed(p, ip)'
    BY SpacedStep DEF PlacedInv
  <1>1. /\ Active(p, ip) => Active(p, ip)'
        /\ poolMeta[p] = Capacity => poolMeta'[p] = Capacity
    BY SpacedStep, ActiveStays
  <1>2. DOMAIN op = Goroutines
    BY DEF PlacedInv, PollsOnlyScore
  <1>3. RegisteredIn(p, ip) => Placed(p, ip)
    BY DEF PlacedInv
  <1>4. ASSUME RegisteredIn(p, ip),
               \A t \in Goroutines : L!InSetBackend(t, p) => op'[t] = op[t]
        PROVE  Placed(p, ip)'
    BY <1>1, <1>3, <1>4 DEF Placed, BeingSet, L!InSetBackend
  <1>5. ASSUME NEW t \in Goroutines, LoaderStep(t) PROVE Placed(p, ip)'
    <2>1. RegisteredIn(p, ip) /\ L!Step(t)
      BY <1>5 DEF LoaderStep, registry, RegisteredIn
    <2>2. CASE L!InSetBackend(t, p) /\ op[t].ip = ip
      BY <2>1, <2>2, SetBackendPlaces DEF PlacedInv
    <2>3. CASE ~(L!InSetBackend(t, p) /\ op[t].ip = ip)
      <3>1. \A u \in Goroutines \ {t} : op'[u] = op[u]
        BY <1>2, <2>1, OthersStay
      <3>2. BeingSet(p, ip) => BeingSet(p, ip)'
        BY <2>3, <3>1 DEF BeingSet, L!InSetBackend
      <3> QED
        BY <1>1, <1>3, <2>1, <3>2 DEF Placed
    <2> QED
      BY <2>2, <2>3
  <1>6. ASSUME NEW h \in Handlers, RegisterBackendEntry(h) PROVE Placed(p, ip)'
    <2>1. L!SetBackend(h, req[h].pool, req[h].ip, InitialScore) /\ h \in Goroutines
      BY <1>6 DEF RegisterBackendEntry, Goroutines
    <2>2. CASE RegisteredIn(p, ip)
      BY <1>2, <1>4, <2>1, <2>2 DEF L!SetBackend, L!InSetBackend, L!SetAt, L!Idle
    <2>3. CASE ~RegisteredIn(p, ip)
      <3>1. ip = req[h].ip /\ p = req[h].pool
        BY <1>6, <2>3 DEF RegisterBackendEntry, RegisteredIn, PlacedInv, PollInv,
                          RegistryTypeOK
      <3>2. L!InSetBackend(h, p)' /\ op'[h].ip = ip
        BY <1>2, <2>1, <3>1 DEF L!SetBackend, L!InSetBackend, L!SetAt
      <3> QED
        BY <2>1, <3>2 DEF Placed, BeingSet
    <2> QED
      BY <2>2, <2>3
  <1>7. ASSUME NEW i \in IPs, UpdateLoadScore(i) PROVE Placed(p, ip)'
    <2>2. RegisteredIn(p, ip)
      <3>1. Registered(i) => backends[i] \in BackendEntry
        BY DEF Registered, PlacedInv, PollInv, RegistryTypeOK
      <3>2. Registered(i) => [backends[i] EXCEPT !.load_score = poll[i].score].pool
                                 = backends[i].pool
        BY <3>1 DEF BackendEntry
      <3> QED
        BY <1>7, <3>2 DEF UpdateLoadScore, RegisteredIn, PlacedInv, PollInv, RegistryTypeOK
    <2>3. op' = op \/ (op[i] = L!Idle /\ \A u \in Goroutines \ {i} : op'[u] = op[u])
      BY <1>2, <1>7 DEF UpdateLoadScore, loader, L!UpdateBackendLoadScore
    <2>4. \A t \in Goroutines : L!InSetBackend(t, p) => op'[t] = op[t]
      BY <2>3 DEF L!InSetBackend, L!SetAt, L!Idle
    <2> QED
      BY <1>4, <2>2, <2>4
  <1>8. ASSUME UNCHANGED loader, RegisteredIn(p, ip) PROVE Placed(p, ip)'
    BY <1>4, <1>8 DEF loader
  <1>9. \/ UNCHANGED loader /\ RegisteredIn(p, ip)
        \/ \E t \in Goroutines : LoaderStep(t)
        \/ \E h \in Handlers : RegisterBackendEntry(h)
        \/ \E i \in IPs : UpdateLoadScore(i)
    <2>1. CASE UNCHANGED <<backends, loader>>
      BY <2>1 DEF RegisteredIn
    <2>2. ASSUME NEW i \in IPs, PollFailsTooOften(i)
          PROVE  UNCHANGED loader /\ RegisteredIn(p, ip)
      BY <2>2 DEF PollFailsTooOften, RegisteredIn, Absent, Pools, PlacedInv, PollInv,
                  RegistryTypeOK
    <2>3. ASSUME NEW stale \in SUBSET IPs, RemoveStaleUDPBackend(stale)
          PROVE  UNCHANGED loader /\ RegisteredIn(p, ip)
      BY <2>3 DEF RemoveStaleUDPBackend, RegisteredIn, Absent, Pools
    <2> QED
      BY <2>1, <2>2, <2>3
      DEF Next, vars, loader, registry, Environment, AgentStarts, AgentStops, AgentRegisters,
          ServeRequest, RefuseRequest, AlreadyExists, Poller, PollAll, FetchEnds,
          AgentAnswers, PollFails, RecordSuccess, Pruner
  <1> QED
    BY <1>5, <1>6, <1>7, <1>8, <1>9

(***************************************************************************)
(* With one handler, whatever polls, prunings and re-registrations do, a   *)
(* registered backend has an active slot of its pool once SetBackend has   *)
(* returned, unless the pool is full.                                      *)
(***************************************************************************)
THEOREM RegisteredBackendsAreActive == OneHandler => (Spec => []RegisteredBackendIsActive)
  <1> SUFFICES ASSUME OneHandler PROVE Spec => []RegisteredBackendIsActive
    OBVIOUS
  <1>1. PlacedInv /\ [Next]_vars => PlacedInv'
    BY NextPlaced
  <1>2. PlacedInv => RegisteredBackendIsActive
    BY DEF PlacedInv, Placed, BeingSet, Setting, RegisteredBackendIsActive
  <1> QED
    BY InitPlaced, <1>1, <1>2, PTL DEF Spec

LEMMA ScoreKeepsAddresses ==
    ASSUME R!SpacedInv, NEW t \in Goroutines, L!ScoreUpdateEntry(t)
    PROVE  \A p \in Pools, s \in L!Slots : poolMap'[p][s].ip = poolMap[p][s].ip
  <1>1. op[t].at = "score.update"
    BY DEF L!ScoreUpdateEntry
  <1>2. R!HoldsActiveSlot(t)
    BY DEF R!SpacedInv
  <1>3. op[t].entry.ip = poolMap[op[t].pool][op[t].slot].ip
    BY <1>1, <1>2 DEF R!HoldsActiveSlot
  <1>4. poolMap \in [Pools -> [L!Slots -> R!Entry]]
    BY DEF R!SpacedInv, R!TypeOK, R!Slots, L!Slots
  <1> QED
    BY <1>3, <1>4 DEF L!ScoreUpdateEntry

(***************************************************************************)
(* With one handler a score update that runs during SetBackend changes the *)
(* score field only, as the comment in loader.go says.  (With two it does  *)
(* not: run score_race.)                                                   *)
(***************************************************************************)
THEOREM ScoreUpdatesChangeScores == OneHandler => (Spec => ScoreUpdateChangesScoreOnly)
  <1> SUFFICES ASSUME OneHandler PROVE Spec => ScoreUpdateChangesScoreOnly
    OBVIOUS
  <1>1. PlacedInv /\ [Next]_vars => PlacedInv'
    BY NextPlaced
  <1>2. PlacedInv /\ [Next]_vars =>
            [\A t \in Goroutines :
                L!ScoreUpdateEntry(t) =>
                    \A p \in Pools, s \in L!Slots : poolMap'[p][s].ip = poolMap[p][s].ip]_vars
    BY ScoreKeepsAddresses DEF PlacedInv
  <1> QED
    BY InitPlaced, <1>1, <1>2, PTL DEF Spec, ScoreUpdateChangesScoreOnly

-----------------------------------------------------------------------------
(* A score is written to the backend it was measured on.                   *)

(***************************************************************************)
(* The poll of ip calls UpdateBackendLoadScore for ip in the TCP pool; the *)
(* slot it finds there is ip's, and stays so, since active slots keep      *)
(* their addresses.                                                        *)
(***************************************************************************)
ScoresOwn(ip) ==
    /\ op[ip].at = "score.slot" => op[ip].pool = "tcp" /\ op[ip].ip = ip
    /\ op[ip].at \in {"score.lookup", "score.update"} =>
           op[ip].pool = "tcp" /\ poolMap["tcp"][op[ip].slot].ip = ip

(* What a poll holds of a slot is not disturbed by the steps of others. *)
LEMMA ScoresOwnStays ==
    ASSUME OneHandler, PlacedInv, [Next]_vars, NEW ip \in IPs, ScoresOwn(ip), op'[ip] = op[ip]
    PROVE  ScoresOwn(ip)'
  <1>1. CASE op[ip].at \in {"score.lookup", "score.update"}
    <2>1. op[ip].pool = "tcp" /\ poolMap["tcp"][op[ip].slot].ip = ip /\ "tcp" \in Pools
      BY <1>1 DEF ScoresOwn, Pools
    <2>2. op[ip].slot < poolMeta["tcp"]
      BY <1>1, <2>1 DEF PlacedInv, R!SpacedInv, R!HoldsActiveSlot, Goroutines
    <2>3. op[ip].slot \in L!Slots
      <3>1. op[ip] \in R!ScoreRead \cup R!ScoreWrite
        BY <1>1 DEF PlacedInv, R!SpacedInv, R!TypeOK, Goroutines, R!Idle, R!SetCall,
                    R!SetUpdate, R!SetCounted, R!ScoreCall, R!ScoreRead, R!ScoreWrite
      <3> QED
        BY <3>1 DEF R!ScoreRead, R!ScoreWrite, R!Slots, L!Slots
    <2>4. poolMap'["tcp"][op[ip].slot].ip = poolMap["tcp"][op[ip].slot].ip
      BY <2>1, <2>2, <2>3, SpacedStep DEF R!AddressesStay, R!Slots, L!Slots
    <2> QED
      BY <1>1, <2>1, <2>4 DEF ScoresOwn
  <1>2. CASE op[ip].at \notin {"score.lookup", "score.update"}
    BY <1>2 DEF ScoresOwn
  <1> QED
    BY <1>1, <1>2

(* The steps of the poll's own call keep to the slot of its backend. *)
LEMMA ScoreStepsOwn ==
    ASSUME PlacedInv, NEW ip \in IPs, ScoresOwn(ip), L!Step(ip)
    PROVE  ScoresOwn(ip)'
  <1>1. ip \in Goroutines /\ DOMAIN op = Goroutines /\ op[ip].at \notin L!SetAt
    BY DEF PlacedInv, PollsOnlyScore, Goroutines
  <1>2. L!ScoreStep(ip)
    BY <1>1 DEF L!Step, L!SetBackendStep, L!SetLookupCount, L!SetPoolFull, L!SetUpdateEntry,
                L!SetUpdateCount, L!SetRecordSlot, L!SetAt
  <1>3. CASE L!ScoreNoSlot(ip) \/ L!ScoreUpdateEntry(ip)
    BY <1>1, <1>3 DEF L!ScoreNoSlot, L!ScoreUpdateEntry, L!Idle, ScoresOwn
  <1>4. CASE L!ScoreFindSlot(ip)
    <2>1. op[ip].pool = "tcp" /\ op[ip].ip = ip /\ slotMap[<<"tcp", ip>>] # R!NoSlot
      BY <1>4 DEF L!ScoreFindSlot, ScoresOwn, L!NoSlot, R!NoSlot
    <2>2. poolMap["tcp"][slotMap[<<"tcp", ip>>]].ip = ip
      BY <2>1 DEF PlacedInv, R!SpacedInv, R!RecordedSlotIsOwn, Pools
    <2> QED
      BY <1>1, <1>4, <2>1, <2>2 DEF L!ScoreFindSlot, L!pools, ScoresOwn
  <1>5. CASE L!ScoreLookupEntry(ip)
    BY <1>1, <1>5 DEF L!ScoreLookupEntry, L!pools, ScoresOwn
  <1> QED
    BY <1>2, <1>3, <1>4, <1>5 DEF L!ScoreStep

(* Every step keeps every poll to the slot of its backend. *)
LEMMA NextScoresOwn ==
    ASSUME OneHandler, PlacedInv, [Next]_vars, NEW ip \in IPs, ScoresOwn(ip)
    PROVE  ScoresOwn(ip)'
  <1>1. DOMAIN op = Goroutines /\ ip \in Goroutines
    BY DEF PlacedInv, PollsOnlyScore, Goroutines
  <1>2. CASE op'[ip] = op[ip]
    BY <1>2, ScoresOwnStays
  <1>3. ASSUME NEW t \in Goroutines, LoaderStep(t) PROVE ScoresOwn(ip)'
    <2>1. CASE t = ip
      BY <1>3, <2>1, ScoreStepsOwn DEF LoaderStep
    <2>2. CASE t # ip
      BY <1>1, <1>2, <1>3, <2>2, OthersStay DEF LoaderStep
    <2> QED
      BY <2>1, <2>2
  <1>4. ASSUME NEW h \in Handlers, RegisterBackendEntry(h) PROVE ScoresOwn(ip)'
    <2>1. h # ip
      BY HandlersAssumption
    <2> QED
      BY <1>1, <1>2, <1>4, <2>1 DEF RegisterBackendEntry, L!SetBackend
  <1>5. ASSUME NEW i \in IPs, UpdateLoadScore(i) PROVE ScoresOwn(ip)'
    <2>1. CASE i = ip
      <3>1. backends[ip].pool = "tcp"
        BY <1>5, <2>1 DEF UpdateLoadScore, NotPolled, PlacedInv, PollInv,
                          PolledStaysRegistered, RegisteredIn
      <3>2. L!UpdateBackendLoadScore(ip, "tcp", ip, poll[ip].score)
        BY <1>5, <2>1, <3>1 DEF UpdateLoadScore, Registered, Absent
      <3> QED
        BY <1>1, <3>2 DEF L!UpdateBackendLoadScore, ScoresOwn
    <2>2. CASE i # ip
      BY <1>1, <1>2, <1>5, <2>2 DEF UpdateLoadScore, L!UpdateBackendLoadScore, loader
    <2> QED
      BY <2>1, <2>2
  <1>6. \/ UNCHANGED loader
        \/ \E t \in Goroutines : LoaderStep(t)
        \/ \E h \in Handlers : RegisterBackendEntry(h)
        \/ \E i \in IPs : UpdateLoadScore(i)
    BY DEF Next, vars, loader, Environment, AgentStarts, AgentStops, AgentRegisters,
           ServeRequest, RefuseRequest, AlreadyExists, Poller, PollAll, FetchEnds,
           AgentAnswers, PollFails, PollFailsTooOften, RecordSuccess, Pruner,
           RemoveStaleUDPBackend
  <1> QED
    BY <1>2, <1>3, <1>4, <1>5, <1>6 DEF loader

(***************************************************************************)
(* With one handler, a score goes to the TCP entry of the backend it was   *)
(* measured on, also when that backend has been in the other pool, or in   *)
(* other slots, before.                                                    *)
(***************************************************************************)
THEOREM ScoresGoToTheirBackends == OneHandler => (Spec => []ScoreGoesToItsBackend)
  <1> SUFFICES ASSUME OneHandler PROVE Spec => []ScoreGoesToItsBackend
    OBVIOUS
  <1> DEFINE ScoreInv == PlacedInv /\ \A ip \in IPs : ScoresOwn(ip)
  <1>1. Init => ScoreInv
    BY InitPlaced DEF Init, L!Init, L!Idle, ScoresOwn, Goroutines
  <1>2. ScoreInv /\ [Next]_vars => ScoreInv'
    BY NextPlaced, NextScoresOwn
  <1>3. ScoreInv => ScoreGoesToItsBackend
    BY DEF ScoresOwn, ScoreGoesToItsBackend
  <1> QED
    BY <1>1, <1>2, <1>3, PTL DEF Spec

-----------------------------------------------------------------------------
(***************************************************************************)
(* With one handler the BPF pools the control plane fills are an append-   *)
(* only list of members, as the data plane takes for granted.              *)
(***************************************************************************)
THEOREM PoolsAreAppendOnly == OneHandler => (Spec => R!ImplementsPool)
  <1> SUFFICES ASSUME OneHandler PROVE Spec => R!ImplementsPool
    OBVIOUS
  <1>1. Spec => L!SpacedSpec
    BY LoaderIsCalledSpaced DEF CallsLoaderSpaced
  <1>2. L!SpacedSpec => R!SpacedSpec
    <2>1. [L!SpacedNext]_(L!vars) => [R!SpacedNext]_(R!vars)
      BY SameLoader DEF L!vars, R!vars
    <2> QED
      BY <2>1, SameLoader, PTL DEF L!SpacedSpec, R!SpacedSpec
  <1>3. R!SpacedSpec => R!ImplementsPool
    BY R!PoolMapsImplementPool, CapacityAssumption, NoneAssumption
  <1> QED
    BY <1>1, <1>2, <1>3
=============================================================================
